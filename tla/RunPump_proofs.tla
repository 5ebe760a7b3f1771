--------------------------- MODULE RunPump_proofs ----------------------------
(***************************************************************************)
(* What a client gets of a run, for any queue bound, any number of         *)
(* messages, calls and deltas, and any losses: its chunks are well-formed, *)
(* and a finished run that lost nothing leaves no part open.               *)
(*                                                                         *)
(* The argument follows the events through the queue.  Ordered: each       *)
(* consumer's events are in the queue in the order of their numbers, and   *)
(* what will be put comes after them.  Placed: the translator and the      *)
(* client agree on the parts, and what would misfit is past, neither in    *)
(* the queue nor to come.  Started and Owed: unless an event was lost, a   *)
(* tool's start is ahead of its end, and every part that is open, or that  *)
(* an event in the queue will open, is owed its end.                       *)
(***************************************************************************)
EXTENDS RunPump, SequenceTheorems, TLAPS

\* What is put into the queue, and the parts of a client's message.
Thoughts == {"reasoning_start", "reasoning_delta", "reasoning_end"}
Texts    == {"message_delta", "message"}
Names    == Texts \cup Thoughts \cup {"tool_start", "tool_delta", "tool_end", "subagent",
                                      "subagent_delta", "error", "none"}
PumpEvent  == [name : Names, id : Nat]
Parts      == [kind : {"text", "reasoning", "tool"}, id : Nat]
Translator == [text : SUBSET Nat, reasoning : SUBSET Nat, error : BOOLEAN,
               interrupt : BOOLEAN, over : BOOLEAN]
ToolEnd    == <<"tool", "end">>
Viewer     == [open : SUBSET Parts, shut : SUBSET Parts, end : {"none", "finish", "error"},
               misfits : SUBSET {ToolEnd}]

PumpTypes ==
  /\ queue \in Seq(PumpEvent)
  /\ text \in {"on", "over"} /\ reasoning \in {"idle", "first", "on", "failed", "over"}
  /\ messages \in {"next", "gather", "put", "over"}
  /\ side \in [Side -> {"next", "on", "over"}]
  /\ msg \in Nat /\ calls \in [Side -> Nat]
  /\ producer \in {"running", "drained", "killed"}
  /\ pump \in {"running", "sentinel", "cancelled", "over"}
  /\ stop \in BOOLEAN /\ lost \in BOOLEAN /\ mute \subseteq Nat
  /\ sdk \in Translator /\ view \in Viewer

\* How far the consumers, the loop and the client can be apart.
Phases ==
  /\ text = "on" \/ reasoning # "over" => messages = "gather"
  /\ producer = "drained" => AllOver
  /\ pump = "running" => producer # "killed"
  /\ pump # "running" => queue = <<>> /\ producer # "running"
  /\ pump = "sentinel" => producer = "drained"
  /\ pump = "cancelled" => stop
  /\ sdk.over <=> view.end # "none"

\* The numbers from which the consumers go on.
NextText    == IF messages \in {"gather", "put"} THEN msg ELSE msg + 1
NextThought == IF reasoning = "over" THEN msg + 1 ELSE msg
NextStart   == IF side["tool"] = "on" THEN calls["tool"] + 1 ELSE calls["tool"]
NextEnd     == calls["tool"]

\* In the queue, f may come after e; and e comes before whatever is put next.
Follows(e, f) ==
  /\ e.name # "none"
  /\ (e.name = "message" /\ f.name \in Texts \cup Thoughts) => e.id < f.id
  /\ (e.name = "reasoning_end" /\ f.name \in Thoughts) => e.id < f.id
  /\ (e.name = "tool_start" /\ f.name = "tool_start") => e.id < f.id
  /\ (e.name = "tool_end" /\ f.name = "tool_end") => e.id < f.id
Before(e) ==
  /\ e.name = "none" => producer # "running"
  /\ e.name = "message" => e.id < NextText
  /\ e.name = "reasoning_end" => e.id < NextThought
  /\ e.name = "tool_start" => e.id < NextStart
  /\ e.name = "tool_end" => e.id < NextEnd
Ordered ==
  /\ \A i, j \in 1 .. Len(queue) : i < j => Follows(queue[i], queue[j])
  /\ \A i \in 1 .. Len(queue) : Before(queue[i])

\* Nothing of these names with this number is to come from the queue q or, from next
\* on, from a consumer.
Past(q, id, names, next) ==
  id < next /\ \A i \in 1 .. Len(q) : q[i].name \in names => id < q[i].id

\* What the translator and the client have of each part, and what can still come.
PlacedAt(id) ==
  /\ id \in sdk.text <=> Part("text", id) \in view.open \cup view.shut
  /\ Part("text", id) \in view.shut => Past(queue, id, Texts, NextText)
  /\ Part("reasoning", id) \in view.open => id \in sdk.reasoning
  /\ Part("reasoning", id) \in view.shut => Past(queue, id, Thoughts, NextThought)
  /\ id \in sdk.reasoning =>
       \/ Part("reasoning", id) \in view.open
       \/ Past(queue, id, Thoughts, NextThought) /\ Past(queue, id, {"message"}, NextText)
  /\ Part("tool", id) \in view.open \cup view.shut => Past(queue, id, {"tool_start"}, NextStart)
Placed == \A id \in Nat : PlacedAt(id)

\* e is among the first n of q; e is in q after the first i.
Sooner(q, e, n) == \E j \in 1 .. Len(q) : j <= n /\ q[j] = e
Later(q, e, i)  == \E j \in 1 .. Len(q) : i < j /\ q[j] = e

\* Unless an event was lost, a tool's end comes after its start.
Started ==
  ~lost /\ ~sdk.over =>
    /\ \A k \in 1 .. Len(queue) : queue[k].name = "tool_end" =>
         \/ Part("tool", queue[k].id) \in view.open
         \/ Sooner(queue, Ev("tool_start", queue[k].id), k - 1)
    /\ (producer = "running" /\ side["tool"] = "on") =>
         \/ Part("tool", calls["tool"]) \in view.open
         \/ Sooner(queue, Ev("tool_start", calls["tool"]), Len(queue))

\* What ends a part is in the queue, or a consumer is about to put it.
TextOwed(id)    == id \in mute \/ (id = msg /\ messages \in {"gather", "put"})
ThoughtOwed(id) == id = msg /\ reasoning \in {"first", "on", "failed"}
ToolOwed(id)    == id = calls["tool"] /\ side["tool"] = "on"
TextDue(id, i)    == TextOwed(id) \/ Later(queue, Ev("message", id), i)
ThoughtDue(id, i) == ThoughtOwed(id) \/ Later(queue, Ev("reasoning_end", id), i)
ToolDue(id, i)    == ToolOwed(id) \/ Later(queue, Ev("tool_end", id), i)
Clean == ~lost /\ ~stop /\ ~sdk.over /\ pump \in {"running", "sentinel"}
Owed == Clean =>
  /\ \A id \in Nat :
       /\ Part("text", id) \in view.open => TextDue(id, 0)
       /\ Part("reasoning", id) \in view.open => ThoughtDue(id, 0)
       /\ Part("tool", id) \in view.open => ToolDue(id, 0)
  /\ \A i \in 1 .. Len(queue) :
       /\ queue[i].name = "message_delta" => TextDue(queue[i].id, i)
       /\ queue[i].name \in {"reasoning_start", "reasoning_delta"} => ThoughtDue(queue[i].id, i)
       /\ queue[i].name = "tool_start" => ToolDue(queue[i].id, i)

PumpInv == /\ PumpTypes /\ Phases /\ Ordered /\ Placed /\ Started /\ Owed
           /\ PartsAreWellFormed /\ FinishLeavesNothingOpen

-----------------------------------------------------------------------------
(* The translator's fold over the one or two chunks of an event. *)

LEMMA FoldNone ==
  ASSUME NEW c
  PROVE  FoldLeft(Accept, c, <<>>) = c
PROOF
  <1> DEFINE s0 == <<>>
             G(g) == [s \in SUBSET (DOMAIN s0) |->
                        IF s = {} THEN c ELSE Accept(g[s \ {Max(s)}], s0[Max(s)])]
             w == [s \in SUBSET (DOMAIN s0) |-> c]
             it == CHOOSE g : g = G(g)
  <1>1. FoldLeft(Accept, c, s0) = it[DOMAIN s0]
    BY DEF FoldLeft, MapThenFoldSet
  <1>2. DOMAIN s0 = {}
    OBVIOUS
  <1>3. w = G(w)
    BY <1>2
  <1>4. it = G(it)
    BY <1>3
  <1>5. it[{}] = c
    BY <1>4, <1>2
  <1> QED BY <1>1, <1>2, <1>5

LEMMA FoldTwo ==
  ASSUME NEW c, NEW a, NEW b
  PROVE  /\ FoldLeft(Accept, c, <<a>>) = Accept(c, a)
         /\ FoldLeft(Accept, c, <<a, b>>) = Accept(Accept(c, a), b)
PROOF
  <1>1. Max({1}) = 1 /\ Max({2}) = 2 /\ Max({1, 2}) = 2
    <2>1. \A s : Max(s) = CHOOSE x \in s : \A y \in s : x >= y
      BY DEF Max
    <2>2. (CHOOSE x \in {1} : \A y \in {1} : x >= y) = 1
      OBVIOUS
    <2>3. (CHOOSE x \in {2} : \A y \in {2} : x >= y) = 2
      OBVIOUS
    <2>4. \E x \in {1, 2} : \A y \in {1, 2} : x >= y
      OBVIOUS
    <2>5. (CHOOSE x \in {1, 2} : \A y \in {1, 2} : x >= y) = 2
      <3> DEFINE x == CHOOSE x \in {1, 2} : \A y \in {1, 2} : x >= y
      <3>1. x \in {1, 2} /\ x >= 2
        BY <2>4
      <3> QED BY <3>1
    <2> QED BY <2>1, <2>2, <2>3, <2>5
  <1>2. FoldLeft(Accept, c, <<a>>) = Accept(c, a)
    <2> DEFINE s1 == <<a>>
               G(g) == [s \in SUBSET (DOMAIN s1) |->
                          IF s = {} THEN c ELSE Accept(g[s \ {Max(s)}], s1[Max(s)])]
               w == [s \in SUBSET (DOMAIN s1) |-> IF s = {} THEN c ELSE Accept(c, a)]
               it == CHOOSE g : g = G(g)
    <2>1. FoldLeft(Accept, c, s1) = it[DOMAIN s1]
      BY DEF FoldLeft, MapThenFoldSet
    <2>2. DOMAIN s1 = {1} /\ SUBSET (DOMAIN s1) = {{}, {1}} /\ s1[1] = a
      OBVIOUS
    <2>3. {1} \ {1} = {} /\ {1} # {}
      OBVIOUS
    <2> HIDE DEF s1
    <2>4. w = G(w)
      <3>1. ASSUME NEW s \in SUBSET (DOMAIN s1)
            PROVE  w[s] = IF s = {} THEN c ELSE Accept(w[s \ {Max(s)}], s1[Max(s)])
        BY <1>1, <2>2, <2>3
      <3> QED BY <3>1
    <2> HIDE DEF w
    <2>5. it = G(it)
      BY <2>4
    <2> HIDE DEF it
    <2>6. it[{}] = c
      BY <2>5, <2>2
    <2>7. it[{1}] = Accept(it[{1} \ {Max({1})}], s1[Max({1})])
      BY <2>5, <2>2, <2>3
    <2> QED BY <2>1, <2>2, <2>3, <2>6, <2>7, <1>1 DEF s1
  <1>3. FoldLeft(Accept, c, <<a, b>>) = Accept(Accept(c, a), b)
    <2> DEFINE s2 == <<a, b>>
               G(g) == [s \in SUBSET (DOMAIN s2) |->
                          IF s = {} THEN c ELSE Accept(g[s \ {Max(s)}], s2[Max(s)])]
               w == [s \in SUBSET (DOMAIN s2) |->
                       IF s = {} THEN c ELSE IF s = {1} THEN Accept(c, a)
                       ELSE IF s = {2} THEN Accept(c, b) ELSE Accept(Accept(c, a), b)]
               it == CHOOSE g : g = G(g)
    <2>1. FoldLeft(Accept, c, s2) = it[DOMAIN s2]
      BY DEF FoldLeft, MapThenFoldSet
    <2>2. DOMAIN s2 = {1, 2} /\ s2[1] = a /\ s2[2] = b
      OBVIOUS
    <2>3. SUBSET (DOMAIN s2) = {{}, {1}, {2}, {1, 2}}
      BY <2>2
    <2>4. /\ {1} \ {1} = {} /\ {2} \ {2} = {} /\ {1, 2} \ {2} = {1}
          /\ {1} # {} /\ {2} # {} /\ {1, 2} # {} /\ {1, 2} # {1} /\ {1, 2} # {2} /\ {1} # {2}
      OBVIOUS
    <2> HIDE DEF s2
    <2>5. w = G(w)
      <3>1. ASSUME NEW s \in SUBSET (DOMAIN s2)
            PROVE  w[s] = IF s = {} THEN c ELSE Accept(w[s \ {Max(s)}], s2[Max(s)])
        <4>1. CASE s = {}
          BY <4>1
        <4>2. CASE s = {1}
          BY <4>2, <1>1, <2>2, <2>3, <2>4
        <4>3. CASE s = {2}
          BY <4>3, <1>1, <2>2, <2>3, <2>4
        <4>4. CASE s = {1, 2}
          BY <4>4, <1>1, <2>2, <2>3, <2>4
        <4> QED BY <4>1, <4>2, <4>3, <4>4, <2>3
      <3> QED BY <3>1
    <2> HIDE DEF w
    <2>6. it = G(it)
      BY <2>5
    <2> HIDE DEF it
    <2>7. it[{}] = c
      BY <2>6, <2>3
    <2>8. it[{1}] = Accept(it[{1} \ {Max({1})}], s2[Max({1})])
      BY <2>6, <2>3, <2>4, ZenonT(40)
    <2>9. it[{1, 2}] = Accept(it[{1, 2} \ {Max({1, 2})}], s2[Max({1, 2})])
      BY <2>6, <2>3, <2>4, ZenonT(40)
    <2> QED BY <2>1, <2>2, <2>4, <2>7, <2>8, <2>9, <1>1 DEF s2
  <1> QED BY <1>2, <1>3
-----------------------------------------------------------------------------
(* What the client makes of an event. *)

LEMMA PartsDiffer ==
  ASSUME NEW k1, NEW i1, NEW k2, NEW i2
  PROVE  Part(k1, i1) = Part(k2, i2) <=> k1 = k2 /\ i1 = i2
BY DEF Part

LEMMA Accepted ==
  ASSUME NEW c \in Viewer, c.end = "none",
         NEW kind \in {"text", "reasoning", "tool"}, NEW id \in Nat
  PROVE  LET p == Part(kind, id)
             of(type) == [kind |-> kind, type |-> type, id |-> id] IN
         /\ p \in Parts
         /\ p \notin c.open \cup c.shut =>
              Accept(c, of("start")) = [c EXCEPT !.open = @ \cup {p}]
         /\ p \in c.open => Accept(c, of("delta")) = c
         /\ p \in c.open => Accept(c, of("end")) = [c EXCEPT !.open = @ \ {p}, !.shut = @ \cup {p}]
         /\ p \notin c.open =>
              Accept(c, of("end")) = [c EXCEPT !.misfits = @ \cup {<<kind, "end">>}]
PROOF
  <1> DEFINE p == Part(kind, id)
             of(type) == [kind |-> kind, type |-> type, id |-> id]
  <1>1. p \in Parts
    BY DEF Part, Parts
  <1>2. p \notin c.open \cup c.shut => Accept(c, of("start")) = [c EXCEPT !.open = @ \cup {p}]
    BY DEF Accept
  <1>3. p \in c.open => Accept(c, of("delta")) = c
    BY DEF Accept
  <1>4. p \in c.open => Accept(c, of("end")) = [c EXCEPT !.open = @ \ {p}, !.shut = @ \cup {p}]
    BY DEF Accept
  <1>5. p \notin c.open => Accept(c, of("end")) = [c EXCEPT !.misfits = @ \cup {<<kind, "end">>}]
    BY DEF Accept
  <1> QED BY <1>1, <1>2, <1>3, <1>4, <1>5

Opened(c, ps) == [c EXCEPT !.open = @ \cup ps]
Closed(c, ps) == [c EXCEPT !.open = @ \ ps, !.shut = @ \cup ps]
Ended(t, id) == (IF id \in t.text THEN {Part("text", id)} ELSE {})
                   \cup (IF id \in t.reasoning THEN {Part("reasoning", id)} ELSE {})

LEMMA Joined ==
  ASSUME NEW a, NEW b
  PROVE  /\ <<>> \o <<a>> = <<a>> /\ <<a>> \o <<>> = <<a>> /\ <<>> \o <<>> = <<>>
         /\ <<a>> \o <<b>> = <<a, b>>
PROOF
  <1> DEFINE S == {a, b}
  <1>1. <<>> \in Seq(S) /\ <<a>> \in Seq(S) /\ a \in S /\ b \in S
    OBVIOUS
  <1>2. Append(<<a>>, b) = <<a, b>>
    <2>1. /\ Append(<<a>>, b) \in Seq(S) /\ Len(Append(<<a>>, b)) = 2
          /\ Append(<<a>>, b)[1] = a /\ Append(<<a>>, b)[2] = b
      BY <1>1, AppendProperties, Len(<<a>>) = 1, <<a>>[1] = a
    <2>2. <<a, b>> \in Seq(S) /\ Len(<<a, b>>) = 2 /\ <<a, b>>[1] = a /\ <<a, b>>[2] = b
      OBVIOUS
    <2>3. \A i \in 1 .. Len(Append(<<a>>, b)) : Append(<<a>>, b)[i] = <<a, b>>[i]
      BY <2>1, <2>2
    <2> QED BY <2>1, <2>2, <2>3, SeqEqual
  <1> HIDE DEF S
  <1>3. Append(<<a>>, b) = <<a>> \o <<b>>
    BY <1>1, AppendIsConcat
  <1>4. <<>> \o <<a>> = <<a>> /\ <<a>> \o <<>> = <<a>> /\ <<>> \o <<>> = <<>>
    BY <1>1, ConcatEmptySeq
  <1> QED BY <1>2, <1>3, <1>4

\* What the client makes of an event, while its stream has not ended and the parts are
\* where the translator takes them to be.
LEMMA Rendered ==
  ASSUME NEW c \in Viewer, c.end = "none", NEW t \in Translator, NEW e \in PumpEvent
  PROVE  /\ (/\ e.name = "message_delta"
             /\ e.id \in t.text => Part("text", e.id) \in c.open
             /\ e.id \notin t.text => Part("text", e.id) \notin c.open \cup c.shut)
            => Render(c, t, e) = Opened(c, {Part("text", e.id)})
         /\ (/\ e.name \in {"reasoning_start", "reasoning_delta"}
             /\ e.id \in t.reasoning => Part("reasoning", e.id) \in c.open
             /\ e.id \notin t.reasoning => Part("reasoning", e.id) \notin c.open \cup c.shut)
            => Render(c, t, e) = Opened(c, {Part("reasoning", e.id)})
         /\ (/\ e.name = "reasoning_end"
             /\ e.id \in t.reasoning => Part("reasoning", e.id) \in c.open)
            => Render(c, t, e) = IF e.id \in t.reasoning
                                 THEN Closed(c, {Part("reasoning", e.id)}) ELSE c
         /\ (/\ e.name = "message"
             /\ e.id \in t.text => Part("text", e.id) \in c.open
             /\ e.id \in t.reasoning => Part("reasoning", e.id) \in c.open)
            => Render(c, t, e) = Closed(c, Ended(t, e.id))
         /\ (e.name = "tool_start" /\ Part("tool", e.id) \notin c.open \cup c.shut)
            => Render(c, t, e) = Opened(c, {Part("tool", e.id)})
         /\ (e.name = "tool_end" /\ Part("tool", e.id) \in c.open)
            => Render(c, t, e) = Closed(c, {Part("tool", e.id)})
         /\ (e.name = "tool_end" /\ Part("tool", e.id) \notin c.open)
            => Render(c, t, e) = [c EXCEPT !.misfits = @ \cup {ToolEnd}]
         /\ e.name \in {"tool_delta", "subagent", "subagent_delta", "none"} => Render(c, t, e) = c
         /\ e.name = "error" => Render(c, t, e) = [c EXCEPT !.end = "error"]
PROOF
  <1> DEFINE id == e.id
             chunk(kind, type) == [kind |-> kind, type |-> type, id |-> id]
             T == Part("text", id)
             R == Part("reasoning", id)
             L == Part("tool", id)
  <1>0. id \in Nat /\ e.name \in Names
    BY DEF PumpEvent
  <1> HIDE DEF id
  <1>a. /\ Yield(t, e) = <<>> => Render(c, t, e) = c
        /\ \A a : Yield(t, e) = <<a>> => Render(c, t, e) = Accept(c, a)
        /\ \A a, b : Yield(t, e) = <<a, b>> => Render(c, t, e) = Accept(Accept(c, a), b)
    <2>1. Yield(t, e) = <<>> => Render(c, t, e) = c
      BY FoldNone, Zenon DEF Render
    <2>2. ASSUME NEW a, Yield(t, e) = <<a>>
          PROVE  Render(c, t, e) = Accept(c, a)
      <3>1. FoldLeft(Accept, c, <<a>>) = Accept(c, a)
        BY FoldTwo, Zenon
      <3> QED BY <2>2, <3>1, Zenon DEF Render
    <2>3. ASSUME NEW a, NEW b, Yield(t, e) = <<a, b>>
          PROVE  Render(c, t, e) = Accept(Accept(c, a), b)
      <3>1. FoldLeft(Accept, c, <<a, b>>) = Accept(Accept(c, a), b)
        BY FoldTwo, ZenonT(40)
      <3> QED BY <2>3, <3>1, Zenon DEF Render
    <2> QED BY <2>1, <2>2, <2>3, Zenon
  <1>c. \A kind, type : Chunk(kind, type, id) = <<chunk(kind, type)>>
    BY DEF Chunk
  <1>t. /\ T \in Parts
        /\ T \notin c.open \cup c.shut => Accept(c, chunk("text", "start")) = Opened(c, {T})
        /\ T \in c.open => Accept(c, chunk("text", "delta")) = c
        /\ T \in c.open => Accept(c, chunk("text", "end")) = Closed(c, {T})
    BY Accepted, <1>0 DEF Opened, Closed
  <1>r. /\ R \in Parts
        /\ R \notin c.open \cup c.shut => Accept(c, chunk("reasoning", "start")) = Opened(c, {R})
        /\ R \in c.open => Accept(c, chunk("reasoning", "delta")) = c
        /\ R \in c.open => Accept(c, chunk("reasoning", "end")) = Closed(c, {R})
    BY Accepted, <1>0 DEF Opened, Closed
  <1>l. /\ L \in Parts
        /\ L \notin c.open \cup c.shut => Accept(c, chunk("tool", "start")) = Opened(c, {L})
        /\ L \in c.open => Accept(c, chunk("tool", "end")) = Closed(c, {L})
        /\ L \notin c.open => Accept(c, chunk("tool", "end")) = [c EXCEPT !.misfits = @ \cup {ToolEnd}]
    BY Accepted, <1>0 DEF Opened, Closed, ToolEnd
  <1>o. ASSUME NEW p \in Parts
        PROVE  /\ Opened(c, {p}) \in Viewer /\ Opened(c, {p}).end = "none" /\ p \in Opened(c, {p}).open
               /\ Closed(c, {p}) \in Viewer /\ Closed(c, {p}).end = "none"
               /\ p \in c.open => Opened(c, {p}) = c
               /\ Closed(c, {p}).open = c.open \ {p}
    BY DEF Opened, Closed, Viewer
  <1>1. (/\ e.name = "message_delta"
         /\ id \in t.text => T \in c.open
         /\ id \notin t.text => T \notin c.open \cup c.shut)
        => Render(c, t, e) = Opened(c, {T})
    <2> SUFFICES ASSUME e.name = "message_delta", id \in t.text => T \in c.open,
                        id \notin t.text => T \notin c.open \cup c.shut
                 PROVE  Render(c, t, e) = Opened(c, {T})
      OBVIOUS
    <2>1. Yield(t, e) = If(id \notin t.text, <<chunk("text", "start")>>) \o <<chunk("text", "delta")>>
      BY <1>c DEF Yield, id
    <2>2. CASE id \in t.text
      <3>1. Yield(t, e) = <<chunk("text", "delta")>>
        BY <2>1, <2>2, Joined DEF If
      <3> QED BY <3>1, <1>a, <1>t, <1>o, <2>2
    <2>3. CASE id \notin t.text
      <3>1. Yield(t, e) = <<chunk("text", "start"), chunk("text", "delta")>>
        BY <2>1, <2>3, Joined DEF If
      <3>2. Accept(Opened(c, {T}), chunk("text", "delta")) = Opened(c, {T})
        BY <1>o, <1>t, <1>0, Accepted
      <3> QED BY <3>1, <3>2, <1>a, <1>t, <2>3
    <2> QED BY <2>2, <2>3
  <1>2. (/\ e.name \in {"reasoning_start", "reasoning_delta"}
         /\ id \in t.reasoning => R \in c.open
         /\ id \notin t.reasoning => R \notin c.open \cup c.shut)
        => Render(c, t, e) = Opened(c, {R})
    <2> SUFFICES ASSUME e.name \in {"reasoning_start", "reasoning_delta"},
                        id \in t.reasoning => R \in c.open,
                        id \notin t.reasoning => R \notin c.open \cup c.shut
                 PROVE  Render(c, t, e) = Opened(c, {R})
      OBVIOUS
    <2>1. CASE e.name = "reasoning_start"
      <3>1. Yield(t, e) = If(id \notin t.reasoning, <<chunk("reasoning", "start")>>)
        BY <1>c, <2>1 DEF Yield, id
      <3>2. CASE id \in t.reasoning
        BY <3>1, <3>2, <1>a, <1>r, <1>o DEF If
      <3>3. CASE id \notin t.reasoning
        BY <3>1, <3>3, <1>a, <1>r DEF If
      <3> QED BY <3>2, <3>3
    <2>2. CASE e.name = "reasoning_delta"
      <3>1. Yield(t, e) = If(id \notin t.reasoning, <<chunk("reasoning", "start")>>)
                            \o <<chunk("reasoning", "delta")>>
        BY <1>c, <2>2 DEF Yield, id
      <3>2. CASE id \in t.reasoning
        <4>1. Yield(t, e) = <<chunk("reasoning", "delta")>>
          BY <3>1, <3>2, Joined DEF If
        <4> QED BY <4>1, <1>a, <1>r, <1>o, <3>2
      <3>3. CASE id \notin t.reasoning
        <4>1. Yield(t, e) = <<chunk("reasoning", "start"), chunk("reasoning", "delta")>>
          BY <3>1, <3>3, Joined DEF If
        <4>2. Accept(Opened(c, {R}), chunk("reasoning", "delta")) = Opened(c, {R})
          BY <1>o, <1>r, <1>0, Accepted
        <4> QED BY <4>1, <4>2, <1>a, <1>r, <3>3
      <3> QED BY <3>2, <3>3
    <2> QED BY <2>1, <2>2
  <1>3. (e.name = "reasoning_end" /\ (id \in t.reasoning => R \in c.open))
        => Render(c, t, e) = IF id \in t.reasoning THEN Closed(c, {R}) ELSE c
    <2> SUFFICES ASSUME e.name = "reasoning_end", id \in t.reasoning => R \in c.open
                 PROVE  Render(c, t, e) = IF id \in t.reasoning THEN Closed(c, {R}) ELSE c
      OBVIOUS
    <2>1. Yield(t, e) = If(id \in t.reasoning, <<chunk("reasoning", "end")>>)
      BY <1>c DEF Yield, id
    <2>2. CASE id \in t.reasoning
      BY <2>1, <2>2, <1>a, <1>r DEF If
    <2>3. CASE id \notin t.reasoning
      BY <2>1, <2>3, <1>a DEF If
    <2> QED BY <2>2, <2>3
  <1>4. (/\ e.name = "message"
         /\ id \in t.text => T \in c.open
         /\ id \in t.reasoning => R \in c.open)
        => Render(c, t, e) = Closed(c, Ended(t, id))
    <2> SUFFICES ASSUME e.name = "message", id \in t.text => T \in c.open,
                        id \in t.reasoning => R \in c.open
                 PROVE  Render(c, t, e) = Closed(c, Ended(t, id))
      OBVIOUS
    <2>1. Yield(t, e) = If(id \in t.reasoning, <<chunk("reasoning", "end")>>)
                          \o If(id \in t.text, <<chunk("text", "end")>>)
      BY <1>c DEF Yield, id
    <2>2. T # R
      BY PartsDiffer
    <2>3. CASE id \in t.reasoning /\ id \in t.text
      <3>1. Yield(t, e) = <<chunk("reasoning", "end"), chunk("text", "end")>>
        BY <2>1, <2>3, Joined DEF If
      <3>2. Accept(Closed(c, {R}), chunk("text", "end")) = Closed(Closed(c, {R}), {T})
        <4>1. Closed(c, {R}) \in Viewer /\ Closed(c, {R}).end = "none"
          BY <1>r, <1>o
        <4>2. T \in Closed(c, {R}).open
          BY <1>r, <1>o, <2>2, <2>3
        <4> QED BY <4>1, <4>2, <1>0, Accepted DEF Closed
      <3>3. Closed(Closed(c, {R}), {T}) = Closed(c, {T} \cup {R})
        BY DEF Closed, Viewer
      <3>4. Ended(t, id) = {T} \cup {R}
        BY <2>3 DEF Ended
      <3> QED BY <3>1, <3>2, <3>3, <3>4, <1>a, <1>r, <2>3
    <2>4. CASE id \in t.reasoning /\ id \notin t.text
      <3>1. Yield(t, e) = <<chunk("reasoning", "end")>>
        BY <2>1, <2>4, Joined DEF If
      <3>2. Ended(t, id) = {R}
        BY <2>4 DEF Ended
      <3> QED BY <3>1, <3>2, <1>a, <1>r, <2>4
    <2>5. CASE id \notin t.reasoning /\ id \in t.text
      <3>1. Yield(t, e) = <<chunk("text", "end")>>
        BY <2>1, <2>5, Joined DEF If
      <3>2. Ended(t, id) = {T}
        BY <2>5 DEF Ended
      <3> QED BY <3>1, <3>2, <1>a, <1>t, <2>5
    <2>6. CASE id \notin t.reasoning /\ id \notin t.text
      <3>1. Yield(t, e) = <<>>
        BY <2>1, <2>6, Joined DEF If
      <3>2. Ended(t, id) = {}
        BY <2>6 DEF Ended
      <3>3. Closed(c, {}) = c
        BY DEF Closed, Viewer
      <3> QED BY <3>1, <3>2, <3>3, <1>a
    <2> QED BY <2>3, <2>4, <2>5, <2>6
  <1>5. (e.name = "tool_start" /\ L \notin c.open \cup c.shut) => Render(c, t, e) = Opened(c, {L})
    <2>1. e.name = "tool_start" => Yield(t, e) = <<chunk("tool", "start")>>
      BY <1>c DEF Yield, id
    <2> QED BY <2>1, <1>a, <1>l
  <1>6. e.name = "tool_end" => Yield(t, e) = <<chunk("tool", "end")>>
    BY <1>c DEF Yield, id
  <1>7. (e.name = "tool_end" /\ L \in c.open) => Render(c, t, e) = Closed(c, {L})
    BY <1>6, <1>a, <1>l
  <1>8. (e.name = "tool_end" /\ L \notin c.open)
        => Render(c, t, e) = [c EXCEPT !.misfits = @ \cup {ToolEnd}]
    BY <1>6, <1>a, <1>l
  <1>9. e.name \in {"tool_delta", "subagent", "subagent_delta", "none"} => Render(c, t, e) = c
    <2>1. e.name \in {"tool_delta", "subagent_delta", "none"} => Yield(t, e) = <<>>
      BY DEF Yield
    <2>2. e.name = "subagent" => Yield(t, e) = <<chunk("custom", "custom")>>
      BY <1>c DEF Yield, id
    <2>3. Accept(c, chunk("custom", "custom")) = c
      BY DEF Accept
    <2> QED BY <2>1, <2>2, <2>3, <1>a
  <1>10. e.name = "error" => Render(c, t, e) = [c EXCEPT !.end = "error"]
    <2>1. e.name = "error" => Yield(t, e) = <<chunk("ending", "error")>>
      BY <1>c DEF Yield, id
    <2>2. Accept(c, chunk("ending", "error")) = [c EXCEPT !.end = "error"]
      BY DEF Accept
    <2> QED BY <2>1, <2>2, <1>a
  <1> QED BY <1>1, <1>2, <1>3, <1>4, <1>5, <1>7, <1>8, <1>9, <1>10 DEF id

-----------------------------------------------------------------------------
(* The queue. *)

LEMMA QueuePut ==
  ASSUME NEW q \in Seq(PumpEvent), NEW e \in PumpEvent
  PROVE  /\ Append(q, e) \in Seq(PumpEvent) /\ Len(q) \in Nat /\ Len(Append(q, e)) = Len(q) + 1
         /\ \A i \in 1 .. Len(q) : Append(q, e)[i] = q[i] /\ q[i] \in PumpEvent
         /\ Append(q, e)[Len(q) + 1] = e
  BY AppendProperties, LenProperties, ElementOfSeq

LEMMA QueueTake ==
  ASSUME NEW q \in Seq(PumpEvent), q # <<>>
  PROVE  /\ Tail(q) \in Seq(PumpEvent) /\ Len(q) \in Nat /\ Len(q) >= 1 /\ Len(Tail(q)) = Len(q) - 1
         /\ \A i \in 1 .. Len(Tail(q)) : Tail(q)[i] = q[i + 1] /\ i + 1 \in 1 .. Len(q)
         /\ \A i \in 1 .. Len(q) : q[i] \in PumpEvent
         /\ Head(q) = q[1] /\ Head(q) \in PumpEvent
  BY HeadTailProperties, LenProperties, ElementOfSeq, EmptySeq

LEMMA PastPut ==
  ASSUME NEW q \in Seq(PumpEvent), NEW e \in PumpEvent, NEW id \in Nat, NEW names,
         NEW next \in Nat, NEW after \in Nat, Past(q, id, names, next), next <= after,
         e.name \in names => next <= e.id
  PROVE  Past(Append(q, e), id, names, after)
PROOF
  <1>1. e.id \in Nat
    BY DEF PumpEvent
  <1>2. ASSUME NEW i \in 1 .. Len(Append(q, e)), Append(q, e)[i].name \in names
        PROVE  id < Append(q, e)[i].id
    <2>1. CASE i \in 1 .. Len(q)
      BY <2>1, <1>2, QueuePut DEF Past
    <2>2. CASE i = Len(q) + 1
      BY <2>2, <1>1, <1>2, QueuePut DEF Past
    <2> QED BY <2>1, <2>2, QueuePut
  <1> QED BY <1>2 DEF Past

LEMMA PastTake ==
  ASSUME NEW q \in Seq(PumpEvent), q # <<>>, NEW id, NEW names, NEW next, Past(q, id, names, next)
  PROVE  Past(Tail(q), id, names, next)
  BY QueueTake DEF Past

LEMMA PastHead ==
  ASSUME NEW q \in Seq(PumpEvent), q # <<>>, NEW names, NEW next, Head(q).id < next,
         \A j \in 1 .. Len(q) : (1 < j /\ q[j].name \in names) => Head(q).id < q[j].id
  PROVE  Past(Tail(q), Head(q).id, names, next)
PROOF
  <1>1. ASSUME NEW i \in 1 .. Len(Tail(q)), Tail(q)[i].name \in names
        PROVE  Head(q).id < Tail(q)[i].id
    <2>1. i + 1 \in 1 .. Len(q) /\ Tail(q)[i] = q[i + 1] /\ 1 < i + 1
      BY QueueTake
    <2> QED BY <2>1, <1>1
  <1> QED BY <1>1 DEF Past

LEMMA LaterPut ==
  ASSUME NEW q \in Seq(PumpEvent), NEW e \in PumpEvent, NEW x, NEW i
  PROVE  /\ Later(q, x, i) => Later(Append(q, e), x, i)
         /\ Sooner(q, x, i) => Sooner(Append(q, e), x, i)
         /\ i <= Len(q) /\ i \in Nat => Later(Append(q, e), e, i)
         /\ Sooner(Append(q, e), e, Len(q) + 1)
PROOF
  <1> DEFINE Q == Append(q, e)
  <1>1. /\ Len(q) \in Nat /\ Len(Q) = Len(q) + 1 /\ Q[Len(q) + 1] = e
        /\ \A j \in 1 .. Len(q) : Q[j] = q[j]
    BY QueuePut
  <1> HIDE DEF Q
  <1>2. \A j \in 1 .. Len(q) : j \in 1 .. Len(Q)
    BY <1>1
  <1>3. Len(q) + 1 \in 1 .. Len(Q)
    BY <1>1
  <1>4. Later(q, x, i) => Later(Q, x, i)
    BY <1>1, <1>2 DEF Later
  <1>5. Sooner(q, x, i) => Sooner(Q, x, i)
    BY <1>1, <1>2 DEF Sooner
  <1>6. i <= Len(q) /\ i \in Nat => Later(Q, e, i)
    BY <1>1, <1>3 DEF Later
  <1>7. Sooner(Q, e, Len(q) + 1)
    BY <1>1, <1>3 DEF Sooner
  <1> QED BY <1>4, <1>5, <1>6, <1>7 DEF Q

LEMMA LaterTake ==
  ASSUME NEW q \in Seq(PumpEvent), q # <<>>, NEW x, NEW i \in Nat
  PROVE  /\ Later(q, x, i + 1) => Later(Tail(q), x, i)
         /\ Later(q, x, 0) => x = Head(q) \/ Later(Tail(q), x, 0)
         /\ Sooner(q, x, i + 1) => x = Head(q) \/ Sooner(Tail(q), x, i)
PROOF
  <1>1. ASSUME NEW j \in 1 .. Len(q), j # 1
        PROVE  \E k \in 1 .. Len(Tail(q)) : j = k + 1 /\ Tail(q)[k] = q[j]
    <2>1. j - 1 \in 1 .. Len(Tail(q)) /\ j = (j - 1) + 1
      BY <1>1, QueueTake
    <2> QED BY <2>1, QueueTake
  <1>2. q[1] = Head(q)
    BY QueueTake
  <1>3. Later(q, x, i + 1) => Later(Tail(q), x, i)
    <2> SUFFICES ASSUME NEW j \in 1 .. Len(q), i + 1 < j, q[j] = x
                 PROVE  Later(Tail(q), x, i)
      BY DEF Later
    <2>1. PICK k \in 1 .. Len(Tail(q)) : j = k + 1 /\ Tail(q)[k] = q[j]
      BY <1>1
    <2> QED BY <2>1 DEF Later
  <1>4. Later(q, x, 0) => x = Head(q) \/ Later(Tail(q), x, 0)
    <2> SUFFICES ASSUME NEW j \in 1 .. Len(q), q[j] = x, x # Head(q)
                 PROVE  Later(Tail(q), x, 0)
      BY DEF Later
    <2>1. PICK k \in 1 .. Len(Tail(q)) : j = k + 1 /\ Tail(q)[k] = q[j]
      BY <1>1, <1>2
    <2> QED BY <2>1 DEF Later
  <1>5. Sooner(q, x, i + 1) => x = Head(q) \/ Sooner(Tail(q), x, i)
    <2> SUFFICES ASSUME NEW j \in 1 .. Len(q), j <= i + 1, q[j] = x, x # Head(q)
                 PROVE  Sooner(Tail(q), x, i)
      BY DEF Sooner
    <2>1. PICK k \in 1 .. Len(Tail(q)) : j = k + 1 /\ Tail(q)[k] = q[j]
      BY <1>1, <1>2
    <2> QED BY <2>1 DEF Sooner
  <1> QED BY <1>3, <1>4, <1>5

LEMMA Numbers ==
  ASSUME PumpTypes, Phases
  PROVE  /\ NextText \in Nat /\ NextThought \in Nat /\ NextStart \in Nat /\ NextEnd \in Nat
         /\ NextText <= NextThought
  BY DEF PumpTypes, Phases, NextText, NextThought, NextStart, NextEnd, Side

-----------------------------------------------------------------------------
(* A consumer or the drain puts e, or puts nothing. *)

PutsWell(e) ==
  /\ e \in PumpEvent /\ queue' \in {queue, Append(queue, e)}
  /\ producer = "running" /\ UNCHANGED <<pump, stop, sdk, view, lost>> /\ mute \subseteq mute'
  /\ NextText <= NextText' /\ NextThought <= NextThought'
  /\ NextStart <= NextStart' /\ NextEnd <= NextEnd'
  /\ e.name \in Texts => NextText <= e.id
  /\ e.name \in Thoughts => NextThought <= e.id
  /\ e.name = "tool_start" => NextStart <= e.id
  /\ e.name = "tool_end" => NextEnd <= e.id
  /\ Before(e)'
  /\ e.name = "tool_end" => side["tool"] = "on" /\ e.id = calls["tool"]
  /\ (producer' = "running" /\ side'["tool"] = "on") =>
       \/ side["tool"] = "on" /\ calls'["tool"] = calls["tool"]
       \/ queue' = Append(queue, e) /\ e = Ev("tool_start", calls'["tool"])
  /\ \A id \in Nat :
       /\ TextOwed(id) => TextOwed(id)' \/ (queue' = Append(queue, e) /\ e = Ev("message", id))
       /\ ThoughtOwed(id) =>
            ThoughtOwed(id)' \/ (queue' = Append(queue, e) /\ e = Ev("reasoning_end", id))
       /\ ToolOwed(id) => ToolOwed(id)' \/ (queue' = Append(queue, e) /\ e = Ev("tool_end", id))
  /\ e.name = "message_delta" => TextOwed(e.id)'
  /\ e.name \in {"reasoning_start", "reasoning_delta"} => ThoughtOwed(e.id)'
  /\ e.name = "tool_start" => ToolOwed(e.id)'

LEMMA PutNumbers ==
  ASSUME PumpTypes, PumpTypes', Phases, NEW e, PutsWell(e)
  PROVE  /\ NextText \in Nat /\ NextThought \in Nat /\ NextStart \in Nat /\ NextEnd \in Nat
         /\ NextText <= NextThought
         /\ NextText' \in Nat /\ NextThought' \in Nat /\ NextStart' \in Nat /\ NextEnd' \in Nat
         /\ NextText <= NextText' /\ NextThought <= NextThought'
         /\ NextStart <= NextStart' /\ NextEnd <= NextEnd'
PROOF
  <1>1. /\ NextText \in Nat /\ NextThought \in Nat /\ NextStart \in Nat /\ NextEnd \in Nat
        /\ NextText <= NextThought
    BY Numbers
  <1>2. NextText' \in Nat /\ NextThought' \in Nat /\ NextStart' \in Nat /\ NextEnd' \in Nat
    <2>1. PICK m \in Nat : msg' = m
      BY DEF PumpTypes
    <2>2. calls'["tool"] \in Nat
      BY DEF PumpTypes, Side
    <2>3. NextText' \in {m, m + 1} /\ NextThought' \in {m, m + 1}
      BY <2>1, Zenon DEF NextText, NextThought
    <2>4. NextStart' \in Nat /\ NextEnd' \in Nat
      BY <2>2 DEF NextStart, NextEnd
    <2>5. m \in Nat /\ m + 1 \in Nat
      OBVIOUS
    <2> QED BY <2>3, <2>4, <2>5
  <1>3. /\ NextText <= NextText' /\ NextThought <= NextThought'
        /\ NextStart <= NextStart' /\ NextEnd <= NextEnd'
    BY DEF PutsWell
  <1> QED BY <1>1, <1>2, <1>3

LEMMA PutOrder ==
  ASSUME PumpTypes, PumpTypes', Phases, Phases', Ordered, NEW e, PutsWell(e)
  PROVE  Ordered'
PROOF
  <1>1. queue \in Seq(PumpEvent) /\ e \in PumpEvent /\ queue' \in {queue, Append(queue, e)} /\ e.id \in Nat
    BY DEF PumpTypes, PutsWell, PumpEvent
  <1>n. /\ NextText \in Nat /\ NextThought \in Nat /\ NextStart \in Nat /\ NextEnd \in Nat
        /\ NextText <= NextThought
        /\ NextText' \in Nat /\ NextThought' \in Nat /\ NextStart' \in Nat /\ NextEnd' \in Nat
        /\ NextText <= NextText' /\ NextThought <= NextThought'
        /\ NextStart <= NextStart' /\ NextEnd <= NextEnd'
    BY PutNumbers
  <1>2. ASSUME NEW f \in PumpEvent, Before(f)
        PROVE  Before(f)' /\ Follows(f, e) /\ f.name # "none"
    <2>1. f.id \in Nat /\ f.name # "none"
      BY <1>2 DEF PumpEvent, Before, PutsWell
    <2>2. Before(f)'
      BY <1>2, <2>1, <1>n DEF Before
    <2>3. Follows(f, e)
      BY <1>2, <2>1, <1>n, <1>1 DEF Before, Follows, PutsWell, Texts, Thoughts
    <2> QED BY <2>1, <2>2, <2>3
  <1>3. \A i \in 1 .. Len(queue) : queue[i] \in PumpEvent /\ Before(queue[i])
    BY <1>1, QueuePut DEF Ordered
  <1>4. CASE queue' = queue
    <2>1. \A i \in 1 .. Len(queue) : Before(queue[i])'
      BY <1>2, <1>3, <1>4
    <2> QED BY <2>1, <1>4 DEF Ordered
  <1>5. CASE queue' = Append(queue, e)
    <2>1. Len(queue) \in Nat /\ Len(queue') = Len(queue) + 1 /\ queue'[Len(queue) + 1] = e
      BY <1>1, <1>5, QueuePut
    <2>2. \A i \in 1 .. Len(queue) : queue'[i] = queue[i]
      BY <1>1, <1>5, QueuePut
    <2>3. ASSUME NEW i \in 1 .. Len(queue'), NEW j \in 1 .. Len(queue'), i < j
          PROVE  Follows(queue'[i], queue'[j])
      <3>1. i \in 1 .. Len(queue)
        BY <2>3, <2>1
      <3>2. CASE j \in 1 .. Len(queue)
        BY <3>1, <3>2, <2>2, <2>3 DEF Ordered
      <3>3. CASE j = Len(queue) + 1
        BY <3>1, <3>3, <2>1, <2>2, <1>2, <1>3
      <3> QED BY <3>2, <3>3, <2>1
    <2>4. ASSUME NEW i \in 1 .. Len(queue')
          PROVE  Before(queue[i])' 
      <3>1. CASE i \in 1 .. Len(queue)
        BY <3>1, <2>2, <1>2, <1>3 DEF Before
      <3>2. CASE i = Len(queue) + 1
        BY <3>2, <2>1 DEF PutsWell, Before
      <3> QED BY <3>1, <3>2, <2>1
    <2> QED BY <2>3, <2>4 DEF Ordered
  <1> QED BY <1>1, <1>4, <1>5

LEMMA PutPlace ==
  ASSUME PumpTypes, PumpTypes', Phases, Phases', Placed, NEW e, PutsWell(e)
  PROVE  Placed'
PROOF
  <1>1. queue \in Seq(PumpEvent) /\ e \in PumpEvent /\ queue' \in {queue, Append(queue, e)} /\ e.id \in Nat
    BY DEF PumpTypes, PutsWell, PumpEvent
  <1>n. /\ NextText \in Nat /\ NextThought \in Nat /\ NextStart \in Nat /\ NextEnd \in Nat
        /\ NextText <= NextThought
        /\ NextText' \in Nat /\ NextThought' \in Nat /\ NextStart' \in Nat /\ NextEnd' \in Nat
        /\ NextText <= NextText' /\ NextThought <= NextThought'
        /\ NextStart <= NextStart' /\ NextEnd <= NextEnd'
    BY PutNumbers
  <1>2. ASSUME NEW id \in Nat, NEW names, NEW next \in Nat, NEW after \in Nat, next <= after,
               Past(queue, id, names, next), e.name \in names => next <= e.id
        PROVE  Past(queue', id, names, after)
    <2>1. Past(Append(queue, e), id, names, after)
      BY <1>2, <1>1, PastPut
    <2>2. Past(queue, id, names, after)
      BY <1>2 DEF Past
    <2> QED BY <2>1, <2>2, <1>1
  <1>3. /\ e.name \in Texts => NextText <= e.id
        /\ e.name \in {"message"} => NextText <= e.id
        /\ e.name \in Thoughts => NextThought <= e.id
        /\ e.name \in {"tool_start"} => NextStart <= e.id
    BY DEF PutsWell, Texts
  <1>4. sdk' = sdk /\ view' = view
    BY DEF PutsWell
  <1>5. ASSUME NEW id \in Nat
        PROVE  /\ Past(queue, id, Texts, NextText) => Past(queue', id, Texts, NextText')
               /\ Past(queue, id, Thoughts, NextThought) => Past(queue', id, Thoughts, NextThought')
               /\ Past(queue, id, {"message"}, NextText) => Past(queue', id, {"message"}, NextText')
               /\ Past(queue, id, {"tool_start"}, NextStart) => Past(queue', id, {"tool_start"}, NextStart')
    BY <1>2, <1>3, <1>n
  <1> QED BY <1>4, <1>5 DEF Placed, PlacedAt

LEMMA PutStarted ==
  ASSUME PumpTypes, PumpTypes', Started, NEW e, PutsWell(e)
  PROVE  Started'
PROOF
  <1> SUFFICES ASSUME ~lost, ~sdk.over
               PROVE  /\ \A k \in 1 .. Len(queue') : queue'[k].name = "tool_end" =>
                           \/ Part("tool", queue'[k].id) \in view.open
                           \/ Sooner(queue', Ev("tool_start", queue'[k].id), k - 1)
                      /\ (producer' = "running" /\ side'["tool"] = "on") =>
                           \/ Part("tool", calls'["tool"]) \in view.open
                           \/ Sooner(queue', Ev("tool_start", calls'["tool"]), Len(queue'))
    BY DEF Started, PutsWell
  <1>1. queue \in Seq(PumpEvent) /\ e \in PumpEvent /\ queue' \in {queue, Append(queue, e)}
    BY DEF PumpTypes, PutsWell
  <1>2. /\ Len(queue) \in Nat
        /\ \A x, i : Sooner(queue, x, i) => Sooner(queue', x, i)
        /\ queue' = queue \/ (/\ Len(queue') = Len(queue) + 1 /\ queue'[Len(queue) + 1] = e
                              /\ \A i \in 1 .. Len(queue) : queue'[i] = queue[i]
                              /\ Sooner(queue', e, Len(queue')))
    <2>1. CASE queue' = queue
      BY <2>1, <1>1, LenProperties
    <2>2. CASE queue' = Append(queue, e)
      <3>1. /\ Len(queue) \in Nat /\ Len(queue') = Len(queue) + 1 /\ queue'[Len(queue) + 1] = e
            /\ \A i \in 1 .. Len(queue) : queue'[i] = queue[i]
        BY <2>2, <1>1, QueuePut
      <3>2. Sooner(queue', e, Len(queue) + 1)
        BY <2>2, <1>1, LaterPut
      <3>3. \A x, i : Sooner(queue, x, i) => Sooner(queue', x, i)
        BY <2>2, <1>1, LaterPut
      <3> QED BY <3>1, <3>2, <3>3
    <2> QED BY <1>1, <2>1, <2>2
  <1>3. \A x : Sooner(queue, x, Len(queue)) => Sooner(queue', x, Len(queue'))
    BY <1>2 DEF Sooner
  <1>4. (producer = "running" /\ side["tool"] = "on") =>
          \/ Part("tool", calls["tool"]) \in view.open
          \/ Sooner(queue, Ev("tool_start", calls["tool"]), Len(queue))
    BY DEF Started
  <1>5. ASSUME NEW k \in 1 .. Len(queue'), queue'[k].name = "tool_end"
        PROVE  \/ Part("tool", queue'[k].id) \in view.open
               \/ Sooner(queue', Ev("tool_start", queue'[k].id), k - 1)
    <2>1. CASE k \in 1 .. Len(queue)
      <3>1. queue'[k] = queue[k]
        BY <2>1, <1>2
      <3> QED BY <3>1, <2>1, <1>2, <1>5 DEF Started
    <2>2. CASE k \notin 1 .. Len(queue)
      <3>1. queue'[k] = e /\ k - 1 = Len(queue)
        BY <2>2, <1>2
      <3>2. side["tool"] = "on" /\ e.id = calls["tool"] /\ producer = "running"
        BY <3>1, <1>5 DEF PutsWell
      <3> QED BY <3>1, <3>2, <1>4, <1>2
    <2> QED BY <2>1, <2>2
  <1>6. ASSUME producer' = "running", side'["tool"] = "on"
        PROVE  \/ Part("tool", calls'["tool"]) \in view.open
               \/ Sooner(queue', Ev("tool_start", calls'["tool"]), Len(queue'))
    <2>1. CASE side["tool"] = "on" /\ calls'["tool"] = calls["tool"]
      <3>1. producer = "running"
        BY DEF PutsWell
      <3> QED BY <2>1, <3>1, <1>3, <1>4
    <2>2. CASE queue' = Append(queue, e) /\ e = Ev("tool_start", calls'["tool"])
      <3>1. Len(Append(queue, e)) = Len(queue) + 1
        BY <1>1, QueuePut
      <3> QED BY <2>2, <3>1, <1>1, LaterPut
    <2> QED BY <1>6, <2>1, <2>2 DEF PutsWell
  <1> QED BY <1>5, <1>6

LEMMA PutOwed ==
  ASSUME PumpTypes, PumpTypes', Owed, NEW e, PutsWell(e)
  PROVE  Owed'
PROOF
  <1> SUFFICES ASSUME Clean
               PROVE  /\ \A id \in Nat :
                           /\ Part("text", id) \in view.open => TextDue(id, 0)'
                           /\ Part("reasoning", id) \in view.open => ThoughtDue(id, 0)'
                           /\ Part("tool", id) \in view.open => ToolDue(id, 0)'
                      /\ \A i \in 1 .. Len(queue') :
                           /\ queue'[i].name = "message_delta" => TextDue(queue[i].id, i)'
                           /\ queue'[i].name \in {"reasoning_start", "reasoning_delta"} =>
                                ThoughtDue(queue[i].id, i)'
                           /\ queue'[i].name = "tool_start" => ToolDue(queue[i].id, i)'
    BY DEF Owed, PutsWell, Clean
  <1>1. queue \in Seq(PumpEvent) /\ e \in PumpEvent /\ queue' \in {queue, Append(queue, e)} /\ e.id \in Nat
    BY DEF PumpTypes, PutsWell, PumpEvent
  <1>2. /\ Len(queue) \in Nat
        /\ \A x, i : Later(queue, x, i) => Later(queue', x, i)
        /\ queue' = Append(queue, e) => \A i \in 0 .. Len(queue) : Later(queue', e, i)
        /\ queue' = queue \/ (/\ Len(queue') = Len(queue) + 1 /\ queue'[Len(queue) + 1] = e
                              /\ \A i \in 1 .. Len(queue) : queue'[i] = queue[i])
        /\ \A i \in 1 .. Len(queue) : queue[i].id \in Nat
    <2>1. \A i \in 1 .. Len(queue) : queue[i].id \in Nat
      BY <1>1, QueuePut DEF PumpEvent
    <2>2. \A x, i : Later(queue, x, i) => Later(queue', x, i)
      BY <1>1, LaterPut
    <2>3. queue' = Append(queue, e) => \A i \in 0 .. Len(queue) : Later(queue', e, i)
      BY <1>1, LaterPut, LenProperties
    <2> QED BY <1>1, <2>1, <2>2, <2>3, QueuePut
  <1>3. ASSUME NEW id \in Nat, NEW i \in 0 .. Len(queue)
        PROVE  /\ TextDue(id, i) => TextDue(id, i)'
               /\ ThoughtDue(id, i) => ThoughtDue(id, i)'
               /\ ToolDue(id, i) => ToolDue(id, i)'
    <2>1. TextOwed(id) => TextOwed(id)' \/ (queue' = Append(queue, e) /\ e = Ev("message", id))
      BY DEF PutsWell
    <2>2. ThoughtOwed(id) =>
            ThoughtOwed(id)' \/ (queue' = Append(queue, e) /\ e = Ev("reasoning_end", id))
      BY DEF PutsWell
    <2>3. ToolOwed(id) => ToolOwed(id)' \/ (queue' = Append(queue, e) /\ e = Ev("tool_end", id))
      BY DEF PutsWell
    <2>4. TextDue(id, i) => TextDue(id, i)'
      BY <2>1, <1>2 DEF TextDue
    <2>5. ThoughtDue(id, i) => ThoughtDue(id, i)'
      BY <2>2, <1>2 DEF ThoughtDue
    <2>6. ToolDue(id, i) => ToolDue(id, i)'
      BY <2>3, <1>2 DEF ToolDue
    <2> QED BY <2>4, <2>5, <2>6
  <1>4. ASSUME NEW id \in Nat
        PROVE  /\ Part("text", id) \in view.open => TextDue(id, 0)'
               /\ Part("reasoning", id) \in view.open => ThoughtDue(id, 0)'
               /\ Part("tool", id) \in view.open => ToolDue(id, 0)'
    BY <1>3, <1>2 DEF Owed
  <1>5. ASSUME NEW i \in 1 .. Len(queue')
        PROVE  /\ queue'[i].name = "message_delta" => TextDue(queue[i].id, i)'
               /\ queue'[i].name \in {"reasoning_start", "reasoning_delta"} =>
                    ThoughtDue(queue[i].id, i)'
               /\ queue'[i].name = "tool_start" => ToolDue(queue[i].id, i)'
    <2>1. CASE i \in 1 .. Len(queue)
      <3>1. PICK id \in Nat : id = queue[i].id
        BY <2>1, <1>2
      <3>2. queue'[i] = queue[i] /\ i \in 0 .. Len(queue)
        BY <2>1, <1>2
      <3>3. /\ queue[i].name = "message_delta" => TextDue(id, i)
            /\ queue[i].name \in {"reasoning_start", "reasoning_delta"} => ThoughtDue(id, i)
            /\ queue[i].name = "tool_start" => ToolDue(id, i)
        BY <2>1, <3>1 DEF Owed
      <3>4. /\ queue'[i].name = "message_delta" => TextDue(id, i)'
            /\ queue'[i].name \in {"reasoning_start", "reasoning_delta"} => ThoughtDue(id, i)'
            /\ queue'[i].name = "tool_start" => ToolDue(id, i)'
        BY <3>2, <3>3, <1>3
      <3>5. queue'[i].id = id
        BY <3>1, <3>2
      <3>6. queue'[i].name = "message_delta" => TextDue(queue[i].id, i)'
        BY <3>4, <3>5 DEF TextDue, TextOwed
      <3>7. queue'[i].name \in {"reasoning_start", "reasoning_delta"} => ThoughtDue(queue[i].id, i)'
        BY <3>4, <3>5 DEF ThoughtDue, ThoughtOwed
      <3>8. queue'[i].name = "tool_start" => ToolDue(queue[i].id, i)'
        BY <3>4, <3>5 DEF ToolDue, ToolOwed
      <3> QED BY <3>6, <3>7, <3>8
    <2>2. CASE i \notin 1 .. Len(queue)
      <3>1. queue'[i] = e
        BY <2>2, <1>2
      <3>2. /\ e.name = "message_delta" => TextOwed(e.id)'
            /\ e.name \in {"reasoning_start", "reasoning_delta"} => ThoughtOwed(e.id)'
            /\ e.name = "tool_start" => ToolOwed(e.id)'
        BY DEF PutsWell
      <3> QED BY <3>1, <3>2 DEF TextDue, ThoughtDue, ToolDue, TextOwed, ThoughtOwed, ToolOwed
    <2> QED BY <2>1, <2>2
  <1> QED BY <1>4, <1>5

-----------------------------------------------------------------------------
(* The loop takes the head of the queue. *)

\* The head finds the parts where the translator takes them to be.
LEMMA HeadFits ==
  ASSUME PumpTypes, Phases, Ordered, Placed, Started, queue # <<>>, NEW e, e = Head(queue)
  PROVE  /\ e \in PumpEvent /\ e.id \in Nat
         /\ e.name = "message_delta" =>
              /\ e.id \in sdk.text => Part("text", e.id) \in view.open
              /\ e.id \notin sdk.text => Part("text", e.id) \notin view.open \cup view.shut
         /\ e.name \in {"reasoning_start", "reasoning_delta"} =>
              /\ e.id \in sdk.reasoning => Part("reasoning", e.id) \in view.open
              /\ e.id \notin sdk.reasoning => Part("reasoning", e.id) \notin view.open \cup view.shut
         /\ e.name = "reasoning_end" =>
              (e.id \in sdk.reasoning => Part("reasoning", e.id) \in view.open)
         /\ e.name = "message" =>
              /\ e.id \in sdk.text => Part("text", e.id) \in view.open
              /\ e.id \in sdk.reasoning => Part("reasoning", e.id) \in view.open
         /\ e.name = "tool_start" => Part("tool", e.id) \notin view.open \cup view.shut
         /\ e.name = "tool_end" /\ ~lost /\ ~sdk.over => Part("tool", e.id) \in view.open
PROOF
  <1>0. queue \in Seq(PumpEvent)
    BY DEF PumpTypes
  <1>1. /\ e \in PumpEvent /\ e.id \in Nat /\ 1 \in 1 .. Len(queue) /\ queue[1] = e
    <2>1. e \in PumpEvent /\ Len(queue) \in Nat /\ Len(queue) >= 1 /\ queue[1] = e
      BY <1>0, QueueTake
    <2> QED BY <2>1 DEF PumpEvent
  <1>2. ASSUME NEW names, NEW next, e.name \in names
        PROVE  ~Past(queue, e.id, names, next)
    BY <1>1, <1>2 DEF Past
  <1>3. /\ e.name \in {"message_delta", "message"} => ~Past(queue, e.id, Texts, NextText)
        /\ e.name \in Thoughts => ~Past(queue, e.id, Thoughts, NextThought)
        /\ e.name = "message" => ~Past(queue, e.id, {"message"}, NextText)
        /\ e.name = "tool_start" => ~Past(queue, e.id, {"tool_start"}, NextStart)
    BY <1>2 DEF Texts
  <1>4. PlacedAt(e.id)
    BY <1>1 DEF Placed
  <1>5. e.name = "tool_end" /\ ~lost /\ ~sdk.over => Part("tool", e.id) \in view.open
    <2>1. ~Sooner(queue, Ev("tool_start", e.id), 1 - 1)
      BY DEF Sooner
    <2> QED BY <2>1, <1>1 DEF Started
  <1> QED BY <1>1, <1>3, <1>4, <1>5 DEF PlacedAt, Thoughts

\* What a delivery does to the parts with one number.
PartsMove(e, id) ==
  LET md == e.name = "message_delta" /\ id = e.id
      rs == e.name \in {"reasoning_start", "reasoning_delta"} /\ id = e.id
      re == e.name = "reasoning_end" /\ id = e.id
      ms == e.name = "message" /\ id = e.id
      ts == e.name = "tool_start" /\ id = e.id
      te == e.name = "tool_end" /\ id = e.id IN
  /\ Part("text", id) \in view'.open <=>
       (Part("text", id) \in view.open \/ md) /\ ~(ms /\ id \in sdk.text)
  /\ Part("text", id) \in view'.shut <=> Part("text", id) \in view.shut \/ (ms /\ id \in sdk.text)
  /\ Part("reasoning", id) \in view'.open <=>
       (Part("reasoning", id) \in view.open \/ rs) /\ ~((re \/ ms) /\ id \in sdk.reasoning)
  /\ Part("reasoning", id) \in view'.shut <=>
       Part("reasoning", id) \in view.shut \/ ((re \/ ms) /\ id \in sdk.reasoning)
  /\ Part("tool", id) \in view'.open <=> (Part("tool", id) \in view.open \/ ts) /\ ~te
  /\ Part("tool", id) \in view'.shut <=>
       Part("tool", id) \in view.shut \/ (te /\ Part("tool", id) \in view.open)
  /\ id \in sdk'.text <=> id \in sdk.text \/ md
  /\ id \in sdk'.reasoning <=> (id \in sdk.reasoning \/ rs) /\ ~re

LEMMA Delivered ==
  ASSUME PumpTypes, Phases, Ordered, Placed, Started, queue # <<>>, NEW e, e = Head(queue),
         ~sdk.over, Deliver(e)
  PROVE  /\ sdk' \in Translator /\ view' \in Viewer
         /\ view'.end = (IF e.name = "error" THEN "error" ELSE "none")
         /\ sdk'.over <=> e.name = "error"
         /\ view'.misfits \subseteq view.misfits \cup (IF lost THEN {ToolEnd} ELSE {})
         /\ \A id \in Nat : PartsMove(e, id)
PROOF
  <1>1. /\ view \in Viewer /\ sdk \in Translator /\ e \in PumpEvent /\ e.id \in Nat
        /\ view.end = "none" /\ view' = Render(view, sdk, e) /\ sdk' = After(sdk, e)
        /\ e.name \in Names
    BY HeadFits DEF PumpTypes, Phases, Deliver, PumpEvent
  <1> DEFINE T == Part("text", e.id)
             R == Part("reasoning", e.id)
             L == Part("tool", e.id)
  <1>2. T \in Parts /\ R \in Parts /\ L \in Parts
    BY <1>1, Accepted
  <1>3. ASSUME NEW kind, NEW id
        PROVE  /\ Part(kind, id) = T <=> kind = "text" /\ id = e.id
               /\ Part(kind, id) = R <=> kind = "reasoning" /\ id = e.id
               /\ Part(kind, id) = L <=> kind = "tool" /\ id = e.id
    BY PartsDiffer
  <1>4. ASSUME NEW p \in SUBSET Parts
        PROVE  /\ Opened(view, p) \in Viewer /\ Closed(view, p) \in Viewer
               /\ Opened(view, p).open = view.open \cup p /\ Opened(view, p).shut = view.shut
               /\ Opened(view, p).end = "none" /\ Opened(view, p).misfits = view.misfits
               /\ Closed(view, p).open = view.open \ p /\ Closed(view, p).shut = view.shut \cup p
               /\ Closed(view, p).end = "none" /\ Closed(view, p).misfits = view.misfits
    BY <1>1 DEF Opened, Closed, Viewer
  <1>5. CASE e.name = "message_delta"
    <2>1. view' = Opened(view, {T})
      BY <1>1, <1>5, HeadFits, Rendered
    <2>2. /\ sdk' \in Translator /\ sdk'.text = sdk.text \cup {e.id} /\ sdk'.reasoning = sdk.reasoning
          /\ sdk'.over = sdk.over
      BY <1>1, <1>5 DEF After, Translator
    <2>3. /\ view' \in Viewer /\ view'.open = view.open \cup {T} /\ view'.shut = view.shut
          /\ view'.end = "none" /\ view'.misfits = view.misfits
      BY <2>1, <1>2, <1>4
    <2>4. ASSUME NEW id \in Nat
          PROVE  PartsMove(e, id)
      BY <2>2, <2>3, <1>3, <1>5 DEF PartsMove
    <2> QED BY <2>2, <2>3, <2>4, <1>5
  <1>6. CASE e.name \in {"reasoning_start", "reasoning_delta"}
    <2>1. view' = Opened(view, {R})
      BY <1>1, <1>6, HeadFits, Rendered
    <2>2. /\ sdk' \in Translator /\ sdk'.text = sdk.text /\ sdk'.reasoning = sdk.reasoning \cup {e.id}
          /\ sdk'.over = sdk.over
      BY <1>1, <1>6 DEF After, Translator
    <2>3. /\ view' \in Viewer /\ view'.open = view.open \cup {R} /\ view'.shut = view.shut
          /\ view'.end = "none" /\ view'.misfits = view.misfits
      BY <2>1, <1>2, <1>4
    <2>4. ASSUME NEW id \in Nat
          PROVE  PartsMove(e, id)
      BY <2>2, <2>3, <1>3, <1>6 DEF PartsMove
    <2> QED BY <2>2, <2>3, <2>4, <1>6
  <1>7. CASE e.name = "reasoning_end"
    <2>1. view' = IF e.id \in sdk.reasoning THEN Closed(view, {R}) ELSE view
      BY <1>1, <1>7, HeadFits, Rendered
    <2>2. /\ sdk' \in Translator /\ sdk'.text = sdk.text /\ sdk'.reasoning = sdk.reasoning \ {e.id}
          /\ sdk'.over = sdk.over
      BY <1>1, <1>7 DEF After, Translator
    <2>3. /\ view' \in Viewer /\ view'.end = "none" /\ view'.misfits = view.misfits
          /\ e.id \in sdk.reasoning => view'.open = view.open \ {R} /\ view'.shut = view.shut \cup {R}
          /\ e.id \notin sdk.reasoning => view'.open = view.open /\ view'.shut = view.shut
      BY <2>1, <1>1, <1>2, <1>4
    <2>4. ASSUME NEW id \in Nat
          PROVE  PartsMove(e, id)
      BY <2>2, <2>3, <1>3, <1>7 DEF PartsMove
    <2> QED BY <2>2, <2>3, <2>4, <1>7
  <1>8. CASE e.name = "message"
    <2>1. view' = Closed(view, Ended(sdk, e.id))
      BY <1>1, <1>8, HeadFits, Rendered
    <2>2. sdk' = sdk
      BY <1>1, <1>8 DEF After
    <2>3. /\ Ended(sdk, e.id) \in SUBSET Parts
          /\ \A p : p \in Ended(sdk, e.id) <=>
               (p = T /\ e.id \in sdk.text) \/ (p = R /\ e.id \in sdk.reasoning)
      BY <1>2 DEF Ended
    <2>4. /\ view' \in Viewer /\ view'.open = view.open \ Ended(sdk, e.id)
          /\ view'.shut = view.shut \cup Ended(sdk, e.id)
          /\ view'.end = "none" /\ view'.misfits = view.misfits
      BY <2>1, <2>3, <1>4
    <2>5. ASSUME NEW id \in Nat
          PROVE  PartsMove(e, id)
      BY <2>2, <2>3, <2>4, <1>3, <1>8 DEF PartsMove
    <2> QED BY <2>2, <2>4, <2>5, <1>1, <1>8
  <1>9. CASE e.name = "tool_start"
    <2>1. view' = Opened(view, {L})
      BY <1>1, <1>9, HeadFits, Rendered
    <2>2. sdk' = sdk
      BY <1>1, <1>9 DEF After
    <2>3. /\ view' \in Viewer /\ view'.open = view.open \cup {L} /\ view'.shut = view.shut
          /\ view'.end = "none" /\ view'.misfits = view.misfits
      BY <2>1, <1>2, <1>4
    <2>4. ASSUME NEW id \in Nat
          PROVE  PartsMove(e, id)
      BY <2>2, <2>3, <1>3, <1>9 DEF PartsMove
    <2> QED BY <2>2, <2>3, <2>4, <1>1, <1>9
  <1>10. CASE e.name = "tool_end"
    <2>2. sdk' = sdk
      BY <1>1, <1>10 DEF After
    <2>3. CASE L \in view.open
      <3>1. view' = Closed(view, {L})
        BY <1>1, <1>10, <2>3, Rendered, ZenonT(40)
      <3>2. /\ view' \in Viewer /\ view'.open = view.open \ {L} /\ view'.shut = view.shut \cup {L}
            /\ view'.end = "none" /\ view'.misfits = view.misfits
        BY <3>1, <1>2, <1>4
      <3>3. ASSUME NEW id \in Nat
            PROVE  PartsMove(e, id)
        BY <2>2, <2>3, <3>2, <1>3, <1>10 DEF PartsMove
      <3> QED BY <2>2, <3>2, <3>3, <1>1, <1>10
    <2>4. CASE L \notin view.open
      <3>1. view' = [view EXCEPT !.misfits = @ \cup {ToolEnd}] /\ lost
        BY <1>1, <1>10, <2>4, Rendered, HeadFits
      <3>2. /\ view' \in Viewer /\ view'.open = view.open /\ view'.shut = view.shut
            /\ view'.end = "none" /\ view'.misfits = view.misfits \cup {ToolEnd}
        BY <3>1, <1>1 DEF Viewer
      <3>3. ASSUME NEW id \in Nat
            PROVE  PartsMove(e, id)
        BY <2>2, <2>4, <3>2, <1>3, <1>10 DEF PartsMove
      <3> QED BY <2>2, <3>1, <3>2, <3>3, <1>1, <1>10
    <2> QED BY <2>3, <2>4
  <1>11. CASE e.name \in {"tool_delta", "subagent", "subagent_delta", "none"}
    <2>1. view' = view /\ sdk' = sdk
      BY <1>1, <1>11, Rendered, ZenonT(40) DEF After
    <2>2. ASSUME NEW id \in Nat
          PROVE  PartsMove(e, id)
      BY <2>1, <1>11 DEF PartsMove
    <2> QED BY <2>1, <2>2, <1>1, <1>11
  <1>12. CASE e.name = "error"
    <2>1. view' = [view EXCEPT !.end = "error"]
      BY <1>1, <1>12, Rendered
    <2>2. /\ sdk' \in Translator /\ sdk'.text = sdk.text /\ sdk'.reasoning = sdk.reasoning
          /\ sdk'.over = TRUE
      BY <1>1, <1>12 DEF After, Translator
    <2>3. /\ view' \in Viewer /\ view'.open = view.open /\ view'.shut = view.shut
          /\ view'.end = "error" /\ view'.misfits = view.misfits
      BY <2>1, <1>1 DEF Viewer
    <2>4. ASSUME NEW id \in Nat
          PROVE  PartsMove(e, id)
      BY <2>2, <2>3, <1>12 DEF PartsMove
    <2> QED BY <2>2, <2>3, <2>4, <1>12
  <1> QED BY <1>1, <1>5, <1>6, <1>7, <1>8, <1>9, <1>10, <1>11, <1>12 DEF Names, Texts, Thoughts


\* What every taking leaves alone.
Takes == /\ queue # <<>> /\ queue' = Tail(queue)
         /\ UNCHANGED <<text, reasoning, messages, side, msg, calls, producer, stop, mute>>

\* Whether it reached the client or not.
Moves(e) == \A id \in Nat : PartsMove(e, id)

LEMMA TakeOrder ==
  ASSUME PumpTypes, Ordered, Takes
  PROVE  Ordered'
PROOF
  <1>1. queue \in Seq(PumpEvent) /\ queue # <<>> /\ queue' = Tail(queue)
    BY DEF PumpTypes, Takes
  <1>2. \A i \in 1 .. Len(queue') : queue'[i] = queue[i + 1] /\ i + 1 \in 1 .. Len(queue) /\ i \in Nat
    BY <1>1, QueueTake
  <1>3. ASSUME NEW i \in 1 .. Len(queue')
        PROVE  Before(queue[i])'
    <2>1. Before(queue[i + 1])
      BY <1>2 DEF Ordered
    <2>2. Before(queue[i + 1]) => Before(queue'[i])
      BY <1>2
    <2>3. UNCHANGED <<producer, NextText, NextThought, NextStart, NextEnd>>
      BY DEF Takes, NextText, NextThought, NextStart, NextEnd
    <2> QED BY <2>1, <2>2, <2>3 DEF Before
  <1>4. ASSUME NEW i \in 1 .. Len(queue'), NEW j \in 1 .. Len(queue'), i < j
        PROVE  Follows(queue'[i], queue'[j])
    <2>1. i + 1 < j + 1
      BY <1>4, <1>2
    <2> QED BY <2>1, <1>2 DEF Ordered
  <1> QED BY <1>3, <1>4 DEF Ordered

LEMMA TakePlace ==
  ASSUME PumpTypes, Phases, Ordered, Placed, Takes, NEW e, e = Head(queue),
         Moves(e) \/ (sdk' = sdk /\ view' = view)
  PROVE  Placed'
PROOF
  <1>0. queue \in Seq(PumpEvent) /\ queue # <<>> /\ queue' = Tail(queue)
    BY DEF PumpTypes, Takes
  <1>1. e \in PumpEvent /\ e.id \in Nat /\ Len(queue) \in Nat /\ Len(queue) >= 1 /\ queue[1] = e
    <2>1. e \in PumpEvent /\ Len(queue) \in Nat /\ Len(queue) >= 1 /\ queue[1] = e
      BY <1>0, QueueTake
    <2> QED BY <2>1 DEF PumpEvent
  <1>n. /\ NextText \in Nat /\ NextThought \in Nat /\ NextStart \in Nat /\ NextEnd \in Nat
        /\ NextText <= NextThought
    BY Numbers
  <1>u. UNCHANGED <<NextText, NextThought, NextStart>>
    BY DEF Takes, NextText, NextThought, NextStart
  <1>2. ASSUME NEW id, NEW names, NEW next, Past(queue, id, names, next)
        PROVE  Past(queue', id, names, next)
    BY <1>0, <1>2, PastTake
  <1>3. Before(e) /\ \A j \in 1 .. Len(queue) : 1 < j => Follows(e, queue[j])
    BY <1>1 DEF Ordered
  <1>4. ASSUME NEW names, NEW next \in Nat, e.id < next,
               \A f : Follows(e, f) /\ f.name \in names => e.id < f.id
        PROVE  Past(queue', e.id, names, next)
    <2>1. \A j \in 1 .. Len(queue) : (1 < j /\ queue[j].name \in names) => e.id < queue[j].id
      BY <1>3, <1>4
    <2> QED BY <2>1, <1>0, <1>4, PastHead
  <1>5. e.name = "message" =>
          /\ Past(queue', e.id, Texts, NextText) /\ Past(queue', e.id, Thoughts, NextThought)
          /\ Past(queue', e.id, {"message"}, NextText)
    <2> SUFFICES ASSUME e.name = "message"
                 PROVE  /\ Past(queue', e.id, Texts, NextText) /\ Past(queue', e.id, Thoughts, NextThought)
                        /\ Past(queue', e.id, {"message"}, NextText)
      OBVIOUS
    <2>1. e.id < NextText /\ e.id < NextThought
      BY <1>1, <1>3, <1>n DEF Before
    <2>2. \A f : Follows(e, f) /\ f.name \in Texts => e.id < f.id
      BY DEF Follows
    <2>3. \A f : Follows(e, f) /\ f.name \in Thoughts => e.id < f.id
      BY DEF Follows
    <2>4. \A f : Follows(e, f) /\ f.name \in {"message"} => e.id < f.id
      BY DEF Follows, Texts
    <2> QED BY <2>1, <2>2, <2>3, <2>4, <1>4, <1>n
  <1>6. e.name = "reasoning_end" => Past(queue', e.id, Thoughts, NextThought)
    <2> SUFFICES ASSUME e.name = "reasoning_end"
                 PROVE  Past(queue', e.id, Thoughts, NextThought)
      OBVIOUS
    <2>1. e.id < NextThought
      BY <1>3 DEF Before
    <2>2. \A f : Follows(e, f) /\ f.name \in Thoughts => e.id < f.id
      BY DEF Follows
    <2> QED BY <2>1, <2>2, <1>4, <1>n
  <1>7. e.name = "tool_start" => Past(queue', e.id, {"tool_start"}, NextStart)
    <2> SUFFICES ASSUME e.name = "tool_start"
                 PROVE  Past(queue', e.id, {"tool_start"}, NextStart)
      OBVIOUS
    <2>1. e.id < NextStart
      BY <1>3 DEF Before
    <2>2. \A f : Follows(e, f) /\ f.name \in {"tool_start"} => e.id < f.id
      BY DEF Follows
    <2> QED BY <2>1, <2>2, <1>4, <1>n
  <1>8. ASSUME NEW id \in Nat
        PROVE  PlacedAt(id)'
    <2>0. PlacedAt(id)
      BY DEF Placed
    <2>1. /\ Past(queue, id, Texts, NextText) => Past(queue', id, Texts, NextText')
          /\ Past(queue, id, Thoughts, NextThought) => Past(queue', id, Thoughts, NextThought')
          /\ Past(queue, id, {"message"}, NextText) => Past(queue', id, {"message"}, NextText')
          /\ Past(queue, id, {"tool_start"}, NextStart) => Past(queue', id, {"tool_start"}, NextStart')
      BY <1>2, <1>u
    <2>2. CASE sdk' = sdk /\ view' = view
      BY <2>0, <2>1, <2>2 DEF PlacedAt
    <2>3. CASE PartsMove(e, id)
      <3>1. /\ id \in sdk'.text <=> Part("text", id) \in view'.open \cup view'.shut
            /\ Part("text", id) \in view'.shut => Past(queue', id, Texts, NextText')
        BY <2>0, <2>1, <2>3, <1>5, <1>u DEF PlacedAt, PartsMove
      <3>2. Part("reasoning", id) \in view'.open => id \in sdk'.reasoning
        BY <2>0, <2>3 DEF PlacedAt, PartsMove
      <3>3. Part("reasoning", id) \in view'.shut => Past(queue', id, Thoughts, NextThought')
        BY <2>0, <2>1, <2>3, <1>5, <1>6, <1>u DEF PlacedAt, PartsMove
      <3>4. id \in sdk'.reasoning =>
              \/ Part("reasoning", id) \in view'.open
              \/ Past(queue', id, Thoughts, NextThought') /\ Past(queue', id, {"message"}, NextText')
        BY <2>0, <2>1, <2>3, <1>5, <1>u DEF PlacedAt, PartsMove
      <3>5. Part("tool", id) \in view'.open \cup view'.shut =>
              Past(queue', id, {"tool_start"}, NextStart')
        BY <2>0, <2>1, <2>3, <1>7, <1>u DEF PlacedAt, PartsMove
      <3> QED BY <3>1, <3>2, <3>3, <3>4, <3>5 DEF PlacedAt
    <2> QED BY <2>2, <2>3 DEF Moves
  <1> QED BY <1>8 DEF Placed

LEMMA TakeStarted ==
  ASSUME PumpTypes, Phases, Ordered, Started, Takes, NEW e, e = Head(queue),
         Moves(e), lost' = lost, sdk.over => sdk'.over
  PROVE  Started'
PROOF
  <1>0. queue \in Seq(PumpEvent) /\ queue # <<>> /\ queue' = Tail(queue)
    BY DEF PumpTypes, Takes
  <1>1. /\ Len(queue) \in Nat /\ Len(queue) >= 1 /\ queue[1] = e /\ e.id \in Nat
        /\ Len(queue') = Len(queue) - 1
        /\ \A i \in 1 .. Len(queue') : queue'[i] = queue[i + 1] /\ i + 1 \in 1 .. Len(queue)
        /\ \A i \in 1 .. Len(queue) : queue[i].id \in Nat
    <2>1. \A i \in 1 .. Len(queue) : queue[i] \in PumpEvent
      BY <1>0, QueueTake
    <2>2. \A i \in 1 .. Len(queue) : queue[i].id \in Nat
      BY <2>1 DEF PumpEvent
    <2> QED BY <1>0, <2>2, QueueTake
  <1> SUFFICES ASSUME ~lost', ~sdk'.over
               PROVE  /\ \A k \in 1 .. Len(queue') : queue'[k].name = "tool_end" =>
                           \/ Part("tool", queue'[k].id) \in view'.open
                           \/ Sooner(queue', Ev("tool_start", queue'[k].id), k - 1)
                      /\ (producer' = "running" /\ side'["tool"] = "on") =>
                           \/ Part("tool", calls'["tool"]) \in view'.open
                           \/ Sooner(queue', Ev("tool_start", calls'["tool"]), Len(queue'))
    BY DEF Started
  <1>2. ~lost /\ ~sdk.over
    OBVIOUS
  <1>3. ASSUME NEW id \in Nat, NEW i \in Nat,
               \/ Part("tool", id) \in view.open
               \/ Sooner(queue, Ev("tool_start", id), i + 1),
               ~(e.name = "tool_end" /\ id = e.id)
        PROVE  Part("tool", id) \in view'.open \/ Sooner(queue', Ev("tool_start", id), i)
    <2>1. PartsMove(e, id)
      BY DEF Moves
    <2>2. Sooner(queue, Ev("tool_start", id), i + 1) =>
            Ev("tool_start", id) = e \/ Sooner(queue', Ev("tool_start", id), i)
      BY <1>0, LaterTake
    <2>3. Ev("tool_start", id) = e => e.name = "tool_start" /\ id = e.id
      BY DEF Ev
    <2> QED BY <1>3, <2>1, <2>2, <2>3 DEF PartsMove
  <1>4. ASSUME NEW k \in 1 .. Len(queue'), queue'[k].name = "tool_end"
        PROVE  \/ Part("tool", queue'[k].id) \in view'.open
               \/ Sooner(queue', Ev("tool_start", queue'[k].id), k - 1)
    <2>1. PICK id \in Nat : id = queue'[k].id
      BY <1>1
    <2>2. /\ queue[k + 1].name = "tool_end" /\ queue[k + 1].id = id /\ k + 1 \in 1 .. Len(queue)
          /\ (k + 1) - 1 = (k - 1) + 1 /\ k - 1 \in Nat /\ 1 < k + 1 /\ 1 \in 1 .. Len(queue)
      BY <1>1, <1>4, <2>1
    <2>3. Part("tool", id) \in view.open \/ Sooner(queue, Ev("tool_start", id), (k - 1) + 1)
      BY <2>2, <1>2 DEF Started
    <2>4. Follows(e, queue[k + 1])
      BY <2>2, <1>1 DEF Ordered
    <2>5. ~(e.name = "tool_end" /\ id = e.id)
      BY <2>2, <2>4, <1>1 DEF Follows
    <2> QED BY <2>1, <2>2, <2>3, <2>5, <1>3
  <1>5. ASSUME producer' = "running", side'["tool"] = "on"
        PROVE  \/ Part("tool", calls'["tool"]) \in view'.open
               \/ Sooner(queue', Ev("tool_start", calls'["tool"]), Len(queue'))
    <2>1. PICK id \in Nat : id = calls["tool"]
      BY DEF PumpTypes, Side
    <2>2. producer = "running" /\ side["tool"] = "on" /\ calls'["tool"] = id
      BY <1>5, <2>1 DEF Takes
    <2>3. Len(queue') \in Nat /\ Len(queue) = Len(queue') + 1
      BY <1>1
    <2>4. Part("tool", id) \in view.open \/ Sooner(queue, Ev("tool_start", id), Len(queue') + 1)
      BY <2>1, <2>2, <2>3, <1>2 DEF Started
    <2>5. ~(e.name = "tool_end" /\ id = e.id)
      BY <2>1, <1>1 DEF Ordered, Before, NextEnd
    <2> QED BY <2>2, <2>3, <2>4, <2>5, <1>3
  <1> QED BY <1>4, <1>5


LEMMA TakeOwed ==
  ASSUME PumpTypes, Placed, Owed, Takes, NEW e, e = Head(queue), pump = "running",
         Moves(e), lost' = lost, sdk.over => sdk'.over
  PROVE  Owed'
PROOF
  <1>0. queue \in Seq(PumpEvent) /\ queue # <<>> /\ queue' = Tail(queue)
    BY DEF PumpTypes, Takes
  <1>1. /\ Len(queue) \in Nat /\ Len(queue) >= 1 /\ queue[1] = e /\ e.id \in Nat
        /\ Len(queue') = Len(queue) - 1
        /\ \A i \in 1 .. Len(queue') : queue'[i] = queue[i + 1] /\ i + 1 \in 1 .. Len(queue)
        /\ \A i \in 1 .. Len(queue) : queue[i].id \in Nat
    <2>1. \A i \in 1 .. Len(queue) : queue[i] \in PumpEvent
      BY <1>0, QueueTake
    <2>2. \A i \in 1 .. Len(queue) : queue[i].id \in Nat
      BY <2>1 DEF PumpEvent
    <2> QED BY <1>0, <2>2, QueueTake
  <1> SUFFICES ASSUME Clean'
               PROVE  /\ \A id \in Nat :
                           /\ Part("text", id) \in view'.open => TextDue(id, 0)'
                           /\ Part("reasoning", id) \in view'.open => ThoughtDue(id, 0)'
                           /\ Part("tool", id) \in view'.open => ToolDue(id, 0)'
                      /\ \A i \in 1 .. Len(queue') :
                           /\ queue'[i].name = "message_delta" => TextDue(queue[i].id, i)'
                           /\ queue'[i].name \in {"reasoning_start", "reasoning_delta"} =>
                                ThoughtDue(queue[i].id, i)'
                           /\ queue'[i].name = "tool_start" => ToolDue(queue[i].id, i)'
    BY DEF Owed
  <1>2. Clean
    BY DEF Clean, Takes
  <1>3. ASSUME NEW id \in Nat, NEW i \in Nat
        PROVE  /\ TextDue(id, i + 1) => TextDue(id, i)'
               /\ ThoughtDue(id, i + 1) => ThoughtDue(id, i)'
               /\ ToolDue(id, i + 1) => ToolDue(id, i)'
    <2>1. \A x : Later(queue, x, i + 1) => Later(queue', x, i)
      BY <1>0, LaterTake
    <2>2. UNCHANGED <<TextOwed(id), ThoughtOwed(id), ToolOwed(id)>>
      BY DEF Takes, TextOwed, ThoughtOwed, ToolOwed
    <2> QED BY <2>1, <2>2 DEF TextDue, ThoughtDue, ToolDue
  <1>4. ASSUME NEW id \in Nat
        PROVE  /\ TextDue(id, 0) /\ e # Ev("message", id) => TextDue(id, 0)'
               /\ ThoughtDue(id, 0) /\ e # Ev("reasoning_end", id) => ThoughtDue(id, 0)'
               /\ ToolDue(id, 0) /\ e # Ev("tool_end", id) => ToolDue(id, 0)'
    <2>1. \A x : Later(queue, x, 0) => x = e \/ Later(queue', x, 0)
      BY <1>0, LaterTake
    <2>2. UNCHANGED <<TextOwed(id), ThoughtOwed(id), ToolOwed(id)>>
      BY DEF Takes, TextOwed, ThoughtOwed, ToolOwed
    <2> QED BY <2>1, <2>2 DEF TextDue, ThoughtDue, ToolDue
  <1>5. 1 \in 1 .. Len(queue) /\ 0 + 1 = 1
    BY <1>1
  <1>6. ASSUME NEW id \in Nat
        PROVE  /\ Part("text", id) \in view'.open => TextDue(id, 0)'
               /\ Part("reasoning", id) \in view'.open => ThoughtDue(id, 0)'
               /\ Part("tool", id) \in view'.open => ToolDue(id, 0)'
    <2>1. PartsMove(e, id)
      BY DEF Moves
    <2>2. /\ e = Ev("message", id) => e.name = "message" /\ id = e.id
          /\ e = Ev("reasoning_end", id) => e.name = "reasoning_end" /\ id = e.id
          /\ e = Ev("tool_end", id) => e.name = "tool_end" /\ id = e.id
      BY DEF Ev
    <2>3. PlacedAt(id)
      BY DEF Placed
    <2>4. Part("text", id) \in view'.open => TextDue(id, 0)'
      <3>1. Part("text", id) \in view.open => TextDue(id, 0)
        BY <1>2 DEF Owed
      <3>2. e.name = "message_delta" /\ id = e.id => TextDue(id, 1)
        BY <1>1, <1>2, <1>5 DEF Owed
      <3>3. e.name = "message_delta" /\ id = e.id => TextDue(id, 0)'
        BY <3>2, <1>3, <1>5
      <3>4. Part("text", id) \in view.open /\ e # Ev("message", id) => TextDue(id, 0)'
        BY <3>1, <1>4
      <3> QED BY <2>1, <2>2, <2>3, <3>3, <3>4 DEF PartsMove, PlacedAt
    <2>5. Part("reasoning", id) \in view'.open => ThoughtDue(id, 0)'
      <3>1. Part("reasoning", id) \in view.open => ThoughtDue(id, 0)
        BY <1>2 DEF Owed
      <3>2. e.name \in {"reasoning_start", "reasoning_delta"} /\ id = e.id => ThoughtDue(id, 1)
        BY <1>1, <1>2, <1>5 DEF Owed
      <3>3. e.name \in {"reasoning_start", "reasoning_delta"} /\ id = e.id => ThoughtDue(id, 0)'
        BY <3>2, <1>3, <1>5
      <3>4. Part("reasoning", id) \in view.open /\ e # Ev("reasoning_end", id) => ThoughtDue(id, 0)'
        BY <3>1, <1>4
      <3> QED BY <2>1, <2>2, <2>3, <3>3, <3>4 DEF PartsMove, PlacedAt
    <2>6. Part("tool", id) \in view'.open => ToolDue(id, 0)'
      <3>1. Part("tool", id) \in view.open => ToolDue(id, 0)
        BY <1>2 DEF Owed
      <3>2. e.name = "tool_start" /\ id = e.id => ToolDue(id, 1)
        BY <1>1, <1>2, <1>5 DEF Owed
      <3>3. e.name = "tool_start" /\ id = e.id => ToolDue(id, 0)'
        BY <3>2, <1>3, <1>5
      <3>4. Part("tool", id) \in view.open /\ e # Ev("tool_end", id) => ToolDue(id, 0)'
        BY <3>1, <1>4
      <3> QED BY <2>1, <2>2, <3>3, <3>4 DEF PartsMove
    <2> QED BY <2>4, <2>5, <2>6
  <1>7. ASSUME NEW i \in 1 .. Len(queue')
        PROVE  /\ queue'[i].name = "message_delta" => TextDue(queue[i].id, i)'
               /\ queue'[i].name \in {"reasoning_start", "reasoning_delta"} =>
                    ThoughtDue(queue[i].id, i)'
               /\ queue'[i].name = "tool_start" => ToolDue(queue[i].id, i)'
    <2>1. PICK id \in Nat : id = queue[i + 1].id
      BY <1>1
    <2>2. queue'[i] = queue[i + 1] /\ i \in Nat /\ i + 1 \in 1 .. Len(queue) /\ queue'[i].id = id
      BY <1>1, <2>1
    <2>3. /\ queue[i + 1].name = "message_delta" => TextDue(id, i + 1)
          /\ queue[i + 1].name \in {"reasoning_start", "reasoning_delta"} => ThoughtDue(id, i + 1)
          /\ queue[i + 1].name = "tool_start" => ToolDue(id, i + 1)
      BY <2>1, <2>2, <1>2 DEF Owed
    <2>4. /\ queue'[i].name = "message_delta" => TextDue(id, i)'
          /\ queue'[i].name \in {"reasoning_start", "reasoning_delta"} => ThoughtDue(id, i)'
          /\ queue'[i].name = "tool_start" => ToolDue(id, i)'
      BY <2>2, <2>3, <1>3
    <2>5. queue'[i].name = "message_delta" => TextDue(queue[i].id, i)'
      BY <2>2, <2>4 DEF TextDue, TextOwed
    <2>6. queue'[i].name \in {"reasoning_start", "reasoning_delta"} => ThoughtDue(queue[i].id, i)'
      BY <2>2, <2>4 DEF ThoughtDue, ThoughtOwed
    <2>7. queue'[i].name = "tool_start" => ToolDue(queue[i].id, i)'
      BY <2>2, <2>4 DEF ToolDue, ToolOwed
    <2> QED BY <2>5, <2>6, <2>7
  <1> QED BY <1>6, <1>7

LEMMA PumpStep ==
  ASSUME PumpInv, Pump
  PROVE  PumpInv'
PROOF
  <1>i. /\ PumpTypes /\ Phases /\ Ordered /\ Placed /\ Started /\ Owed
        /\ PartsAreWellFormed /\ FinishLeavesNothingOpen
    BY DEF PumpInv
  <1>1. CASE /\ stop /\ pump' = "cancelled" /\ producer' = "killed" /\ queue' = <<>>
             /\ UNCHANGED <<sdk, view, lost, consumers, stop, mute>>
    <2>0. pump = "running"
      BY DEF Pump
    <2>1. PumpTypes'
      <3>1. <<>> \in Seq(PumpEvent)
        OBVIOUS
      <3> QED BY <1>i, <1>1, <3>1 DEF PumpTypes, consumers
    <2>2. Phases'
      BY <1>i, <1>1, <2>0 DEF Phases, consumers
    <2>3. Len(queue') = 0
      BY <1>1
    <2>4. Ordered'
      BY <2>3 DEF Ordered
    <2>5. Placed'
      <3>1. ASSUME NEW id, NEW names, NEW next, Past(queue, id, names, next)
            PROVE  Past(queue', id, names, next)
        BY <2>3, <3>1 DEF Past
      <3>2. UNCHANGED <<NextText, NextThought, NextStart, sdk, view>>
        BY <1>1 DEF consumers, NextText, NextThought, NextStart
      <3> QED BY <1>i, <3>1, <3>2 DEF Placed, PlacedAt
    <2>6. Started' /\ Owed'
      BY <1>1, <2>3 DEF Started, Owed, Clean
    <2>7. PartsAreWellFormed' /\ FinishLeavesNothingOpen'
      BY <1>i, <1>1 DEF PartsAreWellFormed, FinishLeavesNothingOpen
    <2> QED BY <2>1, <2>2, <2>4, <2>5, <2>6, <2>7 DEF PumpInv
  <1>2. CASE /\ ~stop /\ queue # <<>> /\ queue' = Tail(queue)
             /\ \/ Head(queue) = Sentinel /\ pump' = "sentinel" /\ UNCHANGED <<sdk, view, lost>>
                \/ Head(queue) # Sentinel /\ Deliver(Head(queue)) /\ UNCHANGED <<lost, pump>>
                \/ Head(queue) # Sentinel /\ lost' = TRUE /\ UNCHANGED <<sdk, view, pump>>
             /\ UNCHANGED <<producer, consumers, stop, mute>>
    <2>0. pump = "running" /\ Takes
      BY <1>2 DEF Pump, Takes, consumers
    <2>1. PICK e : e = Head(queue)
      OBVIOUS
    <2>2. /\ queue' \in Seq(PumpEvent) /\ Len(queue) \in Nat /\ Len(queue) >= 1 /\ queue[1] = e
          /\ Len(queue') = Len(queue) - 1 /\ e.name \in Names /\ 1 \in 1 .. Len(queue)
          /\ e \in PumpEvent
      <3>1. queue \in Seq(PumpEvent)
        BY <1>i DEF PumpTypes
      <3>2. /\ queue' \in Seq(PumpEvent) /\ Len(queue) \in Nat /\ Len(queue) >= 1 /\ queue[1] = e
            /\ Len(queue') = Len(queue) - 1 /\ e \in PumpEvent
        BY <3>1, <1>2, <2>1, QueueTake
      <3> QED BY <3>2 DEF PumpEvent
    <2>3. Ordered'
      BY <1>i, <2>0, TakeOrder
    \* What happened to the head.
    <2>4. CASE ~sdk.over /\ e # Sentinel /\ Deliver(e) /\ UNCHANGED <<lost, pump>>
      <3>1. /\ sdk' \in Translator /\ view' \in Viewer
            /\ view'.end = (IF e.name = "error" THEN "error" ELSE "none")
            /\ sdk'.over <=> e.name = "error"
            /\ view'.misfits \subseteq view.misfits \cup (IF lost THEN {ToolEnd} ELSE {})
            /\ Moves(e)
        BY <1>i, <1>2, <2>1, <2>4, Delivered DEF Moves
      <3>2. PumpTypes'
        BY <1>i, <2>0, <2>2, <2>4, <3>1, <1>2 DEF PumpTypes, Takes
      <3>3. Phases'
        BY <1>i, <2>0, <2>4, <3>1, <1>2 DEF Phases, Takes, AllOver
      <3>4. Placed'
        BY <1>i, <2>0, <2>1, <3>1, TakePlace
      <3>5. Started' /\ Owed'
        BY <1>i, <2>0, <2>1, <2>4, <3>1, TakeStarted, TakeOwed
      <3>6. PartsAreWellFormed' /\ FinishLeavesNothingOpen'
        BY <1>i, <2>4, <3>1 DEF PartsAreWellFormed, FinishLeavesNothingOpen, ToolEnd
      <3> QED BY <2>3, <3>2, <3>3, <3>4, <3>5, <3>6 DEF PumpInv
    <2>5. CASE /\ UNCHANGED <<sdk, view, pump>>
               /\ \/ sdk.over /\ UNCHANGED lost
                  \/ lost' = TRUE
      <3>2. PumpTypes'
        BY <1>i, <2>0, <2>2, <2>5, <1>2 DEF PumpTypes, Takes
      <3>3. Phases'
        BY <1>i, <2>0, <2>5, <1>2 DEF Phases, Takes, AllOver
      <3>4. Placed'
        BY <1>i, <2>0, <2>1, <2>5, TakePlace
      <3>5. Started' /\ Owed'
        BY <2>5 DEF Started, Owed, Clean
      <3>6. PartsAreWellFormed' /\ FinishLeavesNothingOpen'
        BY <1>i, <2>5, <1>2 DEF PartsAreWellFormed, FinishLeavesNothingOpen
      <3> QED BY <2>3, <3>2, <3>3, <3>4, <3>5, <3>6 DEF PumpInv
    <2>6. CASE e = Sentinel /\ pump' = "sentinel" /\ UNCHANGED <<sdk, view, lost>>
      <3>0. e.name = "none"
        BY <2>6 DEF Sentinel
      <3>1. Moves(e)
        BY <2>6, <3>0 DEF Moves, PartsMove
      <3>2. PumpTypes'
        BY <1>i, <2>0, <2>2, <2>6, <1>2 DEF PumpTypes, Takes
      <3>3. queue' = <<>> /\ producer # "running"
        <4>1. Before(e) /\ \A j \in 1 .. Len(queue) : 1 < j => Follows(e, queue[j])
          BY <1>i, <2>2 DEF Ordered
        <4>2. ~(2 \in 1 .. Len(queue))
          BY <4>1, <3>0 DEF Follows
        <4>3. Len(queue') = 0
          BY <4>2, <2>2
        <4>4. queue' = <<>>
          BY <4>3, <2>2, EmptySeq
        <4> QED BY <4>1, <4>4, <3>0 DEF Before
      <3>4. Phases'
        BY <1>i, <2>0, <2>6, <3>3, <1>2 DEF Phases, PumpTypes, Takes, AllOver
      <3>5. Placed'
        BY <1>i, <2>0, <2>1, <3>1, TakePlace
      <3>6. Started' /\ Owed'
        BY <1>i, <2>0, <2>1, <2>6, <3>1, TakeStarted, TakeOwed
      <3>7. PartsAreWellFormed' /\ FinishLeavesNothingOpen'
        BY <1>i, <2>0, <2>6 DEF PartsAreWellFormed, FinishLeavesNothingOpen, Takes
      <3> QED BY <2>3, <3>2, <3>4, <3>5, <3>6, <3>7 DEF PumpInv
    <2>7. CASE sdk.over /\ Deliver(e) /\ UNCHANGED <<lost, pump>>
      <3>1. UNCHANGED <<sdk, view, pump, lost>>
        BY <2>7 DEF Deliver
      <3> QED BY <3>1, <2>5, <2>7
    <2> QED BY <1>2, <2>1, <2>4, <2>5, <2>6, <2>7
  <1> QED BY <1>1, <1>2 DEF Pump


-----------------------------------------------------------------------------
(* The run's ending. *)

LEMMA Ending ==
  ASSUME NEW c \in Viewer, c.end = "none", NEW t \in Translator, NEW name \in {"done", "error"}, NEW id
  PROVE  /\ \E type \in {"finish", "error"} : Render(c, t, Ev(name, id)) = [c EXCEPT !.end = type]
         /\ After(t, Ev(name, id)) \in Translator /\ After(t, Ev(name, id)).over
         /\ After(t, Ev(name, id)).text = t.text
         /\ After(t, Ev(name, id)).reasoning = t.reasoning
PROOF
  <1> DEFINE e == Ev(name, id)
             ending(type) == [kind |-> "ending", type |-> type, id |-> id]
  <1>1. e.name = name /\ e.id = id
    BY DEF Ev
  <1> HIDE DEF e
  <1>2. \E type \in {"finish", "error"} : Yield(t, e) = <<ending(type)>>
    <2>1. Yield(t, e) = <<ending("error")>> \/ Yield(t, e) = <<ending("finish")>>
      BY <1>1 DEF Yield, Chunk
    <2> QED BY <2>1
  <1>3. ASSUME NEW type \in {"finish", "error"}
        PROVE  Accept(c, ending(type)) = [c EXCEPT !.end = type]
    BY DEF Accept
  <1>4. \E type \in {"finish", "error"} : Render(c, t, e) = [c EXCEPT !.end = type]
    <2>1. PICK type \in {"finish", "error"} : Yield(t, e) = <<ending(type)>>
      BY <1>2
    <2>2. FoldLeft(Accept, c, <<ending(type)>>) = Accept(c, ending(type))
      BY FoldTwo, Zenon
    <2>3. Render(c, t, e) = Accept(c, ending(type))
      BY <2>1, <2>2, Zenon DEF Render
    <2> QED BY <2>3, <1>3
  <1>5. /\ After(t, e) \in Translator /\ After(t, e).over
        /\ After(t, e).text = t.text /\ After(t, e).reasoning = t.reasoning
    BY <1>1 DEF After, Translator
  <1> QED BY <1>4, <1>5 DEF e

LEMMA FinishStep ==
  ASSUME PumpInv, Finish
  PROVE  PumpInv'
PROOF
  <1>i. /\ PumpTypes /\ Phases /\ Ordered /\ Placed /\ Started /\ Owed
        /\ PartsAreWellFormed /\ FinishLeavesNothingOpen
    BY DEF PumpInv
  <1>u. /\ pump \in {"sentinel", "cancelled"} /\ pump' = "over"
        /\ UNCHANGED <<queue, text, reasoning, messages, side, msg, calls, producer, stop, lost, mute>>
    BY DEF Finish, consumers
  <1>e. queue = <<>> /\ Len(queue) = 0 /\ Len(queue') = 0
    BY <1>i, <1>u DEF Phases
  <1>o. view \in Viewer /\ sdk \in Translator /\ (sdk.over <=> view.end # "none")
    BY <1>i DEF PumpTypes, Phases
  <1>1. \/ sdk.over /\ UNCHANGED <<sdk, view>>
        \/ /\ ~sdk.over /\ sdk' \in Translator /\ sdk'.over
           /\ sdk'.text = sdk.text /\ sdk'.reasoning = sdk.reasoning
           /\ \E type \in {"finish", "error"} : view' = [view EXCEPT !.end = type]
    <2>1. ASSUME NEW name \in {"done", "error"}, NEW id, Deliver(Ev(name, id)), ~sdk.over
          PROVE  /\ sdk' \in Translator /\ sdk'.over
                 /\ sdk'.text = sdk.text /\ sdk'.reasoning = sdk.reasoning
                 /\ \E type \in {"finish", "error"} : view' = [view EXCEPT !.end = type]
      BY <2>1, <1>o, Ending DEF Deliver
    <2>2. ASSUME NEW e, Deliver(e), sdk.over
          PROVE  UNCHANGED <<sdk, view>>
      BY <2>2 DEF Deliver
    <2>3. ASSUME ~sdk.over,
                 sdk' = After(After(sdk, Ev("interrupt", "run")), Ev("done", "interrupted")),
                 view' = Render(view, After(sdk, Ev("interrupt", "run")), Ev("done", "interrupted"))
          PROVE  /\ sdk' \in Translator /\ sdk'.over
                 /\ sdk'.text = sdk.text /\ sdk'.reasoning = sdk.reasoning
                 /\ \E type \in {"finish", "error"} : view' = [view EXCEPT !.end = type]
      <3>1. PICK t : t = After(sdk, Ev("interrupt", "run"))
        OBVIOUS
      <3>2. t \in Translator /\ t.text = sdk.text /\ t.reasoning = sdk.reasoning
        BY <3>1, <1>o DEF After, Ev, Translator
      <3>3. view.end = "none"
        BY <2>3, <1>o
      <3> QED BY <2>3, <3>1, <3>2, <3>3, <1>o, Ending
    <2>4. \/ \E e : Deliver(e) /\ sdk.over
          \/ \E name \in {"done", "error"} : \E id : Deliver(Ev(name, id)) /\ ~sdk.over
          \/ /\ ~sdk.over
             /\ sdk' = After(After(sdk, Ev("interrupt", "run")), Ev("done", "interrupted"))
             /\ view' = Render(view, After(sdk, Ev("interrupt", "run")), Ev("done", "interrupted"))
      <3>1. ASSUME NEW name \in {"done", "error"}, NEW id, Deliver(Ev(name, id))
            PROVE  \/ \E e : Deliver(e) /\ sdk.over
                   \/ \E n \in {"done", "error"} : \E i : Deliver(Ev(n, i)) /\ ~sdk.over
        BY <3>1
      <3>2. \/ \E name \in {"done", "error"} : \E id : Deliver(Ev(name, id))
            \/ /\ ~sdk.over
               /\ sdk' = After(After(sdk, Ev("interrupt", "run")), Ev("done", "interrupted"))
               /\ view' = Render(view, After(sdk, Ev("interrupt", "run")), Ev("done", "interrupted"))
        <4> HIDE DEF Deliver
        <4> QED BY DEF Finish
      <3> QED BY <3>1, <3>2
    <2> QED BY <2>1, <2>2, <2>3, <2>4
  <1>2. /\ sdk' \in Translator /\ sdk'.text = sdk.text /\ sdk'.reasoning = sdk.reasoning
        /\ view' \in Viewer /\ view'.open = view.open /\ view'.shut = view.shut
        /\ view'.misfits = view.misfits /\ sdk'.over /\ view'.end # "none"
        /\ sdk.over => view' = view
    <2>1. CASE sdk.over
      BY <1>1, <1>o, <2>1
    <2>2. CASE ~sdk.over
      <3>1. PICK type \in {"finish", "error"} : view' = [view EXCEPT !.end = type]
        BY <1>1, <2>2
      <3>2. /\ view' \in Viewer /\ view'.open = view.open /\ view'.shut = view.shut
            /\ view'.misfits = view.misfits /\ view'.end = type
        BY <3>1, <1>o DEF Viewer
      <3> QED BY <1>1, <2>2, <3>2
    <2> QED BY <2>1, <2>2
  <1>3. PumpTypes'
    BY <1>i, <1>u, <1>2 DEF PumpTypes
  <1>4. Phases'
    BY <1>i, <1>u, <1>2 DEF Phases, AllOver
  <1>5. Ordered'
    BY <1>e DEF Ordered
  <1>6. Placed'
    <2>1. UNCHANGED <<queue, NextText, NextThought, NextStart>>
      BY <1>u DEF NextText, NextThought, NextStart
    <2> QED BY <1>i, <1>2, <2>1 DEF Placed, PlacedAt, Past
  <1>7. Started' /\ Owed'
    BY <1>2 DEF Started, Owed, Clean
  <1>8. PartsAreWellFormed'
    BY <1>i, <1>u, <1>2 DEF PartsAreWellFormed
  <1>9. FinishLeavesNothingOpen'
    <2> SUFFICES ASSUME ~lost', ~stop', view'.end = "finish", NEW p \in view'.open
                 PROVE  p.kind = "text" /\ p.id \in mute'
      BY DEF FinishLeavesNothingOpen
    <2>1. CASE sdk.over
      BY <2>1, <1>i, <1>u, <1>2 DEF FinishLeavesNothingOpen
    <2>2. CASE ~sdk.over
      <3>1. Clean /\ AllOver /\ reasoning = "over"
        BY <2>2, <1>i, <1>u DEF Clean, Phases, AllOver
      <3>2. PICK kind \in {"text", "reasoning", "tool"}, id \in Nat :
              p = Part(kind, id) /\ p.kind = kind /\ p.id = id /\ p \in view.open
        BY <1>2, <1>o DEF Viewer, Parts, Part
      <3>3. \A x : ~Later(queue, x, 0)
        BY <1>e DEF Later
      <3>4. /\ Part("text", id) \in view.open => TextDue(id, 0)
            /\ Part("reasoning", id) \in view.open => ThoughtDue(id, 0)
            /\ Part("tool", id) \in view.open => ToolDue(id, 0)
        BY <1>i, <3>1 DEF Owed
      <3>5. ~ThoughtDue(id, 0) /\ ~ToolDue(id, 0) /\ (TextDue(id, 0) => id \in mute)
        BY <3>1, <3>3 DEF ThoughtDue, ToolDue, TextDue, ThoughtOwed, ToolOwed, TextOwed, AllOver, Side
      <3> QED BY <3>2, <3>4, <3>5, <1>u
    <2> QED BY <2>1, <2>2
  <1> QED BY <1>3, <1>4, <1>5, <1>6, <1>7, <1>8, <1>9 DEF PumpInv

LEMMA CancelStep ==
  ASSUME PumpInv, Cancel
  PROVE  PumpInv'
PROOF
  <1>i. /\ PumpTypes /\ Phases /\ Ordered /\ Placed /\ Started /\ Owed
        /\ PartsAreWellFormed /\ FinishLeavesNothingOpen
    BY DEF PumpInv
  <1>u. /\ pump = "running" /\ stop' = TRUE
        /\ UNCHANGED <<queue, text, reasoning, messages, side, msg, calls, producer, pump, sdk, view,
                       lost, mute>>
    BY DEF Cancel, consumers
  <1>1. PumpTypes' /\ Phases'
    BY <1>i, <1>u DEF PumpTypes, Phases, AllOver
  <1>n. UNCHANGED <<NextText, NextThought, NextStart, NextEnd>>
    BY <1>u DEF NextText, NextThought, NextStart, NextEnd
  <1>2. Ordered' /\ Placed' /\ Started'
    BY <1>i, <1>u, <1>n DEF Ordered, Before, Placed, PlacedAt, Past, Started, Sooner
  <1>3. Owed' /\ FinishLeavesNothingOpen'
    BY <1>u DEF Owed, Clean, FinishLeavesNothingOpen
  <1>4. PartsAreWellFormed'
    BY <1>i, <1>u DEF PartsAreWellFormed
  <1> QED BY <1>1, <1>2, <1>3, <1>4 DEF PumpInv


-----------------------------------------------------------------------------
(* The consumers and the drain. *)

LEMMA PutStep ==
  ASSUME PumpInv, PumpTypes', Phases', NEW e, PutsWell(e)
  PROVE  PumpInv'
PROOF
  <1>i. /\ PumpTypes /\ Phases /\ Ordered /\ Placed /\ Started /\ Owed
        /\ PartsAreWellFormed /\ FinishLeavesNothingOpen
    BY DEF PumpInv
  <1>1. Ordered' /\ Placed' /\ Started' /\ Owed'
    BY <1>i, PutOrder, PutPlace, PutStarted, PutOwed
  <1>2. PartsAreWellFormed' /\ FinishLeavesNothingOpen'
    BY <1>i DEF PutsWell, PartsAreWellFormed, FinishLeavesNothingOpen
  <1> QED BY <1>1, <1>2 DEF PumpInv

\* What a step of a consumer leaves alone.
Consumed == producer = "running" /\ UNCHANGED <<producer, pump, stop, sdk, view, lost>>

LEMMA ConsumerTypes ==
  ASSUME PumpTypes, Consumed, NEW e \in PumpEvent, queue' \in {queue, Append(queue, e)},
         text' \in {"on", "over"}, reasoning' \in {"idle", "first", "on", "failed", "over"},
         messages' \in {"next", "gather", "put", "over"},
         side' \in [Side -> {"next", "on", "over"}],
         msg' \in Nat, calls' \in [Side -> Nat], mute' \subseteq Nat
  PROVE  PumpTypes'
PROOF
  <1>1. queue' \in Seq(PumpEvent)
    BY QueuePut DEF PumpTypes
  <1> QED BY <1>1 DEF PumpTypes, Consumed

LEMMA ConsumerPhases ==
  ASSUME PumpTypes, Phases, Consumed, text' = "on" \/ reasoning' # "over" => messages' = "gather"
  PROVE  Phases'
  BY DEF Phases, Consumed


LEMMA NextMessageStep ==
  ASSUME PumpInv, NextMessage
  PROVE  PumpInv'
PROOF
  <1>i. PumpTypes /\ Phases
    BY DEF PumpInv
  <1>c. /\ Consumed /\ messages = "next" /\ UNCHANGED <<side, calls, mute>>
    BY DEF NextMessage, Live, Consumed, Others
  <1>p. text = "over" /\ reasoning = "over"
    BY <1>i, <1>c DEF Phases, PumpTypes
  <1>1. PICK e : e = Ev("error", msg)
    OBVIOUS
  <1>2. e \in PumpEvent /\ e.name = "error"
    BY <1>1, <1>i DEF Ev, PumpEvent, Names, PumpTypes
  <1>3. queue' \in {queue, Append(queue, e)}
    BY <1>1 DEF NextMessage, Quiet, Put
  <1>4. \/ msg' = msg + 1 /\ messages' = "gather" /\ text' = "on" /\ reasoning' = "idle"
        \/ messages' = "over" /\ UNCHANGED <<text, reasoning, msg>>
    BY DEF NextMessage
  <1>m. msg \in Nat
    BY <1>i DEF PumpTypes
  <1>5. PumpTypes'
    <2>1. msg' \in Nat /\ text' \in {"on", "over"} /\ messages' \in {"next", "gather", "put", "over"}
          /\ reasoning' \in {"idle", "first", "on", "failed", "over"}
      BY <1>4, <1>p, <1>m
    <2>2. side' \in [Side -> {"next", "on", "over"}] /\ calls' \in [Side -> Nat] /\ mute' \subseteq Nat
      BY <1>i, <1>c DEF PumpTypes
    <2> QED BY <2>1, <2>2, <1>c, <1>i, <1>2, <1>3, ConsumerTypes
  <1>6. Phases'
    <2>1. text' = "on" \/ reasoning' # "over" => messages' = "gather"
      BY <1>4, <1>p
    <2> QED BY <2>1, <1>i, <1>c, ConsumerPhases
  <1>7. PutsWell(e)
    <2>1. /\ NextText <= NextText' /\ NextThought <= NextThought'
          /\ NextStart <= NextStart' /\ NextEnd <= NextEnd'
      <3>1. NextText = msg + 1 /\ NextThought = msg + 1
        BY <1>c, <1>p DEF NextText, NextThought
      <3>2. NextText' = msg + 1 /\ NextThought' = msg + 1
        <4>1. CASE msg' = msg + 1 /\ messages' = "gather" /\ text' = "on" /\ reasoning' = "idle"
          BY <4>1 DEF NextText, NextThought
        <4>2. CASE messages' = "over" /\ UNCHANGED <<text, reasoning, msg>>
          BY <4>2, <1>p DEF NextText, NextThought
        <4> QED BY <4>1, <4>2, <1>4
      <3>3. UNCHANGED <<NextStart, NextEnd>>
        BY <1>c DEF NextStart, NextEnd
      <3> QED BY <3>1, <3>2, <3>3, <1>m, <1>i, Numbers
    <2>2. \A id \in Nat : /\ TextOwed(id) => TextOwed(id)' 
                          /\ ThoughtOwed(id) => ThoughtOwed(id)'
                          /\ ToolOwed(id) => ToolOwed(id)'
      BY <1>c, <1>p DEF TextOwed, ThoughtOwed, ToolOwed
    <2> QED BY <1>2, <1>3, <1>c, <2>1, <2>2 DEF PutsWell, Consumed, Texts, Thoughts, Before
  <1> QED BY <1>5, <1>6, <1>7, PutStep

LEMMA PipeStep ==
  ASSUME PumpInv, Pipe
  PROVE  PumpInv'
PROOF
  <1>i. PumpTypes /\ Phases
    BY DEF PumpInv
  <1>c. /\ Consumed /\ text = "on" /\ text' \in {"on", "over"}
        /\ UNCHANGED <<reasoning, messages, side, msg, calls, mute>>
    BY DEF Pipe, Live, Consumed, Others
  <1>p. messages = "gather" /\ msg \in Nat
    BY <1>i, <1>c DEF Phases, PumpTypes
  <1>1. PICK e : e \in {Ev("error", msg), Ev("message_delta", msg)} /\ queue' \in {queue, Append(queue, e)}
    BY DEF Pipe, Quiet, Put
  <1>2. e \in PumpEvent /\ e.name \in {"error", "message_delta"} /\ e.id = msg
    BY <1>1, <1>p DEF Ev, PumpEvent, Names, Texts
  <1>5. PumpTypes'
    <2>1. /\ side' \in [Side -> {"next", "on", "over"}] /\ calls' \in [Side -> Nat] /\ mute' \subseteq Nat
          /\ msg' \in Nat /\ messages' \in {"next", "gather", "put", "over"}
          /\ reasoning' \in {"idle", "first", "on", "failed", "over"}
      BY <1>i, <1>c DEF PumpTypes
    <2> QED BY <2>1, <1>c, <1>i, <1>1, <1>2, ConsumerTypes
  <1>6. Phases'
    <2>1. messages' = "gather"
      BY <1>c, <1>p
    <2> QED BY <2>1, <1>i, <1>c, ConsumerPhases
  <1>7. PutsWell(e)
    <2>1. UNCHANGED <<NextText, NextThought, NextStart, NextEnd>>
      BY <1>c DEF NextText, NextThought, NextStart, NextEnd
    <2>2. /\ NextText \in Nat /\ NextThought \in Nat /\ NextStart \in Nat /\ NextEnd \in Nat
          /\ NextText = msg
      BY <1>i, <1>p, Numbers DEF NextText
    <2>3. \A id : UNCHANGED <<TextOwed(id), ThoughtOwed(id), ToolOwed(id)>>
      BY <1>c DEF TextOwed, ThoughtOwed, ToolOwed
    <2>4. TextOwed(msg)'
      BY <1>c, <1>p DEF TextOwed
    <2>5. e.name = "message_delta" => TextOwed(e.id)'
      BY <2>4, <1>2, <1>c DEF TextOwed
    <2> QED BY <1>1, <1>2, <1>c, <2>1, <2>2, <2>3, <2>5 DEF PutsWell, Consumed, Texts, Thoughts, Before
  <1> QED BY <1>5, <1>6, <1>7, PutStep


LEMMA PipeReasoningStep ==
  ASSUME PumpInv, PipeReasoning
  PROVE  PumpInv'
PROOF
  <1>i. PumpTypes /\ Phases
    BY DEF PumpInv
  <1>c. /\ Consumed /\ reasoning # "over"
        /\ reasoning' \in {"idle", "first", "on", "failed", "over"}
        /\ UNCHANGED <<text, messages, side, msg, calls, mute>>
    BY DEF PipeReasoning, Live, Consumed, Others
  <1>p. messages = "gather" /\ msg \in Nat
    BY <1>i, <1>c DEF Phases, PumpTypes
  <1>1. PICK e : /\ e \in {Ev(n, msg) : n \in {"error"} \cup Thoughts}
                 /\ queue' \in {queue, Append(queue, e)}
                 /\ e.name = "reasoning_end" =>
                      reasoning' = "over" /\ queue' = Append(queue, e) /\ e = Ev("reasoning_end", msg)
                 /\ e.name \in {"reasoning_start", "reasoning_delta"} => reasoning' \in {"first", "on"}
                 /\ (reasoning' \in {"idle", "over"} /\ reasoning # "idle") => e.name = "reasoning_end"
    <2>1. \A n : Ev(n, msg).name = n
      BY DEF Ev
    <2>2. CASE reasoning = "idle" /\ Quiet /\ reasoning' = "over"
      <3>1. \E e : e = Ev("error", msg)
        OBVIOUS
      <3> QED BY <3>1, <2>1, <2>2 DEF Quiet, Thoughts
    <2>3. CASE reasoning = "idle" /\ Put(Ev("reasoning_start", msg)) /\ reasoning' = "first"
      BY <2>1, <2>3 DEF Put, Thoughts
    <2>4. CASE Put(Ev("reasoning_delta", msg)) /\ reasoning' = "on"
      BY <2>1, <2>4 DEF Put, Thoughts
    <2>5. CASE Put(Ev("error", msg)) /\ reasoning' = "failed"
      BY <2>1, <2>5 DEF Put, Thoughts
    <2>6. CASE Put(Ev("reasoning_end", msg)) /\ reasoning' = "over"
      BY <2>1, <2>6 DEF Put, Thoughts
    <2> QED BY <2>2, <2>3, <2>4, <2>5, <2>6 DEF PipeReasoning
  <1>2. e \in PumpEvent /\ e.name \in {"error"} \cup Thoughts /\ e.id = msg
    BY <1>1, <1>p DEF Ev, PumpEvent, Names
  <1>5. PumpTypes'
    <2>1. /\ side' \in [Side -> {"next", "on", "over"}] /\ calls' \in [Side -> Nat] /\ mute' \subseteq Nat
          /\ msg' \in Nat /\ messages' \in {"next", "gather", "put", "over"} /\ text' \in {"on", "over"}
      BY <1>i, <1>c DEF PumpTypes
    <2> QED BY <2>1, <1>c, <1>i, <1>1, <1>2, ConsumerTypes
  <1>6. Phases'
    <2>1. messages' = "gather"
      BY <1>c, <1>p
    <2> QED BY <2>1, <1>i, <1>c, ConsumerPhases
  <1>7. PutsWell(e)
    <2>1. UNCHANGED <<NextText, NextStart, NextEnd>>
      BY <1>c DEF NextText, NextStart, NextEnd
    <2>2. /\ NextText \in Nat /\ NextThought \in Nat /\ NextStart \in Nat /\ NextEnd \in Nat
          /\ NextThought = msg /\ NextThought' = (IF reasoning' = "over" THEN msg + 1 ELSE msg)
      BY <1>i, <1>c, <1>p, Numbers DEF NextThought
    <2>3. \A id : UNCHANGED <<TextOwed(id), ToolOwed(id)>>
      BY <1>c DEF TextOwed, ToolOwed
    <2>4. ASSUME NEW id, ThoughtOwed(id)
          PROVE  ThoughtOwed(id)' \/ (queue' = Append(queue, e) /\ e = Ev("reasoning_end", id))
      BY <2>4, <1>1, <1>c DEF ThoughtOwed
    <2>5. ThoughtOwed(msg)' <=> reasoning' \in {"first", "on", "failed"}
      BY <1>c DEF ThoughtOwed
    <2>6. e.name \in {"reasoning_start", "reasoning_delta"} => ThoughtOwed(e.id)'
      BY <2>5, <1>1, <1>2, <1>c DEF ThoughtOwed
    <2>7. Before(e)'
      BY <1>1, <1>2, <1>p, <2>2 DEF Before, Thoughts
    <2> QED BY <1>1, <1>2, <1>c, <1>p, <2>1, <2>2, <2>3, <2>4, <2>6, <2>7
            DEF PutsWell, Consumed, Texts, Thoughts
  <1> QED BY <1>5, <1>6, <1>7, PutStep

LEMMA OutputStep ==
  ASSUME PumpInv, Output
  PROVE  PumpInv'
PROOF
  <1>i. PumpTypes /\ Phases
    BY DEF PumpInv
  <1>c. /\ Consumed /\ messages = "gather" /\ text = "over" /\ reasoning = "over"
        /\ \/ messages' = "put" /\ mute' = mute
           \/ messages' = "next" /\ mute' = mute \cup {msg}
        /\ UNCHANGED <<queue, text, reasoning, side, msg, calls>>
    BY DEF Output, Live, Quiet, Consumed, Others
  <1>p. msg \in Nat /\ mute \subseteq Nat
    BY <1>i DEF PumpTypes
  <1>1. PICK e : e = Ev("error", msg)
    OBVIOUS
  <1>2. e \in PumpEvent /\ e.name = "error"
    BY <1>1, <1>p DEF Ev, PumpEvent, Names
  <1>5. PumpTypes'
    <2>1. /\ side' \in [Side -> {"next", "on", "over"}] /\ calls' \in [Side -> Nat]
          /\ msg' \in Nat /\ text' \in {"on", "over"}
          /\ reasoning' \in {"idle", "first", "on", "failed", "over"}
      BY <1>i, <1>c DEF PumpTypes
    <2>2. mute' \subseteq Nat /\ messages' \in {"next", "gather", "put", "over"}
      BY <1>c, <1>p
    <2> QED BY <2>1, <2>2, <1>c, <1>i, <1>2, ConsumerTypes
  <1>6. Phases'
    BY <1>i, <1>c, ConsumerPhases
  <1>7. PutsWell(e)
    <2>1. UNCHANGED <<NextThought, NextStart, NextEnd>>
      BY <1>c DEF NextThought, NextStart, NextEnd
    <2>2. /\ NextText \in Nat /\ NextThought \in Nat /\ NextStart \in Nat /\ NextEnd \in Nat
          /\ NextText = msg /\ NextText' \in {msg, msg + 1}
      BY <1>i, <1>c, Numbers DEF NextText
    <2>3. \A id : UNCHANGED <<ThoughtOwed(id), ToolOwed(id)>>
      BY <1>c DEF ThoughtOwed, ToolOwed
    <2>4. \A id : TextOwed(id) => TextOwed(id)'
      BY <1>c DEF TextOwed
    <2>5. mute \subseteq mute' /\ Before(e)'
      BY <1>c, <1>2 DEF Before
    <2> QED BY <1>2, <1>c, <1>p, <2>1, <2>2, <2>3, <2>4, <2>5 DEF PutsWell, Consumed, Texts, Thoughts
  <1> QED BY <1>5, <1>6, <1>7, PutStep

LEMMA PutMessageStep ==
  ASSUME PumpInv, PutMessage
  PROVE  PumpInv'
PROOF
  <1>i. PumpTypes /\ Phases
    BY DEF PumpInv
  <1>c. /\ Consumed /\ messages = "put" /\ messages' = "next"
        /\ UNCHANGED <<text, reasoning, side, msg, calls, mute>>
    BY DEF PutMessage, Live, Consumed, Others
  <1>p. msg \in Nat /\ text = "over" /\ reasoning = "over"
    BY <1>i, <1>c DEF Phases, PumpTypes
  <1>1. PICK e : e = Ev("message", msg)
    OBVIOUS
  <1>2. e \in PumpEvent /\ e.name = "message" /\ e.id = msg /\ queue' = Append(queue, e)
    BY <1>1, <1>p DEF Ev, PumpEvent, Names, Texts, PutMessage, Put
  <1>5. PumpTypes'
    <2>1. /\ side' \in [Side -> {"next", "on", "over"}] /\ calls' \in [Side -> Nat] /\ mute' \subseteq Nat
          /\ msg' \in Nat /\ messages' \in {"next", "gather", "put", "over"} /\ text' \in {"on", "over"}
          /\ reasoning' \in {"idle", "first", "on", "failed", "over"}
      BY <1>i, <1>c DEF PumpTypes
    <2> QED BY <2>1, <1>c, <1>i, <1>2, ConsumerTypes
  <1>6. Phases'
    BY <1>i, <1>c, <1>p, ConsumerPhases
  <1>7. PutsWell(e)
    <2>1. UNCHANGED <<NextThought, NextStart, NextEnd>>
      BY <1>c DEF NextThought, NextStart, NextEnd
    <2>2. /\ NextText \in Nat /\ NextThought \in Nat /\ NextStart \in Nat /\ NextEnd \in Nat
          /\ NextText = msg /\ NextText' = msg + 1
      BY <1>i, <1>c, Numbers DEF NextText
    <2>3. \A id : UNCHANGED <<ThoughtOwed(id), ToolOwed(id)>>
      BY <1>c DEF ThoughtOwed, ToolOwed
    <2>4. \A id : TextOwed(id) => TextOwed(id)' \/ (queue' = Append(queue, e) /\ e = Ev("message", id))
      BY <1>c, <1>1, <1>2 DEF TextOwed
    <2>5. Before(e)'
      BY <1>2, <1>p, <2>2 DEF Before
    <2> QED BY <1>2, <1>c, <1>p, <2>1, <2>2, <2>3, <2>4, <2>5 DEF PutsWell, Consumed, Thoughts
  <1> QED BY <1>5, <1>6, <1>7, PutStep

LEMMA ConsumeStep ==
  ASSUME PumpInv, NEW s \in Side, Consume(s)
  PROVE  PumpInv'
PROOF
  <1>i. PumpTypes /\ Phases
    BY DEF PumpInv
  <1>c. Consumed /\ UNCHANGED <<text, reasoning, messages, msg, mute>>
    BY DEF Consume, Live, Consumed, Others
  <1>p. /\ s = "tool" \/ s = "subagent"
        /\ side \in [Side -> {"next", "on", "over"}] /\ calls \in [Side -> Nat] /\ calls[s] \in Nat
        /\ "tool" \in Side
    BY <1>i DEF PumpTypes, Side
  <1> DEFINE Opens == /\ side[s] = "next" /\ queue' = Append(queue, Ev(Opening(s), calls[s]))
                      /\ side' = [side EXCEPT ![s] = "on"] /\ UNCHANGED calls
             Goes == /\ side[s] = "on" /\ queue' = Append(queue, Ev(Within(s), calls[s]))
                     /\ UNCHANGED <<side, calls>>
             Closes == /\ side[s] = "on" /\ queue' = Append(queue, Ev(Closing(s), calls[s]))
                       /\ side' = [side EXCEPT ![s] = "next"] /\ calls' = [calls EXCEPT ![s] = @ + 1]
             Ends == /\ side[s] = "next" /\ queue' \in {queue, Append(queue, Ev("error", 0))}
                     /\ side' = [side EXCEPT ![s] = "over"] /\ UNCHANGED calls
  <1>1. Opens \/ Goes \/ Closes \/ Ends
    BY DEF Consume, Put, Quiet
  <1>2. PICK e : /\ queue' \in {queue, Append(queue, e)}
                 /\ Opens => e = Ev(Opening(s), calls[s])
                 /\ Goes => e = Ev(Within(s), calls[s])
                 /\ Closes => e = Ev(Closing(s), calls[s])
                 /\ Ends => e = Ev("error", 0)
    <2>1. CASE Opens
      <3>1. ~Goes /\ ~Closes /\ (Ends => FALSE)
        <4>1. side'[s] = "on"
          BY <2>1, <1>p
        <4> QED BY <4>1, <2>1, <1>p
      <3> QED BY <3>1, <2>1
    <2>2. CASE Goes
      <3>1. ~Opens /\ ~Closes /\ ~Ends
        <4>1. side'[s] = "on"
          BY <2>2, <1>p
        <4> QED BY <4>1, <2>2, <1>p
      <3> QED BY <3>1, <2>2
    <2>3. CASE Closes
      <3>1. ~Opens /\ ~Goes /\ ~Ends
        <4>1. side'[s] = "next"
          BY <2>3, <1>p
        <4> QED BY <4>1, <2>3, <1>p
      <3> QED BY <3>1, <2>3
    <2>4. CASE Ends
      <3>1. ~Opens /\ ~Goes /\ ~Closes
        <4>1. side'[s] = "over"
          BY <2>4, <1>p
        <4> QED BY <4>1, <2>4, <1>p
      <3> QED BY <3>1, <2>4
    <2> QED BY <1>1, <2>1, <2>2, <2>3, <2>4
  <1>3. /\ e \in PumpEvent
        /\ e.name \in {"error", "tool_start", "tool_delta", "tool_end", "subagent", "subagent_delta"}
    BY <1>1, <1>2, <1>p DEF Ev, Opening, Within, Closing, PumpEvent, Names
  <1>4. side' \in [Side -> {"next", "on", "over"}] /\ calls' \in [Side -> Nat]
    <2>1. calls[s] + 1 \in Nat
      BY <1>p
    <2> QED BY <1>1, <1>p, <2>1
  <1>5. PumpTypes'
    <2>1. /\ mute' \subseteq Nat /\ msg' \in Nat /\ messages' \in {"next", "gather", "put", "over"}
          /\ text' \in {"on", "over"} /\ reasoning' \in {"idle", "first", "on", "failed", "over"}
      BY <1>i, <1>c DEF PumpTypes
    <2> QED BY <2>1, <1>c, <1>i, <1>2, <1>3, <1>4, ConsumerTypes
  <1>6. Phases'
    <2>1. text' = "on" \/ reasoning' # "over" => messages' = "gather"
      BY <1>i, <1>c DEF Phases
    <2> QED BY <2>1, <1>i, <1>c, ConsumerPhases
  \* What the step does to the tools' consumer.
  <1>7. \/ UNCHANGED <<side["tool"], calls["tool"]>> /\ e.name \notin {"tool_start", "tool_end"}
        \/ /\ side["tool"] = "next" /\ side'["tool"] = "on" /\ calls'["tool"] = calls["tool"]
           /\ e = Ev("tool_start", calls["tool"]) /\ queue' = Append(queue, e)
        \/ /\ side["tool"] = "on" /\ side'["tool"] = "next" /\ calls'["tool"] = calls["tool"] + 1
           /\ e = Ev("tool_end", calls["tool"]) /\ queue' = Append(queue, e)
        \/ /\ side["tool"] = "next" /\ side'["tool"] = "over" /\ calls'["tool"] = calls["tool"]
           /\ e.name = "error"
    <2>1. CASE s = "subagent"
      <3>1. UNCHANGED <<side["tool"], calls["tool"]>>
        BY <1>1, <1>p, <2>1
      <3>2. e.name \notin {"tool_start", "tool_end"}
        BY <1>1, <1>2, <2>1 DEF Ev, Opening, Within, Closing
      <3> QED BY <3>1, <3>2
    <2>2. CASE s = "tool"
      <3>1. CASE Opens
        BY <1>2, <1>p, <2>2, <3>1 DEF Opening
      <3>2. CASE Goes
        <4>1. e.name = "tool_delta"
          BY <1>2, <2>2, <3>2 DEF Ev, Within
        <4> QED BY <4>1, <3>2
      <3>3. CASE Closes
        BY <1>2, <1>p, <2>2, <3>3 DEF Closing
      <3>4. CASE Ends
        <4>1. e.name = "error"
          BY <1>2, <3>4 DEF Ev
        <4> QED BY <4>1, <1>p, <2>2, <3>4
      <3> QED BY <1>1, <3>1, <3>2, <3>3, <3>4
    <2> QED BY <1>p, <2>1, <2>2
  <1> HIDE DEF Opens, Goes, Closes, Ends
  <1>8. PutsWell(e)
    <2>1. UNCHANGED <<NextText, NextThought>>
      BY <1>c DEF NextText, NextThought
    <2>2. NextText \in Nat /\ NextThought \in Nat
      BY <1>i, Numbers
    <2>3. \A id : UNCHANGED <<TextOwed(id), ThoughtOwed(id)>>
      BY <1>c DEF TextOwed, ThoughtOwed
    <2>4. PICK n \in Nat : n = calls["tool"]
      BY <1>p
    <2>5. PICK x : x = side["tool"]
      OBVIOUS
    <2>6. \A id : ToolOwed(id) <=> id = n /\ x = "on"
      BY <2>4, <2>5 DEF ToolOwed
    <2>7. \A id : ToolOwed(id)' <=> id = calls'["tool"] /\ side'["tool"] = "on"
      BY DEF ToolOwed
    <2>8. /\ NextStart = (IF x = "on" THEN n + 1 ELSE n) /\ NextEnd = n
          /\ NextStart' = (IF side'["tool"] = "on" THEN calls'["tool"] + 1 ELSE calls'["tool"])
          /\ NextEnd' = calls'["tool"]
      BY <2>4, <2>5 DEF NextStart, NextEnd
    <2>9. /\ e.name = "tool_start" => e.id = n
          /\ e.name = "tool_end" => e.id = n
      BY <1>7, <2>4 DEF Ev
    <2>10. /\ NextStart <= NextStart' /\ NextEnd <= NextEnd'
           /\ e.name = "tool_start" => NextStart <= e.id /\ e.id < NextStart' 
           /\ e.name = "tool_end" => NextEnd <= e.id /\ e.id < NextEnd'
      <3>1. \A id : Ev("tool_start", id).name = "tool_start" /\ Ev("tool_end", id).name = "tool_end"
        BY DEF Ev
      <3> QED BY <1>7, <2>4, <2>5, <2>8, <2>9, <3>1
    <2>11. Before(e)'
      BY <1>3, <2>10 DEF Before
    <2>12. e.name = "tool_end" => side["tool"] = "on" /\ e.id = calls["tool"]
      <3>1. \A id : Ev("tool_start", id).name = "tool_start"
        BY DEF Ev
      <3> QED BY <1>7, <2>4, <2>9, <3>1
    <2>13. (producer' = "running" /\ side'["tool"] = "on") =>
             \/ side["tool"] = "on" /\ calls'["tool"] = calls["tool"]
             \/ queue' = Append(queue, e) /\ e = Ev("tool_start", calls'["tool"])
      BY <1>7
    <2>14. \A id \in Nat : ToolOwed(id) =>
             ToolOwed(id)' \/ (queue' = Append(queue, e) /\ e = Ev("tool_end", id))
      BY <1>7, <2>4, <2>5, <2>6, <2>7
    <2>15. e.name = "tool_start" => ToolOwed(e.id)'
      <3>1. e.name = "tool_start" => side'["tool"] = "on" /\ e.id = calls'["tool"]
        BY <1>7, <2>4, <2>9 DEF Ev
      <3> QED BY <3>1 DEF ToolOwed
    <2> QED BY <1>2, <1>3, <1>c, <2>1, <2>2, <2>3, <2>10, <2>11, <2>12, <2>13, <2>14, <2>15
            DEF PutsWell, Consumed, Texts, Thoughts
  <1> QED BY <1>5, <1>6, <1>8, PutStep

LEMMA DrainStep ==
  ASSUME PumpInv, Drain
  PROVE  PumpInv'
PROOF
  <1>i. PumpTypes /\ Phases
    BY DEF PumpInv
  <1>c. /\ producer = "running" /\ producer' = "drained" /\ AllOver
        /\ queue' = Append(queue, Sentinel)
        /\ UNCHANGED <<text, reasoning, messages, side, msg, calls, pump, stop, sdk, view, lost, mute>>
    BY DEF Drain, Live, Put, consumers
  <1>1. Sentinel \in PumpEvent /\ Sentinel.name = "none"
    BY DEF Sentinel, PumpEvent, Names
  <1>2. PumpTypes'
    <2>1. queue' \in Seq(PumpEvent)
      BY <1>i, <1>c, <1>1, QueuePut DEF PumpTypes
    <2> QED BY <2>1, <1>i, <1>c DEF PumpTypes
  <1>3. Phases'
    BY <1>i, <1>c DEF Phases, AllOver
  <1>4. PutsWell(Sentinel)
    <2>1. UNCHANGED <<NextText, NextThought, NextStart, NextEnd>>
      BY <1>c DEF NextText, NextThought, NextStart, NextEnd
    <2>2. NextText \in Nat /\ NextThought \in Nat /\ NextStart \in Nat /\ NextEnd \in Nat
      BY <1>i, Numbers
    <2>3. \A id : UNCHANGED <<TextOwed(id), ThoughtOwed(id), ToolOwed(id)>>
      BY <1>c DEF TextOwed, ThoughtOwed, ToolOwed
    <2>4. Before(Sentinel)'
      BY <1>1, <1>c DEF Before, Sentinel
    <2> QED BY <1>1, <1>c, <2>1, <2>2, <2>3, <2>4 DEF PutsWell, Texts, Thoughts
  <1> QED BY <1>2, <1>3, <1>4, PutStep

LEMMA PumpStarts == PumpInit => PumpInv
PROOF
  <1> SUFFICES ASSUME PumpInit
               PROVE  PumpInv
    OBVIOUS
  <1>1. queue = <<>> /\ Len(queue) = 0 /\ queue \in Seq(PumpEvent)
    BY DEF PumpInit
  <1>2. PumpTypes
    BY <1>1 DEF PumpInit, PumpTypes, Side, FreshTranslator, FreshClient, Translator, Viewer
  <1>3. Phases
    BY DEF PumpInit, Phases, FreshTranslator, FreshClient
  <1>4. Ordered /\ Started
    BY <1>1 DEF PumpInit, Ordered, Started, Side
  <1>5. sdk.text = {} /\ sdk.reasoning = {} /\ view.open = {} /\ view.shut = {}
    BY DEF PumpInit, FreshTranslator, FreshClient
  <1>6. Placed
    BY <1>5 DEF Placed, PlacedAt
  <1>7. Owed
    BY <1>1, <1>5 DEF Owed
  <1>8. PartsAreWellFormed /\ FinishLeavesNothingOpen
    BY DEF PumpInit, FreshClient, PartsAreWellFormed, FinishLeavesNothingOpen
  <1> QED BY <1>2, <1>3, <1>4, <1>6, <1>7, <1>8 DEF PumpInv

LEMMA PumpInvariance == PumpSpec => []PumpInv
PROOF
  <1>1. ASSUME PumpInv, [PumpNext]_pumpVars
        PROVE  PumpInv'
    <2>1. CASE Consumer
      <3>1. CASE \E s \in Side : Consume(s)
        BY <1>1, <3>1, ConsumeStep
      <3> QED BY <1>1, <2>1, <3>1, NextMessageStep, PipeStep, PipeReasoningStep, OutputStep,
                 PutMessageStep DEF Consumer
    <2>2. CASE Drain
      BY <1>1, <2>2, DrainStep
    <2>3. CASE Cancel
      BY <1>1, <2>3, CancelStep
    <2>4. CASE Pump
      BY <1>1, <2>4, PumpStep
    <2>5. CASE Finish
      BY <1>1, <2>5, FinishStep
    <2>6. CASE UNCHANGED pumpVars
      <3>1. UNCHANGED <<queue, text, reasoning, messages, side, msg, calls, producer, pump, stop, sdk,
                        view, lost, mute>>
        BY <2>6 DEF pumpVars, consumers
      <3>2. UNCHANGED <<NextText, NextThought, NextStart, NextEnd>>
        BY <3>1 DEF NextText, NextThought, NextStart, NextEnd
      <3>3. PumpTypes' /\ Phases'
        BY <1>1, <3>1 DEF PumpInv, PumpTypes, Phases, AllOver
      <3>4. Ordered' /\ Placed' /\ Started'
        BY <1>1, <3>1, <3>2 DEF PumpInv, Ordered, Before, Placed, PlacedAt, Past, Started, Sooner
      <3>5. Owed'
        BY <1>1, <3>1 DEF PumpInv, Owed, Clean, TextDue, ThoughtDue, ToolDue, TextOwed, ThoughtOwed,
                          ToolOwed, Later
      <3>6. PartsAreWellFormed' /\ FinishLeavesNothingOpen'
        BY <1>1, <3>1 DEF PumpInv, PartsAreWellFormed, FinishLeavesNothingOpen
      <3> QED BY <3>3, <3>4, <3>5, <3>6 DEF PumpInv
    <2> QED BY <1>1, <2>1, <2>2, <2>3, <2>4, <2>5, <2>6 DEF PumpNext
  <1> QED BY <1>1, PumpStarts, PTL DEF PumpSpec

\* Whatever reached a client and whatever was lost on the way, no text or reasoning
\* chunk came outside its part and nothing came after the ending; what may be missing
\* its input is a tool's output, and only after a loss.
THEOREM PartsTheorem == PumpSpec => []PartsAreWellFormed
PROOF
  <1>1. PumpInv => PartsAreWellFormed
    BY DEF PumpInv
  <1> QED BY <1>1, PumpInvariance, PTL

\* A client that lost nothing and is told of a finished run has every part closed, but
\* for the text of a message whose output could not be read.
THEOREM FinishTheorem == PumpSpec => []FinishLeavesNothingOpen
PROOF
  <1>1. PumpInv => FinishLeavesNothingOpen
    BY DEF PumpInv
  <1> QED BY <1>1, PumpInvariance, PTL
=============================================================================
