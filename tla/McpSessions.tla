----------------------------- MODULE McpSessions -----------------------------
(***************************************************************************)
(* The proxied tool calls of one user to one tool server                   *)
(* (services/mcp.py, behind POST /mcp/tools/call): the MCPServers          *)
(* instances of MCPRegistry, each with a session that is opened at first   *)
(* use, shared by all calls and held open by a task of its own until that  *)
(* is told to close; and the requests that change the server or reconnect  *)
(* (api/v1/endpoints/mcp.py).  An action is what one task does between two *)
(* awaits.  The tools that agents get are AgentRegistry's.                 *)
(***************************************************************************)
EXTENDS Naturals, FiniteSets

CONSTANTS
  McpSlot,       \* the requests that may be in flight at once
  MaxInstances,  \* bound: instances in all
  MaxSessions,   \* bound: sessions in all
  MaxMutations   \* bound: changes and reconnections of the server

Nobody == "nobody"

ASSUME McpAssumption ==
  /\ Nobody \notin McpSlot
  /\ {MaxInstances, MaxSessions, MaxMutations} \subseteq Nat

Instance == 1..MaxInstances
Session  == 1..MaxSessions

VARIABLES
  server,   \* the stored config of the server, by the number of its change
  current,  \* _instances: the user's instance, 0 for none
  made,     \* the instances made so far
  conf,     \* _config of each instance, 0 when it has none
  cached,   \* _sessions of each instance
  owner,    \* _owners and _close_events of each instance
  lock,     \* _session_lock of each instance: who holds it
  sess,     \* each session's task: where it is, its config and instance, if it was told
  call,     \* the request in each slot
  mutations,
  slipped   \* history: sessions that were being opened when the sessions of their
            \* instance were closed, or that were opened by an instance dropped before

mcpVars == <<server, current, made, conf, cached, owner, lock, sess, call, mutations, slipped>>

NoCall == [at |-> "idle", inst |-> 0, sess |-> 0, then |-> "idle"]
NoSession == [at |-> "unborn", rev |-> 0, inst |-> 0, told |-> FALSE]

McpInit ==
  /\ server = 1 /\ current = 0 /\ made = 0
  /\ conf = [i \in Instance |-> 0]
  /\ cached = [i \in Instance |-> 0]
  /\ owner = [i \in Instance |-> 0]
  /\ lock = [i \in Instance |-> Nobody]
  /\ sess = [k \in Session |-> NoSession]
  /\ call = [c \in McpSlot |-> NoCall]
  /\ mutations = 0 /\ slipped = {}

Become(c, r) == call' = [call EXCEPT ![c] = r]
Turn(c, at) == Become(c, [call[c] EXCEPT !.at = at])

\* _close_session: forget the session and its task, tell the task, and await it.
CloseSession(c, i, then) ==
  /\ cached' = [cached EXCEPT ![i] = 0]
  /\ owner' = [owner EXCEPT ![i] = 0]
  /\ sess' = [k \in Session |-> [sess[k] EXCEPT !.told = @ \/ owner[i] = k]]
  /\ Become(c, [call[c] EXCEPT !.at = "await", !.inst = i, !.sess = owner[i], !.then = then])

\* _close_all_sessions closes what is in _sessions: not a session being opened.
CloseAllSessions(c, i, then) ==
  /\ slipped' = slipped \cup {k \in Session : k = owner[i] /\ cached[i] = 0}
  /\ IF cached[i] # 0 THEN CloseSession(c, i, then)
     ELSE Become(c, [call[c] EXCEPT !.at = then, !.inst = i]) /\ UNCHANGED <<cached, owner, sess>>

AwaitClosed(c) ==
  /\ call[c].at = "await"
  /\ call[c].sess # 0 => sess[call[c].sess].at \in {"closed", "failed"}
  /\ IF call[c].then = "idle" THEN Become(c, NoCall) ELSE Turn(c, call[c].then)
  /\ UNCHANGED <<server, current, made, conf, cached, owner, lock, sess, mutations, slipped>>

-----------------------------------------------------------------------------
(* MCPRegistry.                                                               *)

\* get: the user's instance, made at first use.
GetInstance(i) ==
  \/ current # 0 /\ i = current /\ UNCHANGED <<current, made>>
  \/ current = 0 /\ made < MaxInstances /\ i = made + 1 /\ current' = i /\ made' = i

\* A call; an instance that was never connected is connected first.
BeginCall(c) == \E i \in Instance :
  /\ call[c].at = "idle" /\ GetInstance(i)
  /\ Become(c, [NoCall EXCEPT !.inst = i, !.then = "get",
                              !.at = IF conf[i] = 0 THEN "load" ELSE "get"])
  /\ UNCHANGED <<server, conf, cached, owner, lock, sess, mutations, slipped>>

\* POST /mcp/servers/reconnect.
Reconnect(c) == \E i \in Instance :
  /\ call[c].at = "idle" /\ GetInstance(i)
  /\ mutations < MaxMutations /\ mutations' = mutations + 1
  /\ Become(c, [NoCall EXCEPT !.inst = i, !.at = "load"])
  /\ UNCHANGED <<server, conf, cached, owner, lock, sess, slipped>>

\* connect, once the stored config was loaded: cached sessions are of the old one.
Connect(c) ==
  /\ call[c].at = "load"
  /\ conf' = [conf EXCEPT ![call[c].inst] = server]
  /\ CloseAllSessions(c, call[c].inst, call[c].then)
  /\ UNCHANGED <<server, current, made, lock, mutations>>

\* POST, PUT and DELETE of a server store it, then drop the instance.
ChangeServer(c) ==
  /\ call[c].at = "idle"
  /\ mutations < MaxMutations /\ mutations' = mutations + 1
  /\ server' = server + 1
  /\ Become(c, [NoCall EXCEPT !.at = "drop"])
  /\ UNCHANGED <<current, made, conf, cached, owner, lock, sess, slipped>>

\* invalidate and close: the config goes last, when the session has ended.
DropInstance(c) ==
  /\ call[c].at = "drop"
  /\ current' = 0
  /\ IF current # 0 THEN CloseAllSessions(c, current, "unset")
     ELSE Become(c, NoCall) /\ UNCHANGED <<cached, owner, sess, slipped>>
  /\ UNCHANGED <<server, made, conf, lock, mutations>>

UnsetConfig(c) ==
  /\ call[c].at = "unset"
  /\ conf' = [conf EXCEPT ![call[c].inst] = 0]
  /\ Become(c, NoCall)
  /\ UNCHANGED <<server, current, made, cached, owner, lock, sess, mutations, slipped>>

-----------------------------------------------------------------------------
(* _get_session and the owner task.                                           *)

ReleaseLock(i) == lock' = [lock EXCEPT ![i] = Nobody]
Calling(c, k) == Become(c, [call[c] EXCEPT !.at = "calling", !.sess = k])

\* The look at _sessions without the lock.  Other servers may have been asked since
\* the call began.
LookUpSession(c) ==
  /\ call[c].at = "get"
  /\ IF cached[call[c].inst] # 0 THEN Calling(c, cached[call[c].inst]) ELSE Turn(c, "lock")
  /\ UNCHANGED <<server, current, made, conf, cached, owner, lock, sess, mutations, slipped>>

\* The task is made and registered; `ready` is awaited with the lock held.
OpenSession(c) ==
  LET i == call[c].inst IN
  \E k \in Session :
    /\ sess[k] = NoSession /\ \A j \in Session : j < k => sess[j] # NoSession
    /\ sess' = [sess EXCEPT ![k] = [at |-> "opening", rev |-> conf[i], inst |-> i, told |-> FALSE]]
    /\ owner' = [owner EXCEPT ![i] = k]
    /\ lock' = [lock EXCEPT ![i] = c]
    /\ slipped' = IF i = current THEN slipped ELSE slipped \cup {k}
    /\ Become(c, [call[c] EXCEPT !.at = "opening", !.sess = k])
    /\ UNCHANGED cached

\* A mutant of TakeLock: _sessions is not looked at again under the lock.
TakeLockOnly(c) ==
  /\ call[c].at = "lock" /\ lock[call[c].inst] = Nobody
  /\ \/ /\ conf[call[c].inst] = 0
        /\ CloseSession(c, call[c].inst, "idle") /\ UNCHANGED <<lock, slipped>>
     \/ conf[call[c].inst] # 0 /\ OpenSession(c)
  /\ UNCHANGED <<server, current, made, conf, mutations>>

\* Under the lock _sessions is looked at again.  A server that is unknown by now is a
\* failed call like any other: call_tool closes what is registered, and answers 502.
TakeLock(c) ==
  /\ call[c].at = "lock" /\ lock[call[c].inst] = Nobody
  /\ \/ /\ cached[call[c].inst] # 0 /\ Calling(c, cached[call[c].inst])
        /\ UNCHANGED <<cached, owner, lock, sess, slipped>>
     \/ /\ cached[call[c].inst] = 0 /\ conf[call[c].inst] = 0
        /\ CloseSession(c, call[c].inst, "idle") /\ UNCHANGED <<lock, slipped>>
     \/ cached[call[c].inst] = 0 /\ conf[call[c].inst] # 0 /\ OpenSession(c)
  /\ UNCHANGED <<server, current, made, conf, mutations>>

\* _session_owner: the transport comes up, or does not; told, it leaves.
RunOwner(k) ==
  /\ \/ sess[k].at = "opening" /\ sess' = [sess EXCEPT ![k].at = "up"]
     \/ sess[k].at = "opening" /\ sess' = [sess EXCEPT ![k].at = "failed"]
     \/ sess[k].at = "up" /\ sess[k].told /\ sess' = [sess EXCEPT ![k].at = "closed"]
  /\ UNCHANGED <<server, current, made, conf, cached, owner, lock, call, mutations, slipped>>

\* `ready` has a result, even if the task was told to close meanwhile.
Opened(c) ==
  /\ call[c].at = "opening" /\ sess[call[c].sess].at \in {"up", "closed"}
  /\ cached' = [cached EXCEPT ![call[c].inst] = call[c].sess]
  /\ ReleaseLock(call[c].inst)
  /\ Calling(c, call[c].sess)
  /\ UNCHANGED <<server, current, made, conf, owner, sess, mutations, slipped>>

\* call_tool closes whatever the name stands for when the lock has been released.
GiveUp(c) == ReleaseLock(call[c].inst) /\ CloseSession(c, call[c].inst, "idle")

\* `ready` has an exception.  If the task is not done, _get_session closes the session
\* under the lock before call_tool does without it.
OpenFails(c) ==
  /\ call[c].at = "opening" /\ sess[call[c].sess].at = "failed"
  /\ \/ GiveUp(c)
     \/ CloseSession(c, call[c].inst, "refuse") /\ UNCHANGED lock
  /\ UNCHANGED <<server, current, made, conf, mutations, slipped>>

Refuse(c) ==
  /\ call[c].at = "refuse" /\ GiveUp(c)
  /\ UNCHANGED <<server, current, made, conf, mutations, slipped>>

\* The client has gone: a cancellation is no failure that call_tool sees, so a task
\* that is done stays registered.
Abandon(c) ==
  /\ call[c].at = "opening"
  /\ \/ CloseSession(c, call[c].inst, "unlock") /\ UNCHANGED lock
     \/ /\ sess[call[c].sess].at = "failed"
        /\ ReleaseLock(call[c].inst) /\ Become(c, NoCall)
        /\ UNCHANGED <<cached, owner, sess>>
  /\ UNCHANGED <<server, current, made, conf, mutations, slipped>>

Unlock(c) ==
  /\ call[c].at = "unlock" /\ ReleaseLock(call[c].inst)
  /\ Become(c, NoCall)
  /\ UNCHANGED <<server, current, made, conf, cached, owner, sess, mutations, slipped>>

\* session.call_tool: an answer, with or without the tool; or a failure, which closes
\* the session that the name stands for by now.
CallTool(c) ==
  /\ call[c].at = "calling"
  /\ \/ sess[call[c].sess].at = "up" /\ Become(c, NoCall) /\ UNCHANGED <<cached, owner, sess>>
     \/ CloseSession(c, call[c].inst, "idle")
  /\ UNCHANGED <<server, current, made, conf, lock, mutations, slipped>>

McpNext ==
  \/ \E k \in Session : RunOwner(k)
  \/ \E c \in McpSlot :
       \/ BeginCall(c) \/ Reconnect(c) \/ Connect(c) \/ ChangeServer(c) \/ DropInstance(c)
       \/ UnsetConfig(c) \/ LookUpSession(c) \/ TakeLock(c) \/ Opened(c) \/ OpenFails(c)
       \/ Refuse(c) \/ Abandon(c) \/ Unlock(c) \/ CallTool(c) \/ AwaitClosed(c)

McpSpec == McpInit /\ [][McpNext]_mcpVars

-----------------------------------------------------------------------------
\* No session (a subprocess or a connection) is left to nobody: while it runs and was
\* not told to close, it is the one that closing its server in the user's instance
\* would reach; and it was opened with the config that the instance has.  Only a
\* session being opened while all are closed, or opened for an instance that was
\* dropped, gets away (services/mcp.py:267-284, 323-336).
NoSessionIsLost == \A k \in Session \ slipped :
  sess[k].at \in {"opening", "up"} /\ ~sess[k].told =>
    /\ sess[k].inst = current /\ owner[current] = k
    /\ sess[k].rev = conf[current]
=============================================================================
