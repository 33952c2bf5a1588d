----------------------------- MODULE AgentLinks -----------------------------
(***************************************************************************)
(* Which agent link serves which session (hub/slots.rs: on_agent, on_hook, *)
(* agent_session, heir, rebind, follow_pid; hub/registry.rs:               *)
(* agent_connected, agent_disconnected).  The agent of a claude process    *)
(* registers over TCP with the session id of its environment, which is     *)
(* stale after a /clear, and what it sends races the hook posts of that    *)
(* process: they reach the actor through another channel.                  *)
(*                                                                         *)
(* The actor's handlers, on top of the registry's.  Who calls them, in     *)
(* what order, is Device's.                                                *)
(***************************************************************************)
EXTENDS SessionSlots, FiniteSetsExt

CONSTANT MaxConns   (* links one hub accepts here; their ids only grow      *)

ASSUME MaxConnsAssumption == MaxConns \in Nat

Conn == 1 .. MaxConns

Bound ==
  [ open : BOOLEAN, session : Session \union {None}, host : Host \union {None},
    pid : Pid \union {None}, leaving : BOOLEAN ]

Closed ==
  [ open |-> FALSE, session |-> None, host |-> None, pid |-> None,
    leaving |-> FALSE ]

VARIABLES
  conns,     (* Slots::conns                                                *)
  agent,     (* SessionEntry::agent, 0 for none                             *)
  pending    (* Slots::pending, 0 for none                                  *)

linkVars == <<conns, agent, pending>>

LinkTypeOK ==
  /\ conns \in [Conn -> Bound]
  /\ agent \in [Session -> 0 .. MaxConns]
  /\ pending \in [Session -> 0 .. MaxConns]
  /\ \A c \in Conn : conns[c].open \/ conns[c] = Closed

NoLinks ==
  /\ conns = [c \in Conn |-> Closed]
  /\ agent = [s \in Session |-> 0]
  /\ pending = [s \in Session |-> 0]

----------------------------------------------------------------------------
(* agent_connected: an unknown session or a nested run is not bound.       *)
Binds(se, s) == se[s].known /\ se[s].kind = "top"

LiveSessionOfPid(se, pi, h, q) ==
  LET s == pi[<<h, q>>] IN
  IF s # None /\ LiveTop(se, s) THEN s ELSE None

(* The env session, unless it is over and the process runs a newer one.    *)
AgentSession(s, h, q) ==
  LET current == IF q = None THEN None
                 ELSE LiveSessionOfPid(sessions, pids, h, q)
  IN IF ~LiveTop(sessions, s) /\ current # None THEN current ELSE s

(* AgentEvent::Registered.                                                 *)
AgentRegistered(c, s, h, q) ==
  LET own == AgentSession(s, h, q) IN
  /\ conns' = [conns EXCEPT ![c] = [ open |-> TRUE, session |-> own, host |-> h,
                                     pid |-> q, leaving |-> FALSE ]]
  /\ IF Binds(sessions, own)
     THEN agent' = [agent EXCEPT ![own] = c] /\ UNCHANGED pending
     ELSE pending' = [pending EXCEPT ![own] = c] /\ UNCHANGED agent
  /\ UNCHANGED vars

(* The newest link of the session's own run that is not leaving.           *)
Heir(cs, s) ==
  LET run == IF sessions[s].known THEN sessions[s].pid ELSE None
      heirs == { c \in Conn : /\ cs[c].open /\ ~cs[c].leaving
                              /\ cs[c].session = s
                              /\ run = None \/ cs[c].pid = run }
  IN IF heirs = {} THEN 0 ELSE Max(heirs)

LinkGone(c) == [conns EXCEPT ![c] = Closed]

(* AgentEvent::Disconnected, with rebind.                                  *)
AgentDisconnected(c) ==
  LET s   == conns[c].session
      cs  == LinkGone(c)
      was == sessions[s].known /\ agent[s] = c
      next == IF LiveTop(sessions, s) THEN Heir(cs, s) ELSE 0
  IN /\ conns[c].open
     /\ conns' = cs
     /\ pending' = IF pending[s] = c
                   THEN [pending EXCEPT ![s] = Heir(cs, s)] ELSE pending
     /\ agent' = IF was THEN [agent EXCEPT ![s] = next] ELSE agent
     /\ UNCHANGED vars

(* Mutant of Left: the session the link leaves keeps it.                   *)
LeftBehind(m, s, c) == m

(* agent_disconnected: only what names this link is cleared.               *)
Left(m, s, c) == IF m[s] = c THEN [m EXCEPT ![s] = 0] ELSE m

(* Mutant of Movers: whatever process the link is of.                      *)
MoversOfHost(h, q, t) ==
  { c \in Conn : /\ conns[c].open /\ ~conns[c].leaving
                 /\ conns[c].host = h /\ conns[c].session # t }

(* follow_pid: the newest link of the process moves to the session it runs *)
(* now.                                                                    *)
Movers(h, q, t) ==
  { c \in Conn : /\ conns[c].open /\ ~conns[c].leaving
                 /\ conns[c].host = h /\ conns[c].pid = q
                 /\ conns[c].session # t }

FollowPid(h, q, ag, pe) ==
  LET t == IF q = None THEN None ELSE LiveSessionOfPid(sessions', pids', h, q) IN
  IF t = None \/ Movers(h, q, t) = {}
  THEN agent' = ag /\ pending' = pe /\ UNCHANGED conns
  ELSE LET c   == Max(Movers(h, q, t))
           old == conns[c].session
       IN /\ conns' = [conns EXCEPT ![c].session = t]
          /\ agent' = [Left(ag, old, c) EXCEPT ![t] = c]
          /\ pending' = Left(pe, old, c)

(* A link that waited for its session's first post is bound by it.         *)
Waited(s) == sessions'[s].known /\ pending[s] # 0

(* Mutant of AgentsAfter: the waiting link is dropped.                     *)
AgentsDropped(s, ag) == ag

AgentsAfter(s, ag) ==
  IF Waited(s) /\ sessions'[s].kind = "top"
  THEN [ag EXCEPT ![s] = pending[s]] ELSE ag

PendingAfter(s) == IF Waited(s) THEN [pending EXCEPT ![s] = 0] ELSE pending

(* The reap unbinds the sessions it ends; a forgotten entry is gone.       *)
AgentsLeft(p) ==
  [ s \in Session |->
      IF s \in Reaped(p) \/ ~sessions'[s].known THEN 0 ELSE agent[s] ]

(* on_hook of a SessionStart.                                              *)
HookStart(p) ==
  /\ StartRouted(p) \/ StartNested(p) \/ StartTopLevel(p)
  /\ FollowPid(p.host, p.pid, AgentsAfter(p.session, AgentsLeft(p)),
               PendingAfter(p.session))

(* on_hook of a SessionEnd: the run's agent goes with it.                  *)
HookEnd(p) ==
  /\ \/ /\ EndIgnored(p)
        /\ agent' = AgentsAfter(p.session, AgentsLeft(p))
     \/ /\ EndSession(p)
        /\ agent' = AgentsAfter(p.session, [AgentsLeft(p) EXCEPT ![p.session] = 0])
  /\ pending' = PendingAfter(p.session)
  /\ UNCHANGED conns

(* Frames carry the session their link was bound to when they were read;   *)
(* s is that session.  An update answer that announces a reload or a       *)
(* restart unbinds the agent, any other binds a leaving one back.          *)
AgentLeaves(c, s) ==
  /\ conns[c].open
  /\ conns' = [conns EXCEPT ![c].leaving = TRUE]
  /\ agent' = Left(agent, s, c)
  /\ UNCHANGED <<vars, pending>>

AgentStays(c, s) ==
  /\ conns[c].open
  /\ conns' = [conns EXCEPT ![c].leaving = FALSE]
  /\ agent' = IF conns[c].leaving /\ Binds(sessions, s)
              THEN [agent EXCEPT ![s] = c] ELSE agent
  /\ UNCHANGED <<vars, pending>>

(* A restart closes every link.                                            *)
HubRestart ==
  /\ Restart
  /\ conns' = [c \in Conn |-> Closed]
  /\ agent' = [s \in Session |-> 0]
  /\ pending' = [s \in Session |-> 0]

----------------------------------------------------------------------------
(* A session is served by an open link that is bound to it (TASK-042).     *)
BoundIsOwn ==
  \A s \in Session : agent[s] # 0 =>
    conns[agent[s]].open /\ conns[agent[s]].session = s

(* A link waits under its own session only, and a top-level session the    *)
(* registry knows has no link waiting for its start.                       *)
PendingIsOwn ==
  \A s \in Session : pending[s] # 0 =>
    /\ conns[pending[s]].open /\ conns[pending[s]].session = s
    /\ ~Binds(sessions, s)

(* No link serves, or waits to serve, a session that is not its own, so no *)
(* message of its topic goes to another session's process (TASK-013).      *)
LinksOwn == BoundIsOwn /\ PendingIsOwn
=============================================================================
