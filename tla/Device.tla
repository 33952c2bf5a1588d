------------------------------- MODULE Device -------------------------------
(***************************************************************************)
(* One device and the hub: claude processes that start, /clear, resume,    *)
(* exit or are killed; the hook posts each of these leaves (hook.rs), sent *)
(* at once or kept in the spool and replayed (spool.rs); the agent of each *)
(* process with its link (agent.rs, hub/ingress.rs).  Posts and link       *)
(* events reach the hub through two channels, in any order.                *)
(*                                                                         *)
(* Posts of one session arrive in order: Claude Code waits for a hook      *)
(* before the session's next one, and a hook first sends what the spool    *)
(* kept of its session.  Posts of different sessions do not.               *)
(***************************************************************************)
EXTENDS AgentLinks

CONSTANTS
  Device,       (* the device's name                                        *)
  Place,        (* the folder its processes run in                          *)
  MaxPosts,     (* posts of a session under way                             *)
  Situations    (* what a run leaves open, see Situation                    *)

(* A session that a live process left is resumed; agents are asked to      *)
(* reload or restart; the hub may stop and start over its file; answers to *)
(* registrations are lost; sessions are compacted.                         *)
Situation ==
  SUBSET {"resume left", "updates", "hub stops", "answers lost", "compacts"}

ASSUME DeviceAssumption ==
  /\ Device \in Host /\ Place \in Folder
  /\ MaxPosts \in Nat \ {0}
  /\ Situations \subseteq Situation

VARIABLES
  procs,    (* what each process runs: its session and its agent's env one  *)
  posts,    (* hook posts of each session, not at the hub yet               *)
  links,    (* the link of each process's agent, 0 for none                 *)
  answers,  (* per link: the session an update answer was read under        *)
  used,     (* pids, sessions and links used so far, and links that lost    *)
            (* their session by the post of another one                     *)
  unsaid,   (* links whose end the hub is never told                        *)
  situation (* of this run                                                  *)

deviceVars == <<procs, posts, links, answers, used, unsaid, situation>>
allVars == <<vars, linkVars, deviceVars>>

NoProcess == [session |-> None, env |-> None]

Alive(q) == procs[q] # NoProcess

LivePids == { q \in Pid : Alive(q) }

StartOf(s, q, source, live) ==
  [ session |-> s, host |-> Device, folder |-> Place,
    source |-> source, pid |-> q, parent |-> None, live |-> live ]

EndOf(s, q, reason, live) ==
  [ session |-> s, host |-> Device, reason |-> reason,
    pid |-> q, live |-> live ]

Room(s) == Len(posts[s]) < MaxPosts

Unrun(s) == \A q \in Pid : procs[q].session # s

(* claude starts with a new session or resumes an older one.  Two things   *)
(* are left out, after which LiveIsKnown does not hold: a pid that names a *)
(* second process, and a session that goes on while posts of it wait (the  *)
(* late start of the first ends what the pid names by then).               *)
Launch(q, s) ==
  /\ ~Alive(q) /\ Unrun(s) /\ posts[s] = <<>>
  /\ q \notin used.pids
  /\ "resume left" \in situation \/ \A p \in Pid : procs[p].env # s
  /\ procs' = [procs EXCEPT ![q] = [session |-> s, env |-> s]]
  /\ posts' = [posts EXCEPT ![s] =
                 Append(@, StartOf(s, q, "startup", LivePids \union {q}))]
  /\ used' = [used EXCEPT !.pids = @ \union {q}, !.sessions = @ \union {s}]

(* /clear: the process goes on with a new session, its agent with the old  *)
(* environment.                                                            *)
Clear(q, t) ==
  LET s == procs[q].session IN
  /\ Alive(q) /\ t \notin used.sessions /\ Room(t)
  /\ posts[s] = <<>>
  /\ procs' = [procs EXCEPT ![q].session = t]
  /\ posts' = [posts EXCEPT ![s] = Append(@, EndOf(s, q, "clear", LivePids)),
                            ![t] = Append(@, StartOf(t, q, "clear", LivePids))]
  /\ used' = [used EXCEPT !.sessions = @ \union {t}]

Exit(q) ==
  LET s == procs[q].session IN
  /\ Alive(q) /\ Room(s)
  /\ procs' = [procs EXCEPT ![q] = NoProcess]
  /\ posts' = [posts EXCEPT ![s] = Append(@, EndOf(s, q, "other", LivePids))]
  /\ UNCHANGED used

(* A compaction ends with a SessionStart of the session that goes on.      *)
Compact(q) ==
  LET s == procs[q].session IN
  /\ "compacts" \in situation
  /\ Alive(q) /\ posts[s] = <<>>
  /\ posts' = [posts EXCEPT ![s] = Append(@, StartOf(s, q, "startup", LivePids))]
  /\ UNCHANGED <<procs, used>>

(* The process dies without a SessionEnd.                                  *)
Kill(q) ==
  /\ Alive(q)
  /\ procs' = [procs EXCEPT ![q] = NoProcess]
  /\ UNCHANGED <<posts, used>>

ProcessStep(q) ==
  /\ \/ \E s \in Session : Launch(q, s) \/ Clear(q, s)
     \/ Compact(q)
     \/ Exit(q)
     \/ Kill(q)
  /\ links' = IF Alive(q) /\ procs'[q] = NoProcess
              THEN [links EXCEPT ![q] = 0] ELSE links
  /\ UNCHANGED <<situation, vars, linkVars, answers, unsaid>>

(* A post the hub did not answer is kept without its list of live pids.    *)
Spool(s, i) ==
  /\ i \in DOMAIN posts[s]
  /\ posts[s][i].live # Pid
  /\ posts' = [posts EXCEPT ![s][i].live = Pid]
  /\ UNCHANGED <<situation, procs, links, answers, used, unsaid, vars, linkVars>>

(* Links of other sessions that serve none any more.                       *)
Robbed(s) == { agent[t] : t \in Session \ {s} } \ ({0} \union { agent'[t] : t \in Session })

Deliver(s) ==
  /\ posts[s] # <<>>
  /\ LET m == Head(posts[s]) IN
     \/ m \in StartPost /\ HookStart(m)
     \/ m \in EndPost /\ HookEnd(m)
  /\ posts' = [posts EXCEPT ![s] = Tail(@)]
  /\ used' = [used EXCEPT !.robbed = @ \union Robbed(s)]
  /\ UNCHANGED <<situation, procs, links, answers, unsaid>>

(* A hook sends its list at once (0.8 s) or not at all, so REAP_GRACE      *)
(* (5 s) of a start outlasts every list taken before its process existed.  *)
GraceEnds(s) ==
  /\ \A t \in Session : \A i \in DOMAIN posts[t] :
       sessions[s].pid \in posts[t][i].live
  /\ GraceOver(s)
  /\ UNCHANGED <<linkVars, deviceVars>>

HandoffEnds(key) == HandoffOver(key) /\ UNCHANGED <<linkVars, deviceVars>>

(* The agent registers; nothing the hub does in between is missed, since   *)
(* its registration may as well be sent later.                             *)
Registers(q, c) ==
  /\ Alive(q) /\ links[q] = 0 /\ c \in Conn /\ c = used.links + 1
  /\ AgentRegistered(c, procs[q].env, Device, q)
  /\ used' = [used EXCEPT !.links = c]
  /\ UNCHANGED <<situation, procs, posts, answers>>

LinkUp(q, c) ==
  /\ Registers(q, c)
  /\ links' = [links EXCEPT ![q] = c]
  /\ UNCHANGED unsaid

(* The hub takes the registration and cannot write its answer: the task of *)
(* the link ends there, and the actor is told of no end (agent_session).   *)
AnswerLost(q, c) ==
  /\ "answers lost" \in situation
  /\ Registers(q, c)
  /\ unsaid' = unsaid \union {c}
  /\ UNCHANGED links

(* The agent lost its link; the hub notices later, maybe after the next    *)
(* link of the same agent (heartbeat).                                     *)
LinkLost(q) ==
  /\ links[q] # 0
  /\ links' = [links EXCEPT ![q] = 0]
  /\ UNCHANGED <<situation, procs, posts, answers, used, unsaid, vars, linkVars>>

LossNoticed(c) ==
  /\ c \notin unsaid /\ \A q \in Pid : links[q] # c
  /\ AgentDisconnected(c)
  /\ answers' = [answers EXCEPT ![c] = None]
  /\ UNCHANGED <<situation, procs, posts, links, used, unsaid>>

(* An update answer is read, then handled, maybe after the link moved.     *)
AnswerRead(q) ==
  LET c == links[q] IN
  /\ "updates" \in situation /\ c # 0 /\ answers[c] = None /\ conns[c].open
  /\ answers' = [answers EXCEPT ![c] = conns[c].session]
  /\ UNCHANGED <<situation, procs, posts, links, used, unsaid, vars, linkVars>>

AnswerHandled(c) ==
  /\ answers[c] # None
  /\ AgentLeaves(c, answers[c]) \/ AgentStays(c, answers[c])
  /\ answers' = [answers EXCEPT ![c] = None]
  /\ UNCHANGED <<situation, procs, posts, links, used, unsaid>>

(* A stopping hub handles what it took; what it does not take is kept      *)
(* without its list, so no list is under way when it starts again.         *)
HubStopsAndStarts ==
  /\ "hub stops" \in situation
  /\ HubRestart
  /\ links' = [q \in Pid |-> 0]
  /\ answers' = [c \in Conn |-> None]
  /\ posts' = [ s \in Session |->
                 [ i \in DOMAIN posts[s] |-> [posts[s][i] EXCEPT !.live = Pid] ]]
  /\ unsaid' = {}
  /\ UNCHANGED <<situation, procs, used>>

DeviceInit ==
  /\ Init /\ NoLinks
  /\ procs = [q \in Pid |-> NoProcess]
  /\ posts = [s \in Session |-> <<>>]
  /\ links = [q \in Pid |-> 0]
  /\ answers = [c \in Conn |-> None]
  /\ situation \in Situations
  /\ used = [pids |-> {}, sessions |-> {}, links |-> 0, robbed |-> {}]
  /\ unsaid = {}

DeviceNext ==
  \/ \E q \in Pid : ProcessStep(q) \/ LinkLost(q) \/ AnswerRead(q)
  \/ \E s \in Session :
       \/ Deliver(s) \/ GraceEnds(s)
       \/ \E i \in 1 .. MaxPosts : Spool(s, i)
  \/ \E key \in Key : HandoffEnds(key)
  \/ \E c \in Conn :
       \/ LossNoticed(c) \/ AnswerHandled(c)
       \/ \E q \in Pid : LinkUp(q, c) \/ AnswerLost(q, c)
  \/ HubStopsAndStarts

DeviceSpec == DeviceInit /\ [][DeviceNext]_allVars

----------------------------------------------------------------------------
(* Every post a device sent has been handled.                              *)
Settled == \A s \in Session : posts[s] = <<>>

(* Whatever order the posts came in, the session a live process runs is    *)
(* running for the hub, and is what the hub knows its pid by.              *)
LiveIsKnown ==
  Settled => \A q \in Pid : Alive(q) =>
    LET s == procs[q].session IN
    /\ LiveTop(sessions, s)
    /\ sessions[s].pid = q
    /\ pids[<<Device, q>>] = s

(* And every link the hub holds open is one an agent still has, or one     *)
(* whose end it is never told.                                             *)
LinksSettled ==
  /\ Settled
  /\ \A c \in Conn : conns[c].open => c \in unsaid \/ \E q \in Pid : links[q] = c

(* A live process whose agent has a link is served by that link: it is not *)
(* shown without a channel, and its messages do not go to a link that is   *)
(* gone, also where the hub was never told that it is.  While agents are   *)
(* asked to update this does not hold: one that says it leaves and then    *)
(* stays is bound back to the session its answer was read under            *)
(* (keep_agent, slots.rs); nor after a compaction (StaleNeverWins), nor    *)
(* when another process resumes what a live one left (ServedByOwnAgent),   *)
(* nor of a link that came before the start of its run, when meanwhile the *)
(* reap ended the run before it (follow_pid passes it by).                 *)
LiveIsServed ==
  LinksSettled /\ situation \subseteq {"hub stops", "answers lost"} =>
    \A q \in Pid : links[q] \notin used.robbed \union {0} =>
      agent[procs[q].session] = links[q]

(* The link that serves a live process's session is one of that process.   *)
(* An agent that says it leaves, then stays, is bound back to a session    *)
(* its process left meanwhile (keep_agent), in whichever process that runs *)
(* by then: not while agents are asked to update.                          *)
ServedByOwnAgent ==
  LinksSettled /\ "updates" \notin situation => \A q \in Pid : Alive(q) =>
    LET s == procs[q].session IN
    agent[s] \notin unsaid \union {0} => conns[agent[s]].pid = q

(* Of two links of one process that are open for its session, the older    *)
(* one never serves: "a stale duplicate (the agent reconnected) must not   *)
(* win" (follow_pid).                                                      *)
StaleNeverWins ==
  \A c \in Conn : \A s \in Session :
    /\ conns[c].open /\ conns[c].session = s
    /\ agent[s] # 0 /\ conns[agent[s]].pid = conns[c].pid
    => agent[s] >= c
=============================================================================
