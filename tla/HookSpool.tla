----------------------------- MODULE HookSpool -----------------------------
(***************************************************************************)
(* How a hook event reaches the hub once (hook.rs, spool.rs, agent.rs,     *)
(* hub/ingress.rs).  A hook sends what the spool keeps of its session,     *)
(* then its own event; what does not go is kept in the spool, and the      *)
(* agent of the session replays it too.  The hub remembers the ids of the  *)
(* events it took for a while, and drops a copy.                           *)
(*                                                                         *)
(* Claude Code waits for a hook before the session's next one; hooks of    *)
(* different sessions, and the agents, run beside each other.  A POST that *)
(* ran into its timeout may still reach the hub, after its sender went on. *)
(***************************************************************************)
EXTENDS Integers, FiniteSets, FiniteSetsExt, Sequences

CONSTANTS
  Session,        (* sessions of one device                                 *)
  MaxEvents,      (* events of one session                                  *)
  Turn,           (* the numbers of turn events; the others are lifecycle   *)
  Unread,         (* numbers of events this hub cannot read (400)           *)
  MaxTurnFiles,   (* MAX_TURN_FILES                                         *)
  MaxPerSession,  (* MAX_PER_SESSION                                        *)
  MaxFiles,       (* MAX_FILES                                              *)
  TurnMaxAge,     (* TURN_MAX_AGE                                           *)
  MaxAge,         (* MAX_AGE                                                *)
  DedupTtl,       (* DEDUP_TTL                                              *)
  DedupMax,       (* DEDUP_MAX                                              *)
  MaxTime,        (* bound of the clock                                     *)
  MaxRestarts     (* bound of the hub's restarts                            *)

ASSUME SpoolAssumption ==
  /\ IsFiniteSet(Session)
  /\ {MaxEvents, MaxTurnFiles, MaxPerSession, MaxFiles} \subseteq Nat \ {0}
  /\ {TurnMaxAge, MaxAge, DedupTtl, DedupMax, MaxTime, MaxRestarts} \subseteq Nat
  /\ {Turn, Unread} \subseteq SUBSET (1 .. MaxEvents)
  /\ TurnMaxAge < DedupTtl

Event == Session \X (1 .. MaxEvents)

IsTurn(e) == e[2] \in Turn

Read(e) == e[2] \notin Unread

(* A hook and the agent of each session.                                   *)
Poster == {"hook", "agent"} \X Session

File == [event : Event, at : 0 .. MaxTime]

VARIABLES
  made,      (* events of each session so far, the last one a hook's own    *)
  files,     (* spool files, named by their time and event                  *)
  poster,    (* what each poster does, and what it read from the spool      *)
  late,      (* copies the hub has not got, their sender no longer waits    *)
  dedup,     (* Dedup: ids with the time they were inserted, oldest first   *)
  handled,   (* what the hub took, in order, and in which of its runs       *)
  hub,       (* the hub's run, counted from 0                               *)
  lost,      (* events given up: neither answered nor kept any more         *)
  now

spoolVars == <<made, files, poster, late, dedup, handled, hub, lost, now>>

Idle == [pc |-> "idle", todo |-> {}]

(* Also the bounds of the spool: hooks that save at the same moment, one   *)
(* of each session, exceed the bound of all files by one less than they    *)
(* are, and the bound of a session's turn files never.                     *)
TypeOK ==
  /\ made \in [Session -> 0 .. MaxEvents]
  /\ files \subseteq File
  /\ poster \in [Poster -> [ pc : {"idle", "replay", "own", "save", "write"},
                             todo : SUBSET Event ]]
  /\ late \subseteq Event
  /\ dedup \in Seq(File)
  /\ handled \in Seq([event : Event, run : 0 .. MaxRestarts])
  /\ hub \in 0 .. MaxRestarts
  /\ lost \subseteq Event
  /\ now \in 0 .. MaxTime
  /\ Cardinality(files) <= MaxFiles + Cardinality(Session) - 1
  /\ \A s \in Session :
       Cardinality({ f \in files : f.event[1] = s /\ IsTurn(f.event) }) <= MaxTurnFiles

Init ==
  /\ made = [s \in Session |-> 0]
  /\ files = {}
  /\ poster = [p \in Poster |-> Idle]
  /\ late = {} /\ dedup = <<>> /\ handled = <<>> /\ hub = 0 /\ lost = {} /\ now = 0

----------------------------------------------------------------------------
(* The spool.                                                              *)

(* Mutant of Expired: turn files are kept as long as the others.           *)
ExpiredLate(f) == now - f.at > MaxAge

Expired(f) == now - f.at > IF IsTurn(f.event) THEN TurnMaxAge ELSE MaxAge

Pruned == { f \in files : ~Expired(f) }

Events(fs) == { f.event : f \in fs }

(* Deletes files; what they kept is given up.                              *)
Delete(gone) ==
  /\ files' = files \ gone
  /\ lost' = lost \union Events(gone)

FilesOf(fs, s) == { f \in fs : f.event[1] = s }

(* pending: what the unexpired files of the session keep.                  *)
Pending(s) == Events(FilesOf(Pruned, s))

(* deliver: a hook has an event, and reads what the spool keeps first.     *)
HookStarts(s) ==
  /\ poster[<<"hook", s>>] = Idle
  /\ made[s] < MaxEvents
  /\ made' = [made EXCEPT ![s] = @ + 1]
  /\ Delete(FilesOf(files \ Pruned, s))
  /\ poster' = [poster EXCEPT ![<<"hook", s>>] =
                  [ pc |-> IF Pending(s) = {} THEN "own" ELSE "replay",
                    todo |-> Pending(s) ]]
  /\ UNCHANGED <<late, dedup, handled, hub, now>>

(* spawn_replay, at link-up and by the poll of a non-empty spool.          *)
AgentReplays(s) ==
  /\ poster[<<"agent", s>>] = Idle
  /\ FilesOf(files, s) # {}
  /\ Delete(FilesOf(files \ Pruned, s))
  /\ poster' = [poster EXCEPT ![<<"agent", s>>] =
                  IF Pending(s) = {} THEN Idle
                  ELSE [pc |-> "replay", todo |-> Pending(s)]]
  /\ UNCHANGED <<made, late, dedup, handled, hub, now>>

(* spawn_sweep.                                                            *)
Sweep ==
  /\ files # Pruned
  /\ Delete(files \ Pruned)
  /\ UNCHANGED <<made, poster, late, dedup, handled, hub, now>>

----------------------------------------------------------------------------
(* The hub: accept_hook.                                                   *)

(* Dedup::expire drops the oldest while it is stale or there are too many. *)
Stays(d, i) == /\ Len(d) - i < DedupMax
               /\ i <= Len(d) => now - d[i].at < DedupTtl

Remembered(d) == SubSeq(d, Min({ i \in 1 .. Len(d) + 1 : Stays(d, i) }), Len(d))

Seen(e) == \E i \in DOMAIN Remembered(dedup) : Remembered(dedup)[i].event = e

(* Dedup::insert.                                                          *)
Inserted(e) == Remembered(Append(Remembered(dedup), [event |-> e, at |-> now]))

Accept(e) ==
  IF Seen(e) \/ ~Read(e)
  THEN dedup' = Remembered(dedup) /\ UNCHANGED handled
  ELSE /\ dedup' = Inserted(e)
       /\ handled' = Append(handled, [event |-> e, run |-> hub])

LateCopy(e) ==
  /\ e \in late
  /\ late' = late \ {e}
  /\ Accept(e)
  /\ UNCHANGED <<made, files, poster, hub, lost, now>>

(* The ids are only in memory, and connections end with the hub.           *)
HubRestart ==
  /\ hub < MaxRestarts
  /\ hub' = hub + 1
  /\ dedup' = <<>> /\ late' = {}
  /\ UNCHANGED <<made, files, poster, handled, lost, now>>

----------------------------------------------------------------------------
(* Posting.  What a poster sends is what it read, oldest first, then, for  *)
(* a hook, its own event.                                                  *)

(* Mutant of First: newest first.                                          *)
FirstNewest(es) == CHOOSE e \in es : \A d \in es : e[2] >= d[2]

First(es) == CHOOSE e \in es : \A d \in es : e[2] <= d[2]

Own(p) == <<p[2], made[p[2]]>>

Sending(p) == IF poster[p].pc = "own" THEN Own(p) ELSE First(poster[p].todo)

After(p) ==
  LET rest == poster[p].todo \ {Sending(p)} IN
  IF rest # {} THEN [pc |-> "replay", todo |-> rest]
  ELSE IF p[1] = "hook" THEN [pc |-> "own", todo |-> {}] ELSE Idle

(* Mutant of Final: a refused turn event is tried again.                   *)
FinalIfTaken(e) == Read(e)

(* An answer is final if the hub took the event, or refused a turn event.  *)
Final(e) == Read(e) \/ IsTurn(e)

(* The hub's final answer came in time: a kept file goes.                  *)
Answered(p) ==
  /\ poster[p].pc \in {"replay", "own"}
  /\ Final(Sending(p))
  /\ Accept(Sending(p))
  /\ IF poster[p].pc = "own"
     THEN poster' = [poster EXCEPT ![p] = Idle] /\ UNCHANGED files
     ELSE /\ poster' = [poster EXCEPT ![p] = After(p)]
          /\ files' = { f \in files : f.event # Sending(p) }
  /\ lost' = IF Read(Sending(p)) THEN lost ELSE lost \union {Sending(p)}
  /\ UNCHANGED <<made, late, hub, now>>

(* No answer in time, 503, or a refused lifecycle event; the copy may be   *)
(* lost or still get there.  A hook keeps its own event, whatever failed.  *)
Failed(p) ==
  /\ poster[p].pc \in {"replay", "own"}
  /\ late' \in {late, late \union {Sending(p)}}
  /\ poster' = [poster EXCEPT ![p] =
                  IF p[1] = "hook" THEN [pc |-> "save", todo |-> {}] ELSE Idle]
  /\ UNCHANGED <<made, files, dedup, handled, hub, lost, now>>

(* Mutant of Oldest: an off-by-one.                                        *)
OldestButOne(turns) ==
  { f \in turns :
      Cardinality({ g \in turns : g.event[2] >= f.event[2] }) > MaxTurnFiles }

(* The turn files a new one evicts.                                        *)
Oldest(turns) ==
  { f \in turns :
      Cardinality({ g \in turns : g.event[2] >= f.event[2] }) >= MaxTurnFiles }

(* save, up to its write: a new turn event evicts the oldest, a lifecycle  *)
(* event of a full session is not kept.                                    *)
MakeRoom(p) ==
  LET own   == FilesOf(Pruned, p[2])
      oldest == Oldest({ f \in own : IsTurn(f.event) })
      full  == \/ Cardinality(Pruned) >= MaxFiles
               \/ ~IsTurn(Own(p)) /\ Cardinality(own) >= MaxPerSession
  IN /\ poster[p].pc = "save"
     /\ LET gone == (files \ Pruned) \union
                       (IF full \/ ~IsTurn(Own(p)) THEN {} ELSE oldest)
        IN files' = files \ gone /\ lost' = lost \union Events(gone)
                                         \union IF full THEN {Own(p)} ELSE {}
     /\ poster' = [poster EXCEPT ![p] = IF full THEN Idle ELSE [@ EXCEPT !.pc = "write"]]
     /\ UNCHANGED <<made, late, dedup, handled, hub, now>>

(* The rename of the written file, or its failure.                         *)
Write(p) ==
  /\ poster[p].pc = "write"
  /\ \/ /\ files' = files \union {[event |-> Own(p), at |-> now]}
        /\ UNCHANGED lost
     \/ /\ lost' = lost \union {Own(p)}
        /\ UNCHANGED files
  /\ poster' = [poster EXCEPT ![p] = Idle]
  /\ UNCHANGED <<made, late, dedup, handled, hub, now>>

(* A poster's process ends before it is done; a hook's event goes with it. *)
Dies(p) ==
  /\ poster[p] # Idle
  /\ poster' = [poster EXCEPT ![p] = Idle]
  /\ lost' = IF p[1] = "hook" THEN lost \union {Own(p)} ELSE lost
  /\ UNCHANGED <<made, files, late, dedup, handled, hub, now>>

(* Posts last a second at most, the ages count minutes.                    *)
Tick ==
  /\ now < MaxTime
  /\ late = {} /\ \A p \in Poster : poster[p] = Idle
  /\ now' = now + 1
  /\ UNCHANGED <<made, files, poster, late, dedup, handled, hub, lost>>

Next ==
  \/ \E s \in Session : HookStarts(s) \/ AgentReplays(s)
  \/ \E p \in Poster : Answered(p) \/ Failed(p) \/ MakeRoom(p) \/ Write(p) \/ Dies(p)
  \/ \E e \in Event : LateCopy(e)
  \/ Sweep \/ HubRestart \/ Tick

Spec == Init /\ [][Next]_spoolVars

(* The agent looks at the spool every second, and the hub can be reached   *)
(* again and again.                                                        *)
Fairness ==
  \A s \in Session :
    WF_spoolVars(AgentReplays(s)) /\ SF_spoolVars(Answered(<<"agent", s>>))

FairSpec == Spec /\ Fairness

----------------------------------------------------------------------------
(* A run of the hub handles a turn event once: every copy of one it took   *)
(* comes while it still remembers it, although answers get lost.           *)
TurnHandledOnce ==
  \A i, j \in DOMAIN handled :
    handled[i] = handled[j] /\ IsTurn(handled[i].event) => i = j

(* Events of a session are handled in the order they were made, however    *)
(* its hooks and its agent replay them: only one that was given up may be  *)
(* handled late, by a copy that was under way.                             *)
HandledInOrder ==
  \A i, j \in DOMAIN handled :
    LET d == handled[i].event
        e == handled[j].event
    IN /\ i < j /\ d[1] = e[1] /\ e \notin lost
       /\ \A k \in 1 .. j - 1 : handled[k].event # e
       => d[2] < e[2]

(* What is kept does not wait for ever: it is handled, or given up.        *)
KeptIsHandled ==
  \A e \in Event :
    e \in Events(files) ~> e \in lost \/ \E i \in DOMAIN handled : handled[i].event = e
=============================================================================
