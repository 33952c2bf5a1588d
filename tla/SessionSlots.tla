---------------------------- MODULE SessionSlots ----------------------------
(***************************************************************************)
(* The slot registry of the hub (hub/registry.rs): which session lives in  *)
(* which slot.  A slot is a (host, folder, ordinal) place that owns forum  *)
(* topics forever; sessions succeed each other in it.  The registry is     *)
(* driven by lifecycle hook posts (SessionStart, SessionEnd, each with the *)
(* pids of the device's live claude processes), which arrive late, twice   *)
(* or in any order, because every hook is a process of its own; so every   *)
(* post below may come in every state.                                     *)
(*                                                                         *)
(* Topics, views, kept messages, blocks and streams of a slot are not part *)
(* of this module; the agent of a session is AgentLinks' and the saver is  *)
(* RegistryStore's.                                                        *)
(***************************************************************************)
EXTENDS Integers, Sequences, FiniteSets

CONSTANTS
  Session,      (* session ids                                              *)
  Host,         (* device names                                             *)
  Folder,       (* folder keys                                              *)
  Pid,          (* claude process ids                                       *)
  None,         (* no session, host or pid                                  *)
  MaxSessions,  (* MAX_SESSIONS: ended sessions are forgotten beyond it     *)
  Files         (* registry files a starting hub may find                   *)

Key == Host \X Pid

Entry ==
  [ known  : BOOLEAN,
    host   : Host \union {None},
    kind   : {"top", "nested"},
    parent : Session \union {None},
    slot   : Nat,                     \* 0: no slot
    pid    : Pid \union {None},
    ended  : BOOLEAN ]

Slot ==
  [ host : Host, folder : Folder, ordinal : Nat \ {0},
    current : Session \union {None} ]

(* What registry.json holds of the registry modelled here.                 *)
File ==
  [ slots    : Seq(Slot),
    sessions : [Session -> Entry],
    pids     : [Key -> Session \union {None}],
    older    : SUBSET (Session \X Session) ]

Unknown ==
  [ known |-> FALSE, host |-> None, kind |-> "top", parent |-> None,
    slot |-> 0, pid |-> None, ended |-> FALSE ]

EmptyFile ==
  [ slots |-> <<>>, sessions |-> [s \in Session |-> Unknown],
    pids |-> [k \in Key |-> None], older |-> {} ]

Running(se, s) == se[s].known /\ ~se[s].ended

LiveTop(se, s) == Running(se, s) /\ se[s].kind = "top"

----------------------------------------------------------------------------
(* What relates slots and sessions, of a file as of the registry.          *)

ExclusiveIn(sl) ==
  \A i, j \in DOMAIN sl :
    sl[i].current # None /\ sl[i].current = sl[j].current => i = j

HeldIn(sl, se) ==
  \A s \in Session : LiveTop(se, s) =>
    /\ se[s].slot \in DOMAIN sl
    /\ sl[se[s].slot].current = s

ShownIn(sl, se) ==
  \A i \in DOMAIN sl : sl[i].current # None =>
    se[sl[i].current].known /\ se[sl[i].current].kind = "top"

UniqueIn(sl) ==
  \A i, j \in DOMAIN sl :
    /\ sl[i].host = sl[j].host
    /\ sl[i].folder = sl[j].folder
    /\ sl[i].ordinal = sl[j].ordinal
    => i = j

(* A file an older hub may have left: Registry::load refuses one that      *)
(* repeats a slot identity or names a missing slot.  A running session's   *)
(* slot is held by it; hub v0.1.33 could leave it current in others too.   *)
ReadableFile(f) ==
  /\ f \in File
  /\ UniqueIn(f.slots)
  /\ HeldIn(f.slots, f.sessions)
  /\ ShownIn(f.slots, f.sessions)
  /\ \A s \in Session : f.sessions[s].slot \in 0 .. Len(f.slots)

ASSUME ConstantsAssumption ==
  /\ None \notin Session \union Host \union Pid
  /\ MaxSessions \in Nat \ {0}
  /\ IsFiniteSet(Session)
  /\ EmptyFile \in Files
  /\ \A f \in Files : ReadableFile(f)

VARIABLES
  slots,      (* Registry::slots, a slot's id is its index                  *)
  sessions,   (* Registry::sessions; known is FALSE where it has no entry   *)
  pids,       (* Registry::pids: the newest session a process started       *)
  older,      (* <<s, t>>: s last started before t (SessionEntry::seen)     *)
  clears,     (* recent_clears: the slot a /clear left to its process       *)
  starts      (* recent_starts: sessions started within REAP_GRACE          *)

vars == <<slots, sessions, pids, older, clears, starts>>

file == [slots |-> slots, sessions |-> sessions, pids |-> pids, older |-> older]

TypeOK ==
  /\ slots \in Seq(Slot)
  /\ sessions \in [Session -> Entry]
  /\ pids \in [Key -> Session \union {None}]
  /\ older \in SUBSET (Session \X Session)
  /\ clears \in [Key -> Nat]
  /\ starts \in SUBSET Session

----------------------------------------------------------------------------
(* Hook posts.  live is live_claude_pids; a post without a list, or with   *)
(* one that misses its own process, ends nothing, like one that names      *)
(* every process, and is not told apart from it.  An ancestor is another   *)
(* process.  A source other than clear acts as startup, and so does a      *)
(* clear without a pid.                                                    *)

StartPost ==
  { p \in [ session : Session, host : Host, folder : Folder,
            source : {"startup", "clear"},
            pid : Pid \union {None}, parent : Pid \union {None},
            live : SUBSET Pid ] :
      /\ p.pid = p.parent => p.pid = None
      /\ p.pid = None => p.live = Pid /\ p.source = "startup"
      /\ p.pid # None => p.pid \in p.live }

EndPost ==
  { p \in [ session : Session, host : Host, reason : {"clear", "other"},
            pid : Pid \union {None}, live : SUBSET Pid ] :
      IF p.pid = None THEN p.live = Pid ELSE p.pid \in p.live }

(* Mutant of Reaped: no grace for a session that just started.             *)
ReapedAtOnce(p) ==
  { s \in Session : /\ Running(sessions, s)
                    /\ sessions[s].host = p.host
                    /\ s # p.session
                    /\ sessions[s].pid \in Pid \ p.live }

(* Registry::reap: sessions of the host whose process is gone.             *)
Reaped(p) ==
  { s \in Session : /\ Running(sessions, s)
                    /\ sessions[s].host = p.host
                    /\ s # p.session
                    /\ s \notin starts
                    /\ sessions[s].pid \in Pid \ p.live }

SessionsReaped(p) ==
  [ s \in Session |-> IF s \in Reaped(p)
                      THEN [sessions[s] EXCEPT !.ended = TRUE]
                      ELSE sessions[s] ]

PidsReaped(p) ==
  [ k \in Key |-> IF /\ pids[k] \in Reaped(p)
                     /\ k = <<p.host, sessions[pids[k]].pid>>
                  THEN None ELSE pids[k] ]

----------------------------------------------------------------------------
(* session_started.                                                        *)

Previous(pi, p) == IF p.pid = None THEN None ELSE pi[<<p.host, p.pid>>]

(* A start that is no /clear ends the session its reused pid belonged to.  *)
ReusedPidEnded(se, pi, p) ==
  LET q == Previous(pi, p) IN
  IF p.source # "clear" /\ q \notin {None, p.session} /\ se[q].known
  THEN [se EXCEPT ![q].ended = TRUE]
  ELSE se

(* The post names an ancestor that is this very session, or is a nested    *)
(* resume of an id that is also a top-level session: nothing is recorded.  *)
Routed(se, pi, p) ==
  /\ p.parent # None
  /\ \/ pi[<<p.host, p.parent>>] = p.session
     \/ se[p.session].known /\ se[p.session].kind = "top"

StaysNested(se, p) == se[p.session].known /\ se[p.session].kind = "nested"

(* The kind of a known session stays; an ancestor makes a new one nested.  *)
StartsNested(se, p) == p.parent # None \/ StaysNested(se, p)

ParentOf(se, pi, p) ==
  IF p.parent # None THEN pi[<<p.host, p.parent>>] ELSE se[p.session].parent

SlotFree(sl, se, k) == sl[k].current = None \/ ~Running(se, sl[k].current)

(* The slot the session holds or held, if it is on this host.              *)
OwnSlot(sl, se, p) ==
  LET k == se[p.session].slot IN
  IF se[p.session].known /\ k # 0 /\ sl[k].host = p.host THEN k ELSE 0

OwnUsable(sl, se, p) ==
  LET k == OwnSlot(sl, se, p) IN
  k # 0 /\ (sl[k].current = p.session \/ SlotFree(sl, se, k))

ClearUsable(sl, se, p, cs) ==
  cs # 0 /\ sl[cs].host = p.host /\ SlotFree(sl, se, cs)

(* On /clear: the slot the process's previous session still holds.         *)
HandedOn(sl, se, pi, p) ==
  LET q == Previous(pi, p) IN
  IF /\ p.source = "clear"
     /\ q \notin {None, p.session}
     /\ se[q].known /\ se[q].slot # 0
     /\ sl[se[q].slot].host = p.host
     /\ sl[se[q].slot].current = q
  THEN se[q].slot
  ELSE 0

FolderOf(sl, se, p) ==
  IF OwnSlot(sl, se, p) # 0 THEN sl[OwnSlot(sl, se, p)].folder ELSE p.folder

SameFolder(sl, se, p) ==
  { k \in DOMAIN sl : sl[k].host = p.host /\ sl[k].folder = FolderOf(sl, se, p) }

(* Mutant of FreeSlots: the lowest slot of the folder, whoever runs in it. *)
AnySlots(sl, se, p) == SameFolder(sl, se, p)

FreeSlots(sl, se, p) == { k \in SameFolder(sl, se, p) : SlotFree(sl, se, k) }

(* The previous session gives its slot up and is ended by it.              *)
TakesHandedOn(sl, se, pi, p, cs) ==
  /\ ~OwnUsable(sl, se, p)
  /\ ~ClearUsable(sl, se, p, cs)
  /\ HandedOn(sl, se, pi, p) # 0

(* Mutant of HandedOnEnded: the previous session runs on.                  *)
HandedOnOnly(sl, se, pi, p, cs) == se

HandedOnEnded(sl, se, pi, p, cs) ==
  IF TakesHandedOn(sl, se, pi, p, cs)
  THEN [se EXCEPT ![Previous(pi, p)].ended = TRUE] ELSE se

(* Registry::allocate gives slot k; Len(sl) + 1 stands for a new one.      *)
Allocates(sl, se, pi, p, cs, k) ==
  LET free == FreeSlots(sl, se, p) IN
  IF OwnUsable(sl, se, p) THEN k = OwnSlot(sl, se, p)
  ELSE IF ClearUsable(sl, se, p, cs) THEN k = cs
  ELSE IF HandedOn(sl, se, pi, p) # 0 THEN k = HandedOn(sl, se, pi, p)
  ELSE IF free # {}
       THEN k \in free /\ \A j \in free : sl[k].ordinal <= sl[j].ordinal
       ELSE k = Len(sl) + 1

(* Mutant of NextOrdinal: the count, without the one to add.               *)
CountOrdinal(sl, same, o) == o = IF same = {} THEN 1 ELSE Cardinality(same)

(* A new slot's ordinal is one more than the largest of its folder.        *)
NextOrdinal(sl, same, o) ==
  /\ \A j \in same : sl[j].ordinal < o
  /\ o = 1 \/ \E j \in same : o = sl[j].ordinal + 1

(* occupy and release_elsewhere: the session is current in slot k alone.   *)
Occupied(sl, s, k) ==
  [ i \in DOMAIN sl |->
      IF i = k THEN [sl[i] EXCEPT !.current = s]
      ELSE IF sl[i].current = s THEN [sl[i] EXCEPT !.current = None]
      ELSE sl[i] ]

(* Mutant of Started: a slot id counted from 0.                            *)
StartedFromZero(se, p, kind, parent, k) ==
  [se EXCEPT ![p.session] =
     [ known |-> TRUE, host |-> p.host, kind |-> kind, parent |-> parent,
       slot |-> k - 1, pid |-> p.pid, ended |-> FALSE ]]

Started(se, p, kind, parent, k) ==
  LET e == se[p.session] IN
  [se EXCEPT ![p.session] =
     [ known  |-> TRUE,
       host   |-> IF e.known THEN e.host ELSE p.host,
       kind   |-> kind,
       parent |-> parent,
       slot   |-> k,
       pid    |-> IF p.pid # None THEN p.pid ELSE e.pid,
       ended  |-> FALSE ]]

PidTaken(pi, p) ==
  IF p.pid = None THEN pi ELSE [pi EXCEPT ![<<p.host, p.pid>>] = p.session]

ClearsLeft(p) ==
  IF p.pid = None THEN clears ELSE [clears EXCEPT ![<<p.host, p.pid>>] = 0]

(* take_clear_slot: a hand-off is looked up on the start's own host.       *)
ClearSlot(p) ==
  LET cs == IF p.pid = None THEN 0 ELSE clears[<<p.host, p.pid>>] IN
  IF p.source = "clear" /\ cs # 0 /\ slots[cs].host = p.host THEN cs ELSE 0

StartedLast(s, se) ==
  { x \in older : x[1] # s /\ x[2] # s }
    \union { <<t, s>> : t \in { u \in Session \ {s} : se[u].known } }

(* Mutant of Forgotten: what a slot shows is not kept.                     *)
ForgottenShown(sl, se, ol) ==
  LET known == { s \in Session : se[s].known }
      cands == { s \in known : se[s].ended }
      excess == Cardinality(known) - MaxSessions
  IN { s \in cands : Cardinality({ t \in cands : <<t, s>> \in ol }) < excess }

(* prune: beyond MaxSessions entries the longest not started of the ended  *)
(* sessions no slot shows are forgotten.                                   *)
Forgotten(sl, se, ol) ==
  LET known == { s \in Session : se[s].known }
      cands == { s \in known : /\ se[s].ended
                               /\ \A i \in DOMAIN sl : sl[i].current # s }
      excess == Cardinality(known) - MaxSessions
  IN { s \in cands : Cardinality({ t \in cands : <<t, s>> \in ol }) < excess }

Pruned(se, gone) == [s \in Session |-> IF s \in gone THEN Unknown ELSE se[s]]

Recorded(sl, se, pi, p) ==
  LET ol   == StartedLast(p.session, se)
      gone == Forgotten(sl, se, ol)
  IN /\ slots' = sl
     /\ sessions' = Pruned(se, gone)
     /\ pids' = [ k \in Key |-> IF pi[k] \in gone THEN None ELSE pi[k] ]
     /\ older' = { x \in ol : x[1] \notin gone /\ x[2] \notin gone }
     /\ starts' = starts \union {p.session}
     /\ clears' = ClearsLeft(p)

StartRouted(p) ==
  /\ Routed(SessionsReaped(p), PidsReaped(p), p)
  /\ sessions' = SessionsReaped(p)
  /\ pids' = PidsReaped(p)
  /\ starts' = starts \union {p.session}
  /\ UNCHANGED <<slots, older, clears>>

StartNested(p) ==
  LET pi == PidsReaped(p)
      se == ReusedPidEnded(SessionsReaped(p), pi, p)
      q  == ParentOf(se, pi, p)
      k  == IF q # None THEN se[q].slot ELSE 0
  IN /\ ~Routed(SessionsReaped(p), pi, p)
     /\ StartsNested(se, p)
     /\ Recorded(slots, Started(se, p, "nested", q, k), PidTaken(pi, p), p)

StartTopLevel(p) ==
  LET pi == PidsReaped(p)
      se == ReusedPidEnded(SessionsReaped(p), pi, p)
      cs == ClearSlot(p)
      given == HandedOnEnded(slots, se, pi, p, cs)
  IN /\ ~Routed(SessionsReaped(p), pi, p)
     /\ ~StartsNested(se, p)
     /\ \E k \in 1 .. Len(slots) + 1, o \in 1 .. Len(slots) + 1 :
          LET same == SameFolder(slots, se, p)
              made == [ host |-> p.host, folder |-> FolderOf(slots, se, p),
                        ordinal |-> o, current |-> None ]
              sl   == IF k = Len(slots) + 1 THEN Append(slots, made) ELSE slots
          IN /\ Allocates(slots, se, pi, p, cs, k)
             /\ NextOrdinal(slots, same, o)
             /\ Recorded(Occupied(sl, p.session, k),
                         Started(given, p, "top", None, k),
                         PidTaken(pi, p), p)

----------------------------------------------------------------------------
(* SessionEnd.                                                             *)

(* An unknown session, or a nested run of the same id: only the reap.      *)
EndIgnored(p) ==
  LET e == SessionsReaped(p)[p.session] IN
  /\ \/ ~e.known
     \/ p.pid # None /\ e.pid # None /\ p.pid # e.pid
  /\ sessions' = SessionsReaped(p)
  /\ pids' = PidsReaped(p)
  /\ UNCHANGED <<slots, older, clears, starts>>

EndSession(p) ==
  LET se  == SessionsReaped(p)
      pi  == PidsReaped(p)
      e   == se[p.session]
      key == <<e.host, e.pid>>
      pi2 == IF e.pid # None /\ pi[key] = p.session
             THEN [pi EXCEPT ![key] = None] ELSE pi
      hand == e.pid # None /\ e.slot # 0 /\ e.kind = "top"
  IN /\ e.known
     /\ p.pid = None \/ e.pid = None \/ p.pid = e.pid
     /\ sessions' = [se EXCEPT ![p.session].ended = TRUE]
     /\ pids' = pi2
     /\ clears' = IF ~hand THEN clears
                  ELSE [clears EXCEPT ![key] =
                          IF p.reason = "clear" /\ pi2[key] = None
                          THEN e.slot ELSE 0]
     /\ UNCHANGED <<slots, older, starts>>

----------------------------------------------------------------------------
(* Timers and a restart.                                                   *)

(* REAP_GRACE of a start is over.                                          *)
GraceOver(s) ==
  /\ s \in starts
  /\ starts' = starts \ {s}
  /\ UNCHANGED <<slots, sessions, pids, older, clears>>

(* CLEAR_HANDOFF_TTL of a hand-off is over.                                *)
HandoffOver(key) ==
  /\ clears[key] # 0
  /\ clears' = [clears EXCEPT ![key] = 0]
  /\ UNCHANGED <<slots, sessions, pids, older, starts>>

(* The earliest slot of a session is the one heal_split_sessions keeps.    *)
KeptSlot(sl, s) ==
  CHOOSE k \in DOMAIN sl :
    sl[k].current = s /\ \A j \in 1 .. k - 1 : sl[j].current # s

Split(sl, s) ==
  \E i, j \in DOMAIN sl : i # j /\ sl[i].current = s /\ sl[j].current = s

(* Mutant of HealedSlots: only the entries are moved.                      *)
SlotsKept(sl, se) == sl

HealedSlots(sl, se) ==
  [ i \in DOMAIN sl |->
      IF /\ sl[i].current # None
         /\ se[sl[i].current].known /\ se[sl[i].current].kind = "top"
         /\ \E j \in 1 .. i - 1 : sl[j].current = sl[i].current
      THEN [sl[i] EXCEPT !.current = None]
      ELSE sl[i] ]

(* The entry of a split session moves to the slot it keeps.                *)
HealedSessions(sl, se) ==
  [ s \in Session |->
      IF se[s].known /\ se[s].kind = "top" /\ Split(sl, s)
      THEN [se[s] EXCEPT !.slot = KeptSlot(sl, s)]
      ELSE se[s] ]

(* The hub stopped, its last snapshot was saved, and it starts over that   *)
(* file; hand-offs and recent starts were only in memory.                  *)
Restart ==
  /\ slots' = HealedSlots(slots, sessions)
  /\ sessions' = HealedSessions(slots, sessions)
  /\ clears' = [k \in Key |-> 0]
  /\ starts' = {}
  /\ UNCHANGED <<pids, older>>

Init ==
  \E f \in Files :
    /\ slots = HealedSlots(f.slots, f.sessions)
    /\ sessions = HealedSessions(f.slots, f.sessions)
    /\ pids = f.pids
    /\ older = f.older
    /\ clears = [k \in Key |-> 0]
    /\ starts = {}

Next ==
  \/ \E p \in StartPost : StartRouted(p) \/ StartNested(p) \/ StartTopLevel(p)
  \/ \E p \in EndPost : EndIgnored(p) \/ EndSession(p)
  \/ \E s \in Session : GraceOver(s)
  \/ \E key \in Key : HandoffOver(key)
  \/ Restart

Spec == Init /\ [][Next]_vars

----------------------------------------------------------------------------
(* Properties.                                                             *)

(* TASK-093: a session is current in one slot at most, so its output has   *)
(* one topic and what is written there has one reader.                     *)
CurrentOnce == ExclusiveIn(slots)

(* A running top-level session holds the slot its entry names: no start,   *)
(* however late or out of order, took it while it runs.                    *)
RunningHoldsSlot == HeldIn(slots, sessions)

(* A slot is shown by a top-level session the registry knows: prune keeps  *)
(* what a slot shows, and a nested run never takes one.                    *)
ShownIsKnown == ShownIn(slots, sessions)

(* No two slots are the same (host, folder, ordinal), which load refuses.  *)
UniqueIdentity == UniqueIn(slots)

(* The slot a running top-level session owns, and what the registry        *)
(* promises about it: an owner is never moved or robbed by what arrives    *)
(* for another session.                                                    *)
Holder ==
  [ s \in Session |-> IF LiveTop(sessions, s) THEN sessions[s].slot ELSE 0 ]

Ownership == INSTANCE TopicOwnership WITH holder <- Holder

KeepsOwnership == Ownership!Spec
=============================================================================
