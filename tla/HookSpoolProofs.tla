-------------------------- MODULE HookSpoolProofs --------------------------
(* Proofs about HookSpool: for every set of sessions, every number of      *)
(* events, every bound of the spool and of the hub's memory of ids.        *)
EXTENDS HookSpool, WellFoundedInduction, FiniteSetTheorems, TLAPS

Record == [event : Event, run : 0 .. MaxRestarts]

State == [ pc : {"idle", "replay", "own", "save", "write"}, todo : SUBSET Event ]

(* A poster has events of its session to replay exactly while it replays;  *)
(* an agent does nothing else, and a hook at work has an event.            *)
PosterOK(p) ==
  /\ poster[p].todo # {} <=> poster[p].pc = "replay"
  /\ \A e \in poster[p].todo : e[1] = p[2]
  /\ p[1] = "agent" => poster[p].pc \in {"idle", "replay"}
  /\ poster[p].pc # "idle" /\ p[1] = "hook" => made[p[2]] # 0

Types ==
  /\ made \in [Session -> 0 .. MaxEvents]
  /\ files \in SUBSET File /\ IsFiniteSet(files)
  /\ poster \in [Poster -> State]
  /\ late \in SUBSET Event
  /\ dedup \in Seq(File)
  /\ handled \in Seq(Record)
  /\ hub \in 0 .. MaxRestarts
  /\ lost \in SUBSET Event
  /\ now \in 0 .. MaxTime
  /\ \A p \in Poster : PosterOK(p)

-----------------------------------------------------------------------------
(* Helpers.                                                                *)
LEMMA LeastIn ==
  ASSUME NEW S \in SUBSET Nat, S # {}
  PROVE  \E x \in S : \A y \in S : x =< y
<1> DEFINE R == OpToRel(<, Nat)
<1>1. PICK m \in S : \A y \in S : ~(<<y, m>> \in R)
  <2>1. IsWellFoundedOn(R, Nat) BY NatLessThanWellFounded
  <2> HIDE DEF R
  <2>. QED BY <2>1, WFMin
<1> HIDE DEF R
<1>2. \A y \in S : m =< y
  <2> SUFFICES ASSUME NEW y \in S, y < m PROVE FALSE
    BY <1>1
  <2>1. <<y, m>> \in R BY DEF R, OpToRel
  <2>. QED BY <1>1, <2>1
<1>. QED BY <1>2

LEMMA LeastOf ==
  ASSUME NEW S \in SUBSET Nat, S # {}
  PROVE  Min(S) \in S /\ \A y \in S : Min(S) =< y
BY LeastIn DEF Min

LEMMA EventIs ==
  /\ \A e \in Event : e = <<e[1], e[2]>> /\ e[1] \in Session /\ e[2] \in 1 .. MaxEvents
  /\ \A s \in Session, n \in 1 .. MaxEvents : <<s, n>> \in Event
BY DEF Event

LEMMA PosterIs ==
  /\ \A p \in Poster : p = <<p[1], p[2]>> /\ p[1] \in {"hook", "agent"} /\ p[2] \in Session
  /\ \A s \in Session : <<"hook", s>> \in Poster /\ <<"agent", s>> \in Poster
BY DEF Poster

(* Times and counts are numbers.                                           *)
LEMMA Numbers ==
  /\ {MaxEvents, MaxTurnFiles, MaxPerSession, MaxFiles} \subseteq Nat \ {0}
  /\ {TurnMaxAge, MaxAge, DedupTtl, DedupMax, MaxTime, MaxRestarts} \subseteq Nat
  /\ IsFiniteSet(Session) /\ TurnMaxAge < DedupTtl
BY SpoolAssumption

(* The event that is sent first is the oldest of them.                     *)
LEMMA FirstIn ==
  ASSUME NEW es \in SUBSET Event, es # {}
  PROVE  First(es) \in es /\ \A d \in es : First(es)[2] =< d[2]
<1> DEFINE ns == { e[2] : e \in es }
<1>1. ns \in SUBSET Nat /\ ns # {} BY EventIs, Numbers
<1>2. PICK n \in ns : \A m \in ns : n =< m BY <1>1, LeastIn
<1>3. \E e \in es : \A d \in es : e[2] =< d[2] BY <1>2
<1>. QED BY <1>3 DEF First

(* What a poster sends is an event of its session.                         *)
LEMMA SendingIs ==
  ASSUME Types, NEW p \in Poster, poster[p].pc \in {"replay", "own"}
  PROVE  /\ Sending(p) \in Event /\ Sending(p)[1] = p[2]
         /\ poster[p].pc = "replay" =>
              /\ Sending(p) \in poster[p].todo
              /\ \A d \in poster[p].todo : Sending(p)[2] =< d[2]
         /\ poster[p].pc = "own" => p[1] = "hook" /\ Sending(p) = Own(p)
<1>1. CASE poster[p].pc = "replay" BY <1>1, FirstIn DEF Types, PosterOK, State, Sending
<1>2. CASE poster[p].pc = "own"
  <2>1. p[1] = "hook" /\ made[p[2]] \in 1 .. MaxEvents
    <3>1. p[1] \in {"hook", "agent"} /\ p[2] \in Session /\ PosterOK(p)
      BY PosterIs DEF Types
    <3>2. p[1] = "hook" /\ made[p[2]] # 0 BY <1>2, <3>1 DEF PosterOK
    <3>. QED BY <3>1, <3>2, Numbers, SMTT(30) DEF Types
  <2>2. Sending(p) = Own(p) BY <1>2 DEF Sending
  <2>. QED BY <1>2, <2>1, <2>2, PosterIs, EventIs DEF Own
<1>. QED BY <1>1, <1>2

(* An active hook has an event.                                            *)
LEMMA OwnIs ==
  ASSUME Types, NEW p \in Poster, p[1] = "hook", poster[p].pc # "idle"
  PROVE  Own(p) \in Event /\ Own(p)[1] = p[2] /\ Own(p)[2] = made[p[2]]
BY PosterIs, Numbers, EventIs DEF Types, PosterOK, Own

(* What the hub remembers is the end of what it remembered, and with       *)
(* nothing too many it forgets only what is stale.                         *)
LEMMA RememberedIs ==
  ASSUME NEW d \in Seq(File), now \in 0 .. MaxTime
  PROVE  /\ Remembered(d) \in Seq(File)
         /\ \E k \in 1 .. Len(d) + 1 :
              /\ Len(Remembered(d)) = Len(d) - k + 1
              /\ \A i \in 1 .. Len(Remembered(d)) : Remembered(d)[i] = d[k + i - 1]
              /\ \A i \in 1 .. Len(d) :
                   Len(d) =< DedupMax /\ now - d[i].at < DedupTtl => k =< i
<1> DEFINE S == { i \in 1 .. Len(d) + 1 : Stays(d, i) }
           n == Len(d)
           k == Min(S)
<1>1. n \in Nat OBVIOUS
<1>2. n + 1 \in S BY <1>1, Numbers DEF Stays
<1>3. S \in SUBSET Nat BY <1>1
<1>4. k \in S /\ \A y \in S : k =< y BY <1>2, <1>3, LeastOf
<1>5. Remembered(d) = SubSeq(d, k, n) BY DEF Remembered
<1>6. k \in 1 .. n + 1 BY <1>4
<1>7. \A i \in 1 .. n : n =< DedupMax /\ now - d[i].at < DedupTtl => k =< i
  <2> SUFFICES ASSUME NEW i \in 1 .. n, n =< DedupMax, now - d[i].at < DedupTtl
               PROVE  i \in S
    BY <1>4
  <2>. QED BY <1>1, Numbers DEF Stays
<1> HIDE DEF k, n
<1>8. /\ SubSeq(d, k, n) \in Seq(File) /\ Len(SubSeq(d, k, n)) = n - k + 1
      /\ \A i \in 1 .. n - k + 1 : SubSeq(d, k, n)[i] = d[k + i - 1]
  BY <1>1, <1>6 DEF n
<1>. QED BY <1>5, <1>6, <1>7, <1>8 DEF n

(* Events the hub remembers.                                               *)
Known(d) == { d[i].event : i \in DOMAIN d }

LEMMA RememberedKnown ==
  ASSUME NEW d \in Seq(File), now \in 0 .. MaxTime
  PROVE  Known(Remembered(d)) \subseteq Known(d)
<1>1. PICK k \in 1 .. Len(d) + 1 :
        /\ Len(Remembered(d)) = Len(d) - k + 1
        /\ \A i \in 1 .. Len(Remembered(d)) : Remembered(d)[i] = d[k + i - 1]
  BY RememberedIs
<1>2. Remembered(d) \in Seq(File) BY RememberedIs
<1> SUFFICES ASSUME NEW i \in 1 .. Len(Remembered(d)) PROVE Remembered(d)[i].event \in Known(d)
  BY <1>2 DEF Known
<1>3. Remembered(d)[i] = d[k + i - 1] /\ k + i - 1 \in DOMAIN d BY <1>1, <1>2
<1>. QED BY <1>3 DEF Known

(* Accept: a copy changes nothing, and what is new is handled.             *)
LEMMA AcceptIs ==
  ASSUME Types, NEW e \in Event, Accept(e)
  PROVE  /\ dedup' \in Seq(File) /\ handled' \in Seq(Record)
         /\ \/ /\ handled' = handled /\ dedup' = Remembered(dedup)
               /\ e \in Known(dedup) \/ ~Read(e)
            \/ /\ handled' = Append(handled, [event |-> e, run |-> hub])
               /\ dedup' = Remembered(Append(Remembered(dedup), [event |-> e, at |-> now]))
               /\ e \notin Known(Remembered(dedup)) /\ Read(e)
<1>0. dedup \in Seq(File) /\ now \in 0 .. MaxTime /\ handled \in Seq(Record)
      /\ hub \in 0 .. MaxRestarts
  BY DEF Types
<1>1. Remembered(dedup) \in Seq(File) /\ Known(Remembered(dedup)) \subseteq Known(dedup)
  BY <1>0, RememberedIs, RememberedKnown
<1>2. Seen(e) <=> e \in Known(Remembered(dedup)) BY DEF Seen, Known
<1>3. CASE Seen(e) \/ ~Read(e) BY <1>0, <1>1, <1>2, <1>3 DEF Accept
<1>4. CASE ~(Seen(e) \/ ~Read(e))
  <2>1. [event |-> e, at |-> now] \in File /\ [event |-> e, run |-> hub] \in Record
    BY <1>0 DEF File, Record
  <2>2. Append(Remembered(dedup), [event |-> e, at |-> now]) \in Seq(File) BY <1>1, <2>1
  <2>3. Inserted(e) \in Seq(File) BY <1>0, <2>2, RememberedIs DEF Inserted
  <2>4. Append(handled, [event |-> e, run |-> hub]) \in Seq(Record) BY <1>0, <2>1
  <2>. QED BY <1>2, <1>4, <2>3, <2>4 DEF Accept, Inserted
<1>. QED BY <1>3, <1>4

-----------------------------------------------------------------------------
(* The types.                                                              *)
LEMMA EventsIn ==
  ASSUME NEW fs \in SUBSET File
  PROVE  Events(fs) \in SUBSET Event
BY DEF Events, File

LEMMA DeleteIs ==
  ASSUME Types, NEW gone \in SUBSET files, Delete(gone)
  PROVE  /\ files' = files \ gone /\ files' \in SUBSET File /\ IsFiniteSet(files')
         /\ lost' = lost \cup Events(gone) /\ lost' \in SUBSET Event
BY FS_Subset, EventsIn DEF Types, Delete

LEMMA PendingIs ==
  ASSUME Types, NEW s \in Session
  PROVE  Pending(s) \in SUBSET Event /\ \A e \in Pending(s) : e[1] = s
BY EventsIn DEF Types, FilesOf, Pruned, Pending, Events

(* A poster moves on, the others stay.                                     *)
LEMMA PosterMoves ==
  ASSUME Types, NEW p \in Poster, NEW x \in State, poster' = [poster EXCEPT ![p] = x],
         made' = made,
         x.todo # {} <=> x.pc = "replay", \A e \in x.todo : e[1] = p[2],
         p[1] = "agent" => x.pc \in {"idle", "replay"},
         x.pc # "idle" => poster[p].pc # "idle" \/ p[1] = "agent"
  PROVE  poster' \in [Poster -> State] /\ \A q \in Poster : PosterOK(q)'
BY DEF Types, PosterOK

LEMMA IdleIs == Idle \in State /\ Idle.pc = "idle" /\ Idle.todo = {}
BY DEF Idle, State

LEMMA InitTypes ==
  ASSUME Init
  PROVE  Types
BY Numbers, FS_EmptySet, IdleIs DEF Init, PosterOK, Types

LEMMA HookStartsTypes ==
  ASSUME Types, NEW s \in Session, HookStarts(s)
  PROVE  Types'
<1> DEFINE p == <<"hook", s>>
           x == [pc |-> IF Pending(s) = {} THEN "own" ELSE "replay", todo |-> Pending(s)]
<1>1. p \in Poster /\ p[1] = "hook" /\ p[2] = s BY PosterIs
<1>2. FilesOf(files \ Pruned, s) \in SUBSET files BY DEF FilesOf
<1>3. files' \in SUBSET File /\ IsFiniteSet(files') /\ lost' \in SUBSET Event
  BY <1>2, DeleteIs DEF HookStarts
<1>4. made' = [made EXCEPT ![s] = @ + 1] /\ made \in [Session -> 0 .. MaxEvents]
      /\ made[s] < MaxEvents
  BY DEF HookStarts, Types
<1>5. made' \in [Session -> 0 .. MaxEvents] /\ made'[s] # 0
      /\ \A r \in Session : made[r] # 0 => made'[r] # 0
  BY <1>4, Numbers
<1>6. x \in State BY PendingIs DEF State
<1>7. poster' = [poster EXCEPT ![p] = x] /\ poster \in [Poster -> State]
  BY DEF HookStarts, Types
<1>8. /\ poster' \in [Poster -> State] /\ poster'[p] = x
      /\ \A q \in Poster : q # p => poster'[q] = poster[q]
  BY <1>1, <1>6, <1>7
<1>9. PosterOK(p)' BY <1>1, <1>5, <1>8, PendingIs DEF PosterOK
<1>10. ASSUME NEW q \in Poster, q # p PROVE PosterOK(q)'
  BY <1>8, <1>10, PosterIs, <1>5 DEF Types, PosterOK
<1>11. \A q \in Poster : PosterOK(q)' BY <1>9, <1>10
<1>12. UNCHANGED <<late, dedup, handled, hub, now>> BY DEF HookStarts
<1> HIDE DEF x, p
<1>. QED BY <1>3, <1>5, <1>8, <1>11, <1>12 DEF Types

LEMMA AgentReplaysTypes ==
  ASSUME Types, NEW s \in Session, AgentReplays(s)
  PROVE  Types'
<1> DEFINE p == <<"agent", s>>
           x == IF Pending(s) = {} THEN Idle ELSE [pc |-> "replay", todo |-> Pending(s)]
<1>1. p \in Poster /\ p[1] = "agent" /\ p[2] = s BY PosterIs
<1>2. FilesOf(files \ Pruned, s) \in SUBSET files BY DEF FilesOf
<1>3. files' \in SUBSET File /\ IsFiniteSet(files') /\ lost' \in SUBSET Event
  BY <1>2, DeleteIs DEF AgentReplays
<1>4. /\ x \in State /\ (x.todo # {} <=> x.pc = "replay") /\ x.pc \in {"idle", "replay"}
      /\ \A e \in x.todo : e[1] = s
  BY PendingIs, IdleIs DEF State
<1>5. poster' = [poster EXCEPT ![p] = x] /\ made' = made BY DEF AgentReplays
<1> HIDE DEF x, p
<1>6. poster' \in [Poster -> State] /\ \A q \in Poster : PosterOK(q)'
  BY <1>1, <1>4, <1>5, PosterMoves
<1>7. UNCHANGED <<made, late, dedup, handled, hub, now>> BY DEF AgentReplays
<1>. QED BY <1>3, <1>6, <1>7 DEF Types

LEMMA SamePosters ==
  ASSUME Types, UNCHANGED <<made, poster>>
  PROVE  \A p \in Poster : PosterOK(p)'
BY DEF Types, PosterOK

(* After(p) is a fit state of p.                                           *)
LEMMA AfterIs ==
  ASSUME Types, NEW p \in Poster, poster[p].pc = "replay"
  PROVE  /\ After(p) \in State /\ (After(p).todo # {} <=> After(p).pc = "replay")
         /\ After(p).todo \subseteq poster[p].todo \ {Sending(p)}
         /\ \A e \in After(p).todo : e[1] = p[2]
         /\ After(p).pc \in {"replay", "own", "idle"}
         /\ p[1] = "agent" => After(p).pc \in {"idle", "replay"}
         /\ p[1] = "hook" => After(p).pc # "idle"
         /\ After(p).pc = "replay" => After(p).todo = poster[p].todo \ {Sending(p)}
         /\ After(p).pc # "replay" => poster[p].todo = {Sending(p)}
<1> DEFINE rest == poster[p].todo \ {Sending(p)}
<1>1. poster[p].todo \in SUBSET Event /\ (\A e \in poster[p].todo : e[1] = p[2])
      /\ Sending(p) \in poster[p].todo
  BY SendingIs DEF Types, State, PosterOK
<1>2. CASE rest # {} BY <1>2, <1>1 DEF After, State
<1>3. CASE rest = {} /\ p[1] = "hook" BY <1>3, <1>1 DEF After, State
<1>4. CASE rest = {} /\ p[1] # "hook" BY <1>4, <1>1, IdleIs DEF After
<1>. QED BY <1>2, <1>3, <1>4

LEMMA AnsweredTypes ==
  ASSUME Types, NEW p \in Poster, Answered(p)
  PROVE  Types'
<1>1. poster[p].pc \in {"replay", "own"} /\ Accept(Sending(p)) /\ UNCHANGED <<made, late, hub, now>>
  BY DEF Answered
<1>2. Sending(p) \in Event BY <1>1, SendingIs
<1>3. dedup' \in Seq(File) /\ handled' \in Seq(Record) BY <1>1, <1>2, AcceptIs
<1>4. lost' \in SUBSET Event BY <1>2 DEF Answered, Types
<1>5. files' \in SUBSET files BY DEF Answered
<1>6. files' \in SUBSET File /\ IsFiniteSet(files') BY <1>5, FS_Subset DEF Types
<1>7. poster' \in [Poster -> State] /\ \A q \in Poster : PosterOK(q)'
  BY <1>1, IdleIs, PosterMoves, AfterIs DEF Answered
<1>. QED BY <1>1, <1>3, <1>4, <1>6, <1>7 DEF Types

LEMMA FailedTypes ==
  ASSUME Types, NEW p \in Poster, Failed(p)
  PROVE  Types'
<1> DEFINE x == IF p[1] = "hook" THEN [pc |-> "save", todo |-> {}] ELSE Idle
<1>1. poster[p].pc \in {"replay", "own"} /\ poster' = [poster EXCEPT ![p] = x]
      /\ UNCHANGED <<made, files, dedup, handled, hub, lost, now>>
  BY DEF Failed
<1>2. Sending(p) \in Event BY <1>1, SendingIs
<1>3. late' \in SUBSET Event BY <1>2 DEF Failed, Types
<1>4. /\ x \in State /\ x.todo = {} /\ x.pc # "replay"
      /\ p[1] = "agent" => x.pc \in {"idle", "replay"}
  BY IdleIs DEF State
<1>5. poster[p].pc # "idle" BY <1>1
<1> HIDE DEF x
<1>6. poster' \in [Poster -> State] /\ \A q \in Poster : PosterOK(q)'
  BY <1>1, <1>4, <1>5, PosterMoves
<1>. QED BY <1>1, <1>3, <1>6 DEF Types

LEMMA MakeRoomTypes ==
  ASSUME Types, NEW p \in Poster, MakeRoom(p)
  PROVE  /\ Types' /\ files' \in SUBSET files /\ poster[p].pc = "save"
         /\ lost' = lost \cup Events(files \ files') \cup (lost' \cap {Own(p)})
         /\ \/ poster' = [poster EXCEPT ![p] = Idle] /\ Own(p) \in lost'
            \/ poster' = [poster EXCEPT ![p] = [@ EXCEPT !.pc = "write"]]
<1> DEFINE own   == FilesOf(Pruned, p[2])
           oldest == Oldest({ f \in own : IsTurn(f.event) })
           full  == \/ Cardinality(Pruned) >= MaxFiles
                    \/ ~IsTurn(Own(p)) /\ Cardinality(own) >= MaxPerSession
           gone  == (files \ Pruned) \cup (IF full \/ ~IsTurn(Own(p)) THEN {} ELSE oldest)
<1>1. /\ poster[p].pc = "save"
      /\ files' = files \ gone
      /\ lost' = lost \cup Events(gone) \cup IF full THEN {Own(p)} ELSE {}
      /\ poster' = [poster EXCEPT ![p] = IF full THEN Idle ELSE [@ EXCEPT !.pc = "write"]]
      /\ UNCHANGED <<made, late, dedup, handled, hub, now>>
  BY DEF MakeRoom
<1>2. gone \in SUBSET files BY DEF Oldest, FilesOf, Pruned
<1> HIDE DEF gone, full
<1>3. p[1] = "hook" BY <1>1, PosterIs DEF Types, PosterOK
<1>4. Own(p) \in Event BY <1>1, <1>3, OwnIs
<1>5. Events(gone) \in SUBSET Event /\ files' \in SUBSET files
  BY <1>1, <1>2, EventsIn DEF Types
<1>6. files' \in SUBSET File /\ IsFiniteSet(files') /\ lost' \in SUBSET Event
  BY <1>1, <1>4, <1>5, FS_Subset DEF Types
<1>7. poster[p] \in State /\ poster[p].todo = {} BY <1>1 DEF Types, PosterOK
<1>8. poster' \in [Poster -> State] /\ \A q \in Poster : PosterOK(q)'
  <2>1. CASE full BY <1>1, <2>1, IdleIs, PosterMoves
  <2>2. CASE ~full
    <3> DEFINE x == [poster[p] EXCEPT !.pc = "write"]
    <3>1. poster' = [poster EXCEPT ![p] = x] BY <1>1, <2>2
    <3>2. x \in State /\ x.pc = "write" /\ x.todo = {} BY <1>7 DEF State
    <3> HIDE DEF x
    <3>. QED BY <1>1, <1>3, <3>1, <3>2, PosterMoves
  <2>. QED BY <2>1, <2>2
<1>9. Types' BY <1>1, <1>6, <1>8 DEF Types
<1>10. files \ files' = gone BY <1>1, <1>2
<1>. QED BY <1>1, <1>5, <1>9, <1>10

LEMMA WriteTypes ==
  ASSUME Types, NEW p \in Poster, Write(p)
  PROVE  Types' /\ p[1] = "hook"
<1>1. /\ poster[p].pc = "write" /\ poster' = [poster EXCEPT ![p] = Idle]
      /\ UNCHANGED <<made, late, dedup, handled, hub, now>>
  BY DEF Write
<1>2. p[1] = "hook" BY <1>1, PosterIs DEF Types, PosterOK
<1>3. Own(p) \in Event BY <1>1, <1>2, OwnIs
<1>4. files \in SUBSET File /\ IsFiniteSet(files) /\ lost \in SUBSET Event /\ now \in 0 .. MaxTime
  BY DEF Types
<1>5. [event |-> Own(p), at |-> now] \in File BY <1>3, <1>4 DEF File
<1>6. files' \in SUBSET File /\ lost' \in SUBSET Event BY <1>3, <1>4, <1>5 DEF Write
<1>7. IsFiniteSet(files')
  <2>1. IsFiniteSet(files \cup {[event |-> Own(p), at |-> now]}) BY <1>4, FS_AddElement
  <2>. QED BY <1>4, <2>1 DEF Write
<1>8. poster' \in [Poster -> State] /\ \A q \in Poster : PosterOK(q)'
  BY <1>1, <1>2, IdleIs, PosterMoves
<1>. QED BY <1>1, <1>2, <1>6, <1>7, <1>8 DEF Types

LEMMA DiesTypes ==
  ASSUME Types, NEW p \in Poster, Dies(p)
  PROVE  Types'
<1>1. /\ poster' = [poster EXCEPT ![p] = Idle] /\ poster[p] # Idle
      /\ UNCHANGED <<made, files, late, dedup, handled, hub, now>>
  BY DEF Dies
<1>2. poster' \in [Poster -> State] /\ \A q \in Poster : PosterOK(q)'
  BY <1>1, IdleIs, PosterMoves
<1>3. poster[p].pc # "idle" BY <1>1 DEF Types, PosterOK, State, Idle
<1>4. lost' \in SUBSET Event BY <1>3, OwnIs DEF Dies, Types
<1>. QED BY <1>1, <1>2, <1>4 DEF Types

LEMMA LateCopyTypes ==
  ASSUME Types, NEW e \in Event, LateCopy(e)
  PROVE  Types'
BY AcceptIs, SamePosters DEF LateCopy, Types

LEMMA OtherTypes ==
  ASSUME Types, Sweep \/ HubRestart \/ Tick
  PROVE  Types'
<1>1. CASE Sweep BY <1>1, DeleteIs, SamePosters DEF Sweep, Pruned, Types
<1>2. CASE HubRestart
  <2>1. /\ hub < MaxRestarts /\ hub' = hub + 1 /\ dedup' = <<>> /\ late' = {}
        /\ UNCHANGED <<made, files, poster, handled, lost, now>>
    BY <1>2 DEF HubRestart
  <2>2. hub' \in 0 .. MaxRestarts BY <2>1, Numbers DEF Types
  <2>. QED BY <2>1, <2>2, SamePosters DEF Types
<1>3. CASE Tick
  <2>1. /\ now < MaxTime /\ now' = now + 1
        /\ UNCHANGED <<made, files, poster, late, dedup, handled, hub, lost>>
    BY <1>3 DEF Tick
  <2>2. now' \in 0 .. MaxTime BY <2>1, Numbers DEF Types
  <2>. QED BY <2>1, <2>2, SamePosters DEF Types
<1>. QED BY <1>1, <1>2, <1>3

LEMMA NextTypes ==
  ASSUME Types, [Next]_spoolVars
  PROVE  Types'
BY SamePosters, HookStartsTypes, AgentReplaysTypes, AnsweredTypes, FailedTypes, MakeRoomTypes,
   WriteTypes, DiesTypes, LateCopyTypes, OtherTypes DEF spoolVars, Types, Next

-----------------------------------------------------------------------------
(* The bounds of the spool.                                                *)
Writing(s) == poster[<<"hook", s>>].pc = "write"

Writers == { s \in Session : Writing(s) }

TurnFiles(s) == { f \in files : f.event[1] = s /\ IsTurn(f.event) }

(* A hook that is about to write has room for its file.                    *)
Bounds ==
  /\ Cardinality(files) + Cardinality(Writers) =< MaxFiles + Cardinality(Session) - 1
  /\ \A s \in Session :
       Cardinality(TurnFiles(s)) + (IF Writing(s) /\ made[s] \in Turn THEN 1 ELSE 0)
         =< MaxTurnFiles

LEMMA Counts ==
  ASSUME Types
  PROVE  /\ Cardinality(files) \in Nat /\ Cardinality(Session) \in Nat
         /\ IsFiniteSet(Writers) /\ Cardinality(Writers) \in Nat
         /\ Cardinality(Writers) =< Cardinality(Session)
         /\ \A s \in Session : IsFiniteSet(TurnFiles(s)) /\ Cardinality(TurnFiles(s)) \in Nat
<1>1. IsFiniteSet(files) /\ IsFiniteSet(Session) BY Numbers DEF Types
<1>2. Writers \subseteq Session BY DEF Writers
<1>3. \A s \in Session : IsFiniteSet(TurnFiles(s))
  <2> SUFFICES ASSUME NEW s \in Session PROVE IsFiniteSet(TurnFiles(s))
    OBVIOUS
  <2>1. TurnFiles(s) \subseteq files BY DEF TurnFiles
  <2>. QED BY <1>1, <2>1, FS_Subset
<1>4. IsFiniteSet(Writers) /\ Cardinality(Writers) =< Cardinality(Session)
  BY <1>1, <1>2, FS_Subset
<1>. QED BY <1>1, <1>3, <1>4, FS_CardinalityType

LEMMA TypesCounts ==
  ASSUME Types, Types'
  PROVE  /\ Cardinality(files') \in Nat
         /\ IsFiniteSet(Writers') /\ Cardinality(Writers') \in Nat
         /\ Cardinality(Writers') =< Cardinality(Session)
         /\ \A s \in Session : IsFiniteSet(TurnFiles(s)') /\ Cardinality(TurnFiles(s)') \in Nat
<1>1. IsFiniteSet(files') /\ IsFiniteSet(Session) BY Numbers DEF Types
<1>2. Writers' \subseteq Session BY DEF Writers
<1>3. \A s \in Session : IsFiniteSet(TurnFiles(s)')
  <2> SUFFICES ASSUME NEW s \in Session PROVE IsFiniteSet(TurnFiles(s)')
    OBVIOUS
  <2>1. TurnFiles(s)' \subseteq files' BY DEF TurnFiles
  <2>. QED BY <1>1, <2>1, FS_Subset
<1>4. IsFiniteSet(Writers') /\ Cardinality(Writers') =< Cardinality(Session)
  BY <1>1, <1>2, FS_Subset
<1>. QED BY <1>1, <1>3, <1>4, FS_CardinalityType

(* Fewer files and fewer hooks that are about to write.                    *)
LEMMA FewerBounds ==
  ASSUME Types, Types', Bounds, files' \in SUBSET files,
         \A s \in Session : Writing(s)' => Writing(s) /\ made'[s] = made[s]
  PROVE  Bounds'
<1>1. Cardinality(files') =< Cardinality(files) BY FS_Subset DEF Types
<1>2. Cardinality(Writers') =< Cardinality(Writers) BY Counts, FS_Subset DEF Writers
<1>3. \A s \in Session : Cardinality(TurnFiles(s)') =< Cardinality(TurnFiles(s))
  <2> SUFFICES ASSUME NEW s \in Session
               PROVE  Cardinality(TurnFiles(s)') =< Cardinality(TurnFiles(s))
    OBVIOUS
  <2>1. TurnFiles(s)' \subseteq TurnFiles(s) BY DEF TurnFiles
  <2>. QED BY <2>1, Counts, FS_Subset
<1>4. Cardinality(files') + Cardinality(Writers') =< MaxFiles + Cardinality(Session) - 1
  BY <1>1, <1>2, Counts, TypesCounts, Numbers DEF Bounds
<1>5. ASSUME NEW s \in Session
      PROVE  Cardinality(TurnFiles(s)') + (IF Writing(s)' /\ made'[s] \in Turn THEN 1 ELSE 0)
               =< MaxTurnFiles
  BY Counts, TypesCounts, Numbers, <1>3 DEF Bounds
<1>. QED BY <1>4, <1>5 DEF Bounds

(* A step that brings no hook to its write.                                *)
LEMMA NoWriteBounds ==
  ASSUME Types, Types', Bounds, files' \in SUBSET files,
         NEW p \in Poster, NEW x, x.pc # "write", poster' = [poster EXCEPT ![p] = x],
         \A s \in Session : made'[s] = made[s] \/ p = <<"hook", s>>
  PROVE  Bounds'
<1>1. \A s \in Session : Writing(s)' => Writing(s) /\ made'[s] = made[s]
  <2> SUFFICES ASSUME NEW s \in Session, Writing(s)' PROVE Writing(s) /\ made'[s] = made[s]
    OBVIOUS
  <2>1. <<"hook", s>> \in Poster /\ poster \in [Poster -> State] BY PosterIs DEF Types
  <2>2. p # <<"hook", s>> BY <2>1 DEF Writing
  <2>3. poster'[<<"hook", s>>] = poster[<<"hook", s>>] BY <2>1, <2>2
  <2>. QED BY <2>2, <2>3 DEF Writing
<1>. QED BY <1>1, FewerBounds

(* The oldest turn files of a session make room for one.                   *)
LEMMA OldestMakesRoom ==
  ASSUME NEW T \in SUBSET File, IsFiniteSet(T)
  PROVE  Cardinality(T \ Oldest(T)) =< MaxTurnFiles - 1
<1> DEFINE R == T \ Oldest(T)
           Newer(f) == { g \in T : g.event[2] >= f.event[2] }
<1>1. \A f \in R : ~(Cardinality(Newer(f)) >= MaxTurnFiles) BY DEF Oldest
<1>2. CASE R = {} BY <1>2, FS_EmptySet, Numbers
<1>3. CASE R # {}
  <2> DEFINE ns == { f.event[2] : f \in R }
  <2>1. ns \in SUBSET Nat /\ ns # {} BY <1>3, EventIs, Numbers DEF File
  <2>2. PICK n \in ns : \A m \in ns : n =< m BY <2>1, LeastIn
  <2>3. PICK f \in R : f.event[2] = n BY <2>2
  <2>4. R \subseteq Newer(f)
    <3> SUFFICES ASSUME NEW g \in R PROVE g.event[2] >= f.event[2]
      OBVIOUS
    <3>1. g.event[2] \in ns /\ f.event[2] \in ns OBVIOUS
    <3>2. f.event[2] =< g.event[2] BY <2>2, <2>3, <3>1
    <3>3. g.event[2] \in Nat /\ f.event[2] \in Nat BY <2>1, <3>1
    <3>. QED BY <3>2, <3>3
  <2>5. IsFiniteSet(Newer(f)) /\ IsFiniteSet(R) BY FS_Subset
  <2>6. Cardinality(R) =< Cardinality(Newer(f)) BY <2>4, <2>5, FS_Subset
  <2>7. Cardinality(R) \in Nat /\ Cardinality(Newer(f)) \in Nat
    BY <2>5, FS_CardinalityType
  <2>8. ~(Cardinality(Newer(f)) >= MaxTurnFiles) BY <1>1, <2>3
  <2>9. MaxTurnFiles \in Nat BY Numbers
  <2>10. Cardinality(R) =< MaxTurnFiles - 1
    <3> HIDE DEF R, Newer
    <3>. QED BY <2>6, <2>7, <2>8, <2>9
  <2>. QED BY <2>10
<1>. QED BY <1>2, <1>3

LEMMA MakeRoomBounds ==
  ASSUME Types, Bounds, NEW p \in Poster, MakeRoom(p)
  PROVE  Bounds'
<1> DEFINE s     == p[2]
           own   == FilesOf(Pruned, s)
           turns == { f \in own : IsTurn(f.event) }
           full  == \/ Cardinality(Pruned) >= MaxFiles
                    \/ ~IsTurn(Own(p)) /\ Cardinality(own) >= MaxPerSession
<1>1. Types' /\ files' \in SUBSET files BY MakeRoomTypes
<1>2. poster[p].pc = "save" /\ made' = made
      /\ poster' = [poster EXCEPT ![p] = IF full THEN Idle ELSE [@ EXCEPT !.pc = "write"]]
  BY DEF MakeRoom
<1>3. p = <<"hook", s>> /\ s \in Session BY PosterIs, <1>2 DEF Types, PosterOK
<1>4. CASE full BY <1>2, <1>4, IdleIs, <1>1, NoWriteBounds
<1>5. CASE ~full
  <2>1. files' = files \ ((files \ Pruned) \cup IF ~IsTurn(Own(p)) THEN {} ELSE Oldest(turns))
    BY <1>5 DEF MakeRoom
  <2>2. ~(Cardinality(Pruned) >= MaxFiles) BY <1>5
  <2> HIDE DEF full
  <2>3. Pruned \subseteq files /\ turns \subseteq Pruned /\ IsFiniteSet(files) /\ files \subseteq File
    BY DEF Pruned, FilesOf, Types
  <2>4. IsFiniteSet(Pruned) /\ IsFiniteSet(turns) BY <2>3, FS_Subset
  <2>5. Cardinality(files') =< MaxFiles - 1
    <3>1. files' \subseteq Pruned BY <2>1
    <3>2. Cardinality(files') =< Cardinality(Pruned) BY <2>4, <3>1, FS_Subset
    <3>3. Cardinality(Pruned) \in Nat BY <2>4, FS_CardinalityType
    <3>. QED BY <1>1, <2>2, <3>2, <3>3, TypesCounts, Numbers
  <2>6. Cardinality(files') + Cardinality(Writers') =< MaxFiles + Cardinality(Session) - 1
    BY <1>1, <2>5, Counts, TypesCounts, Numbers
  <2>7. ASSUME NEW r \in Session
        PROVE  Cardinality(TurnFiles(r)') + (IF Writing(r)' /\ made'[r] \in Turn THEN 1 ELSE 0)
                 =< MaxTurnFiles
    <3>1. /\ Cardinality(TurnFiles(r)') \in Nat /\ Cardinality(TurnFiles(r)) \in Nat
          /\ MaxTurnFiles \in Nat
      BY <1>1, Counts, TypesCounts, Numbers
    <3>2. Cardinality(TurnFiles(r)) + (IF Writing(r) /\ made[r] \in Turn THEN 1 ELSE 0)
            =< MaxTurnFiles
      BY DEF Bounds
    <3>3. Cardinality(TurnFiles(r)') =< Cardinality(TurnFiles(r))
      BY <1>1, Counts, FS_Subset DEF TurnFiles
    <3>4. CASE r # s BY <1>3, <3>4, PosterIs, <1>2, <3>1, <3>2, <3>3 DEF Types, Writing
    <3>5. CASE r = s /\ made[s] \notin Turn BY <1>2, <3>1, <3>2, <3>3, <3>5
    <3>6. CASE r = s /\ made[s] \in Turn
      <4>1. IsTurn(Own(p)) BY <3>6 DEF IsTurn, Own
      <4>2. TurnFiles(s)' \subseteq turns \ Oldest(turns)
        BY <2>1, <4>1 DEF TurnFiles, FilesOf
      <4>3. Cardinality(TurnFiles(s)') =< Cardinality(turns \ Oldest(turns))
            /\ Cardinality(turns \ Oldest(turns)) \in Nat
        BY <2>4, <4>2, FS_Subset, FS_CardinalityType
      <4>4. Cardinality(turns \ Oldest(turns)) =< MaxTurnFiles - 1
        BY <2>3, <2>4, OldestMakesRoom
      <4> HIDE DEF turns
      <4>5. Cardinality(TurnFiles(s)') =< MaxTurnFiles - 1 BY <3>1, <3>6, <4>3, <4>4
      <4>. QED BY <3>1, <3>6, <4>5
    <3>. QED BY <3>4, <3>5, <3>6
  <2>. QED BY <2>6, <2>7 DEF Bounds
<1>. QED BY <1>4, <1>5

LEMMA WriteBounds ==
  ASSUME Types, Bounds, NEW p \in Poster, Write(p)
  PROVE  Bounds'
<1> DEFINE s == p[2]
           f == [event |-> Own(p), at |-> now]
<1>1. Types' /\ p = <<"hook", s>> /\ s \in Session BY WriteTypes, PosterIs
<1>2. poster[p].pc = "write" /\ made' = made /\ poster' = [poster EXCEPT ![p] = Idle]
  BY DEF Write
<1>3. CASE files' = files BY <1>2, IdleIs, <1>1, <1>3, NoWriteBounds
<1>4. CASE files' = files \cup {f}
  <2> HIDE DEF f
  <2>1. Writing(s) /\ ~Writing(s)' /\ \A r \in Session \ {s} : Writing(r)' <=> Writing(r)
    BY <1>2, <1>1, PosterIs, IdleIs DEF Types, Writing
  <2>2. Writers' = Writers \ {s} /\ s \in Writers BY <1>1, <2>1 DEF Writers
  <2>3. Cardinality(Writers') = Cardinality(Writers) - 1
    BY <2>2, Counts, FS_RemoveElement
  <2>4. Cardinality(files') =< Cardinality(files) + 1
    <3>1. Cardinality(files \cup {f}) =< Cardinality(files) + 1
      <4>1. IsFiniteSet(files) /\ Cardinality(files) \in Nat BY Counts DEF Types
      <4>2. Cardinality(files \cup {f})
              = IF f \in files THEN Cardinality(files) ELSE Cardinality(files) + 1
        BY <4>1, FS_AddElement
      <4>. QED BY <4>1, <4>2
    <3>. QED BY <1>4, <3>1
  <2>5. Cardinality(files') + Cardinality(Writers') =< MaxFiles + Cardinality(Session) - 1
    BY <1>1, <2>3, <2>4, Counts, TypesCounts, Numbers DEF Bounds
  <2>6. ASSUME NEW r \in Session
        PROVE  Cardinality(TurnFiles(r)') + (IF Writing(r)' /\ made'[r] \in Turn THEN 1 ELSE 0)
                 =< MaxTurnFiles
    <3>1. /\ Cardinality(TurnFiles(r)') \in Nat /\ Cardinality(TurnFiles(r)) \in Nat
          /\ MaxTurnFiles \in Nat
      BY <1>1, Counts, TypesCounts, Numbers
    <3>2. Cardinality(TurnFiles(r)) + (IF Writing(r) /\ made[r] \in Turn THEN 1 ELSE 0)
            =< MaxTurnFiles
      BY DEF Bounds
    <3>3. f.event = <<s, made[s]>> BY DEF f, Own
    <3>4. CASE r # s
      <4>1. TurnFiles(r)' = TurnFiles(r) BY <1>4, <3>3, <3>4 DEF TurnFiles
      <4>. QED BY <1>2, <2>1, <3>2, <3>4, <4>1
    <3>5. CASE r = s /\ made[s] \notin Turn
      <4>1. TurnFiles(r)' = TurnFiles(r) BY <1>4, <3>3, <3>5 DEF TurnFiles, IsTurn
      <4>. QED BY <1>2, <3>1, <3>2, <3>5, <4>1
    <3>6. CASE r = s /\ made[s] \in Turn
      BY <1>4, Counts, FS_AddElement, FS_Subset, FS_CardinalityType, <2>1, <3>1, <3>2, <3>6
         DEF TurnFiles
    <3>. QED BY <3>4, <3>5, <3>6
  <2>. QED BY <2>5, <2>6 DEF Bounds
<1>. QED BY <1>3, <1>4 DEF Write

LEMMA InitBounds ==
  ASSUME Init
  PROVE  Bounds
BY InitTypes, IdleIs, PosterIs, FS_EmptySet, Counts, Numbers DEF Init, Writing, Writers,
   TurnFiles, Bounds

LEMMA NextBounds ==
  ASSUME Types, Bounds, [Next]_spoolVars
  PROVE  Bounds'
<1>0. Types' BY NextTypes
<1>1. CASE UNCHANGED <<made, poster>> /\ files' \in SUBSET files
  BY <1>0, <1>1, FewerBounds DEF Writing
<1>2. ASSUME NEW s \in Session, HookStarts(s) PROVE Bounds'
  <2> DEFINE x == [pc |-> IF Pending(s) = {} THEN "own" ELSE "replay", todo |-> Pending(s)]
  <2>1. /\ poster' = [poster EXCEPT ![<<"hook", s>>] = x] /\ x.pc # "write"
        /\ <<"hook", s>> \in Poster /\ files' \in SUBSET files
    BY <1>2, PosterIs DEF HookStarts, Delete
  <2>2. \A r \in Session : made'[r] = made[r] \/ <<"hook", s>> = <<"hook", r>>
    BY <1>2 DEF HookStarts, Types
  <2> HIDE DEF x
  <2>. QED BY <1>0, <2>1, <2>2, NoWriteBounds
<1>3. ASSUME NEW s \in Session, AgentReplays(s) PROVE Bounds'
  <2> DEFINE x == IF Pending(s) = {} THEN Idle ELSE [pc |-> "replay", todo |-> Pending(s)]
  <2>1. /\ poster' = [poster EXCEPT ![<<"agent", s>>] = x] /\ x.pc # "write"
        /\ <<"agent", s>> \in Poster /\ files' \in SUBSET files /\ made' = made
    BY <1>3, PosterIs, IdleIs DEF AgentReplays, Delete
  <2> HIDE DEF x
  <2>. QED BY <1>0, <2>1, NoWriteBounds
<1>4. ASSUME NEW p \in Poster, Answered(p) \/ Failed(p) \/ Dies(p) PROVE Bounds'
  <2>1. files' \in SUBSET files /\ made' = made BY <1>4 DEF Answered, Failed, Dies
  <2>2. \E x : x.pc # "write" /\ poster' = [poster EXCEPT ![p] = x]
    <3>1. CASE Answered(p) BY <3>1, IdleIs, AfterIs DEF Answered
    <3>2. CASE Failed(p)
      <4> DEFINE x == IF p[1] = "hook" THEN [pc |-> "save", todo |-> {}] ELSE Idle
      <4>1. x.pc # "write" /\ poster' = [poster EXCEPT ![p] = x]
        BY <3>2, IdleIs DEF Failed
      <4>. QED BY <4>1
    <3>3. CASE Dies(p) BY <3>3, IdleIs DEF Dies
    <3>. QED BY <1>4, <3>1, <3>2, <3>3
  <2>. QED BY <1>0, <2>1, <2>2, NoWriteBounds
<1>5. ASSUME NEW p \in Poster, MakeRoom(p) \/ Write(p) PROVE Bounds'
  BY <1>5, MakeRoomBounds, WriteBounds
<1>6. CASE \E e \in Event : LateCopy(e) BY <1>1, <1>6 DEF LateCopy
<1>7. CASE Sweep \/ HubRestart \/ Tick BY <1>1, <1>7 DEF Sweep, HubRestart, Tick, Delete
<1>8. CASE UNCHANGED spoolVars BY <1>1, <1>8 DEF spoolVars
<1>. QED BY <1>2, <1>3, <1>4, <1>5, <1>6, <1>7, <1>8 DEF Next

-----------------------------------------------------------------------------
(* The order of a session's events.                                        *)
HandledEvents == { handled[i].event : i \in DOMAIN handled }

Settled(e) == e \in HandledEvents \/ e \in lost

Busy(s) == poster[<<"hook", s>>].pc # "idle"

Older(d, e) == d[1] = e[1] /\ d[2] < e[2]

(* What was not made yet is nowhere, and a hook's own event is not kept    *)
(* before the hook is done.                                                *)
MadeOK ==
  /\ \A e \in HandledEvents \cup late \cup Events(files) : e[2] =< made[e[1]]
  /\ \A s \in Session : Busy(s) => <<s, made[s]>> \notin Events(files)
  /\ \A p \in Poster : \A e \in poster[p].todo : e[2] =< made[e[1]]

(* An event that was made is settled, kept, or with its hook.              *)
KeptOK ==
  \A e \in Event : e[2] =< made[e[1]] =>
    Settled(e) \/ e \in Events(files) \/ (Busy(e[1]) /\ e[2] = made[e[1]])

(* What a poster will not send is settled, or newer than what it will.     *)
SendsOK(p) ==
  \A e \in Event : e[1] = p[2] /\ ~Settled(e) =>
    /\ poster[p].pc = "replay" =>
         e \in poster[p].todo \/ \A x \in poster[p].todo : x[2] < e[2]
    /\ poster[p].pc = "replay" /\ p[1] = "hook" => e \in poster[p].todo \/ e[2] >= made[p[2]]
    /\ poster[p].pc = "own" => e[2] >= made[p[2]]

(* A copy that comes late comes after all older ones.                      *)
LateOK == \A e \in late : \A d \in Event : Older(d, e) => Settled(d)

(* What is not settled is newer than all that was handled.                 *)
HandledOK == \A d \in HandledEvents : \A e \in Event : Older(e, d) => Settled(e)

Order ==
  /\ Known(dedup) \subseteq HandledEvents
  /\ MadeOK
  /\ KeptOK
  /\ \A p \in Poster : SendsOK(p)
  /\ LateOK
  /\ HandledOK
  /\ HandledInOrder

LEMMA HandledIn ==
  ASSUME Types
  PROVE  HandledEvents \in SUBSET Event
<1> SUFFICES ASSUME NEW i \in DOMAIN handled PROVE handled[i].event \in Event
  BY DEF HandledEvents
<1>1. handled[i] \in Record BY DEF Types
<1>. QED BY <1>1 DEF Record

(* What nothing new is handled by leaves the order as it is.               *)
LEMMA NothingHandled ==
  ASSUME Types, Order, handled' = handled, lost \subseteq lost'
  PROVE  /\ HandledEvents' = HandledEvents
         /\ \A e : Settled(e) => Settled(e)'
         /\ HandledOK' /\ HandledInOrder'
BY DEF HandledEvents, Settled, HandledOK, Order, HandledInOrder

LEMMA KnownAppend ==
  ASSUME NEW d \in Seq(File), NEW f \in File
  PROVE  Known(Append(d, f)) = Known(d) \cup {f.event}
<1>1. /\ DOMAIN Append(d, f) = 1 .. Len(d) + 1
      /\ \A i \in 1 .. Len(d) : Append(d, f)[i] = d[i]
      /\ Append(d, f)[Len(d) + 1] = f
      /\ DOMAIN d = 1 .. Len(d) /\ Len(d) \in Nat
  OBVIOUS
<1>2. Known(Append(d, f)) \subseteq Known(d) \cup {f.event}
  <2> SUFFICES ASSUME NEW i \in 1 .. Len(d) + 1
               PROVE  Append(d, f)[i].event \in Known(d) \cup {f.event}
    BY <1>1 DEF Known
  <2>1. CASE i \in 1 .. Len(d) BY <1>1, <2>1 DEF Known
  <2>2. CASE i = Len(d) + 1 BY <1>1, <2>2
  <2>. QED BY <1>1, <2>1, <2>2
<1>3. Known(d) \subseteq Known(Append(d, f))
  <2> SUFFICES ASSUME NEW i \in 1 .. Len(d) PROVE d[i].event \in Known(Append(d, f))
    BY <1>1 DEF Known
  <2>1. i \in DOMAIN Append(d, f) /\ Append(d, f)[i] = d[i] BY <1>1
  <2>. QED BY <2>1 DEF Known
<1>4. f.event \in Known(Append(d, f)) BY <1>1 DEF Known
<1>. QED BY <1>2, <1>3, <1>4

LEMMA AppendHandled ==
  ASSUME Types, NEW r \in Record, handled' = Append(handled, r)
  PROVE  /\ HandledEvents' = HandledEvents \cup {r.event}
         /\ DOMAIN handled' = 1 .. Len(handled) + 1 /\ DOMAIN handled = 1 .. Len(handled)
         /\ Len(handled) \in Nat /\ handled'[Len(handled) + 1] = r
         /\ \A i \in DOMAIN handled : handled'[i] = handled[i]
<1>0. handled \in Seq(Record) BY DEF Types
<1>1. /\ DOMAIN handled' = 1 .. Len(handled) + 1 /\ DOMAIN handled = 1 .. Len(handled)
      /\ Len(handled) \in Nat /\ handled'[Len(handled) + 1] = r
      /\ \A i \in DOMAIN handled : handled'[i] = handled[i]
  BY <1>0
<1>2. HandledEvents' \subseteq HandledEvents \cup {r.event}
  <2> SUFFICES ASSUME NEW i \in 1 .. Len(handled) + 1
               PROVE  handled'[i].event \in HandledEvents \cup {r.event}
    BY <1>1 DEF HandledEvents
  <2>1. CASE i \in 1 .. Len(handled) BY <1>1, <2>1 DEF HandledEvents
  <2>2. CASE i = Len(handled) + 1 BY <1>1, <2>2
  <2>. QED BY <1>1, <2>1, <2>2
<1>3. HandledEvents \subseteq HandledEvents'
  <2> SUFFICES ASSUME NEW i \in 1 .. Len(handled) PROVE handled[i].event \in HandledEvents'
    BY <1>1 DEF HandledEvents
  <2>1. i \in DOMAIN handled' /\ handled'[i] = handled[i] BY <1>1
  <2>. QED BY <2>1 DEF HandledEvents
<1>4. r.event \in HandledEvents' BY <1>1 DEF HandledEvents
<1>. QED BY <1>1, <1>2, <1>3, <1>4

(* An event that all older ones are settled of is taken.                   *)
LEMMA AcceptOrder ==
  ASSUME Types, Order, NEW e \in Event, Accept(e), UNCHANGED now,
         \A d \in Event : Older(d, e) => Settled(d), lost \subseteq lost'
  PROVE  /\ HandledEvents' \in {HandledEvents, HandledEvents \cup {e}}
         /\ Known(dedup)' \subseteq HandledEvents'
         /\ Read(e) => e \in HandledEvents'
         /\ \A d : Settled(d) => Settled(d)'
         /\ HandledOK' /\ HandledInOrder'
<1>0. dedup \in Seq(File) /\ now \in 0 .. MaxTime /\ Known(dedup) \subseteq HandledEvents
      /\ hub \in 0 .. MaxRestarts
  BY DEF Types, Order
<1>a. Remembered(dedup) \in Seq(File) /\ Known(Remembered(dedup)) \subseteq Known(dedup)
  BY <1>0, RememberedIs, RememberedKnown
<1>b. Known(dedup)' = Known(dedup') BY DEF Known
<1>1. CASE /\ handled' = handled /\ dedup' = Remembered(dedup)
           /\ e \in Known(dedup) \/ ~Read(e)
  BY <1>1, NothingHandled, <1>0, <1>a, <1>b
<1>2. CASE /\ handled' = Append(handled, [event |-> e, run |-> hub])
           /\ dedup' = Remembered(Append(Remembered(dedup), [event |-> e, at |-> now]))
           /\ e \notin Known(Remembered(dedup)) /\ Read(e)
  <2> DEFINE f == [event |-> e, at |-> now]
             r == [event |-> e, run |-> hub]
             n == Len(handled) + 1
  <2>0. f \in File /\ r \in Record BY <1>0 DEF File, Record
  <2>1. /\ HandledEvents' = HandledEvents \cup {e}
        /\ DOMAIN handled' = 1 .. n /\ DOMAIN handled = 1 .. Len(handled)
        /\ Len(handled) \in Nat /\ handled'[n] = r
        /\ \A i \in DOMAIN handled : handled'[i] = handled[i]
    BY <1>2, <2>0, AppendHandled
  <2>2. \A d : Settled(d) => Settled(d)' BY <2>1 DEF Settled
  <2>3. Known(dedup)' \subseteq HandledEvents'
    <3>1. Append(Remembered(dedup), f) \in Seq(File) BY <1>a, <2>0
    <3>2. Known(Append(Remembered(dedup), f)) = Known(Remembered(dedup)) \cup {e}
      BY <1>a, <2>0, KnownAppend
    <3>3. Known(Remembered(Append(Remembered(dedup), f)))
            \subseteq Known(Append(Remembered(dedup), f))
      BY <1>0, <3>1, RememberedKnown
    <3>. QED BY <1>0, <1>2, <1>a, <1>b, <2>1, <3>2, <3>3
  <2>4. HandledOK' BY <2>1, <2>2 DEF HandledOK, Order
  <2>5. HandledInOrder'
    <3> SUFFICES ASSUME NEW i \in DOMAIN handled', NEW j \in DOMAIN handled', i < j,
                        handled'[i].event[1] = handled'[j].event[1],
                        handled'[j].event \notin lost',
                        \A k \in 1 .. j - 1 : handled'[k].event # handled'[j].event
                 PROVE  handled'[i].event[2] < handled'[j].event[2]
      BY DEF HandledInOrder
    <3>1. i \in 1 .. Len(handled) /\ j \in 1 .. n /\ i \in DOMAIN handled
          /\ handled'[i] = handled[i]
      BY <2>1
    <3>2. CASE j \in 1 .. Len(handled)
      <4>1. handled'[j] = handled[j] /\ \A k \in 1 .. j - 1 : handled'[k] = handled[k]
        BY <2>1, <3>2
      <4>. QED BY <2>1, <3>1, <3>2, <4>1 DEF HandledInOrder, Order
    <3>3. CASE j = n
      <4>1. handled'[j].event = e BY <2>1, <3>3
      <4>2. e \notin HandledEvents
        <5> SUFFICES ASSUME NEW k \in DOMAIN handled, handled[k].event = e PROVE FALSE
          BY DEF HandledEvents
        <5>1. k \in 1 .. j - 1 /\ handled'[k] = handled[k] BY <2>1, <3>3
        <5>. QED BY <4>1, <5>1
      <4>3. ~Settled(e) BY <4>1, <4>2 DEF Settled
      <4>4. handled[i].event \in HandledEvents /\ handled[i].event \in Event
        BY <3>1, HandledIn DEF HandledEvents
      <4>5. ~Older(e, handled[i].event) BY <4>3, <4>4 DEF HandledOK, Order
      <4>6. handled[i].event # e BY <4>2, <4>4
      <4>7. handled[i].event[1] = e[1] BY <3>1, <4>1
      <4> DEFINE d == handled[i].event
      <4>8. d \in Event /\ d # e /\ d[1] = e[1] /\ ~(e[2] < d[2])
        BY <4>4, <4>5, <4>6, <4>7 DEF Older
      <4> HIDE DEF d
      <4>9. d[2] < e[2] BY <4>8, EventIs, Numbers
      <4>. QED BY <3>1, <4>1, <4>9 DEF d
    <3>. QED BY <2>1, <3>1, <3>2, <3>3
  <2>. QED BY <2>1, <2>2, <2>3, <2>4, <2>5
<1>. QED BY <1>1, <1>2, AcceptIs

(* What a poster sends comes after all older ones.                         *)
LEMMA SendingOldest ==
  ASSUME Types, Order, NEW p \in Poster, poster[p].pc \in {"replay", "own"}
  PROVE  /\ Sending(p) \in Event /\ Sending(p)[1] = p[2]
         /\ Sending(p)[2] =< made[Sending(p)[1]]
         /\ \A d \in Event : Older(d, Sending(p)) => Settled(d)
<1> DEFINE e == Sending(p)
<1>1. /\ e \in Event /\ e[1] = p[2]
      /\ poster[p].pc = "replay" => e \in poster[p].todo /\ \A d \in poster[p].todo : e[2] =< d[2]
      /\ poster[p].pc = "own" => p[1] = "hook" /\ e = Own(p)
  BY SendingIs
<1>2. poster[p].pc = "own" => e[2] = made[p[2]] BY <1>1, OwnIs
<1> HIDE DEF e
<1>3. SendsOK(p) /\ MadeOK BY DEF Order
<1>4. p[2] \in Session /\ made[p[2]] \in Nat /\ e[2] \in Nat
  BY <1>1, PosterIs, EventIs, Numbers DEF Types
<1>5. e[2] =< made[e[1]] BY <1>1, <1>2, <1>3, <1>4 DEF MadeOK
<1>6. ASSUME NEW d \in Event, Older(d, e), ~Settled(d) PROVE FALSE
  BY <1>1, <1>6, EventIs, Numbers, <1>3, <1>4, <1>2 DEF Older, SendsOK
<1>. QED BY <1>1, <1>5, <1>6 DEF e

LEMMA BusyMoves ==
  ASSUME Types, NEW p \in Poster, NEW x, poster' = [poster EXCEPT ![p] = x]
  PROVE  /\ \A s \in Session : Busy(s)' <=> IF p = <<"hook", s>> THEN x.pc # "idle" ELSE Busy(s)
         /\ poster'[p] = x /\ \A q \in Poster : q # p => poster'[q] = poster[q]
BY PosterIs DEF Types, Busy

LEMMA MadeStays ==
  ASSUME Types, MadeOK, made' = made, NEW e, e[2] =< made[e[1]],
         HandledEvents' \subseteq HandledEvents \cup {e}, late' \subseteq late \cup {e},
         files' \in SUBSET files, \A s \in Session : Busy(s)' => Busy(s),
         \A p \in Poster : poster'[p].todo \subseteq poster[p].todo
  PROVE  MadeOK'
BY DEF Events, MadeOK

(* The same when no event is new anywhere.                                 *)
LEMMA MadeRests ==
  ASSUME Types, MadeOK, made' = made, HandledEvents' = HandledEvents, late' \subseteq late,
         files' \in SUBSET files, \A s \in Session : Busy(s)' => Busy(s),
         \A p \in Poster : poster'[p].todo \subseteq poster[p].todo
  PROVE  MadeOK'
BY DEF Events, MadeOK

LEMMA SendsStay ==
  ASSUME Types, NEW p \in Poster, SendsOK(p), poster'[p] = poster[p],
         made'[p[2]] = made[p[2]] \/ p[1] = "agent", \A e : Settled(e) => Settled(e)'
  PROVE  SendsOK(p)'
BY DEF SendsOK, Types, PosterOK

(* A poster that sends nothing any more leaves no one behind.              *)
LEMMA SendsOne ==
  ASSUME Types, Order, made' = made, NEW p \in Poster, NEW x,
         poster' = [poster EXCEPT ![p] = x], x.pc \notin {"replay", "own"},
         \A e : Settled(e) => Settled(e)'
  PROVE  \A q \in Poster : SendsOK(q)'
BY BusyMoves, SendsStay DEF SendsOK, Order

(* What is deleted is settled.                                             *)
LEMMA DeletedSettled ==
  ASSUME Types, NEW gone \in SUBSET files, files' = files \ gone, Events(gone) \subseteq lost'
  PROVE  \A e \in Events(files) : e \in Events(files') \/ e \in lost'
BY DEF Events

LEMMA PendingSettled ==
  ASSUME Types, NEW s \in Session, Delete(FilesOf(files \ Pruned, s))
  PROVE  /\ lost \subseteq lost' /\ files' \in SUBSET files
         /\ \A e \in Events(files) : e \in Events(files') \/ e \in lost'
         /\ \A e \in Events(files) : e[1] = s => e \in Pending(s) \/ e \in lost'
         /\ Pending(s) \subseteq Events(files)
<1> DEFINE gone == FilesOf(files \ Pruned, s)
<1>1. gone \in SUBSET files /\ files' = files \ gone /\ lost' = lost \cup Events(gone)
  BY DEF Delete, FilesOf
<1>2. \A e \in Events(files) : e \in Events(files') \/ e \in lost'
  BY <1>1, DeletedSettled
<1>3. ASSUME NEW f \in files, f.event[1] = s PROVE f.event \in Pending(s) \/ f.event \in lost'
  <2>1. CASE f \in Pruned BY <1>3, <2>1 DEF Pending, FilesOf, Events
  <2>2. CASE f \notin Pruned
    <3>1. f \in gone BY <1>3, <2>2 DEF FilesOf
    <3> HIDE DEF gone
    <3>. QED BY <1>1, <3>1 DEF Events
  <2>. QED BY <2>1, <2>2
<1>4. Pending(s) \subseteq Events(files) BY DEF Pending, FilesOf, Events, Pruned
<1>5. \A e \in Events(files) : e[1] = s => e \in Pending(s) \/ e \in lost'
  BY <1>3 DEF Events
<1> HIDE DEF gone
<1>. QED BY <1>1, <1>2, <1>4, <1>5

LEMMA HookStartsOrder ==
  ASSUME Types, Order, NEW s \in Session, HookStarts(s)
  PROVE  Order'
<1> DEFINE p == <<"hook", s>>
           x == [pc |-> IF Pending(s) = {} THEN "own" ELSE "replay", todo |-> Pending(s)]
<1>1. /\ poster[p] = Idle /\ made' = [made EXCEPT ![s] = @ + 1]
      /\ Delete(FilesOf(files \ Pruned, s)) /\ poster' = [poster EXCEPT ![p] = x]
      /\ UNCHANGED <<late, dedup, handled, hub, now>>
  BY DEF HookStarts
<1>2. p \in Poster /\ p[1] = "hook" /\ p[2] = s BY PosterIs
<1>3. /\ lost \subseteq lost' /\ files' \in SUBSET files
      /\ \A e \in Events(files) : e \in Events(files') \/ e \in lost'
      /\ \A e \in Events(files) : e[1] = s => e \in Pending(s) \/ e \in lost'
      /\ Pending(s) \subseteq Events(files)
  BY <1>1, PendingSettled
<1>4. /\ HandledEvents' = HandledEvents /\ \A e : Settled(e) => Settled(e)'
      /\ HandledOK' /\ HandledInOrder'
  BY <1>1, <1>3, NothingHandled
<1>5. ~Busy(s) BY <1>1, IdleIs DEF Busy
<1>6. x.pc # "idle" /\ x.pc \in {"own", "replay"} /\ x.todo = Pending(s)
      /\ (x.pc = "replay" <=> Pending(s) # {})
  OBVIOUS
<1> HIDE DEF x
<1>7. /\ \A r \in Session : Busy(r)' <=> IF r = s THEN TRUE ELSE Busy(r)
      /\ poster'[p] = x /\ \A q \in Poster : q # p => poster'[q] = poster[q]
  BY <1>1, <1>2, <1>6, BusyMoves
<1>8. /\ \A r \in Session : made[r] \in Nat /\ made'[r] \in Nat
      /\ made'[s] = made[s] + 1 /\ \A r \in Session : r # s => made'[r] = made[r]
  BY <1>1, Numbers DEF Types
<1>9. \A e \in Event : e[1] \in Session /\ e[2] \in Nat BY EventIs, Numbers
<1>10. \A e \in Event : e[2] =< made[e[1]] => e[2] =< made'[e[1]] BY <1>8, <1>9
<1>11. Events(files') \subseteq Events(files) /\ Events(files) \subseteq Event
  BY <1>3, EventsIn DEF Events, Types
<1>12. MadeOK'
  <2>1. \A e \in HandledEvents' \cup late' \cup Events(files') : e[2] =< made'[e[1]]
    BY <1>1, <1>4, <1>10, <1>11, HandledIn DEF Order, MadeOK, Types
  <2>2. \A r \in Session : Busy(r)' => <<r, made'[r]>> \notin Events(files')
    <3> SUFFICES ASSUME NEW r \in Session, Busy(r)', <<r, made'[r]>> \in Events(files)
                 PROVE  FALSE
      BY <1>11
    <3>1. made'[r] =< made[r] BY DEF Order, MadeOK
    <3>2. r # s BY <1>8, <3>1
    <3>. QED BY <1>7, <1>8, <3>2 DEF Order, MadeOK
  <2>3. \A q \in Poster : \A e \in poster'[q].todo : e[2] =< made'[e[1]]
    <3> SUFFICES ASSUME NEW q \in Poster, NEW e \in poster'[q].todo
                 PROVE  e \in Event /\ e[2] =< made[e[1]]
      BY <1>10
    <3>1. CASE q = p BY <1>3, <1>6, <1>7, <1>11, <3>1 DEF Order, MadeOK
    <3>2. CASE q # p BY <1>7, <3>2 DEF Order, MadeOK, Types, State
    <3>. QED BY <3>1, <3>2
  <2>. QED BY <2>1, <2>2, <2>3 DEF MadeOK
<1>13. KeptOK'
  <2> SUFFICES ASSUME NEW e \in Event, e[2] =< made'[e[1]]
               PROVE  Settled(e)' \/ e \in Events(files') \/ (Busy(e[1])' /\ e[2] = made'[e[1]])
    BY DEF KeptOK
  <2>1. CASE e[2] =< made[e[1]]
    BY <2>1, <1>5, <1>3, <1>4, <1>7, <1>8, <1>9 DEF Order, KeptOK, Settled
  <2>2. CASE ~(e[2] =< made[e[1]]) BY <1>8, <1>9, <2>2, <1>7
  <2>. QED BY <2>1, <2>2
<1>14. SendsOK(p)'
  <2> SUFFICES ASSUME NEW e \in Event, e[1] = s, ~Settled(e)'
               PROVE  /\ x.pc = "replay" =>
                           e \in Pending(s) \/ \A y \in Pending(s) : y[2] < e[2]
                      /\ x.pc = "replay" => e \in Pending(s) \/ e[2] >= made'[s]
                      /\ x.pc = "own" => e[2] >= made'[s]
    BY <1>2, <1>6, <1>7 DEF SendsOK
  <2>1. CASE e[2] =< made[s] BY <1>4, <1>5, <2>1, <1>3, <1>6 DEF Order, KeptOK, Settled
  <2>2. CASE ~(e[2] =< made[s])
    BY <1>8, <1>9, <2>2, <1>3, <1>11, PendingIs DEF Order, MadeOK
  <2>. QED BY <2>1, <2>2
<1>15. ASSUME NEW q \in Poster, q # p PROVE SendsOK(q)'
  BY <1>15, PosterIs, <1>8, <1>4, <1>7, SendsStay DEF Order
<1>16. LateOK' BY <1>1, <1>4 DEF Order, LateOK
<1>17. Known(dedup)' \subseteq HandledEvents' BY <1>1, <1>4 DEF Order, Known
<1>18. \A q \in Poster : SendsOK(q)' BY <1>14, <1>15
<1> HIDE DEF p
<1>. QED BY <1>4, <1>12, <1>13, <1>16, <1>17, <1>18 DEF Order

LEMMA AgentReplaysOrder ==
  ASSUME Types, Order, NEW s \in Session, AgentReplays(s)
  PROVE  Order'
<1> DEFINE p == <<"agent", s>>
           x == IF Pending(s) = {} THEN Idle ELSE [pc |-> "replay", todo |-> Pending(s)]
<1>1. /\ Delete(FilesOf(files \ Pruned, s)) /\ poster' = [poster EXCEPT ![p] = x]
      /\ UNCHANGED <<made, late, dedup, handled, hub, now>>
  BY DEF AgentReplays
<1>2. p \in Poster /\ p[1] = "agent" /\ p[2] = s /\ \A r \in Session : p # <<"hook", r>>
  BY PosterIs
<1>3. /\ lost \subseteq lost' /\ files' \in SUBSET files
      /\ \A e \in Events(files) : e \in Events(files') \/ e \in lost'
      /\ \A e \in Events(files) : e[1] = s => e \in Pending(s) \/ e \in lost'
      /\ Pending(s) \subseteq Events(files)
  BY <1>1, PendingSettled
<1>4. /\ HandledEvents' = HandledEvents /\ \A e : Settled(e) => Settled(e)'
      /\ HandledOK' /\ HandledInOrder'
  BY <1>1, <1>3, NothingHandled
<1>5. x.pc \in {"idle", "replay"} /\ x.todo = Pending(s) BY IdleIs
<1> HIDE DEF x
<1>6. /\ \A r \in Session : Busy(r)' <=> Busy(r)
      /\ poster'[p] = x /\ \A q \in Poster : q # p => poster'[q] = poster[q]
  BY <1>1, <1>2, BusyMoves
<1>7. \A e \in Event : e[1] \in Session /\ e[2] \in Nat /\ made[e[1]] \in Nat
  BY EventIs, Numbers, SMTT(30) DEF Types
<1>8. Events(files') \subseteq Events(files) /\ Events(files) \subseteq Event
  BY <1>3, EventsIn DEF Events, Types
<1>9. MadeOK'
  <2>1. \A e \in HandledEvents' \cup late' \cup Events(files') : e[2] =< made'[e[1]]
    BY <1>1, <1>4, <1>8 DEF Order, MadeOK
  <2>2. \A r \in Session : Busy(r)' => <<r, made'[r]>> \notin Events(files')
    BY <1>1, <1>6, <1>8 DEF Order, MadeOK
  <2>3. \A q \in Poster : \A e \in poster'[q].todo : e[2] =< made'[e[1]]
    <3> SUFFICES ASSUME NEW q \in Poster, NEW e \in poster'[q].todo
                 PROVE  e[2] =< made[e[1]]
      BY <1>1
    <3>1. CASE q = p BY <1>3, <1>5, <1>6, <3>1 DEF Order, MadeOK
    <3>2. CASE q # p BY <1>6, <3>2 DEF Order, MadeOK
    <3>. QED BY <3>1, <3>2
  <2>. QED BY <2>1, <2>2, <2>3 DEF MadeOK
<1>10. KeptOK'
  <2> SUFFICES ASSUME NEW e \in Event, e[2] =< made[e[1]]
               PROVE  Settled(e)' \/ e \in Events(files') \/ (Busy(e[1])' /\ e[2] = made[e[1]])
    BY <1>1 DEF KeptOK
  <2>1. Settled(e) \/ e \in Events(files) \/ (Busy(e[1]) /\ e[2] = made[e[1]])
    BY DEF Order, KeptOK
  <2>. QED BY <1>3, <1>4, <1>6, <1>7, <2>1 DEF Settled
<1>11. SendsOK(p)'
  <2> SUFFICES ASSUME NEW e \in Event, e[1] = s, ~Settled(e)'
               PROVE  e \in Pending(s) \/ \A y \in Pending(s) : y[2] < e[2]
    BY <1>2, <1>5, <1>6 DEF SendsOK
  <2>1. CASE e \in Events(files) BY <1>3, <2>1 DEF Settled
  <2>2. CASE e \notin Events(files)
    <3> SUFFICES ASSUME NEW y \in Pending(s) PROVE y[2] < e[2]
      OBVIOUS
    <3>1. y \in Event /\ y[1] = s /\ y[2] =< made[s] /\ y \in Events(files)
      BY <1>3, <1>8, PendingIs DEF Order, MadeOK
    <3>2. CASE e[2] =< made[s]
      BY <1>4, <2>2, <3>2, <3>1, EventIs, <1>7 DEF Order, KeptOK, MadeOK
    <3>3. CASE ~(e[2] =< made[s]) BY <1>7, <3>1, <3>3
    <3>. QED BY <3>2, <3>3
  <2>. QED BY <2>1, <2>2
<1>12. \A q \in Poster : q # p => SendsOK(q)' BY <1>1, <1>4, <1>6, SendsStay DEF Order
<1>13. LateOK' /\ Known(dedup)' \subseteq HandledEvents'
  BY <1>1, <1>4 DEF Order, LateOK, Known
<1> HIDE DEF p
<1>. QED BY <1>4, <1>9, <1>10, <1>11, <1>12, <1>13 DEF Order

LEMMA AnsweredOrder ==
  ASSUME Types, Order, NEW p \in Poster, Answered(p)
  PROVE  Order'
<1>0. poster[p].pc \in {"replay", "own"} /\ Sending(p) \in Event
  BY SendingIs DEF Answered
<1> SUFFICES ASSUME NEW e \in Event, e = Sending(p) PROVE Order'
  BY <1>0
<1> DEFINE x == IF poster[p].pc = "own" THEN Idle ELSE After(p)
<1>1. /\ poster[p].pc \in {"replay", "own"} /\ Accept(e)
      /\ UNCHANGED <<made, late, hub, now>>
      /\ lost' = IF Read(e) THEN lost ELSE lost \cup {e}
      /\ poster' = [poster EXCEPT ![p] = x]
      /\ files' \in SUBSET files /\ \A f \in files : f \notin files' => f.event = e
  BY DEF Answered
<1>2. /\ e \in Event /\ e[1] = p[2] /\ e[2] =< made[e[1]]
      /\ \A d \in Event : Older(d, e) => Settled(d)
  BY <1>1, SendingOldest
<1>3. poster[p].pc = "own" => p[1] = "hook" /\ e = Own(p) /\ e[2] = made[p[2]]
  BY <1>1, SendingIs, OwnIs
<1>4. /\ x.pc \in {"idle", "own", "replay"}
      /\ x.todo \subseteq poster[p].todo \ {e}
      /\ x.pc = "replay" => x.todo = poster[p].todo \ {e} /\ poster[p].pc = "replay"
      /\ x.pc = "own" => poster[p].todo = {e} /\ p[1] = "hook" /\ poster[p].pc = "replay"
      /\ p[1] = "hook" /\ poster[p].pc = "replay" => x.pc # "idle"
  BY IdleIs, PosterIs, AfterIs, <1>1
<1> HIDE DEF x
<1>5. lost \subseteq lost' BY <1>1
<1>6. /\ HandledEvents' \in {HandledEvents, HandledEvents \cup {e}}
      /\ Known(dedup)' \subseteq HandledEvents'
      /\ Read(e) => e \in HandledEvents'
      /\ \A d : Settled(d) => Settled(d)'
      /\ HandledOK' /\ HandledInOrder'
  BY <1>1, <1>2, <1>5, AcceptOrder
<1>7. Settled(e)' BY <1>1, <1>6 DEF Settled
<1>8. /\ \A s \in Session : Busy(s)' <=> IF p = <<"hook", s>> THEN x.pc # "idle" ELSE Busy(s)
      /\ poster'[p] = x /\ \A q \in Poster : q # p => poster'[q] = poster[q]
  BY <1>1, BusyMoves
<1>9. \A s \in Session : Busy(s)' => Busy(s) BY <1>1, <1>8 DEF Busy
<1>10. \A q \in Poster : poster'[q].todo \subseteq poster[q].todo BY <1>4, <1>8
<1>11. MadeOK' BY <1>1, <1>2, <1>6, <1>9, <1>10, MadeStays DEF Order
<1>12. KeptOK'
  <2> SUFFICES ASSUME NEW d \in Event, d[2] =< made[d[1]]
               PROVE  Settled(d)' \/ d \in Events(files') \/ (Busy(d[1])' /\ d[2] = made[d[1]])
    BY <1>1 DEF KeptOK
  <2>1. Settled(d) \/ d \in Events(files) \/ (Busy(d[1]) /\ d[2] = made[d[1]])
    BY DEF Order, KeptOK
  <2>2. d \in Events(files) => d \in Events(files') \/ d = e BY <1>1 DEF Events
  <2>3. ASSUME Busy(d[1]), d[2] = made[d[1]] PROVE Busy(d[1])' \/ d = e
    BY <1>2, EventIs, <1>3, <2>3, <1>4, <1>8, <1>0
  <2>. QED BY <1>6, <1>7, <2>1, <2>2, <2>3
<1>13. SendsOK(p)'
  <2> SUFFICES ASSUME NEW d \in Event, d[1] = p[2], ~Settled(d)'
               PROVE  /\ x.pc = "replay" => d \in x.todo \/ \A y \in x.todo : y[2] < d[2]
                      /\ x.pc = "replay" /\ p[1] = "hook" => d \in x.todo \/ d[2] >= made[p[2]]
                      /\ x.pc = "own" => d[2] >= made[p[2]]
    BY <1>1, <1>8 DEF SendsOK
  <2>1. ~Settled(d) /\ d # e BY <1>6, <1>7
  <2>2. /\ poster[p].pc = "replay" =>
             d \in poster[p].todo \/ \A y \in poster[p].todo : y[2] < d[2]
        /\ poster[p].pc = "replay" /\ p[1] = "hook" => d \in poster[p].todo \/ d[2] >= made[p[2]]
    BY <2>1 DEF Order, SendsOK
  <2>. QED BY <1>4, <2>1, <2>2
<1>14. \A q \in Poster : q # p => SendsOK(q)' BY <1>1, <1>6, <1>8, SendsStay DEF Order
<1>15. LateOK' BY <1>1, <1>6 DEF Order, LateOK
<1>. QED BY <1>6, <1>11, <1>12, <1>13, <1>14, <1>15 DEF Order

LEMMA FailedOrder ==
  ASSUME Types, Order, NEW p \in Poster, Failed(p)
  PROVE  Order'
<1>0. poster[p].pc \in {"replay", "own"} /\ Sending(p) \in Event BY SendingIs DEF Failed
<1> SUFFICES ASSUME NEW e \in Event, e = Sending(p) PROVE Order'
  BY <1>0
<1> DEFINE x == IF p[1] = "hook" THEN [pc |-> "save", todo |-> {}] ELSE Idle
<1>1. /\ poster[p].pc \in {"replay", "own"} /\ late' \subseteq late \cup {e}
      /\ poster' = [poster EXCEPT ![p] = x]
      /\ UNCHANGED <<made, files, dedup, handled, hub, lost, now>>
  BY DEF Failed
<1>2. /\ e \in Event /\ e[2] =< made[e[1]]
      /\ \A d \in Event : Older(d, e) => Settled(d)
  BY <1>1, SendingOldest
<1>3. /\ x.pc \notin {"replay", "own"} /\ x.todo = {} /\ (p[1] = "hook" => x.pc # "idle")
  BY IdleIs
<1> HIDE DEF x
<1>4. /\ HandledEvents' = HandledEvents /\ \A d : Settled(d) => Settled(d)'
      /\ HandledOK' /\ HandledInOrder'
  BY <1>1, NothingHandled
<1>5. /\ \A s \in Session : Busy(s)' <=> IF p = <<"hook", s>> THEN x.pc # "idle" ELSE Busy(s)
      /\ poster'[p] = x /\ \A q \in Poster : q # p => poster'[q] = poster[q]
  BY <1>1, BusyMoves
<1>6. \A s \in Session : Busy(s)' <=> Busy(s)
  <2> SUFFICES ASSUME NEW s \in Session, p = <<"hook", s>> PROVE x.pc # "idle" /\ Busy(s)
    BY <1>5
  <2>. QED BY <1>1, <1>3 DEF Busy
<1>7. \A q \in Poster : poster'[q].todo \subseteq poster[q].todo BY <1>3, <1>5
<1>8. MadeOK' BY <1>1, <1>2, <1>4, <1>6, <1>7, MadeStays DEF Order
<1>9. KeptOK' BY <1>1, <1>4, <1>6, EventIs DEF Order, KeptOK
<1>10. \A q \in Poster : SendsOK(q)' BY <1>1, <1>3, <1>4, SendsOne
<1>11. LateOK' BY <1>1, <1>2, <1>4 DEF Order, LateOK
<1>12. Known(dedup)' \subseteq HandledEvents' BY <1>1, <1>4 DEF Order, Known
<1>. QED BY <1>4, <1>8, <1>9, <1>10, <1>11, <1>12 DEF Order

LEMMA MakeRoomOrder ==
  ASSUME Types, Order, NEW p \in Poster, MakeRoom(p)
  PROVE  Order'
<1>1. /\ files' \in SUBSET files /\ poster[p].pc = "save"
      /\ lost' = lost \cup Events(files \ files') \cup (lost' \cap {Own(p)})
      /\ UNCHANGED <<made, late, dedup, handled, hub, now>>
  BY MakeRoomTypes DEF MakeRoom
<1>2. p[1] = "hook" /\ p = <<"hook", p[2]>> /\ p[2] \in Session
  BY <1>1, PosterIs DEF Types, PosterOK
<1>3. PICK x : /\ poster' = [poster EXCEPT ![p] = x] /\ x.pc \notin {"replay", "own"}
               /\ x.todo = {} /\ (x.pc = "idle" => Own(p) \in lost')
  <2>1. CASE poster' = [poster EXCEPT ![p] = Idle] /\ Own(p) \in lost' BY <2>1, IdleIs
  <2>2. CASE poster' = [poster EXCEPT ![p] = [@ EXCEPT !.pc = "write"]]
    <3> DEFINE x == [poster[p] EXCEPT !.pc = "write"]
    <3>1. poster[p] \in State /\ poster[p].todo = {} BY <1>1 DEF Types, PosterOK
    <3>2. x.pc = "write" /\ x.todo = {} BY <3>1 DEF State
    <3>3. poster' = [poster EXCEPT ![p] = x] BY <2>2
    <3> HIDE DEF x
    <3>. QED BY <3>2, <3>3
  <2>. QED BY <2>1, <2>2, MakeRoomTypes
<1>4. lost \subseteq lost' /\ Events(files \ files') \subseteq lost' BY <1>1
<1>5. /\ HandledEvents' = HandledEvents /\ \A d : Settled(d) => Settled(d)'
      /\ HandledOK' /\ HandledInOrder'
  BY <1>1, <1>4, NothingHandled
<1>6. /\ \A s \in Session : Busy(s)' <=> IF p = <<"hook", s>> THEN x.pc # "idle" ELSE Busy(s)
      /\ poster'[p] = x /\ \A q \in Poster : q # p => poster'[q] = poster[q]
  BY <1>3, BusyMoves
<1>7. \A s \in Session : Busy(s)' => Busy(s) BY <1>1, <1>6 DEF Busy
<1>8. \A q \in Poster : poster'[q].todo \subseteq poster[q].todo BY <1>3, <1>6
<1>9. MadeOK' BY <1>1, <1>5, <1>7, <1>8, MadeRests DEF Order
<1>10. KeptOK'
  <2> SUFFICES ASSUME NEW d \in Event, d[2] =< made[d[1]]
               PROVE  Settled(d)' \/ d \in Events(files') \/ (Busy(d[1])' /\ d[2] = made[d[1]])
    BY <1>1 DEF KeptOK
  <2>1. Settled(d) \/ d \in Events(files) \/ (Busy(d[1]) /\ d[2] = made[d[1]])
    BY DEF Order, KeptOK
  <2>2. d \in Events(files) => d \in Events(files') \/ d \in lost' BY <1>4 DEF Events
  <2>3. ASSUME Busy(d[1]), d[2] = made[d[1]] PROVE Busy(d[1])' \/ d \in lost'
    BY <2>3, EventIs, <1>2, <1>3, <1>6 DEF Own
  <2>. QED BY <1>5, <2>1, <2>2, <2>3 DEF Settled
<1>11. \A q \in Poster : SendsOK(q)' BY <1>1, <1>3, <1>5, SendsOne
<1>12. LateOK' /\ Known(dedup)' \subseteq HandledEvents'
  BY <1>1, <1>5 DEF Order, LateOK, Known
<1>. QED BY <1>5, <1>9, <1>10, <1>11, <1>12 DEF Order

LEMMA WriteOrder ==
  ASSUME Types, Order, NEW p \in Poster, Write(p)
  PROVE  Order'
<1> DEFINE s == p[2]
           f == [event |-> Own(p), at |-> now]
<1>1. /\ poster[p].pc = "write" /\ poster' = [poster EXCEPT ![p] = Idle]
      /\ UNCHANGED <<made, late, dedup, handled, hub, now>>
      /\ \/ files' = files \cup {f} /\ lost' = lost
         \/ files' = files /\ lost' = lost \cup {Own(p)}
  BY DEF Write
<1>2. p = <<"hook", s>> /\ s \in Session /\ p[1] = "hook" BY WriteTypes, PosterIs
<1>3. Own(p) \in Event /\ Own(p) = <<s, made[s]>> BY <1>1, <1>2, OwnIs DEF Own
<1>4. f.event = Own(p) OBVIOUS
<1> HIDE DEF f
<1>5. lost \subseteq lost' BY <1>1
<1>6. /\ HandledEvents' = HandledEvents /\ \A d : Settled(d) => Settled(d)'
      /\ HandledOK' /\ HandledInOrder'
  BY <1>1, <1>5, NothingHandled
<1>7. /\ \A r \in Session : Busy(r)' <=> r # s /\ Busy(r)
      /\ poster'[p] = Idle /\ \A q \in Poster : q # p => poster'[q] = poster[q]
  <2>1. /\ \A r \in Session : Busy(r)' <=> IF p = <<"hook", r>> THEN Idle.pc # "idle" ELSE Busy(r)
        /\ poster'[p] = Idle /\ \A q \in Poster : q # p => poster'[q] = poster[q]
    BY <1>1, BusyMoves
  <2>2. \A r \in Session : p = <<"hook", r>> <=> r = s BY <1>2
  <2>. QED BY <2>1, <2>2, IdleIs
<1>8. Events(files') \subseteq Events(files) \cup {Own(p)} /\ Events(files) \subseteq Events(files')
      /\ Own(p) \in Events(files') \cup lost'
  BY <1>1, <1>4 DEF Events
<1>9. MadeOK'
  <2>1. Own(p)[2] =< made[Own(p)[1]] BY <1>2, <1>3, Numbers DEF Types
  <2>2. \A e \in HandledEvents' \cup late' \cup Events(files') : e[2] =< made'[e[1]]
    BY <1>1, <1>6, <1>8, <2>1 DEF Order, MadeOK
  <2>3. \A r \in Session : Busy(r)' => <<r, made'[r]>> \notin Events(files')
    BY <1>1, <1>3, <1>7, <1>8 DEF Order, MadeOK
  <2>4. \A q \in Poster : \A e \in poster'[q].todo : e[2] =< made'[e[1]]
    BY <1>1, <1>7, IdleIs DEF Order, MadeOK
  <2>. QED BY <2>2, <2>3, <2>4 DEF MadeOK
<1>10. KeptOK'
  <2> SUFFICES ASSUME NEW d \in Event, d[2] =< made[d[1]]
               PROVE  Settled(d)' \/ d \in Events(files') \/ (Busy(d[1])' /\ d[2] = made[d[1]])
    BY <1>1 DEF KeptOK
  <2>1. Settled(d) \/ d \in Events(files) \/ (Busy(d[1]) /\ d[2] = made[d[1]])
    BY DEF Order, KeptOK
  <2>2. d[1] \in Session /\ d = <<d[1], d[2]>> BY EventIs
  <2>3. d[1] = s /\ d[2] = made[d[1]] => d = Own(p) BY <1>3, <2>2
  <2>. QED BY <1>6, <1>7, <1>8, <2>1, <2>2, <2>3 DEF Settled
<1>11. Idle.pc \notin {"replay", "own"} BY IdleIs
<1>12. \A q \in Poster : SendsOK(q)' BY <1>1, <1>6, <1>11, SendsOne
<1>13. LateOK' /\ Known(dedup)' \subseteq HandledEvents'
  BY <1>1, <1>6 DEF Order, LateOK, Known
<1>. QED BY <1>6, <1>9, <1>10, <1>12, <1>13 DEF Order

LEMMA DiesOrder ==
  ASSUME Types, Order, NEW p \in Poster, Dies(p)
  PROVE  Order'
<1>1. /\ poster' = [poster EXCEPT ![p] = Idle]
      /\ lost' = IF p[1] = "hook" THEN lost \cup {Own(p)} ELSE lost
      /\ UNCHANGED <<made, files, late, dedup, handled, hub, now>>
  BY DEF Dies
<1>2. lost \subseteq lost' /\ files' \in SUBSET files /\ late' \subseteq late BY <1>1
<1>3. /\ HandledEvents' = HandledEvents /\ \A d : Settled(d) => Settled(d)'
      /\ HandledOK' /\ HandledInOrder'
  BY <1>1, <1>2, NothingHandled
<1>4. /\ \A s \in Session : Busy(s)' <=> p # <<"hook", s>> /\ Busy(s)
      /\ poster'[p] = Idle /\ \A q \in Poster : q # p => poster'[q] = poster[q]
  BY <1>1, BusyMoves, IdleIs
<1>5. \A q \in Poster : poster'[q].todo \subseteq poster[q].todo BY <1>4, IdleIs
<1>6. MadeOK' BY <1>1, <1>2, <1>3, <1>4, <1>5, MadeRests DEF Order
<1>7. KeptOK'
  <2> SUFFICES ASSUME NEW d \in Event, d[2] =< made[d[1]]
               PROVE  Settled(d)' \/ d \in Events(files') \/ (Busy(d[1])' /\ d[2] = made[d[1]])
    BY <1>1 DEF KeptOK
  <2>1. Settled(d) \/ d \in Events(files) \/ (Busy(d[1]) /\ d[2] = made[d[1]])
    BY DEF Order, KeptOK
  <2>2. d[1] \in Session /\ d = <<d[1], d[2]>> BY EventIs
  <2>3. p = <<"hook", d[1]>> /\ d[2] = made[d[1]] => d \in lost' BY <1>1, <2>2 DEF Own
  <2>. QED BY <1>1, <1>3, <1>4, <2>1, <2>2, <2>3 DEF Settled
<1>8. Idle.pc \notin {"replay", "own"} BY IdleIs
<1>9. \A q \in Poster : SendsOK(q)' BY <1>1, <1>3, <1>8, SendsOne
<1>10. LateOK' /\ Known(dedup)' \subseteq HandledEvents'
  BY <1>1, <1>3 DEF Order, LateOK, Known
<1>. QED BY <1>3, <1>6, <1>7, <1>9, <1>10 DEF Order

LEMMA LateCopyOrder ==
  ASSUME Types, Order, NEW e \in Event, LateCopy(e)
  PROVE  Order'
BY AcceptOrder, MadeStays, EventIs, SendsStay DEF LateCopy, Order, MadeOK, LateOK, Busy, KeptOK

LEMMA OtherOrder ==
  ASSUME Types, Order, Sweep \/ HubRestart \/ Tick
  PROVE  Order'
<1>1. /\ UNCHANGED <<made, poster, handled>> /\ lost \subseteq lost' /\ files' \in SUBSET files
      /\ late' \subseteq late /\ Known(dedup)' \subseteq Known(dedup)
      /\ \A e \in Events(files) : e \in Events(files') \/ e \in lost'
  BY DeletedSettled DEF Sweep, Delete, Known, HubRestart, Tick
<1>2. /\ HandledEvents' = HandledEvents /\ \A e : Settled(e) => Settled(e)'
      /\ HandledOK' /\ HandledInOrder'
  BY <1>1, NothingHandled
<1>3. \A s \in Session : Busy(s)' <=> Busy(s) BY <1>1 DEF Busy
<1>4. \A q \in Poster : poster'[q].todo \subseteq poster[q].todo BY <1>1
<1>5. MadeOK' BY <1>1, <1>2, <1>3, <1>4, MadeRests DEF Order
<1>6. KeptOK' BY <1>1, <1>2, <1>3, EventIs DEF Order, KeptOK, Settled
<1>7. \A q \in Poster : SendsOK(q)' BY <1>1, <1>2, SendsStay DEF Order
<1>8. LateOK' /\ Known(dedup)' \subseteq HandledEvents' BY <1>1, <1>2 DEF Order, LateOK
<1>. QED BY <1>2, <1>5, <1>6, <1>7, <1>8 DEF Order

LEMMA InitOrder ==
  ASSUME Init
  PROVE  Order
<1>1. /\ made = [s \in Session |-> 0] /\ files = {} /\ poster = [p \in Poster |-> Idle]
      /\ late = {} /\ dedup = <<>> /\ handled = <<>> /\ lost = {}
  BY DEF Init
<1>2. HandledEvents = {} /\ Known(dedup) = {} /\ Events(files) = {}
  BY <1>1 DEF HandledEvents, Known, Events
<1>3. \A p \in Poster : poster[p].pc = "idle" /\ poster[p].todo = {} BY <1>1, IdleIs
<1>4. MadeOK BY <1>1, <1>2, <1>3 DEF MadeOK
<1>5. KeptOK BY <1>1, EventIs DEF KeptOK
<1>6. \A p \in Poster : SendsOK(p) BY <1>3 DEF SendsOK
<1>7. LateOK /\ HandledOK /\ HandledInOrder
  BY <1>1, <1>2 DEF LateOK, HandledOK, HandledInOrder
<1>. QED BY <1>2, <1>4, <1>5, <1>6, <1>7 DEF Order

LEMMA NextOrder ==
  ASSUME Types, Order, [Next]_spoolVars
  PROVE  Order'
BY NothingHandled, MadeRests, EventIs, SendsStay, HookStartsOrder, AgentReplaysOrder,
   AnsweredOrder, FailedOrder, MakeRoomOrder, WriteOrder, DiesOrder, LateCopyOrder, OtherOrder
   DEF spoolVars, Busy, Order, KeptOK, LateOK, Known, Next

-----------------------------------------------------------------------------
(* The invariant of the spool, for any number of sessions and events.      *)
SpoolInv == Types /\ Bounds /\ Order

THEOREM SpoolInvariance == Spec => []SpoolInv
<1>1. Init => SpoolInv BY InitTypes, InitBounds, InitOrder DEF SpoolInv
<1>2. SpoolInv /\ [Next]_spoolVars => SpoolInv'
  BY NextTypes, NextBounds, NextOrder DEF SpoolInv
<1>. QED BY <1>1, <1>2, PTL DEF Spec

(* The types, and the bounds of the spool: of a session's turn files, and  *)
(* of all files but for hooks that save at the same moment.                *)
THEOREM TypeCorrect == Spec => []TypeOK
<1>1. SpoolInv => TypeOK
  <2> SUFFICES ASSUME SpoolInv PROVE TypeOK
    OBVIOUS
  <2>1. Cardinality(files) =< MaxFiles + Cardinality(Session) - 1
    BY Counts, Numbers DEF SpoolInv, Bounds
  <2>2. ASSUME NEW s \in Session
        PROVE  Cardinality({ f \in files : f.event[1] = s /\ IsTurn(f.event) }) =< MaxTurnFiles
    <3>1. Cardinality(TurnFiles(s)) + (IF Writing(s) /\ made[s] \in Turn THEN 1 ELSE 0)
            =< MaxTurnFiles
      BY DEF SpoolInv, Bounds
    <3>2. Cardinality(TurnFiles(s)) \in Nat /\ MaxTurnFiles \in Nat
      BY Counts, Numbers DEF SpoolInv
    <3>3. Cardinality(TurnFiles(s)) =< MaxTurnFiles BY <3>1, <3>2
    <3>. QED BY <3>3 DEF TurnFiles
  <2>. QED BY <2>1, <2>2 DEF SpoolInv, Types, TypeOK, State, Record
<1>. QED BY <1>1, SpoolInvariance, PTL

(* Events of a session are handled in the order they were made, however    *)
(* its hooks and its agent replay them and however late a copy comes.      *)
THEOREM EventsInOrder == Spec => []HandledInOrder
<1>1. SpoolInv => HandledInOrder BY DEF SpoolInv, Order
<1>. QED BY <1>1, SpoolInvariance, PTL

-----------------------------------------------------------------------------
(* A turn event once.  The hub must have room for the ids of all events,   *)
(* or one may go before its time.                                          *)
RoomForIds == Cardinality(Event) =< DedupMax

Distinct(d) == \A i, j \in DOMAIN d : d[i].event = d[j].event => i = j

(* This run of the hub took event e.                                       *)
Taken(e) == \E i \in DOMAIN handled : handled[i] = [event |-> e, run |-> hub]

(* It remembers e from time t, or later.                                   *)
Since(e, t) == \E k \in DOMAIN dedup : dedup[k].event = e /\ dedup[k].at >= t

(* It remembers e for longer than a turn event is kept.                    *)
Fresh(e) == \E k \in DOMAIN dedup : dedup[k].event = e /\ now - dedup[k].at =< TurnMaxAge

TurnTaken(e) == IsTurn(e) /\ Taken(e)

(* What can still be sent, and was taken, is remembered: a kept event      *)
(* longer than its file, a hook's own one since now.                       *)
Once ==
  /\ Distinct(dedup)
  /\ \A i \in DOMAIN handled : handled[i].run =< hub
  /\ \A f \in files : /\ f.at =< now
                      /\ TurnTaken(f.event) /\ now - f.at =< TurnMaxAge => Since(f.event, f.at)
  /\ \A e \in late : TurnTaken(e) => Fresh(e)
  /\ \A p \in Poster : \A e \in poster[p].todo : TurnTaken(e) => Fresh(e)
  /\ \A s \in Session : Busy(s) /\ TurnTaken(<<s, made[s]>>) => Since(<<s, made[s]>>, now)
  /\ TurnHandledOnce

LEMMA EventsFinite == IsFiniteSet(Event) /\ Cardinality(Event) \in Nat
<1>1. IsFiniteSet(Session) /\ MaxEvents \in Nat BY Numbers
<1>2. IsFiniteSet(1 .. MaxEvents) BY <1>1, FS_Interval
<1>3. IsFiniteSet(Session \X (1 .. MaxEvents)) BY <1>1, <1>2, FS_Product
<1>. QED BY <1>3, FS_CardinalityType DEF Event

LEMMA RoomIs ==
  ASSUME RoomForIds, NEW d \in Seq(File), Distinct(d)
  PROVE  Len(d) =< DedupMax
<1> DEFINE g == [i \in 1 .. Len(d) |-> d[i].event]
<1>1. \A i \in 1 .. Len(d) : d[i].event \in Event
  <2>1. \A i \in 1 .. Len(d) : d[i] \in File OBVIOUS
  <2>. QED BY <2>1 DEF File
<1>2. g \in Injection(1 .. Len(d), Event) BY <1>1 DEF Distinct, Injection, IsInjective
<1>3. Cardinality(1 .. Len(d)) =< Cardinality(Event) BY <1>2, EventsFinite, FS_Injection
<1>4. Cardinality(1 .. Len(d)) = Len(d)
  <2> DEFINE n == Len(d)
  <2>1. n \in Nat /\ 1 \in Int /\ n \in Int OBVIOUS
  <2> HIDE DEF n
  <2>2. Cardinality(1 .. n) = IF 1 > n THEN 0 ELSE n - 1 + 1 BY <2>1, FS_Interval
  <2>3. Cardinality(1 .. n) = n BY <2>1, <2>2
  <2>. QED BY <2>3 DEF n
<1>. QED BY <1>3, <1>4, EventsFinite, Numbers DEF RoomForIds

(* An id is remembered for longer than a turn event is kept.               *)
LEMMA YoungStays ==
  ASSUME now \in 0 .. MaxTime, NEW t \in 0 .. MaxTime, now - t =< TurnMaxAge
  PROVE  now - t < DedupTtl
BY Numbers

(* Expiry keeps what is not stale.                                         *)
LEMMA FreshStays ==
  ASSUME RoomForIds, NEW d \in Seq(File), Distinct(d), now \in 0 .. MaxTime
  PROVE  /\ Distinct(Remembered(d))
         /\ \A i \in DOMAIN d : now - d[i].at < DedupTtl =>
              \E j \in DOMAIN Remembered(d) : Remembered(d)[j] = d[i]
<1>1. Remembered(d) \in Seq(File) /\ Len(d) =< DedupMax /\ Len(d) \in Nat
  BY RememberedIs, RoomIs
<1>2. PICK k \in 1 .. Len(d) + 1 :
        /\ Len(Remembered(d)) = Len(d) - k + 1
        /\ \A i \in 1 .. Len(Remembered(d)) : Remembered(d)[i] = d[k + i - 1]
        /\ \A i \in 1 .. Len(d) :
             Len(d) =< DedupMax /\ now - d[i].at < DedupTtl => k =< i
  BY RememberedIs
<1>3. DOMAIN Remembered(d) = 1 .. Len(d) - k + 1 /\ DOMAIN d = 1 .. Len(d) BY <1>1, <1>2
<1>4. \A i \in DOMAIN Remembered(d) :
        k + i - 1 \in DOMAIN d /\ Remembered(d)[i] = d[k + i - 1]
  BY <1>1, <1>2, <1>3
<1>5. Distinct(Remembered(d))
  <2> SUFFICES ASSUME NEW i \in DOMAIN Remembered(d), NEW j \in DOMAIN Remembered(d),
                      Remembered(d)[i].event = Remembered(d)[j].event
               PROVE  i = j
    BY DEF Distinct
  <2>1. k + i - 1 = k + j - 1 BY <1>4 DEF Distinct
  <2>. QED BY <1>2, <1>3, <2>1
<1>6. ASSUME NEW i \in DOMAIN d, now - d[i].at < DedupTtl
      PROVE  \E j \in DOMAIN Remembered(d) : Remembered(d)[j] = d[i]
  <2>1. k =< i /\ i \in 1 .. Len(d) BY <1>1, <1>2, <1>3, <1>6
  <2>2. i - k + 1 \in DOMAIN Remembered(d) /\ k + (i - k + 1) - 1 = i BY <1>1, <1>3, <2>1
  <2>. QED BY <1>4, <2>2
<1>. QED BY <1>5, <1>6

(* How Accept leaves the memory of a hub with room.                        *)
LEMMA AcceptOnce ==
  ASSUME RoomForIds, Types, Once, NEW e \in Event, Accept(e), UNCHANGED <<hub, now>>,
         TurnTaken(e) => Fresh(e)
  PROVE  /\ Distinct(dedup')
         /\ \A i \in DOMAIN handled' : handled'[i].run =< hub
         /\ \A d \in Event : Taken(d)' => Taken(d) \/ (d = e /\ Since(e, now)')
         /\ \A d \in Event, t \in 0 .. MaxTime :
              now - t =< TurnMaxAge /\ Since(d, t) => Since(d, t)'
         /\ \A d \in Event : Fresh(d) => Fresh(d)'
         /\ TurnHandledOnce'
<1>0. /\ dedup \in Seq(File) /\ now \in 0 .. MaxTime /\ hub \in 0 .. MaxRestarts
      /\ Distinct(dedup) /\ handled \in Seq(Record)
  BY DEF Types, Once
<1>a. /\ Remembered(dedup) \in Seq(File) /\ Distinct(Remembered(dedup))
      /\ \A i \in DOMAIN dedup : now - dedup[i].at < DedupTtl =>
           \E j \in DOMAIN Remembered(dedup) : Remembered(dedup)[j] = dedup[i]
  BY <1>0, RememberedIs, FreshStays
<1>b. \A i \in DOMAIN dedup : dedup[i].at \in 0 .. MaxTime
  <2>1. \A i \in DOMAIN dedup : dedup[i] \in File BY <1>0
  <2>. QED BY <2>1 DEF File
(* All that is fresh in the memory before is in the memory after.          *)
<1> DEFINE Stays2 == \A i \in DOMAIN dedup : now - dedup[i].at < DedupTtl =>
                       \E j \in DOMAIN dedup' : dedup'[j] = dedup[i]
<1>c. ASSUME Stays2
      PROVE  /\ \A d \in Event, t \in 0 .. MaxTime :
                  now - t =< TurnMaxAge /\ Since(d, t) => Since(d, t)'
             /\ \A d \in Event : Fresh(d) => Fresh(d)'
  <2>1. ASSUME NEW d \in Event, NEW t \in 0 .. MaxTime, now - t =< TurnMaxAge, Since(d, t)
        PROVE  Since(d, t)'
    <3>1. PICK k \in DOMAIN dedup : dedup[k].event = d /\ dedup[k].at >= t
      BY <2>1 DEF Since
    <3>2. now - dedup[k].at < DedupTtl
      <4>1. dedup[k].at \in Nat /\ t \in Nat /\ now \in Nat BY <1>0, <1>b
      <4>2. TurnMaxAge \in Nat /\ DedupTtl \in Nat /\ TurnMaxAge < DedupTtl BY Numbers
      <4>. QED BY <2>1, <3>1, <4>1, <4>2
    <3>3. PICK j \in DOMAIN dedup' : dedup'[j] = dedup[k] BY <1>c, <3>2
    <3>. QED BY <3>1, <3>3 DEF Since
  <2>2. ASSUME NEW d \in Event, Fresh(d) PROVE Fresh(d)'
    <3>1. PICK k \in DOMAIN dedup : dedup[k].event = d /\ now - dedup[k].at =< TurnMaxAge
      BY <2>2 DEF Fresh
    <3>2. now - dedup[k].at < DedupTtl BY <1>0, <1>b, <3>1, YoungStays
    <3>3. PICK j \in DOMAIN dedup' : dedup'[j] = dedup[k] BY <1>c, <3>2
    <3>. QED BY <3>1, <3>3 DEF Fresh
  <2>. QED BY <2>1, <2>2
<1>1. CASE handled' = handled /\ dedup' = Remembered(dedup)
  <2>1. Stays2 BY <1>1, <1>a
  <2>2. \A d \in Event : Taken(d)' => Taken(d) BY <1>1 DEF Taken
  <2>3. TurnHandledOnce' /\ \A i \in DOMAIN handled' : handled'[i].run =< hub
    BY <1>1 DEF Once, TurnHandledOnce
  <2> HIDE DEF Stays2
  <2>. QED BY <1>1, <1>a, <1>c, <2>1, <2>2, <2>3
<1>2. CASE /\ handled' = Append(handled, [event |-> e, run |-> hub])
           /\ dedup' = Remembered(Append(Remembered(dedup), [event |-> e, at |-> now]))
           /\ e \notin Known(Remembered(dedup))
  <2> DEFINE f == [event |-> e, at |-> now]
             r == [event |-> e, run |-> hub]
             R == Remembered(dedup)
             A == Append(R, f)
             n == Len(handled) + 1
  <2>0. f \in File /\ r \in Record /\ f.event = e /\ f.at = now /\ r.event = e /\ r.run = hub
    BY <1>0 DEF File, Record
  <2>1. /\ DOMAIN handled' = 1 .. n /\ DOMAIN handled = 1 .. Len(handled)
        /\ Len(handled) \in Nat /\ handled'[n] = r
        /\ \A i \in DOMAIN handled : handled'[i] = handled[i]
    BY <1>2, <2>0, AppendHandled
  <2>2. R \in Seq(File) /\ Distinct(R) /\ e \notin Known(R) BY <1>2, <1>a
  <2> HIDE DEF f, R
  <2>3. /\ A \in Seq(File) /\ DOMAIN A = 1 .. Len(R) + 1 /\ DOMAIN R = 1 .. Len(R)
        /\ Len(R) \in Nat /\ A[Len(R) + 1] = f /\ \A i \in DOMAIN R : A[i] = R[i]
    BY <2>0, <2>2
  <2>4. Distinct(A)
    <3>1. \A i \in DOMAIN R : R[i].event # e BY <2>2 DEF Known
    <3> SUFFICES ASSUME NEW i \in DOMAIN A, NEW j \in DOMAIN A, A[i].event = A[j].event
                 PROVE  i = j
      BY DEF Distinct
    <3>2. CASE i \in DOMAIN R /\ j \in DOMAIN R BY <2>2, <2>3, <3>2 DEF Distinct
    <3>3. CASE i = Len(R) + 1 /\ j \in DOMAIN R BY <2>0, <2>3, <3>1, <3>3
    <3>4. CASE j = Len(R) + 1 /\ i \in DOMAIN R BY <2>0, <2>3, <3>1, <3>4
    <3>5. CASE i = Len(R) + 1 /\ j = Len(R) + 1 BY <3>5
    <3>. QED BY <2>3, <3>2, <3>3, <3>4, <3>5
  <2> HIDE DEF A
  <2>5. /\ dedup' = Remembered(A) /\ Distinct(dedup')
        /\ \A i \in DOMAIN A : now - A[i].at < DedupTtl =>
             \E j \in DOMAIN dedup' : dedup'[j] = A[i]
    BY <1>0, <1>2, <2>3, <2>4, FreshStays DEF A, R, f
  <2>6. Stays2
    <3> SUFFICES ASSUME NEW i \in DOMAIN dedup, now - dedup[i].at < DedupTtl
                 PROVE  \E j \in DOMAIN dedup' : dedup'[j] = dedup[i]
      OBVIOUS
    <3>1. PICK k \in DOMAIN R : R[k] = dedup[i] BY <1>a DEF R
    <3>2. k \in DOMAIN A /\ A[k] = dedup[i] BY <2>3, <3>1
    <3>. QED BY <2>5, <3>2
  <2>7. Since(e, now)'
    <3>1. now - f.at < DedupTtl BY <1>0, <2>0, Numbers
    <3>2. Len(R) + 1 \in DOMAIN A BY <2>3
    <3>3. PICK j \in DOMAIN dedup' : dedup'[j] = f BY <2>3, <2>5, <3>1, <3>2
    <3>. QED BY <1>0, <2>0, <3>3 DEF Since
  <2>8. \A d \in Event : Taken(d)' => Taken(d) \/ d = e
    <3> SUFFICES ASSUME NEW d \in Event, NEW i \in DOMAIN handled',
                        handled'[i] = [event |-> d, run |-> hub], d # e
                 PROVE  Taken(d)
      BY DEF Taken
    <3>1. i # n BY <2>0, <2>1
    <3>. QED BY <2>1, <3>1 DEF Taken
  <2>9. \A i \in DOMAIN handled' : handled'[i].run =< hub BY <1>0, <2>0, <2>1 DEF Once
  <2>10. TurnHandledOnce'
    <3>1. ASSUME NEW j \in DOMAIN handled, handled[j] = r, IsTurn(e) PROVE FALSE
      <4>1. TurnTaken(e) BY <3>1 DEF TurnTaken, Taken
      <4>2. PICK k \in DOMAIN dedup : dedup[k].event = e /\ now - dedup[k].at =< TurnMaxAge
        BY <4>1 DEF Fresh
      <4>3. now - dedup[k].at < DedupTtl BY <1>0, <1>b, <4>2, YoungStays
      <4>4. PICK m \in DOMAIN R : R[m] = dedup[k] BY <1>a, <4>3 DEF R
      <4>. QED BY <2>2, <4>2, <4>4 DEF Known
    <3> SUFFICES ASSUME NEW i \in DOMAIN handled', NEW j \in DOMAIN handled',
                        handled'[i] = handled'[j], IsTurn(handled'[i].event)
                 PROVE  i = j
      BY DEF TurnHandledOnce
    <3>2. CASE i \in DOMAIN handled /\ j \in DOMAIN handled
      BY <2>1, <3>2 DEF Once, TurnHandledOnce
    <3>3. CASE i = n /\ j \in DOMAIN handled BY <2>0, <2>1, <3>1, <3>3
    <3>4. CASE j = n /\ i \in DOMAIN handled BY <2>0, <2>1, <3>1, <3>4
    <3>5. CASE i = n /\ j = n BY <3>5
    <3>. QED BY <2>1, <3>2, <3>3, <3>4, <3>5
  <2> HIDE DEF Stays2
  <2>. QED BY <1>c, <2>5, <2>6, <2>7, <2>8, <2>9, <2>10
<1>. QED BY <1>1, <1>2, AcceptIs

(* A step of a poster, or of the spool.                                    *)
LEMMA OnceRests ==
  ASSUME Types, Once, UNCHANGED <<dedup, handled, hub, now>>,
         \A f \in files' :
           f \in files \/ (f.at =< now /\ (TurnTaken(f.event) => Since(f.event, f.at))),
         \A e \in late' : e \in late \/ (TurnTaken(e) => Fresh(e)),
         \A p \in Poster : \A e \in poster'[p].todo :
           e \in poster[p].todo \/ (TurnTaken(e) => Fresh(e)),
         \A s \in Session : Busy(s)' =>
           (Busy(s) /\ made'[s] = made[s]) \/ ~Taken(<<s, made'[s]>>)
  PROVE  Once'
<1>1. /\ \A e : TurnTaken(e)' <=> TurnTaken(e)
      /\ \A e : Fresh(e)' <=> Fresh(e)
      /\ \A e, t : Since(e, t)' <=> Since(e, t)
  BY DEF TurnTaken, Taken, Fresh, Since
<1>2. /\ Distinct(dedup)' /\ TurnHandledOnce'
      /\ \A i \in DOMAIN handled' : handled'[i].run =< hub'
  BY DEF Once, Distinct, TurnHandledOnce
<1>3. ASSUME NEW f \in files'
      PROVE  f.at =< now' /\ (TurnTaken(f.event)' /\ now' - f.at =< TurnMaxAge
                                => Since(f.event, f.at)')
  BY <1>1 DEF Once
<1>4. ASSUME NEW e \in late' PROVE TurnTaken(e)' => Fresh(e)' BY <1>1 DEF Once
<1>5. ASSUME NEW p \in Poster, NEW e \in poster'[p].todo PROVE TurnTaken(e)' => Fresh(e)'
  BY <1>1 DEF Once
<1>6. ASSUME NEW s \in Session, NEW e, e = <<s, made'[s]>>, Busy(s)', TurnTaken(e)'
      PROVE  Since(e, now)'
  <2>1. TurnTaken(e) /\ Taken(e) BY <1>1, <1>6 DEF TurnTaken
  <2>2. Busy(s) /\ e = <<s, made[s]>> BY <1>6, <2>1
  <2>3. Since(e, now) BY <2>1, <2>2 DEF Once
  <2>. QED BY <2>3 DEF Since
<1>7. (\A s \in Session : Busy(s) /\ TurnTaken(<<s, made[s]>>) => Since(<<s, made[s]>>, now))'
  BY <1>6 DEF TurnTaken, Taken, Since
<1>. QED BY <1>2, <1>3, <1>4, <1>5, <1>7 DEF Once

(* The hub gets a copy of what may still be sent.                          *)
LEMMA OnceAccepts ==
  ASSUME RoomForIds, Types, Once, NEW e \in Event, Accept(e), UNCHANGED <<made, hub, now>>,
         TurnTaken(e) => Fresh(e), files' \subseteq files, late' \subseteq late,
         \A p \in Poster : poster'[p].todo \subseteq poster[p].todo,
         \A s \in Session : Busy(s)' => Busy(s)
  PROVE  Once'
<1>0. /\ now \in 0 .. MaxTime /\ TurnMaxAge \in Nat
      /\ files \subseteq File /\ late \subseteq Event
      /\ \A p \in Poster : poster[p].todo \subseteq Event
  BY Numbers DEF Types, State
<1>1. /\ Distinct(dedup')
      /\ \A i \in DOMAIN handled' : handled'[i].run =< hub
      /\ \A d \in Event : Taken(d)' => Taken(d) \/ (d = e /\ Since(e, now)')
      /\ \A d \in Event, t \in 0 .. MaxTime :
           now - t =< TurnMaxAge /\ Since(d, t) => Since(d, t)'
      /\ \A d \in Event : Fresh(d) => Fresh(d)'
      /\ TurnHandledOnce'
  BY AcceptOnce
<1>2. dedup' \in Seq(File) BY AcceptIs
<1>3. \A k \in DOMAIN dedup' : dedup'[k].at \in 0 .. MaxTime
  <2>1. \A k \in DOMAIN dedup' : dedup'[k] \in File BY <1>2
  <2>. QED BY <2>1 DEF File
<1>4. \A d \in Event, t \in 0 .. MaxTime : t =< now /\ Since(d, now)' => Since(d, t)'
  BY <1>0, <1>3 DEF Since
<1>5. \A d \in Event : Since(d, now)' => Fresh(d)'
  <2> SUFFICES ASSUME NEW d \in Event, NEW k \in DOMAIN dedup',
                      dedup'[k].event = d, dedup'[k].at >= now
               PROVE  now' - dedup'[k].at =< TurnMaxAge
    BY DEF Since, Fresh
  <2>. QED BY <1>0, <1>3
<1>6. \A d \in Event : TurnTaken(d)' => TurnTaken(d) \/ Since(d, now)'
  BY <1>1 DEF TurnTaken
<1>7. ASSUME NEW f \in files'
      PROVE  f.at =< now' /\ (TurnTaken(f.event)' /\ now' - f.at =< TurnMaxAge
                                => Since(f.event, f.at)')
  BY <1>0, <1>1, <1>4, <1>6 DEF File, Once
<1>8. ASSUME NEW d \in late' PROVE TurnTaken(d)' => Fresh(d)'
  BY <1>0, <1>1, <1>5, <1>6 DEF Once
<1>9. ASSUME NEW p \in Poster, NEW d \in poster'[p].todo PROVE TurnTaken(d)' => Fresh(d)'
  BY <1>0, <1>1, <1>5, <1>6 DEF Once
<1>10. ASSUME NEW s \in Session, Busy(s)', TurnTaken(<<s, made[s]>>)'
       PROVE  Since(<<s, made[s]>>, now)'
  <2>1. Busy(s) /\ made[s] # 0 BY <1>10, PosterIs DEF Busy, Types, PosterOK
  <2>2. <<s, made[s]>> \in Event BY <2>1, EventIs, Numbers DEF Types
  <2>3. TurnTaken(<<s, made[s]>>) => Since(<<s, made[s]>>, now) BY <2>1 DEF Once
  <2>4. now - now =< TurnMaxAge BY <1>0
  <2>. QED BY <1>0, <1>1, <1>6, <1>10, <2>2, <2>3, <2>4
<1>11. Distinct(dedup)' BY <1>1 DEF Distinct
<1>. QED BY <1>1, <1>7, <1>8, <1>9, <1>10, <1>11 DEF Once

(* What a poster reads from the spool is not too old.                      *)
LEMMA PendingFresh ==
  ASSUME Types, Once, NEW s \in Session, NEW e \in Pending(s), TurnTaken(e)
  PROVE  Fresh(e)
<1>1. PICK f \in files : ~Expired(f) /\ f.event = e
  BY DEF Pending, FilesOf, Pruned, Events
<1>2. f.at \in 0 .. MaxTime /\ now \in 0 .. MaxTime /\ TurnMaxAge \in Nat
  BY Numbers DEF Types, File
<1>3. now - f.at =< TurnMaxAge BY <1>1, <1>2 DEF Expired, TurnTaken
<1>4. PICK k \in DOMAIN dedup : dedup[k].event = e /\ dedup[k].at >= f.at
  BY <1>1, <1>3 DEF Once, Since
<1>5. dedup[k] \in File BY DEF Types
<1>6. now - dedup[k].at =< TurnMaxAge BY <1>2, <1>3, <1>4, <1>5 DEF File
<1>. QED BY <1>4, <1>6 DEF Fresh

(* What a poster sends is remembered, if it was taken.                     *)
LEMMA SendingFresh ==
  ASSUME Types, Once, NEW p \in Poster, poster[p].pc \in {"replay", "own"},
         TurnTaken(Sending(p))
  PROVE  Fresh(Sending(p))
<1>1. CASE poster[p].pc = "replay" BY <1>1, SendingIs DEF Once
<1>2. CASE poster[p].pc = "own"
  <2>1. p[1] = "hook" /\ Sending(p) = Own(p) /\ p[2] \in Session /\ p = <<"hook", p[2]>>
    BY <1>2, SendingIs, PosterIs
  <2>2. Busy(p[2]) /\ Sending(p) = <<p[2], made[p[2]]>> BY <1>2, <2>1 DEF Busy, Own
  <2>3. PICK k \in DOMAIN dedup : dedup[k].event = Sending(p) /\ dedup[k].at >= now
    BY <2>1, <2>2 DEF Once, Since
  <2>4. dedup[k] \in File /\ now \in 0 .. MaxTime /\ TurnMaxAge \in Nat
    BY Numbers DEF Types
  <2>5. now - dedup[k].at =< TurnMaxAge BY <2>3, <2>4 DEF File
  <2>. QED BY <2>3, <2>5 DEF Fresh
<1>. QED BY <1>1, <1>2

LEMMA TakenHandled ==
  ASSUME NEW e, Taken(e)
  PROVE  e \in HandledEvents
BY DEF Taken, HandledEvents

LEMMA HookStartsOnce ==
  ASSUME Types, Order, Once, NEW s \in Session, HookStarts(s)
  PROVE  Once'
<1> DEFINE p == <<"hook", s>>
           x == [pc |-> IF Pending(s) = {} THEN "own" ELSE "replay", todo |-> Pending(s)]
<1>1. /\ made' = [made EXCEPT ![s] = @ + 1] /\ poster' = [poster EXCEPT ![p] = x]
      /\ files' \subseteq files /\ UNCHANGED <<late, dedup, handled, hub, now>>
      /\ p \in Poster /\ x.todo = Pending(s)
  BY PosterIs DEF HookStarts, Delete
<1>2. poster \in [Poster -> State] /\ made \in [Session -> 0 .. MaxEvents] BY DEF Types
<1> HIDE DEF x
<1>3. \A q \in Poster : poster'[q] = IF q = p THEN x ELSE poster[q] BY <1>1, <1>2
<1>4. \A q \in Poster : \A e \in poster'[q].todo :
        e \in poster[q].todo \/ (TurnTaken(e) => Fresh(e))
  <2> SUFFICES ASSUME NEW q \in Poster, NEW e \in poster'[q].todo, e \notin poster[q].todo,
                      TurnTaken(e)
               PROVE  Fresh(e)
    OBVIOUS
  <2>1. e \in Pending(s) BY <1>1, <1>3
  <2>. QED BY <2>1, PendingFresh
<1>5. ASSUME NEW r \in Session, Busy(r)'
      PROVE  (Busy(r) /\ made'[r] = made[r]) \/ ~Taken(<<r, made'[r]>>)
  <2>1. CASE r # s BY <1>1, <1>2, <2>1, PosterIs, <1>3, <1>5 DEF Busy
  <2>2. CASE r = s
    <3>1. made'[s] = made[s] + 1 /\ made[s] \in Nat BY <1>1, <1>2, Numbers
    <3>2. <<s, made'[s]>> \notin HandledEvents
      <4> SUFFICES ASSUME <<s, made'[s]>> \in HandledEvents PROVE FALSE
        OBVIOUS
      <4>1. <<s, made'[s]>>[2] =< made[<<s, made'[s]>>[1]] BY DEF Order, MadeOK
      <4>. QED BY <3>1, <4>1
    <3>. QED BY <2>2, <3>2, TakenHandled
  <2>. QED BY <2>1, <2>2
<1>. QED BY <1>1, <1>4, <1>5, OnceRests

LEMMA AgentReplaysOnce ==
  ASSUME Types, Once, NEW s \in Session, AgentReplays(s)
  PROVE  Once'
<1> DEFINE p == <<"agent", s>>
           x == IF Pending(s) = {} THEN Idle ELSE [pc |-> "replay", todo |-> Pending(s)]
<1>1. /\ poster' = [poster EXCEPT ![p] = x]
      /\ files' \subseteq files /\ UNCHANGED <<made, late, dedup, handled, hub, now>>
      /\ p \in Poster
  BY PosterIs DEF AgentReplays, Delete
<1>2. poster \in [Poster -> State] /\ x.todo \subseteq Pending(s) BY IdleIs DEF Types
<1> HIDE DEF x
<1>3. \A q \in Poster : poster'[q] = IF q = p THEN x ELSE poster[q] BY <1>1, <1>2
<1>4. \A q \in Poster : \A e \in poster'[q].todo :
        e \in poster[q].todo \/ (TurnTaken(e) => Fresh(e))
  <2> SUFFICES ASSUME NEW q \in Poster, NEW e \in poster'[q].todo, e \notin poster[q].todo,
                      TurnTaken(e)
               PROVE  Fresh(e)
    OBVIOUS
  <2>1. e \in Pending(s) BY <1>2, <1>3
  <2>. QED BY <2>1, PendingFresh
<1>5. \A r \in Session : Busy(r)' => Busy(r) /\ made'[r] = made[r]
  <2> SUFFICES ASSUME NEW r \in Session, Busy(r)' PROVE Busy(r)
    BY <1>1
  <2>1. <<"hook", r>> \in Poster /\ <<"hook", r>> # p BY PosterIs
  <2>. QED BY <1>3, <2>1 DEF Busy
<1>. QED BY <1>1, <1>4, <1>5, OnceRests

(* A poster goes on with no more to replay than it had.                    *)
LEMMA PosterRests ==
  ASSUME Types, NEW p \in Poster, NEW x, poster' = [poster EXCEPT ![p] = x],
         x.todo \subseteq poster[p].todo, x.pc # "idle" => poster[p].pc # "idle" \/ p[1] = "agent"
  PROVE  /\ \A q \in Poster : poster'[q].todo \subseteq poster[q].todo
         /\ \A s \in Session : Busy(s)' => Busy(s)
BY PosterIs DEF Types, Busy

LEMMA AnsweredOnce ==
  ASSUME RoomForIds, Types, Once, NEW p \in Poster, Answered(p)
  PROVE  Once'
<1>1. /\ poster[p].pc \in {"replay", "own"} /\ Accept(Sending(p))
      /\ UNCHANGED <<made, late, hub, now>>
  BY DEF Answered
<1>2. files' \subseteq files BY DEF Answered
<1>3. /\ \A q \in Poster : poster'[q].todo \subseteq poster[q].todo
      /\ \A s \in Session : Busy(s)' => Busy(s)
  BY IdleIs, PosterRests, AfterIs, <1>1 DEF Answered
<1>4. Sending(p) \in Event /\ (TurnTaken(Sending(p)) => Fresh(Sending(p)))
  BY <1>1, SendingIs, SendingFresh
<1> SUFFICES ASSUME NEW e \in Event, e = Sending(p) PROVE Once'
  BY <1>4
<1>. QED BY <1>1, <1>2, <1>3, <1>4, OnceAccepts

LEMMA FailedOnce ==
  ASSUME Types, Once, NEW p \in Poster, Failed(p)
  PROVE  Once'
<1> DEFINE x == IF p[1] = "hook" THEN [pc |-> "save", todo |-> {}] ELSE Idle
<1>1. /\ poster[p].pc \in {"replay", "own"} /\ poster' = [poster EXCEPT ![p] = x]
      /\ UNCHANGED <<made, files, dedup, handled, hub, lost, now>>
  BY DEF Failed
<1>2. x.todo \subseteq poster[p].todo /\ poster[p].pc # "idle" BY <1>1, IdleIs
<1> HIDE DEF x
<1>3. /\ \A q \in Poster : poster'[q].todo \subseteq poster[q].todo
      /\ \A s \in Session : Busy(s)' => Busy(s)
  BY <1>1, <1>2, PosterRests
<1>4. \A e \in late' : e \in late \/ (TurnTaken(e) => Fresh(e))
  BY <1>1, SendingFresh DEF Failed
<1>. QED BY <1>1, <1>3, <1>4, OnceRests

LEMMA SaveOnce ==
  ASSUME Types, Once, NEW p \in Poster, MakeRoom(p) \/ Dies(p)
  PROVE  Once'
<1>1. files' \subseteq files /\ UNCHANGED <<made, late, dedup, handled, hub, now>>
  BY DEF MakeRoom, Dies
<1>2. /\ \A q \in Poster : poster'[q].todo \subseteq poster[q].todo
      /\ \A s \in Session : Busy(s)' => Busy(s)
  <2>1. CASE poster' = [poster EXCEPT ![p] = Idle] BY <2>1, IdleIs, PosterRests
  <2>2. CASE poster' = [poster EXCEPT ![p] = [@ EXCEPT !.pc = "write"]] /\ poster[p].pc = "save"
    <3> DEFINE x == [poster[p] EXCEPT !.pc = "write"]
    <3>1. poster' = [poster EXCEPT ![p] = x] BY <2>2
    <3>2. x.todo = poster[p].todo /\ poster[p].pc # "idle" BY <2>2 DEF Types, State
    <3> HIDE DEF x
    <3>. QED BY <3>1, <3>2, PosterRests
  <2>. QED BY <2>1, <2>2, MakeRoomTypes DEF Dies
<1>. QED BY <1>1, <1>2, OnceRests

LEMMA WriteOnce ==
  ASSUME Types, Once, NEW p \in Poster, Write(p)
  PROVE  Once'
<1> DEFINE w == [event |-> Own(p), at |-> now]
<1>1. /\ poster[p].pc = "write" /\ poster' = [poster EXCEPT ![p] = Idle]
      /\ files' \subseteq files \cup {w}
      /\ UNCHANGED <<made, late, dedup, handled, hub, now>>
  BY DEF Write
<1>2. /\ \A q \in Poster : poster'[q].todo \subseteq poster[q].todo
      /\ \A s \in Session : Busy(s)' => Busy(s)
  BY <1>1, IdleIs, PosterRests
<1>3. p = <<"hook", p[2]>> /\ p[2] \in Session /\ now \in 0 .. MaxTime
  BY WriteTypes, PosterIs DEF Types
<1>4. Busy(p[2]) /\ Own(p) = <<p[2], made[p[2]]>> BY <1>1, <1>3 DEF Busy, Own
<1>5. TurnTaken(Own(p)) => Since(Own(p), now) BY <1>3, <1>4 DEF Once
<1>6. \A f \in files' :
        f \in files \/ (f.at =< now /\ (TurnTaken(f.event) => Since(f.event, f.at)))
  BY <1>1, <1>3, <1>5
<1>. QED BY <1>1, <1>2, <1>6, OnceRests

LEMMA LateCopyOnce ==
  ASSUME RoomForIds, Types, Once, NEW e \in Event, LateCopy(e)
  PROVE  Once'
BY OnceAccepts DEF LateCopy, Busy, Once

LEMMA SweepOnce ==
  ASSUME Types, Once, Sweep
  PROVE  Once'
BY OnceRests DEF Sweep, Delete, Busy

(* A new run of the hub has taken nothing.                                 *)
LEMMA HubRestartOnce ==
  ASSUME Types, Once, HubRestart
  PROVE  Once'
<1>1. /\ hub' = hub + 1 /\ dedup' = <<>> /\ late' = {}
      /\ UNCHANGED <<made, files, poster, handled, lost, now>>
  BY DEF HubRestart
<1>2. hub \in Nat /\ handled \in Seq(Record) /\ \A i \in DOMAIN handled : handled[i].run =< hub
  BY Numbers DEF Types, Once
<1>3. \A i \in DOMAIN handled : handled[i].run \in Nat
  <2>1. \A i \in DOMAIN handled : handled[i] \in Record BY <1>2
  <2>. QED BY <2>1, Numbers DEF Record
<1>4. \A e : ~TurnTaken(e)'
  <2> SUFFICES ASSUME NEW e, NEW i \in DOMAIN handled,
                      handled[i] = [event |-> e, run |-> hub + 1]
               PROVE  FALSE
    BY <1>1 DEF TurnTaken, Taken
  <2>. QED BY <1>2, <1>3
<1>5. \A i \in DOMAIN handled' : handled'[i].run =< hub' BY <1>1, <1>2, <1>3
<1>6. Distinct(dedup)' /\ TurnHandledOnce' BY <1>1 DEF Distinct, Once, TurnHandledOnce
<1>7. \A f \in files' : f.at =< now' BY <1>1 DEF Once
<1>. QED BY <1>1, <1>4, <1>5, <1>6, <1>7 DEF Once

(* Time passes when nobody posts, and a file is older then.                *)
LEMMA TickOnce ==
  ASSUME Types, Once, Tick
  PROVE  Once'
<1>1. /\ late = {} /\ (\A p \in Poster : poster[p] = Idle) /\ now' = now + 1
      /\ UNCHANGED <<made, files, poster, late, dedup, handled, hub, lost>>
  BY DEF Tick
<1>2. /\ \A e : TurnTaken(e)' <=> TurnTaken(e)
      /\ \A e, t : Since(e, t)' <=> Since(e, t)
  BY <1>1 DEF TurnTaken, Taken, Since
<1>3. /\ Distinct(dedup)' /\ TurnHandledOnce'
      /\ \A i \in DOMAIN handled' : handled'[i].run =< hub'
  BY <1>1 DEF Once, Distinct, TurnHandledOnce
<1>4. ASSUME NEW f \in files'
      PROVE  f.at =< now' /\ (TurnTaken(f.event)' /\ now' - f.at =< TurnMaxAge
                                => Since(f.event, f.at)')
  <2>1. f \in files /\ f.at \in Nat /\ now \in Nat /\ TurnMaxAge \in Nat
    BY <1>1, Numbers DEF Types, File
  <2>2. f.at =< now /\ (TurnTaken(f.event) /\ now - f.at =< TurnMaxAge => Since(f.event, f.at))
    BY <2>1 DEF Once
  <2>. QED BY <1>1, <1>2, <2>1, <2>2
<1>5. \A p \in Poster : poster'[p].todo = {} BY <1>1, IdleIs
<1>6. \A s \in Session : ~Busy(s)' BY <1>1, IdleIs, PosterIs DEF Busy
<1>. QED BY <1>1, <1>3, <1>4, <1>5, <1>6 DEF Once

LEMMA InitOnce ==
  ASSUME Init
  PROVE  Once
<1>1. /\ files = {} /\ poster = [p \in Poster |-> Idle]
      /\ late = {} /\ dedup = <<>> /\ handled = <<>>
  BY DEF Init
<1>2. \A p \in Poster : poster[p].todo = {} /\ poster[p].pc = "idle" BY <1>1, IdleIs
<1>3. \A s \in Session : ~Busy(s) BY <1>2, PosterIs DEF Busy
<1>. QED BY <1>1, <1>2, <1>3 DEF Once, Distinct, TurnHandledOnce

LEMMA NextOnce ==
  ASSUME RoomForIds, Types, Order, Once, [Next]_spoolVars
  PROVE  Once'
BY OnceRests, HookStartsOnce, AgentReplaysOnce, AnsweredOnce, FailedOnce, SaveOnce, WriteOnce,
   LateCopyOnce, SweepOnce, HubRestartOnce, TickOnce DEF spoolVars, Busy, Next

(* A run of the hub that has room for the ids takes a turn event once,     *)
(* however its copies are kept, replayed and delayed: the hub remembers an *)
(* id for longer than the spool keeps a turn event.                        *)
THEOREM TurnEventsOnce ==
  ASSUME RoomForIds
  PROVE  Spec => []TurnHandledOnce
<1>1. Init => SpoolInv /\ Once BY InitTypes, InitBounds, InitOrder, InitOnce DEF SpoolInv
<1>2. SpoolInv /\ Once /\ [Next]_spoolVars => (SpoolInv /\ Once)'
  BY NextTypes, NextBounds, NextOrder, NextOnce DEF SpoolInv
<1>3. SpoolInv /\ Once => TurnHandledOnce BY DEF Once
<1>. QED BY <1>1, <1>2, <1>3, PTL DEF Spec
=============================================================================
