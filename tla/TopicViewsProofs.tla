-------------------------- MODULE TopicViewsProofs --------------------------
(* Proofs about TopicViews: for every plan, that is for any number of      *)
(* sessions, topics, faults, crashes and acts of people.                   *)
EXTENDS TopicViews, WellFoundedInduction, SequenceTheorems, TLAPS

Look == (Nat \X BOOLEAN) \cup {<<>>}

View ==
  [ here : BOOLEAN, topic : Nat, applied : Look, pending : Seq(Nat), fallback : BOOLEAN,
    opening : BOOLEAN, busy : BOOLEAN, failed : SUBSET Look ]

Kind == {"create", "edit", "separator", "post", "delete", "clean"}

Call ==
  [ kind : Kind, chat : Chat, topic : Nat, text : Seq(Nat), look : Look,
    got : {"none", "ok", "lost", "failed", "refused", "gone", "forbidden"} ]

Hub ==
  [ views : [Chat -> View], session : Nat, live : BOOLEAN, archived : BOOLEAN,
    unshared : SUBSET Nat, cleanup : SUBSET [chat : Chat, view : View],
    running : BOOLEAN, closed : BOOLEAN, proven : BOOLEAN, edits : BOOLEAN,
    deleting : SUBSET Nat, later : SUBSET Nat, flying : [Chat -> Nat],
    calls : SUBSET Call, ended : SUBSET Nat ]

Topic == [chat : Chat, alive : BOOLEAN, look : Look, shows : Nat]

(* Topic t is, or was, one of chat c.                                      *)
IsIn(ts, c, t) == t \in DOMAIN ts /\ ts[t].chat = c

(* What the hub keeps of topics names topics of the right chat that it was *)
(* told of; what a view shows is in no list of topics to delete.           *)
PlacesOK(h, ts, known) ==
  /\ \A c \in Chat : h.views[c].topic # 0 =>
       /\ h.views[c].here /\ IsIn(ts, c, h.views[c].topic) /\ h.views[c].topic \in known
       /\ h.views[c].topic \notin h.unshared
       /\ \A e \in h.cleanup : e.view.topic # h.views[c].topic
  /\ \A c \in Chat : h.views[c].busy => h.views[c].here
  /\ \A t \in h.unshared : IsIn(ts, "group", t) /\ t \in known
  /\ \A e \in h.cleanup : /\ IsIn(ts, e.chat, e.view.topic) /\ e.view.topic \in known
                          /\ e.view.here

(* An archived slot has no topic, and none is being made.                  *)
ArchiveOK(h) ==
  h.archived => ~h.live /\ \A c \in Chat : h.views[c].topic = 0 /\ ~h.views[c].busy

(* The view of a topic that is being made waits for it, and for one only.  *)
MakingOK(h, ts, known) ==
  \A k \in h.calls : k.kind = "create" =>
    /\ h.views[k.chat].topic = 0 /\ h.views[k.chat].busy
    /\ \A j \in h.calls : j.kind = "create" /\ j.chat = k.chat => j = k
    /\ k.got # "gone"
    /\ k.got = "ok" => IsIn(ts, k.chat, k.topic) /\ k.topic \notin known
    /\ k.got # "ok" => k.topic = 0

(* Another call is about a topic of its chat; a delete about one no view   *)
(* has; what is said to be gone is.                                        *)
CallOK(h, ts, known, k) ==
  /\ IsIn(ts, k.chat, k.topic) /\ k.topic \in known
  /\ k.kind = "delete" => k.chat = "group" /\ \A c \in Chat : h.views[c].topic # k.topic
  /\ k.kind = "post" => k.chat = "private"
  /\ k.kind = "separator" => k.text # <<>>
  /\ k.got = "gone" \/ (k.got = "ok" /\ k.kind \in {"delete", "clean"})
       => ~ts[k.topic].alive

CallsOK(h, ts, known) == \A k \in h.calls : k.kind # "create" => CallOK(h, ts, known, k)

NoneGone(h, gone) ==
  \A c \in Chat : h.views[c].topic # 0 => h.views[c].topic \notin gone

HubOK(h, ts, known, gone) ==
  /\ h \in Hub /\ ts \in Seq(Topic)
  /\ PlacesOK(h, ts, known)
  /\ ArchiveOK(h)
  /\ MakingOK(h, ts, known)
  /\ CallsOK(h, ts, known)
  /\ NoneGone(h, gone)

Past ==
  [ known : SUBSET Nat, since : [1 .. plan.topics -> Nat], gone : SUBSET Nat,
    lost : BOOLEAN, lossy : BOOLEAN, old : SUBSET Nat ]

TopicsInv ==
  /\ tg \in [topics : Seq(Topic), blocked : BOOLEAN] /\ past \in Past
  /\ past.known \subseteq DOMAIN tg.topics
  /\ past.gone \subseteq past.known
  /\ \A t \in past.gone : ~tg.topics[t].alive
  /\ HubOK(hub, tg.topics, past.known, past.gone)
  /\ HubOK(file, tg.topics, past.known, {})
  /\ file.ended = {} /\ file.calls = {}
  /\ TopicsOwned

-----------------------------------------------------------------------------
(* No topic that stands is dropped on the way from h to h2.                *)
Keeps(h, h2, ts) == \A t \in DOMAIN ts : t \in Held(h) /\ ts[t].alive => t \in Held(h2)

(* The hub after a step keeps its invariant and every topic that stands.   *)
GoesOn(h, h2, ts, known, gone) == HubOK(h2, ts, known, gone) /\ Keeps(h, h2, ts)

(* No topic is being made in chat c.                                       *)
NoMaking(h, c) == \A k \in h.calls : k.kind = "create" => k.chat # c

LEMMA HeldIs ==
  ASSUME NEW h, NEW t
  PROVE  t \in Held(h) <=> \/ t # 0 /\ \E c \in Chat : h.views[c].here /\ h.views[c].topic = t
                           \/ t \in h.unshared \/ t \in h.ended
                           \/ \E e \in h.cleanup : e.view.topic = t
BY DEF Held, Topics, Shown

LEMMA ZeroIsNone ==
  ASSUME NEW ts \in Seq(Topic)
  PROVE  0 \notin DOMAIN ts
OBVIOUS

LEMMA LeastIn ==
  ASSUME NEW S \in SUBSET Nat, S # {}
  PROVE  \E x \in S : \A y \in S : x =< y
<1> DEFINE R == OpToRel(<, Nat)
<1>1. PICK m \in S : \A y \in S : ~(<<y, m>> \in R)
  <2>1. IsWellFoundedOn(R, Nat) BY NatLessThanWellFounded
  <2> HIDE DEF R
  <2>. QED BY <2>1, WFMin
<1> HIDE DEF R
<1>2. \A y \in S : m =< y
  <2> SUFFICES ASSUME NEW y \in S, y < m PROVE FALSE
    BY <1>1
  <2>1. <<y, m>> \in R BY DEF R, OpToRel
  <2>. QED BY <1>1, <2>1
<1>. QED BY <1>2

LEMMA LeastOf ==
  ASSUME NEW S \in SUBSET Nat, S # {}
  PROVE  Min(S) \in S
BY LeastIn DEF Min

LEMMA NewViews ==
  /\ NoView \in View /\ NewView \in View
  /\ NoView.topic = 0 /\ ~NoView.busy /\ ~NoView.here
  /\ NewView.topic = 0 /\ ~NewView.busy /\ NewView.here
<1>1. NoView \in View
  <2>1. <<0, FALSE>> \in Look BY DEF Look
  <2>2. <<>> \in Seq(Nat) OBVIOUS
  <2>. QED BY <2>1, <2>2 DEF NoView, View
<1>2. NewView = [NoView EXCEPT !.here = TRUE] BY DEF NewView
<1>3. NoView.topic = 0 /\ ~NoView.busy /\ ~NoView.here BY DEF NoView
<1>. QED BY <1>1, <1>2, <1>3 DEF View

(* Less in the hub's hands is as good: a view goes or is a new one, calls, *)
(* topics to be deleted and archived ones go, unless the slot is archived. *)
LEMMA LessIsFine ==
  ASSUME NEW ts, NEW known, NEW gone, NEW h, HubOK(h, ts, known, gone),
         NEW h2 \in Hub, h2.calls \subseteq h.calls,
         h2.unshared \subseteq h.unshared, h2.cleanup \subseteq h.cleanup,
         \A c \in Chat :
           \/ /\ h2.views[c].topic = h.views[c].topic /\ h2.views[c].here = h.views[c].here
              /\ h2.views[c].busy = h.views[c].busy
           \/ /\ h2.views[c].topic = h.views[c].topic /\ h2.views[c].here = h.views[c].here
              /\ ~h2.views[c].busy /\ NoMaking(h2, c)
           \/ h2.views[c].topic = 0 /\ ~h2.views[c].busy /\ NoMaking(h2, c),
         h2.archived => ~h2.live /\ (h.archived \/ \A c \in Chat : /\ h2.views[c].topic = 0
                                                                   /\ ~h2.views[c].busy)
  PROVE  HubOK(h2, ts, known, gone)
<1>1. h \in Hub /\ ts \in Seq(Topic) /\ 0 \notin DOMAIN ts BY ZeroIsNone DEF HubOK
<1>2. PlacesOK(h2, ts, known) BY DEF HubOK, PlacesOK
<1>3. ArchiveOK(h2) BY DEF HubOK, ArchiveOK
<1>4. MakingOK(h2, ts, known)
  <2> SUFFICES ASSUME NEW k \in h2.calls, k.kind = "create"
               PROVE  /\ h2.views[k.chat].topic = 0 /\ h2.views[k.chat].busy
                      /\ \A j \in h2.calls : j.kind = "create" /\ j.chat = k.chat => j = k
                      /\ k.got # "gone"
                      /\ k.got = "ok" => IsIn(ts, k.chat, k.topic) /\ k.topic \notin known
                      /\ k.got # "ok" => k.topic = 0
    BY DEF MakingOK
  <2>1. k.chat \in Chat /\ ~NoMaking(h2, k.chat) BY DEF Hub, Call, NoMaking
  <2>. QED BY <2>1 DEF HubOK, MakingOK
<1>5. CallsOK(h2, ts, known) BY <1>1 DEF HubOK, CallsOK, CallOK, IsIn
<1>6. NoneGone(h2, gone) BY DEF HubOK, NoneGone
<1>. QED BY <1>1, <1>2, <1>3, <1>4, <1>5, <1>6 DEF HubOK

(* A call that is handed out, other than for a new topic.                  *)
LEMMA HandedIsFine ==
  ASSUME NEW ts, NEW known, NEW gone, NEW h, HubOK(h, ts, known, gone),
         NEW k \in Call, k.kind # "create", CallOK(h, ts, known, k)
  PROVE  GoesOn(h, Handed(h, k), ts, known, gone)
<1> DEFINE h2 == Handed(h, k)
<1>1. h2 \in Hub BY DEF HubOK, Hub, Handed
<1>2. /\ h2.views = h.views /\ h2.calls = h.calls \cup {k} /\ h2.unshared = h.unshared
      /\ h2.cleanup = h.cleanup /\ h2.ended = h.ended /\ h2.live = h.live
      /\ h2.archived = h.archived
  BY DEF HubOK, Hub, Handed
<1> HIDE DEF h2
<1>3. PlacesOK(h2, ts, known) /\ ArchiveOK(h2) /\ NoneGone(h2, gone)
  BY <1>2 DEF HubOK, PlacesOK, ArchiveOK, NoneGone
<1>4. MakingOK(h2, ts, known) BY <1>2 DEF HubOK, MakingOK
<1>5. CallsOK(h2, ts, known) BY <1>2 DEF HubOK, CallsOK, CallOK
<1>6. Keeps(h, h2, ts) BY <1>2, HeldIs DEF Keeps
<1>. QED BY <1>1, <1>3, <1>4, <1>5, <1>6 DEF HubOK, GoesOn, h2

(* A view that is dropped, and whose topic is told that it ends or is to   *)
(* be deleted.                                                             *)
LEMMA WithoutFallbackIsFine ==
  ASSUME NEW ts, NEW known, NEW gone, NEW h, HubOK(h, ts, known, gone)
  PROVE  GoesOn(h, WithoutFallback(h), ts, known, gone)
<1> DEFINE h2 == [h EXCEPT !.views["group"] = NoView,
                           !.ended = @ \cup ({h.views["group"].topic} \ {0})]
<1>1. CASE ~Leaves(h) BY <1>1 DEF WithoutFallback, GoesOn, Keeps
<1>2. CASE Leaves(h)
  <2>0. /\ h \in Hub /\ h.views["group"].topic \in Nat
        /\ [h.views EXCEPT !["group"] = NoView] \in [Chat -> View]
    BY NewViews DEF HubOK, Hub, Chat, View
  <2>1. h2 \in Hub BY <2>0 DEF Hub
  <2>2. /\ h2.views = [h.views EXCEPT !["group"] = NoView] /\ h.views \in [Chat -> View]
        /\ h2.calls = h.calls /\ h2.unshared = h.unshared /\ h2.cleanup = h.cleanup
        /\ h2.ended = h.ended \cup ({h.views["group"].topic} \ {0})
        /\ h2.live = h.live /\ h2.archived = h.archived
    BY DEF HubOK, Hub
  <2> HIDE DEF h2
  <2>3. ~h.archived BY <1>2 DEF Leaves, AtHome, Ready, HubOK, ArchiveOK, Chat
  <2>4. NoMaking(h2, "group") BY <1>2, <2>2 DEF Leaves, HubOK, MakingOK, NoMaking, Chat
  <2>5. h2.views["group"] = NoView /\ h2.views["private"] = h.views["private"]
    BY <2>2 DEF Chat
  <2>6. HubOK(h2, ts, known, gone)
    BY <2>1, <2>2, <2>3, <2>4, <2>5, NewViews, LessIsFine DEF Chat
  <2>7. Keeps(h, h2, ts) BY <2>2, <2>5, HeldIs DEF Keeps, Chat
  <2>. QED BY <1>2, <2>6, <2>7 DEF WithoutFallback, GoesOn, h2
<1>. QED BY <1>1, <1>2

-----------------------------------------------------------------------------
(* The parts of pump.                                                      *)
LEMMA EmptyViewIsIdle ==
  ASSUME NEW ts, NEW known, NEW gone, NEW h, HubOK(h, ts, known, gone), NEW c \in Chat,
         ~h.views[c].here \/ h.views[c].topic # 0 \/ ~h.views[c].busy
  PROVE  NoMaking(h, c) /\ (~h.views[c].here => h.views[c].topic = 0 /\ ~h.views[c].busy)
BY DEF HubOK, PlacesOK, MakingOK, NoMaking

(* A new view where none was.                                              *)
LEMMA NewViewIsFine ==
  ASSUME NEW ts, NEW known, NEW gone, NEW h, HubOK(h, ts, known, gone),
         h.live \/ ~h.archived, NEW c \in Chat, ~h.views[c].here,
         NEW v \in View, v.here, v.topic = 0, ~v.busy
  PROVE  GoesOn(h, [h EXCEPT !.views[c] = v], ts, known, gone)
<1> DEFINE h2 == [h EXCEPT !.views[c] = v]
<1>1. h2 \in Hub BY DEF HubOK, Hub
<1>2. /\ h2.views = [h.views EXCEPT ![c] = v] /\ h.views \in [Chat -> View]
      /\ h2.calls = h.calls /\ h2.unshared = h.unshared /\ h2.cleanup = h.cleanup
      /\ h2.ended = h.ended /\ h2.live = h.live /\ h2.archived = h.archived
  BY DEF HubOK, Hub
<1> HIDE DEF h2
<1>3. NoMaking(h, c) /\ h.views[c].topic = 0 BY EmptyViewIsIdle
<1>4. NoMaking(h2, c) BY <1>2, <1>3 DEF NoMaking
<1>5. ~h.archived BY DEF HubOK, ArchiveOK
<1>6. HubOK(h2, ts, known, gone) BY <1>2, <1>1, <1>4, <1>5, LessIsFine
<1>7. Keeps(h, h2, ts) BY <1>2, HeldIs DEF Keeps
<1>. QED BY <1>6, <1>7 DEF GoesOn, h2

LEMMA KeepsOn ==
  ASSUME NEW h, NEW h2, NEW h3, NEW ts, Keeps(h, h2, ts), Keeps(h2, h3, ts)
  PROVE  Keeps(h, h3, ts)
BY DEF Keeps

LEMMA EnsuredIsFine ==
  ASSUME NEW ts, NEW known, NEW gone, NEW h, HubOK(h, ts, known, gone)
  PROVE  GoesOn(h, Ensured(h), ts, known, gone)
<1> DEFINE h1 == WithPrivate(h)
           h2 == WithGroup(h1)
           h3 == WithoutFallback(h2)
<1>1. GoesOn(h, h1, ts, known, gone)
  <2>1. CASE h1 = h BY <2>1 DEF GoesOn, Keeps
  <2>2. CASE h.live /\ ~h.views["private"].here /\ h1 = [h EXCEPT !.views["private"] = NewView]
    <3> HIDE DEF h1
    <3>. QED BY <2>2, NewViewIsFine, NewViews DEF Chat
  <2>. QED BY <2>1, <2>2 DEF WithPrivate
<1>a. HubOK(h1, ts, known, gone) BY <1>1 DEF GoesOn
<1> HIDE DEF h1
<1>2. GoesOn(h1, h2, ts, known, gone)
  <2> DEFINE v == [NewView EXCEPT !.fallback = TRUE]
  <2>1. CASE h2 = h1 BY <1>a, <2>1 DEF GoesOn, Keeps
  <2>2. CASE h1.live /\ ~h1.views["group"].here /\ h2 = [h1 EXCEPT !.views["group"] = v]
    <3> HIDE DEF h2
    <3>1. v \in View /\ v.here /\ v.topic = 0 /\ ~v.busy BY NewViews DEF View
    <3> HIDE DEF v
    <3>. QED BY <1>a, <2>2, <3>1, NewViewIsFine DEF Chat
  <2>. QED BY <2>1, <2>2 DEF WithGroup, Shown, Usable, Chat
<1>b. HubOK(h2, ts, known, gone) BY <1>2 DEF GoesOn
<1> HIDE DEF h2
<1>3. GoesOn(h2, h3, ts, known, gone) BY <1>b, WithoutFallbackIsFine
<1>. QED BY <1>1, <1>2, <1>3, KeepsOn DEF GoesOn, Ensured, h1, h2, h3

LEMMA DeleteUnsharedIsFine ==
  ASSUME NEW ts, NEW known, NEW gone, NEW h, HubOK(h, ts, known, gone)
  PROVE  GoesOn(h, DeleteUnshared(h), ts, known, gone)
<1> DEFINE due == h.unshared \ (h.deleting \cup h.later)
           new == {CallOf("delete", "group", t, <<>>, <<>>) : t \in due}
           h1  == [h EXCEPT !.deleting = @ \cup due, !.calls = @ \cup new]
           h2  == [h EXCEPT !.unshared = @ \ due, !.ended = @ \cup due]
<1>1. due \subseteq h.unshared /\ due \in SUBSET Nat BY DEF HubOK, Hub
<1>2. ASSUME NEW k \in new
      PROVE  k \in Call /\ k.kind = "delete" /\ CallOK(h, ts, known, k)
  <2> PICK t \in due : k = CallOf("delete", "group", t, <<>>, <<>>) OBVIOUS
  <2>1. /\ k.kind = "delete" /\ k.chat = "group" /\ k.topic = t /\ k.text = <<>>
        /\ k.look = <<>> /\ k.got = "none"
    BY DEF CallOf
  <2>2. k \in Call BY <1>1 DEF Look, Call, Kind, Chat, CallOf
  <2>3. IsIn(ts, "group", t) /\ t \in known /\ \A c \in Chat : h.views[c].topic # t
    BY <1>1, ZeroIsNone DEF HubOK, PlacesOK, IsIn
  <2>. QED BY <2>1, <2>2, <2>3 DEF CallOK
<1> HIDE DEF due, new
<1>3. CASE DeleteUnshared(h) = h1
  <2>1. h1 \in Hub BY <1>1, <1>2 DEF HubOK, Hub
  <2>2. /\ h1.views = h.views /\ h1.calls = h.calls \cup new /\ h1.unshared = h.unshared
        /\ h1.cleanup = h.cleanup /\ h1.ended = h.ended /\ h1.live = h.live
        /\ h1.archived = h.archived
    BY DEF HubOK, Hub
  <2> HIDE DEF h1
  <2>3. PlacesOK(h1, ts, known) /\ ArchiveOK(h1) /\ NoneGone(h1, gone)
    BY <2>2 DEF HubOK, PlacesOK, ArchiveOK, NoneGone
  <2>4. MakingOK(h1, ts, known) BY <1>2, <2>2 DEF HubOK, MakingOK
  <2>5. CallsOK(h1, ts, known) BY <1>2, <2>2 DEF HubOK, CallsOK, CallOK
  <2>6. Keeps(h, h1, ts) BY <2>2, HeldIs DEF Keeps
  <2>. QED BY <1>3, <2>1, <2>3, <2>4, <2>5, <2>6 DEF HubOK, GoesOn
<1>4. CASE DeleteUnshared(h) = h2
  <2>1. h2 \in Hub BY <1>1 DEF HubOK, Hub
  <2>2. /\ h2.views = h.views /\ h2.calls = h.calls /\ h2.unshared = h.unshared \ due
        /\ h2.cleanup = h.cleanup /\ h2.ended = h.ended \cup due /\ h2.live = h.live
        /\ h2.archived = h.archived
    BY DEF HubOK, Hub
  <2> HIDE DEF h2
  <2>3. HubOK(h2, ts, known, gone) BY <2>1, <2>2, LessIsFine DEF HubOK, ArchiveOK
  <2>4. Keeps(h, h2, ts) BY <2>2, HeldIs DEF Keeps
  <2>. QED BY <1>4, <2>3, <2>4 DEF GoesOn
<1>. QED BY <1>3, <1>4 DEF DeleteUnshared, due, new

LEMMA CleanedInIsFine ==
  ASSUME NEW ts, NEW known, NEW gone, NEW h, HubOK(h, ts, known, gone), NEW c \in Chat
  PROVE  GoesOn(h, CleanedIn(h, c), ts, known, gone)
<1> DEFINE all == {e.view.topic : e \in Queued(h, c)}
           h1  == [h EXCEPT !.cleanup = @ \ Queued(h, c), !.ended = @ \cup all]
           t   == Min(all)
           h2  == [h EXCEPT !.flying[c] = t]
           k   == CallOf("clean", c, t, <<>>, <<>>)
<1>0. /\ h \in Hub /\ Queued(h, c) \subseteq h.cleanup
      /\ all \in SUBSET Nat /\ \A e \in Queued(h, c) : e.chat = c
  BY DEF HubOK, Hub, Queued, View
<1>1. CASE CleanedIn(h, c) = h BY <1>1 DEF GoesOn, Keeps
<1>2. CASE CleanedIn(h, c) = h1
  <2>1. h1 \in Hub BY <1>0 DEF Hub
  <2>2. /\ h1.views = h.views /\ h1.calls = h.calls /\ h1.unshared = h.unshared
        /\ h1.cleanup = h.cleanup \ Queued(h, c) /\ h1.ended = h.ended \cup all
        /\ h1.live = h.live /\ h1.archived = h.archived
    BY <1>0 DEF Hub
  <2> HIDE DEF h1
  <2>3. HubOK(h1, ts, known, gone) BY <2>1, <2>2, LessIsFine DEF HubOK, ArchiveOK
  <2>4. Keeps(h, h1, ts) BY <2>2, HeldIs DEF Keeps
  <2>. QED BY <1>2, <2>3, <2>4 DEF GoesOn
<1>3. CASE Queued(h, c) # {} /\ CleanedIn(h, c) = Handed(h2, k)
  <2>1. t \in all
    <3>1. all # {} BY <1>3
    <3> HIDE DEF all
    <3>. QED BY <1>0, <3>1, LeastOf
  <2>2. PICK e \in h.cleanup : e.view.topic = t /\ e.chat = c BY <1>0, <2>1
  <2>3. t \in Nat BY <1>0, <2>1
  <2> HIDE DEF all, t
  <2>4. h2 \in Hub BY <1>0, <2>3 DEF Hub
  <2>5. /\ h2.views = h.views /\ h2.calls = h.calls /\ h2.unshared = h.unshared
        /\ h2.cleanup = h.cleanup /\ h2.ended = h.ended
        /\ h2.live = h.live /\ h2.archived = h.archived
    BY <1>0 DEF Hub
  <2>6. /\ k.kind = "clean" /\ k.chat = c /\ k.topic = t /\ k.got = "none" /\ k \in Call
    BY <2>3 DEF Look, Call, Kind, CallOf
  <2> HIDE DEF h2, k
  <2>7. HubOK(h2, ts, known, gone) BY <2>4, <2>5, LessIsFine DEF HubOK, ArchiveOK
  <2>8. CallOK(h2, ts, known, k) BY <2>2, <2>6 DEF CallOK, HubOK, PlacesOK
  <2>9. GoesOn(h2, Handed(h2, k), ts, known, gone) BY <2>6, <2>7, <2>8, HandedIsFine
  <2>10. Keeps(h, h2, ts) BY <2>5, HeldIs DEF Keeps
  <2>. QED BY <1>3, <2>9, <2>10, KeepsOn DEF GoesOn, k, h2
<1>. QED BY <1>1, <1>2, <1>3 DEF CleanedIn

LEMMA DeleteCleanedIsFine ==
  ASSUME NEW ts, NEW known, NEW gone, NEW h, HubOK(h, ts, known, gone)
  PROVE  GoesOn(h, DeleteCleaned(h), ts, known, gone)
BY CleanedInIsFine, KeepsOn DEF Chat, DeleteCleaned, GoesOn

LEMMA TopicWorkIsFine ==
  ASSUME NEW ts, NEW known, NEW gone, NEW h, HubOK(h, ts, known, gone)
  PROVE  GoesOn(h, TopicWork(h), ts, known, gone)
<1> DEFINE J(c) == JobsOf(h, c)
           new == UNION {J(c) : c \in Chat}
           vs  == [c \in Chat |-> [h.views[c] EXCEPT !.busy = @ \/ J(c) # {}]]
           h2  == TopicWork(h)
<1>0. h \in Hub /\ h.views \in [Chat -> View] BY DEF HubOK, Hub
<1>1. ASSUME NEW c \in Chat, NEW k \in J(c)
      PROVE  /\ k \in Call /\ k.chat = c /\ k.got = "none"
             /\ ~h.archived /\ h.views[c].here /\ ~h.views[c].busy
             /\ \/ k.kind = "create" /\ k.topic = 0 /\ h.views[c].topic = 0 /\ J(c) = {k}
                \/ k.kind \in {"edit", "separator"} /\ CallOK(h, ts, known, k)
  <2> DEFINE v == h.views[c]
  <2>0. v \in View /\ Wanted(h) \in Look /\ <<>> \in Seq(Nat) /\ <<>> \in Look
    BY <1>0 DEF Hub, Wanted, Look
  <2>1. ~h.archived /\ v.here /\ ~v.busy BY DEF JobsOf
  <2>2. CASE v.topic = 0
    <3>1. J(c) = {CallOf("create", c, 0, <<>>, Wanted(h))} BY <2>2 DEF JobsOf
    <3> HIDE DEF J
    <3>2. k = CallOf("create", c, 0, <<>>, Wanted(h)) /\ J(c) = {k} BY <3>1
    <3>3. k.kind = "create" /\ k.chat = c /\ k.got = "none" /\ k.topic = 0
      BY <3>2 DEF CallOf
    <3>4. k \in Call BY <2>0, <3>2 DEF Call, Kind, CallOf
    <3>. QED BY <2>1, <2>2, <3>2, <3>3, <3>4
  <2>3. CASE v.topic # 0
    <3>1. \/ k = CallOf("separator", c, v.topic, v.pending, <<>>) /\ v.pending # <<>>
          \/ k = CallOf("edit", c, v.topic, <<>>, Wanted(h))
      BY <2>3 DEF JobsOf
    <3>a. v.topic \in Nat /\ v.pending \in Seq(Nat) BY <2>0 DEF View
    <3>b. ASSUME NEW text \in Seq(Nat), NEW look \in Look, NEW kind \in Kind
          PROVE  CallOf(kind, c, v.topic, text, look) \in Call
      BY <3>a DEF Call, CallOf
    <3> HIDE DEF v
    <3>2. /\ k.chat = c /\ k.got = "none" /\ k.kind \in {"edit", "separator"}
          /\ k.topic = v.topic /\ (k.kind = "separator" => k.text # <<>>)
      BY <3>1 DEF CallOf
    <3>4. k \in Call BY <2>0, <3>a, <3>b, <3>1 DEF Kind
    <3>3. IsIn(ts, c, v.topic) /\ v.topic \in known BY <2>3 DEF HubOK, PlacesOK, v
    <3>. QED BY <2>1, <3>2, <3>3, <3>4 DEF CallOK, v
  <2>. QED BY <2>2, <2>3
<1>2. h2 = [h EXCEPT !.calls = @ \cup new, !.views = vs] BY DEF TopicWork
<1> HIDE DEF J
<1>a. new \subseteq Call BY <1>1
<1>b. vs \in [Chat -> View] BY <1>0 DEF View
<1>c. \A c \in Chat : vs[c] = [h.views[c] EXCEPT !.busy = @ \/ J(c) # {}] OBVIOUS
<1>d. \A k : k \in new <=> \E c \in Chat : k \in J(c) OBVIOUS
<1> HIDE DEF new, vs, h2
<1>3. /\ h2.calls = h.calls \cup new /\ h2.unshared = h.unshared
      /\ h2.cleanup = h.cleanup /\ h2.ended = h.ended
      /\ h2.live = h.live /\ h2.archived = h.archived
      /\ h2.views = vs
  BY <1>0, <1>2 DEF Hub
<1>4. h2 \in Hub BY <1>0, <1>2, <1>a, <1>b DEF Hub
<1>5. \A c \in Chat : /\ h2.views[c].topic = h.views[c].topic
                      /\ h2.views[c].here = h.views[c].here
                      /\ h2.views[c].busy = (h.views[c].busy \/ J(c) # {})
  BY <1>0, <1>3, <1>c DEF View
<1>e. \A c \in Chat : J(c) # {} => ~h.archived /\ h.views[c].here BY <1>1
<1>6. PlacesOK(h2, ts, known)
  <2>1. \A c \in Chat : h2.views[c].busy => h2.views[c].here
    BY <1>5, <1>e DEF HubOK, PlacesOK
  <2>. QED BY <1>3, <1>5, <2>1 DEF HubOK, PlacesOK
<1>7. ArchiveOK(h2) BY <1>3, <1>5, <1>e DEF HubOK, ArchiveOK
<1>8. NoneGone(h2, gone) BY <1>5 DEF HubOK, NoneGone
<1>9. MakingOK(h2, ts, known)
  <2> SUFFICES ASSUME NEW k \in h2.calls, k.kind = "create"
               PROVE  /\ h2.views[k.chat].topic = 0 /\ h2.views[k.chat].busy
                      /\ \A j \in h2.calls : j.kind = "create" /\ j.chat = k.chat => j = k
                      /\ k.got # "gone"
                      /\ k.got = "ok" => IsIn(ts, k.chat, k.topic) /\ k.topic \notin known
                      /\ k.got # "ok" => k.topic = 0
    BY DEF MakingOK
  <2>1. CASE k \in h.calls
    <3>1. k.chat \in Chat /\ h.views[k.chat].busy /\ h.views[k.chat].topic = 0
      BY <1>0, <2>1 DEF HubOK, MakingOK, Hub, Call
    <3>2. ASSUME NEW j \in h2.calls, j.kind = "create", j.chat = k.chat PROVE j \in h.calls
      BY <1>1, <1>3, <1>d, <3>1, <3>2
    <3>. QED BY <1>5, <2>1, <3>1, <3>2 DEF HubOK, MakingOK
  <2>2. CASE k \in new
    <3>1. PICK c \in Chat : k \in J(c) BY <1>d, <2>2
    <3>2. k.chat = c /\ k.got = "none" /\ k.topic = 0 /\ h.views[c].topic = 0
          /\ J(c) = {k} /\ ~h.views[c].busy
      BY <1>1, <2>2, <3>1
    <3>3. ASSUME NEW j \in h2.calls, j.kind = "create", j.chat = c PROVE j = k
      <4>1. j \notin h.calls BY <3>2, <3>3 DEF HubOK, MakingOK
      <4>2. PICK d \in Chat : j \in J(d) BY <1>3, <1>d, <4>1
      <4>. QED BY <1>1, <3>2, <3>3, <4>2
    <3>. QED BY <1>5, <3>1, <3>2, <3>3
  <2>. QED BY <1>3, <2>1, <2>2
<1>10. CallsOK(h2, ts, known)
  <2> SUFFICES ASSUME NEW k \in h2.calls, k.kind # "create" PROVE CallOK(h2, ts, known, k)
    BY DEF CallsOK
  <2>1. CallOK(h, ts, known, k) BY <1>1, <1>3, <1>d DEF HubOK, CallsOK
  <2>. QED BY <1>5, <2>1 DEF CallOK
<1>11. Keeps(h, h2, ts) BY <1>3, <1>5, HeldIs DEF Keeps
<1>. QED BY <1>4, <1>6, <1>7, <1>8, <1>9, <1>10, <1>11 DEF HubOK, GoesOn, h2

LEMMA PumpIsFine ==
  ASSUME NEW ts, NEW known, NEW gone, NEW h, HubOK(h, ts, known, gone)
  PROVE  GoesOn(h, Pump(h), ts, known, gone)
<1> DEFINE h1 == Ensured(h)
           h2 == DeleteUnshared(h1)
           h3 == DeleteCleaned(h2)
<1>1. GoesOn(h, h1, ts, known, gone) BY EnsuredIsFine
<1>2. GoesOn(h1, h2, ts, known, gone) BY <1>1, DeleteUnsharedIsFine DEF GoesOn
<1>3. GoesOn(h2, h3, ts, known, gone) BY <1>2, DeleteCleanedIsFine DEF GoesOn
<1>4. GoesOn(h3, TopicWork(h3), ts, known, gone) BY <1>3, TopicWorkIsFine DEF GoesOn
<1> HIDE DEF h1, h2, h3
<1>. QED BY <1>1, <1>2, <1>3, <1>4, KeepsOn DEF GoesOn, Pump, h1, h2, h3

-----------------------------------------------------------------------------
(* Sessions, and what people do.                                           *)
(* The topics stay where they are.                                         *)
LEMMA SameIsFine ==
  ASSUME NEW ts, NEW known, NEW gone, NEW h, HubOK(h, ts, known, gone),
         NEW h2 \in Hub, h2.calls \subseteq h.calls,
         h2.unshared = h.unshared, h2.cleanup = h.cleanup, h.ended \subseteq h2.ended,
         \A c \in Chat :
           /\ h2.views[c].topic = h.views[c].topic /\ h2.views[c].here = h.views[c].here
           /\ h2.views[c].busy = h.views[c].busy \/ (~h2.views[c].busy /\ NoMaking(h2, c)),
         h2.archived => ~h2.live /\ h.archived
  PROVE  GoesOn(h, h2, ts, known, gone)
BY LessIsFine, HeldIs DEF Keeps, GoesOn

(* A view that keeps its topic.                                            *)
LEMMA ViewChangeIsFine ==
  ASSUME NEW ts, NEW known, NEW gone, NEW h, HubOK(h, ts, known, gone), NEW c \in Chat,
         NEW w \in View, w.topic = h.views[c].topic, w.here = h.views[c].here,
         w.busy = h.views[c].busy \/ (~w.busy /\ NoMaking(h, c))
  PROVE  GoesOn(h, [h EXCEPT !.views[c] = w], ts, known, gone)
<1> DEFINE h2 == [h EXCEPT !.views[c] = w]
<1>0. h \in Hub /\ h.views \in [Chat -> View] BY DEF HubOK, Hub
<1>1. h2 \in Hub BY <1>0 DEF Hub
<1>2. /\ h2.calls = h.calls /\ h2.unshared = h.unshared /\ h2.cleanup = h.cleanup
      /\ h2.ended = h.ended /\ h2.live = h.live /\ h2.archived = h.archived
      /\ h2.views = [h.views EXCEPT ![c] = w]
  BY <1>0 DEF Hub
<1> HIDE DEF h2
<1>3. \A d \in Chat : h2.views[d] = IF d = c THEN w ELSE h.views[d] BY <1>0, <1>2
<1>4. \A d \in Chat :
        /\ h2.views[d].topic = h.views[d].topic /\ h2.views[d].here = h.views[d].here
        /\ h2.views[d].busy = h.views[d].busy \/ (~h2.views[d].busy /\ NoMaking(h2, d))
  BY <1>2, <1>3 DEF NoMaking
<1>5. h2.archived => ~h2.live /\ h.archived BY <1>2 DEF HubOK, ArchiveOK
<1>6. GoesOn(h, h2, ts, known, gone) BY <1>1, <1>2, <1>4, <1>5, SameIsFine
<1>. QED BY <1>6 DEF h2

LEMMA OccupiedIsFine ==
  ASSUME NEW ts, NEW known, NEW gone, NEW h, HubOK(h, ts, known, gone), NEW n \in Nat
  PROVE  /\ GoesOn(h, Occupied(h, n), ts, known, gone)
         /\ Occupied(h, n).views["group"].busy = h.views["group"].busy
<1> DEFINE new(v) == [v EXCEPT !.pending = IF @ # <<>> /\ Head(@) = ShareLine
                                           THEN <<ShareLine, n>> ELSE <<n>>]
           vs == [c \in Chat |-> IF h.views[c].here THEN new(h.views[c]) ELSE h.views[c]]
           h1 == [h EXCEPT !.session = n]
           h2 == [[h EXCEPT !.views = vs] EXCEPT !.session = n]
<1>0. h \in Hub /\ h.views \in [Chat -> View] BY DEF HubOK, Hub
<1>1. CASE Occupied(h, n) = h1
  <2>1. h1 \in Hub BY <1>0 DEF Hub
  <2>2. /\ h1.views = h.views /\ h1.calls = h.calls /\ h1.unshared = h.unshared
        /\ h1.cleanup = h.cleanup /\ h1.ended = h.ended
        /\ h1.live = h.live /\ h1.archived = h.archived
    BY <1>0 DEF Hub
  <2> HIDE DEF h1
  <2>. QED BY <1>1, <2>1, <2>2, SameIsFine DEF HubOK, ArchiveOK
<1>2. CASE Occupied(h, n) = h2
  <2>1. ASSUME NEW c \in Chat
        PROVE  /\ vs[c] \in View /\ vs[c].topic = h.views[c].topic
               /\ vs[c].here = h.views[c].here /\ vs[c].busy = h.views[c].busy
    <3>1. <<ShareLine, n>> \in Seq(Nat) /\ <<n>> \in Seq(Nat) BY DEF ShareLine
    <3>. QED BY <1>0, <3>1 DEF View
  <2>2. vs \in [Chat -> View] BY <2>1
  <2> HIDE DEF vs
  <2>3. h2 \in Hub BY <1>0, <2>2 DEF Hub
  <2>4. /\ h2.views = vs /\ h2.calls = h.calls /\ h2.unshared = h.unshared
        /\ h2.cleanup = h.cleanup /\ h2.ended = h.ended
        /\ h2.live = h.live /\ h2.archived = h.archived
    BY <1>0 DEF Hub
  <2> HIDE DEF h2
  <2>5. GoesOn(h, h2, ts, known, gone)
    BY <2>1, <2>3, <2>4, SameIsFine DEF HubOK, ArchiveOK
  <2>. QED BY <1>2, <2>1, <2>4, <2>5 DEF Chat
<1>. QED BY <1>1, <1>2 DEF Occupied, EachView

LEMMA ViewPair ==
  ASSUME NEW v \in View, NEW w \in View
  PROVE  /\ [private |-> v, group |-> w] \in [Chat -> View]
         /\ [private |-> v, group |-> w]["private"] = v
         /\ [private |-> v, group |-> w]["group"] = w
BY DEF Chat

LEMMA HomedIsFine ==
  ASSUME NEW ts, NEW known, NEW gone, NEW h, HubOK(h, ts, known, gone), ~h.archived
  PROVE  GoesOn(h, Homed(h), ts, known, gone)
<1> DEFINE h1 == [h EXCEPT !.views["group"].fallback = @ \/ h.views["group"].here]
           vs == [private |-> NewView, group |-> NoView]
           h2 == [h EXCEPT !.views = vs]
<1>0. h \in Hub /\ h.views \in [Chat -> View] BY DEF HubOK, Hub
<1>1. CASE Homed(h) = h BY <1>1 DEF GoesOn, Keeps
<1>2. CASE Homed(h) = h1
  <2>1. h1 \in Hub
    <3>1. [h.views["group"] EXCEPT !.fallback = @ \/ h.views["group"].here] \in View
      BY <1>0 DEF View, Chat
    <3>. QED BY <1>0, <3>1 DEF Hub, Chat
  <2>2. /\ h1.calls = h.calls /\ h1.unshared = h.unshared
        /\ h1.cleanup = h.cleanup /\ h1.ended = h.ended
        /\ h1.live = h.live /\ h1.archived = h.archived
        /\ h1.views = [h.views EXCEPT !["group"].fallback = @ \/ h.views["group"].here]
    BY <1>0 DEF Hub
  <2>3. \A c \in Chat : /\ h1.views[c].topic = h.views[c].topic
                        /\ h1.views[c].here = h.views[c].here
                        /\ h1.views[c].busy = h.views[c].busy
    BY <1>0, <2>2 DEF View, Chat
  <2> HIDE DEF h1
  <2>. QED BY <1>2, <2>1, <2>2, <2>3, SameIsFine
<1>3. CASE /\ Homed(h) = h2 /\ Shown(h) = {"group"}
           /\ h.views["group"].topic = 0 /\ ~h.views["group"].busy
  <2>1. vs \in [Chat -> View] /\ vs["private"] = NewView /\ vs["group"] = NoView
    BY NewViews, ViewPair
  <2> HIDE DEF vs
  <2>2. h2 \in Hub BY <1>0, <2>1 DEF Hub
  <2>3. /\ h2.calls = h.calls /\ h2.unshared = h.unshared
        /\ h2.cleanup = h.cleanup /\ h2.ended = h.ended
        /\ h2.live = h.live /\ h2.archived = h.archived /\ h2.views = vs
    BY <1>0 DEF Hub
  <2> HIDE DEF h2
  <2>4. \A c \in Chat : NoMaking(h, c) /\ h.views[c].topic = 0
    BY <1>3, EmptyViewIsIdle DEF Shown, Chat
  <2>5. \A c \in Chat : NoMaking(h2, c) /\ h2.views[c].topic = 0 /\ ~h2.views[c].busy
    BY <2>1, <2>3, <2>4, NewViews DEF NoMaking, Chat
  <2>6. HubOK(h2, ts, known, gone) BY <2>2, <2>3, <2>5, LessIsFine
  <2>7. Keeps(h, h2, ts) BY <2>3, <2>4, HeldIs DEF Keeps
  <2>. QED BY <1>3, <2>6, <2>7 DEF GoesOn
<1>. QED BY <1>1, <1>2, <1>3 DEF Homed

LEMMA StartIsFine ==
  ASSUME NEW ts, NEW known, NEW gone, NEW h0, HubOK(h0, ts, known, gone), NEW n \in Nat
  PROVE  LET h == [Occupied(h0, n) EXCEPT !.live = TRUE, !.running = TRUE, !.archived = FALSE]
         IN  GoesOn(h0, IF h0.archived THEN Homed(h) ELSE h, ts, known, gone)
<1> DEFINE h1 == Occupied(h0, n)
           h  == [h1 EXCEPT !.live = TRUE, !.running = TRUE, !.archived = FALSE]
<1>1. GoesOn(h0, h1, ts, known, gone) BY OccupiedIsFine
<1>2. HubOK(h1, ts, known, gone) /\ h1 \in Hub BY <1>1 DEF GoesOn, HubOK
<1> HIDE DEF h1
<1>3. GoesOn(h1, h, ts, known, gone) /\ ~h.archived
  <2>1. h \in Hub BY <1>2 DEF Hub
  <2>2. /\ h.views = h1.views /\ h.calls = h1.calls /\ h.unshared = h1.unshared
        /\ h.cleanup = h1.cleanup /\ h.ended = h1.ended /\ ~h.archived
    BY <1>2 DEF Hub
  <2> HIDE DEF h
  <2>. QED BY <1>2, <2>1, <2>2, SameIsFine
<1> HIDE DEF h
<1>4. GoesOn(h0, h, ts, known, gone) BY <1>1, <1>3, KeepsOn DEF GoesOn
<1>5. GoesOn(h0, Homed(h), ts, known, gone)
  BY <1>3, <1>4, KeepsOn, HomedIsFine DEF GoesOn
<1>. QED BY <1>4, <1>5 DEF h, h1

(* A change of what the hub knows of its chats and of nothing else.        *)
LEMMA ReopenedIsFine ==
  ASSUME NEW ts, NEW known, NEW gone, NEW h, HubOK(h, ts, known, gone)
  PROVE  GoesOn(h, Reopened(h), ts, known, gone)
<1> DEFINE f  == IF h.closed THEN {} ELSE h.views["private"].failed
           vs == [h.views EXCEPT !["private"].failed = f]
           h1 == [h EXCEPT !.proven = TRUE, !.closed = FALSE, !.views = vs]
<1>0. h \in Hub /\ h.views \in [Chat -> View] /\ "private" \in Chat
  BY DEF HubOK, Hub, Chat
<1>1. vs \in [Chat -> View]
  <2>1. f \in SUBSET Look BY <1>0 DEF View
  <2> HIDE DEF f
  <2>. QED BY <1>0, <2>1 DEF View
<1>2. \A c \in Chat : /\ vs[c].topic = h.views[c].topic /\ vs[c].here = h.views[c].here
                      /\ vs[c].busy = h.views[c].busy
  BY <1>0 DEF View, Chat
<1>3. Reopened(h) = WithoutFallback(h1) BY <1>0 DEF Hub, Reopened
<1> HIDE DEF vs
<1>4. h1 \in Hub BY <1>0, <1>1 DEF Hub
<1>5. /\ h1.calls = h.calls /\ h1.unshared = h.unshared
      /\ h1.cleanup = h.cleanup /\ h1.ended = h.ended
      /\ h1.live = h.live /\ h1.archived = h.archived /\ h1.views = vs
  BY <1>0 DEF Hub
<1> HIDE DEF h1
<1>6. GoesOn(h, h1, ts, known, gone) BY <1>2, <1>4, <1>5, SameIsFine DEF HubOK, ArchiveOK
<1>7. GoesOn(h1, WithoutFallback(h1), ts, known, gone)
  BY <1>6, WithoutFallbackIsFine DEF GoesOn
<1>. QED BY <1>3, <1>6, <1>7, KeepsOn DEF GoesOn

(* A topic a user writes in stands.                                        *)
LEMMA RevivedIsFine ==
  ASSUME NEW ts, NEW known, NEW gone, NEW h, HubOK(h, ts, known, gone),
         NEW t, t \notin gone
  PROVE  GoesOn(h, Revived(h, t), ts, known, gone)
<1> DEFINE all == {e \in Queued(h, "private") : e.view.topic = t}
           e   == CHOOSE x \in all : TRUE
           v   == [e.view EXCEPT !.busy = FALSE, !.failed = {}]
           vs  == [private |-> v, group |-> NoView]
           h2  == [h EXCEPT !.cleanup = @ \ all, !.archived = FALSE, !.views = vs]
<1>0. h \in Hub /\ h.views \in [Chat -> View] /\ h.cleanup \subseteq [chat : Chat, view : View]
  BY DEF HubOK, Hub
<1>1. CASE Revived(h, t) = h BY <1>1 DEF GoesOn, Keeps
<1>2. CASE all # {} /\ h.archived /\ Revived(h, t) = h2
  <2>1. e \in h.cleanup /\ e.view.topic = t /\ e.chat = "private" /\ e.view \in View
    <3>1. e \in all BY <1>2
    <3> HIDE DEF e
    <3>. QED BY <1>0, <3>1 DEF Queued
  <2>2. \A x : x \in all <=> x \in h.cleanup /\ x.chat = "private" /\ x.view.topic = t
    BY DEF Queued
  <2> HIDE DEF e, all
  <2>3. v \in View /\ v.topic = t /\ v.here = e.view.here /\ ~v.busy BY <2>1 DEF View
  <2> HIDE DEF v
  <2>4. vs \in [Chat -> View] /\ vs["private"] = v /\ vs["group"] = NoView
    BY <2>3, NewViews, ViewPair
  <2> HIDE DEF vs
  <2>5. h2 \in Hub BY <1>0, <2>4 DEF Hub
  <2>6. /\ h2.calls = h.calls /\ h2.unshared = h.unshared /\ h2.cleanup = h.cleanup \ all
        /\ h2.ended = h.ended /\ ~h2.archived /\ h2.views = vs
    BY <1>0 DEF Hub
  <2> HIDE DEF h2
  <2>7. IsIn(ts, "private", t) /\ t \in known /\ v.here /\ t # 0
    BY <2>1, <2>3, ZeroIsNone DEF HubOK, PlacesOK, IsIn
  <2>8. \A x \in h.unshared : x # t BY <2>7 DEF HubOK, PlacesOK, IsIn
  <2>9. \A x \in h2.cleanup : x \in h.cleanup /\ x.view.topic # t
    <3> SUFFICES ASSUME NEW x \in h.cleanup, x \notin all PROVE x.view.topic # t
      BY <2>6
    <3>1. IsIn(ts, x.chat, x.view.topic) BY DEF HubOK, PlacesOK
    <3>. QED BY <2>2, <2>7, <3>1 DEF IsIn
  <2>10. PlacesOK(h2, ts, known)
    BY <2>3, <2>4, <2>6, <2>7, NewViews, <2>8, <2>9 DEF Chat, HubOK, PlacesOK
  <2>11. MakingOK(h2, ts, known)
    <3>1. \A k \in h.calls : k.kind # "create"
      <4> SUFFICES ASSUME NEW k \in h.calls, k.kind = "create" PROVE FALSE
        OBVIOUS
      <4>1. k.chat \in Chat BY <1>0 DEF Hub, Call
      <4>. QED BY <1>2, <4>1 DEF HubOK, MakingOK, ArchiveOK
    <3>. QED BY <2>6, <3>1 DEF MakingOK
  <2>12. CallsOK(h2, ts, known)
    <3> SUFFICES ASSUME NEW k \in h.calls, k.kind # "create" PROVE CallOK(h2, ts, known, k)
      BY <2>6 DEF CallsOK
    <3>1. CallOK(h, ts, known, k) BY DEF HubOK, CallsOK
    <3>2. k.kind = "delete" => \A c \in Chat : h2.views[c].topic # k.topic
      <4> SUFFICES ASSUME k.kind = "delete", NEW c \in Chat PROVE h2.views[c].topic # k.topic
        OBVIOUS
      <4>1. IsIn(ts, "group", k.topic) /\ k.topic # 0
        BY <3>1, ZeroIsNone DEF CallOK, IsIn, HubOK
      <4>. QED BY <2>3, <2>4, <2>6, <2>7, <4>1, NewViews DEF IsIn, Chat
    <3>. QED BY <3>1, <3>2 DEF CallOK
  <2>13. NoneGone(h2, gone) BY <2>3, <2>4, <2>6, NewViews DEF NoneGone, Chat
  <2>14. Keeps(h, h2, ts)
    <3> SUFFICES ASSUME NEW x, x \in Held(h) PROVE x \in Held(h2)
      BY DEF Keeps
    <3>1. \A c \in Chat : h.views[c].topic = 0 BY <1>2 DEF HubOK, ArchiveOK
    <3>2. CASE x \in h.unshared \/ x \in h.ended BY <2>6, <3>2, HeldIs
    <3>3. CASE \E y \in h.cleanup : y.view.topic = x
      <4>1. PICK y \in h.cleanup : y.view.topic = x BY <3>3
      <4>2. CASE y \in all BY <2>2, <4>1, <4>2, <2>3, <2>4, <2>6, <2>7, HeldIs DEF Chat
      <4>3. CASE y \notin all BY <2>6, <4>1, <4>3, HeldIs
      <4>. QED BY <4>2, <4>3
    <3>. QED BY <3>1, <3>2, <3>3, HeldIs
  <2>15. ArchiveOK(h2) BY <2>6 DEF ArchiveOK
  <2>. QED BY <1>2, <2>5, <2>10, <2>11, <2>12, <2>13, <2>14, <2>15 DEF HubOK, GoesOn
<1>. QED BY <1>1, <1>2 DEF Revived

LEMMA SharedIsFine ==
  ASSUME NEW ts, NEW known, NEW gone, NEW h, HubOK(h, ts, known, gone),
         ~h.archived \/ h.views["group"].here
  PROVE  GoesOn(h, Shared(h), ts, known, gone)
<1> DEFINE v  == h.views["group"]
           w1 == [NewView EXCEPT !.opening = TRUE]
           w2 == [v EXCEPT !.fallback = FALSE, !.pending = <<ShareLine>> \o @]
           w3 == [v EXCEPT !.fallback = FALSE, !.opening = TRUE]
<1>0. h \in Hub /\ h.views \in [Chat -> View] /\ v \in View /\ "group" \in Chat
  BY DEF HubOK, Hub, Chat
<1>1. CASE Shared(h) = h BY <1>1 DEF GoesOn, Keeps
<1>2. CASE ~v.here /\ Shared(h) = [h EXCEPT !.views["group"] = w1]
  <2>1. w1 \in View /\ w1.here /\ w1.topic = 0 /\ ~w1.busy BY NewViews DEF View
  <2> HIDE DEF w1
  <2>. QED BY <1>0, <1>2, <2>1, NewViewIsFine
<1>3. ASSUME NEW w \in View, w.topic = v.topic, w.here = v.here, w.busy = v.busy,
             Shared(h) = [h EXCEPT !.views["group"] = w]
      PROVE  GoesOn(h, Shared(h), ts, known, gone)
  BY <1>0, <1>3, ViewChangeIsFine
<1>4. w2 \in View /\ w2.topic = v.topic /\ w2.here = v.here /\ w2.busy = v.busy
  <2>1. <<ShareLine>> \o v.pending \in Seq(Nat) BY <1>0 DEF View, ShareLine
  <2> HIDE DEF v
  <2>. QED BY <1>0, <2>1 DEF View
<1>5. w3 \in View /\ w3.topic = v.topic /\ w3.here = v.here /\ w3.busy = v.busy
  BY <1>0 DEF View
<1>6. CASE Shared(h) = [h EXCEPT !.views["group"] = w2]
  <2> HIDE DEF w2
  <2>. QED BY <1>3, <1>4, <1>6
<1>7. CASE Shared(h) = [h EXCEPT !.views["group"] = w3]
  <2> HIDE DEF w3
  <2>. QED BY <1>3, <1>5, <1>7
<1>8. \/ Shared(h) = h
      \/ ~v.here /\ Shared(h) = [h EXCEPT !.views["group"] = w1]
      \/ Shared(h) = [h EXCEPT !.views["group"] = w2]
      \/ Shared(h) = [h EXCEPT !.views["group"] = w3]
  <2>1. [h EXCEPT !.views["group"].fallback = FALSE,
                  !.views["group"].pending = <<ShareLine>> \o @]
          = [h EXCEPT !.views["group"] = w2]
    BY <1>0 DEF Hub, View
  <2>2. [h EXCEPT !.views["group"].fallback = FALSE, !.views["group"].opening = TRUE]
          = [h EXCEPT !.views["group"] = w3]
    BY <1>0 DEF Hub, View
  <2>. QED BY <2>1, <2>2 DEF Shared
<1>. QED BY <1>1, <1>2, <1>6, <1>7, <1>8

LEMMA UnsharedIsFine ==
  ASSUME NEW ts, NEW known, NEW gone, NEW h, HubOK(h, ts, known, gone)
  PROVE  GoesOn(h, Unshared(h), ts, known, gone)
<1> DEFINE v  == h.views["group"]
           h1 == [h EXCEPT !.views["group"] = NoView]
           h2 == [h EXCEPT !.views["group"] = NoView, !.unshared = @ \cup ({v.topic} \ {0})]
<1>0. h \in Hub /\ h.views \in [Chat -> View] /\ v \in View /\ "group" \in Chat
  BY DEF HubOK, Hub, Chat
<1>1. CASE Unshared(h) = h BY <1>1 DEF GoesOn, Keeps
<1>2. CASE AtHome(h) /\ v.here /\ ~(v.topic = 0 /\ v.busy) /\ Unshared(h) = h2
  <2>1. /\ h1.calls = h.calls /\ h1.unshared = h.unshared /\ h1.cleanup = h.cleanup
        /\ h1.ended = h.ended /\ h1.live = h.live /\ h1.archived = h.archived
        /\ h1.views = [h.views EXCEPT !["group"] = NoView]
    BY <1>0 DEF Hub
  <2>2. /\ h2.calls = h.calls /\ h2.unshared = h.unshared \cup ({v.topic} \ {0})
        /\ h2.cleanup = h.cleanup /\ h2.ended = h.ended
        /\ h2.live = h.live /\ h2.archived = h.archived
        /\ h2.views = [h.views EXCEPT !["group"] = NoView]
    BY <1>0 DEF Hub
  <2>3. h1 \in Hub BY <1>0, NewViews DEF Hub
  <2>4. h2 \in Hub
    <3>1. {v.topic} \ {0} \in SUBSET Nat BY <1>0 DEF View
    <3> HIDE DEF v
    <3>. QED BY <1>0, <3>1, NewViews DEF Hub
  <2> HIDE DEF h1, h2
  <2>5. ~h.archived BY <1>2 DEF AtHome, Ready, HubOK, ArchiveOK, Chat
  <2>6. NoMaking(h1, "group") BY <1>0, <1>2, <2>1, EmptyViewIsIdle DEF NoMaking
  <2>7. HubOK(h1, ts, known, gone)
    BY <1>0, <2>1, <2>3, <2>5, <2>6, NewViews, LessIsFine DEF Chat
  <2>8. v.topic # 0 => /\ IsIn(ts, "group", v.topic) /\ v.topic \in known
                       /\ h2.views["private"].topic # v.topic
                       /\ \A e \in h.cleanup : e.view.topic # v.topic
    BY <1>0, <2>2 DEF HubOK, PlacesOK, Chat, IsIn
  <2>9. h2.views["group"].topic = 0 /\ h2.views = h1.views BY <1>0, <2>1, <2>2, NewViews
  <2>10. PlacesOK(h2, ts, known)
    BY <2>1, <2>2, <2>7, <2>8, <2>9 DEF HubOK, PlacesOK, Chat
  <2>11. ArchiveOK(h2) /\ MakingOK(h2, ts, known) /\ CallsOK(h2, ts, known) /\ NoneGone(h2, gone)
    BY <2>1, <2>2, <2>7, <2>9 DEF HubOK, ArchiveOK, MakingOK, CallsOK, CallOK, NoneGone
  <2>12. Keeps(h, h2, ts)
    <3>1. \A c \in Chat : h2.views[c] = h.views[c] \/ c = "group" BY <1>0, <2>2 DEF Chat
    <3> SUFFICES ASSUME NEW t, t \in Held(h) PROVE t \in Held(h2)
      BY DEF Keeps
    <3>2. CASE t # 0 /\ t = v.topic BY <2>2, <3>2, HeldIs
    <3>3. CASE t # 0 /\ t # v.topic /\ \E c \in Chat : h.views[c].here /\ h.views[c].topic = t
      BY <3>1, <3>3, HeldIs
    <3>4. CASE t \in h.unshared \/ t \in h.ended \/ \E e \in h.cleanup : e.view.topic = t
      BY <2>2, <3>4, HeldIs
    <3>. QED BY <3>2, <3>3, <3>4, HeldIs
  <2>. QED BY <1>2, <2>4, <2>7, <2>10, <2>11, <2>12 DEF HubOK, GoesOn
<1>. QED BY <1>1, <1>2 DEF Unshared

LEMMA ArchivedIsFine ==
  ASSUME NEW ts, NEW known, NEW gone, NEW h, HubOK(h, ts, known, gone), ~h.live,
         \A c \in Shown(h) : ~h.views[c].busy
  PROVE  GoesOn(h, Archived(h), ts, known, gone)
<1> DEFINE some == {c \in Shown(h) : h.views[c].topic # 0 /\ Deletable(h, c)}
           new == {[chat |-> c, view |-> h.views[c]] : c \in some}
           end == Topics(h) \ {h.views[c].topic : c \in some}
           vs  == [private |-> NoView, group |-> NewView]
           h2  == [h EXCEPT !.archived = TRUE, !.cleanup = @ \cup new,
                            !.ended = @ \cup end, !.views = vs]
<1>0. h \in Hub /\ h.views \in [Chat -> View] BY DEF HubOK, Hub
<1>1. ASSUME NEW e \in new
      PROVE  /\ e \in [chat : Chat, view : View] /\ e.view.here
             /\ IsIn(ts, e.chat, e.view.topic) /\ e.view.topic \in known
  <2>1. PICK c \in some : e = [chat |-> c, view |-> h.views[c]] OBVIOUS
  <2>2. c \in Chat /\ h.views[c].here /\ h.views[c].topic # 0 BY DEF Shown
  <2>. QED BY <1>0, <2>1, <2>2 DEF HubOK, PlacesOK
<1>2. ASSUME NEW c \in some PROVE \E e \in new : e.view.topic = h.views[c].topic
  <2> WITNESS [chat |-> c, view |-> h.views[c]] \in new
  <2>. QED OBVIOUS
<1>3. end \in SUBSET Nat BY <1>0 DEF Topics, Shown, View
<1>4. vs \in [Chat -> View] /\ vs["private"] = NoView /\ vs["group"] = NewView
  BY NewViews, ViewPair
<1>5. \A t \in Topics(h) : t \in end \/ \E c \in some : h.views[c].topic = t OBVIOUS
<1>a. Archived(h) = h2 BY DEF Archived
<1>b. \A c \in some : c \in Chat /\ h.views[c].topic # 0 BY DEF Shown
<1> HIDE DEF new, end, vs, some
<1>6. h2 \in Hub BY <1>0, <1>1, <1>3, <1>4 DEF Hub
<1>7. /\ h2.calls = h.calls /\ h2.unshared = h.unshared /\ h2.cleanup = h.cleanup \cup new
      /\ h2.ended = h.ended \cup end /\ h2.live = h.live /\ h2.archived /\ h2.views = vs
  BY <1>0 DEF Hub
<1> HIDE DEF h2
<1>8. \A c \in Chat : h2.views[c].topic = 0 /\ ~h2.views[c].busy
  BY <1>4, <1>7, NewViews DEF Chat
<1>9. PlacesOK(h2, ts, known) /\ ArchiveOK(h2) /\ NoneGone(h2, gone)
  BY <1>1, <1>7, <1>8 DEF HubOK, PlacesOK, ArchiveOK, NoneGone
<1>10. MakingOK(h2, ts, known)
  <2>1. \A c \in Chat : NoMaking(h, c) BY EmptyViewIsIdle DEF Shown
  <2>2. \A k \in h.calls : k.chat \in Chat BY <1>0 DEF Hub, Call
  <2>. QED BY <1>7, <2>1, <2>2 DEF MakingOK, NoMaking
<1>11. CallsOK(h2, ts, known)
  <2> SUFFICES ASSUME NEW k \in h.calls, k.kind # "create" PROVE CallOK(h2, ts, known, k)
    BY <1>7 DEF CallsOK
  <2>1. CallOK(h, ts, known, k) /\ k.topic # 0
    BY ZeroIsNone DEF HubOK, CallsOK, CallOK, IsIn
  <2>. QED BY <1>8, <2>1 DEF CallOK
<1>12. Keeps(h, h2, ts)
  <2> SUFFICES ASSUME NEW t, t \in Held(h) PROVE t \in Held(h2)
    BY DEF Keeps
  <2>1. CASE t \in Topics(h) BY <1>2, <1>5, <1>7, <2>1, HeldIs
  <2>2. CASE t \notin Topics(h) BY <1>7, <2>2, HeldIs DEF Held
  <2>. QED BY <2>1, <2>2
<1>. QED BY <1>6, <1>9, <1>10, <1>11, <1>12, <1>a DEF HubOK, GoesOn

LEMMA RetriedIsFine ==
  ASSUME NEW ts, NEW known, NEW gone, NEW h, HubOK(h, ts, known, gone)
  PROVE  LET again(v) == [v EXCEPT !.failed = {}]
         IN  GoesOn(h, [EachView(h, again) EXCEPT !.later = {}], ts, known, gone)
<1> DEFINE vs == [c \in Chat |-> IF h.views[c].here THEN [h.views[c] EXCEPT !.failed = {}]
                                 ELSE h.views[c]]
           h2 == [[h EXCEPT !.views = vs] EXCEPT !.later = {}]
<1>0. h \in Hub /\ h.views \in [Chat -> View] BY DEF HubOK, Hub
<1>1. vs \in [Chat -> View] BY <1>0 DEF View
<1>2. \A c \in Chat : /\ vs[c].topic = h.views[c].topic /\ vs[c].here = h.views[c].here
                      /\ vs[c].busy = h.views[c].busy
  BY <1>0 DEF View
<1> HIDE DEF vs
<1>3. h2 \in Hub BY <1>0, <1>1 DEF Hub
<1>4. /\ h2.calls = h.calls /\ h2.unshared = h.unshared /\ h2.cleanup = h.cleanup
      /\ h2.ended = h.ended /\ h2.live = h.live /\ h2.archived = h.archived /\ h2.views = vs
  BY <1>0 DEF Hub
<1> HIDE DEF h2
<1>5. GoesOn(h, h2, ts, known, gone) BY <1>2, <1>3, <1>4, SameIsFine DEF HubOK, ArchiveOK
<1>. QED BY <1>5 DEF EachView, h2, vs

(* What the file keeps is the hub's without what goes with the process.    *)
LEMMA RestoredIsFine ==
  ASSUME NEW ts, NEW known, NEW gone, NEW h, HubOK(h, ts, known, gone)
  PROVE  /\ HubOK(Restored(h), ts, known, {})
         /\ Restored(h).calls = {} /\ Restored(h).ended = {}
<1> DEFINE vs == [c \in Chat |-> IF h.views[c].here
                                 THEN [h.views[c] EXCEPT !.busy = FALSE, !.failed = {}]
                                 ELSE h.views[c]]
           h1 == [h EXCEPT !.views = vs]
           h2 == [h1 EXCEPT
                    !.running = FALSE, !.closed = FALSE, !.proven = FALSE,
                    !.edits = FALSE, !.deleting = {}, !.later = {},
                    !.flying = [c \in Chat |-> 0], !.calls = {}, !.ended = {}]
<1>0. h \in Hub /\ h.views \in [Chat -> View] BY DEF HubOK, Hub
<1>1. vs \in [Chat -> View] BY <1>0 DEF View
<1>2. \A c \in Chat : /\ vs[c].topic = h.views[c].topic /\ vs[c].here = h.views[c].here
                      /\ ~vs[c].busy
  BY <1>0 DEF View, HubOK, PlacesOK
<1> HIDE DEF vs
<1>3. h1 \in Hub BY <1>0, <1>1 DEF Hub
<1>4. /\ h1.unshared = h.unshared /\ h1.cleanup = h.cleanup
      /\ h1.live = h.live /\ h1.archived = h.archived /\ h1.views = vs
  BY <1>0 DEF Hub
<1> HIDE DEF h1
<1>5. h2 \in Hub BY <1>3 DEF Hub
<1>6. /\ h2.calls = {} /\ h2.unshared = h.unshared /\ h2.cleanup = h.cleanup
      /\ h2.ended = {} /\ h2.live = h.live /\ h2.archived = h.archived /\ h2.views = vs
  BY <1>3, <1>4 DEF Hub
<1> HIDE DEF h2
<1>7. HubOK(h2, ts, known, gone)
  BY <1>2, <1>5, <1>6, LessIsFine DEF HubOK, ArchiveOK, NoMaking
<1>8. Restored(h) = h2 BY DEF Restored, EachView, Free, h1, h2, vs
<1>. QED BY <1>6, <1>7, <1>8 DEF HubOK, NoneGone

-----------------------------------------------------------------------------
(* Answers to calls, by kind.                                              *)
LEMMA GreatestOf ==
  ASSUME NEW n \in Nat, NEW S \in SUBSET (0 .. n), S # {}
  PROVE  Max(S) \in S
<1> DEFINE T == {n - k : k \in S}
<1>2. \A k \in S : n - k \in T OBVIOUS
<1>1. T \in SUBSET Nat /\ T # {}
  <2>1. \A k \in S : n - k \in Nat OBVIOUS
  <2>2. T # {} BY <1>2
  <2>. QED BY <2>1, <2>2
<1> HIDE DEF T
<1>3. Min(T) \in T /\ \A y \in T : Min(T) =< y BY <1>1, LeastOf, LeastIn DEF Min
<1>4. PICK m \in S : Min(T) = n - m BY <1>3 DEF T
<1>5. \A y \in S : m >= y
  <2> SUFFICES ASSUME NEW y \in S PROVE m >= y
    OBVIOUS
  <2>1. n - m =< n - y BY <1>2, <1>3, <1>4
  <2>. QED BY <2>1
<1>. QED BY <1>5 DEF Max

LEMMA UnsentIsText ==
  ASSUME NEW p \in Seq(Nat), NEW s \in Seq(Nat)
  PROVE  Unsent(p, s) \in Seq(Nat)
<1> DEFINE n    == Min({Len(p), Len(s)})
           S    == {k \in 0 .. n : SubSeq(p, 1, k) = SubSeq(s, 1, k)}
           same == Max(S)
<1>1. n \in Nat
  <2>1. {Len(p), Len(s)} \in SUBSET Nat /\ {Len(p), Len(s)} # {} OBVIOUS
  <2>. QED BY <2>1, LeastOf
<1>2. 0 \in S BY SubSeqEmpty, <1>1
<1>3. S \in SUBSET (0 .. n) OBVIOUS
<1> HIDE DEF n, S
<1>4. same \in Nat
  <2>1. Max(S) \in S BY <1>1, <1>2, <1>3, GreatestOf
  <2>2. Max(S) \in 0 .. n BY <1>3, <2>1
  <2>. QED BY <1>1, <2>2 DEF same
<1> HIDE DEF same
<1>5. SubSeq(p, same + 1, Len(p)) \in Seq(Nat) BY <1>4, SubSeqProperties
<1>6. SubSeq(p, 1, Len(p) - Len(s)) \in Seq(Nat) BY SubSeqProperties
<1>. QED BY <1>5, <1>6 DEF Unsent, same, S, n

(* The hub's word on a chat.                                               *)
LEMMA ProvenIsFine ==
  ASSUME NEW ts, NEW known, NEW gone, NEW h, HubOK(h, ts, known, gone), NEW c
  PROVE  GoesOn(h, Proven(h, c), ts, known, gone)
<1> DEFINE h2 == Proven(h, c)
<1>1. h2 \in Hub BY DEF HubOK, Hub, Proven
<1>2. /\ h2.calls = h.calls /\ h2.unshared = h.unshared /\ h2.cleanup = h.cleanup
      /\ h2.ended = h.ended /\ h2.live = h.live /\ h2.archived = h.archived
      /\ h2.views = h.views
  BY DEF HubOK, Hub, Proven
<1> HIDE DEF h2
<1>. QED BY <1>1, <1>2, SameIsFine DEF HubOK, ArchiveOK, h2

LEMMA ClosedIsFine ==
  ASSUME NEW ts, NEW known, NEW gone, NEW h, HubOK(h, ts, known, gone), NEW call
  PROVE  /\ GoesOn(h, Closed(h, call), ts, known, gone)
         /\ Closed(h, call).views = h.views /\ Closed(h, call).calls = h.calls
<1> DEFINE h2 == Closed(h, call)
<1>1. h2 \in Hub BY DEF HubOK, Hub, Closed
<1>2. /\ h2.calls = h.calls /\ h2.unshared = h.unshared /\ h2.cleanup = h.cleanup
      /\ h2.ended = h.ended /\ h2.live = h.live /\ h2.archived = h.archived
      /\ h2.views = h.views
  BY DEF HubOK, Hub, Closed
<1> HIDE DEF h2
<1>3. GoesOn(h, h2, ts, known, gone) BY <1>1, <1>2, SameIsFine DEF HubOK, ArchiveOK
<1>. QED BY <1>2, <1>3 DEF h2

LEMMA FailedIsFine ==
  ASSUME NEW ts, NEW known, NEW gone, NEW h, HubOK(h, ts, known, gone),
         NEW call \in Call, NoMaking(h, call.chat)
  PROVE  GoesOn(h, Failed(h, call), ts, known, gone)
<1> DEFINE c == call.chat
           w == [h.views[c] EXCEPT !.busy = FALSE, !.failed = {Wanted(h)}]
<1>0. h \in Hub /\ h.views \in [Chat -> View] /\ c \in Chat BY DEF HubOK, Hub, Call
<1>1. CASE Failed(h, call) = h BY <1>1 DEF GoesOn, Keeps
<1>2. CASE Failed(h, call) = [h EXCEPT !.views[c] = w]
  <2>1. Wanted(h) \in Look BY <1>0 DEF Hub, Wanted, Look
  <2>2. w \in View /\ w.topic = h.views[c].topic /\ w.here = h.views[c].here /\ ~w.busy
    BY <1>0, <2>1 DEF View
  <2> HIDE DEF w
  <2>. QED BY <1>0, <1>2, <2>2, ViewChangeIsFine
<1>3. Failed(h, call) \in {h, [h EXCEPT !.views[c] = w]} BY <1>0 DEF Hub, Failed, OfTopic
<1>. QED BY <1>1, <1>2, <1>3

(* A view forgets a topic that Telegram says is gone.                      *)
LEMMA InvalidIsFine ==
  ASSUME NEW ts, NEW known, NEW gone, NEW h, HubOK(h, ts, known, gone),
         NEW call \in Call, IsIn(ts, call.chat, call.topic), ~ts[call.topic].alive
  PROVE  /\ GoesOn(h, Invalid(h, call), ts, known, gone)
         /\ \A c \in Chat : Invalid(h, call).views[c].topic # call.topic
<1> DEFINE c  == call.chat
           v  == h.views[c]
           w  == [NewView EXCEPT !.fallback = v.fallback, !.opening = v.opening]
           h2 == [h EXCEPT !.views[c] = w]
<1>0. h \in Hub /\ h.views \in [Chat -> View] /\ c \in Chat /\ v \in View
  BY DEF HubOK, Hub, Call
<1>a. call.topic # 0 BY ZeroIsNone DEF IsIn, HubOK
<1>b. \A d \in Chat : d # c => h.views[d].topic # call.topic
  BY <1>a DEF HubOK, PlacesOK, IsIn
<1>1. CASE Invalid(h, call) = h /\ ~(v.here /\ v.topic = call.topic)
  BY <1>1, <1>a, <1>b DEF GoesOn, Keeps, HubOK, PlacesOK
<1>2. CASE Invalid(h, call) = h2 /\ v.here /\ v.topic = call.topic
  <2>1. w \in View /\ w.topic = 0 /\ w.here /\ ~w.busy BY <1>0, NewViews DEF View
  <2> HIDE DEF w
  <2>2. h2 \in Hub BY <1>0, <2>1 DEF Hub
  <2>3. /\ h2.calls = h.calls /\ h2.unshared = h.unshared /\ h2.cleanup = h.cleanup
        /\ h2.ended = h.ended /\ h2.live = h.live /\ h2.archived = h.archived
        /\ h2.views = [h.views EXCEPT ![c] = w]
    BY <1>0 DEF Hub
  <2> HIDE DEF h2
  <2>4. h2.views[c] = w /\ \A d \in Chat : d # c => h2.views[d] = h.views[d]
    BY <1>0, <2>3
  <2>5. NoMaking(h2, c) BY <1>0, <1>2, <1>a, <2>3, EmptyViewIsIdle DEF NoMaking
  <2>6. HubOK(h2, ts, known, gone)
    <3>1. \A d \in Chat :
            \/ /\ h2.views[d].topic = h.views[d].topic /\ h2.views[d].here = h.views[d].here
               /\ h2.views[d].busy = h.views[d].busy
            \/ h2.views[d].topic = 0 /\ ~h2.views[d].busy /\ NoMaking(h2, d)
      BY <2>1, <2>4, <2>5
    <3>2. h2.archived => ~h2.live /\ h.archived BY <2>3 DEF HubOK, ArchiveOK
    <3>. QED BY <2>2, <2>3, <3>1, <3>2, LessIsFine
  <2>7. Keeps(h, h2, ts)
    <3> SUFFICES ASSUME NEW t \in DOMAIN ts, t \in Held(h), ts[t].alive PROVE t \in Held(h2)
      BY DEF Keeps
    <3>1. t # call.topic OBVIOUS
    <3>2. CASE t # 0 /\ \E d \in Chat : h.views[d].here /\ h.views[d].topic = t
      BY <1>2, <2>4, <3>1, <3>2, HeldIs
    <3>3. CASE t \in h.unshared \/ t \in h.ended \/ \E e \in h.cleanup : e.view.topic = t
      BY <2>3, <3>3, HeldIs
    <3>. QED BY <3>2, <3>3, HeldIs
  <2>. QED BY <1>2, <1>a, <1>b, <2>1, <2>4, <2>6, <2>7 DEF GoesOn
<1>3. \/ Invalid(h, call) = h /\ ~(v.here /\ v.topic = call.topic)
      \/ Invalid(h, call) = h2 /\ v.here /\ v.topic = call.topic
  BY DEF Invalid, OfTopic
<1>. QED BY <1>1, <1>2, <1>3

(* The topic of a create that got through.                                 *)
LEMMA CreatedIsFine ==
  ASSUME NEW ts, NEW known, NEW gone, NEW h, HubOK(h, ts, known, gone), gone \subseteq known,
         NEW call \in Call, NoMaking(h, call.chat), ~h.archived,
         h.views[call.chat].here, h.views[call.chat].topic = 0,
         IsIn(ts, call.chat, call.topic), call.topic \notin known
  PROVE  /\ GoesOn(h, Created(h, call), ts, known \cup {call.topic}, gone)
         /\ call.topic \in Held(Created(h, call))
<1> DEFINE c     == call.chat
           t     == call.topic
           v     == h.views[c]
           known2 == known \cup {t}
           line  == IF v.opening THEN <<ShareLine>> ELSE <<>>
           w     == [Free(v) EXCEPT !.topic = t, !.applied = call.look, !.pending = line,
                                    !.opening = FALSE, !.busy = v.opening]
           h1    == [h EXCEPT !.views[c] = w]
           h2    == Proven(h1, c)
           k     == CallOf("separator", c, t, line, <<>>)
<1>0. /\ h \in Hub /\ h.views \in [Chat -> View] /\ c \in Chat /\ v \in View
      /\ t # 0 /\ t \in Nat /\ line \in Seq(Nat) /\ call.look \in Look
  BY ZeroIsNone DEF ShareLine, HubOK, Hub, Call, IsIn
<1>1. w \in View /\ w.here /\ w.topic = t
  <2> HIDE DEF line
  <2>. QED BY <1>0 DEF View, Free
<1> HIDE DEF w
<1>2. h1 \in Hub BY <1>0, <1>1 DEF Hub
<1>3. /\ h1.calls = h.calls /\ h1.unshared = h.unshared /\ h1.cleanup = h.cleanup
      /\ h1.ended = h.ended /\ h1.live = h.live /\ h1.archived = h.archived
      /\ h1.views = [h.views EXCEPT ![c] = w]
  BY <1>0 DEF Hub
<1>4. h1.views[c] = w /\ \A d \in Chat : d # c => h1.views[d] = h.views[d] BY <1>0, <1>3
<1> HIDE DEF h1
<1>5. HubOK(h1, ts, known2, gone)
  <2>1. PlacesOK(h1, ts, known2) BY <1>0, <1>1, <1>3, <1>4 DEF HubOK, PlacesOK
  <2>2. ArchiveOK(h1) /\ NoneGone(h1, gone)
    BY <1>1, <1>3, <1>4 DEF ArchiveOK, HubOK, NoneGone
  <2>3. MakingOK(h1, ts, known2)
    <3> SUFFICES ASSUME NEW x \in h.calls, x.kind = "create"
                 PROVE  /\ h1.views[x.chat].topic = 0 /\ h1.views[x.chat].busy
                        /\ \A j \in h.calls : j.kind = "create" /\ j.chat = x.chat => j = x
                        /\ x.got # "gone"
                        /\ x.got = "ok" => IsIn(ts, x.chat, x.topic) /\ x.topic \notin known2
                        /\ x.got # "ok" => x.topic = 0
      BY <1>3 DEF MakingOK
    <3>1. x.chat \in Chat /\ x.chat # c BY <1>0 DEF Hub, Call, NoMaking
    <3>. QED BY <1>4, <3>1 DEF HubOK, MakingOK, IsIn
  <2>4. CallsOK(h1, ts, known2)
    <3> SUFFICES ASSUME NEW x \in h.calls, x.kind # "create" PROVE CallOK(h1, ts, known2, x)
      BY <1>3 DEF CallsOK
    <3>1. CallOK(h, ts, known, x) BY DEF HubOK, CallsOK
    <3>2. x.topic # t BY <3>1 DEF CallOK
    <3>3. x.kind = "delete" => \A d \in Chat : h1.views[d].topic # x.topic
      BY <1>1, <1>4, <3>1, <3>2 DEF CallOK
    <3>. QED BY <3>1, <3>3 DEF CallOK
  <2>. QED BY <1>2, <2>1, <2>2, <2>3, <2>4 DEF HubOK
<1>6. t \in Held(h1) /\ Keeps(h, h1, ts)
  <2>1. t \in Held(h1) BY <1>0, <1>1, <1>4, HeldIs
  <2>2. Keeps(h, h1, ts)
    <3> SUFFICES ASSUME NEW x, x \in Held(h) PROVE x \in Held(h1)
      BY DEF Keeps
    <3>1. CASE x # 0 /\ \E d \in Chat : h.views[d].here /\ h.views[d].topic = x
      <4>1. PICK d \in Chat : h.views[d].here /\ h.views[d].topic = x BY <3>1
      <4>2. h1.views[d] = h.views[d] BY <1>4, <3>1, <4>1
      <4>. QED BY <3>1, <4>1, <4>2, HeldIs
    <3>2. CASE x \in h.unshared \/ x \in h.ended \/ \E e \in h.cleanup : e.view.topic = x
      BY <1>3, <3>2, HeldIs
    <3>. QED BY <3>1, <3>2, HeldIs
  <2>. QED BY <2>1, <2>2
<1>7. GoesOn(h1, h2, ts, known2, gone)
  <2> HIDE DEF known2
  <2>. QED BY <1>5, ProvenIsFine
<1>8. h2.views = h1.views /\ h2.unshared = h1.unshared /\ h2.ended = h1.ended
      /\ h2.cleanup = h1.cleanup
  BY <1>2 DEF Proven, Hub
<1> HIDE DEF h2
<1>9. t \in Held(h2) BY <1>6, <1>8, HeldIs
<1>10. CASE ~v.opening BY <1>10, <1>6, <1>7, <1>9, KeepsOn DEF Created, h1, h2, w, GoesOn
<1>11. CASE v.opening
  <2>1. Created(h, call) = Handed(h2, k) BY <1>11 DEF Created, h1, h2, w
  <2>2. k \in Call /\ k.kind = "separator" /\ k.chat = c /\ k.topic = t /\ k.got = "none"
        /\ k.text = line
    <3>1. <<>> \in Look BY DEF Look
    <3> HIDE DEF line
    <3>. QED BY <1>0, <3>1 DEF Call, Kind, CallOf
  <2>3. line # <<>> BY <1>11
  <2> HIDE DEF k, line
  <2>4. CallOK(h2, ts, known2, k) BY <2>2, <2>3 DEF CallOK
  <2>5. GoesOn(h2, Handed(h2, k), ts, known2, gone)
    <3> HIDE DEF known2
    <3>. QED BY <1>7, <2>2, <2>4, HandedIsFine DEF GoesOn
  <2>6. t \in Held(Handed(h2, k))
    <3>1. h2 \in Hub BY <1>7 DEF GoesOn, HubOK
    <3>2. /\ Handed(h2, k).views = h2.views /\ Handed(h2, k).unshared = h2.unshared
          /\ Handed(h2, k).ended = h2.ended /\ Handed(h2, k).cleanup = h2.cleanup
      BY <3>1 DEF Handed, Hub
    <3>. QED BY <1>9, <3>2, HeldIs
  <2>. QED BY <1>6, <1>7, <2>1, <2>5, <2>6, KeepsOn DEF GoesOn
<1>. QED BY <1>10, <1>11

(* The title and icon, or the separators, of a view got through.           *)
LEMMA EditedIsFine ==
  ASSUME NEW ts, NEW known, NEW gone, NEW h, HubOK(h, ts, known, gone),
         NEW call \in Call, call.kind \in {"edit", "separator"}, call.got = "ok",
         IsIn(ts, call.chat, call.topic)
  PROVE  GoesOn(h, OnTopicDone(h, call), ts, known, gone)
<1> DEFINE c  == call.chat
           v  == h.views[c]
           w1 == [Free(v) EXCEPT !.applied = call.look]
           w2 == [Free(v) EXCEPT !.pending = Unsent(@, call.text)]
           h2 == OnTopicDone(h, call)
<1>0. h \in Hub /\ h.views \in [Chat -> View] /\ c \in Chat /\ v \in View
  BY DEF HubOK, Hub, Call
<1>1. w1 \in View /\ w1.topic = v.topic /\ w1.here = v.here /\ ~w1.busy
  BY <1>0 DEF View, Free, Call
<1>2. w2 \in View /\ w2.topic = v.topic /\ w2.here = v.here /\ ~w2.busy
  <2>1. v.pending \in Seq(Nat) /\ Unsent(v.pending, call.text) \in Seq(Nat)
    BY <1>0, UnsentIsText DEF View, Call
  <2> HIDE DEF v
  <2>. QED BY <1>0, <2>1 DEF View, Free
<1>3. \/ h2 = h
      \/ v.topic = call.topic /\ h2 = [h EXCEPT !.views[c] = w1]
      \/ v.topic = call.topic /\ h2 = [h EXCEPT !.views[c] = w2]
  BY DEF OnTopicDone, OfTopic
<1> HIDE DEF w1, w2, h2
<1>4. CASE h2 = h BY <1>4 DEF GoesOn, Keeps, h2
<1>5. ASSUME v.topic = call.topic PROVE NoMaking(h, c)
  BY <1>0, <1>5, EmptyViewIsIdle, ZeroIsNone DEF IsIn, HubOK
<1>6. CASE v.topic = call.topic /\ h2 = [h EXCEPT !.views[c] = w1]
  BY <1>0, <1>1, <1>5, <1>6, ViewChangeIsFine DEF h2
<1>7. CASE v.topic = call.topic /\ h2 = [h EXCEPT !.views[c] = w2]
  BY <1>0, <1>2, <1>5, <1>7, ViewChangeIsFine DEF h2
<1>. QED BY <1>3, <1>4, <1>6, <1>7

LEMMA GoneAlso ==
  ASSUME NEW ts, NEW known, NEW gone, NEW h, HubOK(h, ts, known, gone),
         NEW t, \A c \in Chat : h.views[c].topic # t
  PROVE  HubOK(h, ts, known, gone \cup {t})
BY DEF HubOK, NoneGone

LEMMA DeletedIsFine ==
  ASSUME NEW ts, NEW known, NEW gone, NEW h, HubOK(h, ts, known, gone),
         NEW call \in Call, call.kind = "delete", CallOK(h, ts, known, call)
  PROVE  /\ GoesOn(h, OnDeleted(h, call), ts, known, gone)
         /\ \A c \in Chat : OnDeleted(h, call).views[c].topic # call.topic
<1> DEFINE t  == call.topic
           h1 == [h EXCEPT !.deleting = @ \ {t}]
           h2 == [h EXCEPT !.deleting = @ \ {t}, !.unshared = @ \ {t}]
           h3 == [h EXCEPT !.deleting = @ \ {t}, !.later = @ \cup {t}]
           h4 == [h2 EXCEPT !.ended = @ \cup {t}]
           r  == OnDeleted(h, call)
<1>0. h \in Hub /\ t \in Nat BY DEF HubOK, Hub, Call
<1>1. \/ r = h1
      \/ r = h2 /\ call.got \in {"ok", "gone"}
      \/ r = h3
      \/ r = h4
  BY DEF OnDeleted
<1>2. /\ r \in Hub /\ r.views = h.views /\ r.calls = h.calls
      /\ r.cleanup = h.cleanup /\ h.ended \subseteq r.ended /\ r.live = h.live
      /\ r.archived = h.archived /\ r.unshared \subseteq h.unshared
      /\ \A x \in h.unshared : x \in r.unshared \/ (x = t /\ (call.got \in {"ok", "gone"}
                                                              \/ t \in r.ended))
  <2> HIDE DEF r, t
  <2>1. CASE r = h1 BY <1>0, <2>1 DEF Hub
  <2>2. CASE r = h2 /\ call.got \in {"ok", "gone"} BY <1>0, <2>2 DEF Hub
  <2>3. CASE r = h3 BY <1>0, <2>3 DEF Hub
  <2>4. CASE r = h4 BY <1>0, <2>4 DEF Hub
  <2>. QED BY <1>1, <2>1, <2>2, <2>3, <2>4
<1> HIDE DEF r
<1>3. HubOK(r, ts, known, gone) BY <1>2, LessIsFine DEF HubOK, ArchiveOK
<1>4. call.got \in {"ok", "gone"} => ~ts[t].alive BY DEF CallOK
<1>5. Keeps(h, r, ts) BY <1>2, <1>4, HeldIs DEF Keeps
<1>6. \A c \in Chat : r.views[c].topic # t BY <1>2 DEF CallOK
<1>. QED BY <1>3, <1>5, <1>6 DEF GoesOn, r

LEMMA CleanedIsFine ==
  ASSUME NEW ts, NEW known, NEW gone, NEW h, HubOK(h, ts, known, gone),
         NEW call \in Call, call.kind = "clean", CallOK(h, ts, known, call)
  PROVE  /\ GoesOn(h, OnCleaned(h, call), ts, known, gone)
         /\ call.got \in {"ok", "gone"} =>
              \A c \in Chat : OnCleaned(h, call).views[c].topic # call.topic
<1> DEFINE t  == call.topic
           h1 == Landed(h, call)
           h2 == [h1 EXCEPT !.cleanup = @ \ Entries(h, t),
                            !.ended = IF call.got \in {"ok", "gone"} THEN @ ELSE @ \cup {t}]
           r  == OnCleaned(h, call)
<1>0. h \in Hub /\ t \in Nat /\ call.chat \in Chat BY DEF HubOK, Hub, Call
<1>1. h1 \in Hub BY <1>0 DEF Hub, Landed
<1>2. /\ h1.views = h.views /\ h1.calls = h.calls /\ h1.unshared = h.unshared
      /\ h1.cleanup = h.cleanup /\ h1.ended = h.ended /\ h1.live = h.live
      /\ h1.archived = h.archived
  BY <1>0 DEF Hub, Landed
<1>3. \/ r = Invalid(h1, call) /\ call.got \in {"ok", "gone"}
      \/ r = h1 /\ (call.got \in {"ok", "gone"} => Entries(h, t) # {})
      \/ r = h2 /\ Entries(h, t) # {}
  BY DEF OnCleaned
<1> HIDE DEF h1, r
<1>4. GoesOn(h, h1, ts, known, gone) BY <1>1, <1>2, SameIsFine DEF HubOK, ArchiveOK
<1>5. CASE r = Invalid(h1, call) /\ call.got \in {"ok", "gone"}
  BY <1>5, <1>4, InvalidIsFine, KeepsOn DEF CallOK, GoesOn, r
<1>6. ASSUME Entries(h, t) # {} PROVE \A c \in Chat : h.views[c].topic # t
  <2>1. PICK e \in h.cleanup : e.view.topic = t BY <1>6 DEF Entries
  <2>2. t # 0 BY ZeroIsNone DEF CallOK, IsIn, HubOK
  <2>. QED BY <2>1, <2>2 DEF HubOK, PlacesOK
<1>7. CASE r = h1 /\ (call.got \in {"ok", "gone"} => Entries(h, t) # {})
  BY <1>2, <1>4, <1>6, <1>7 DEF r
<1>8. CASE r = h2 /\ Entries(h, t) # {}
  <2> DEFINE all == Entries(h, t)
  <2>1. \A x : x \in all <=> x \in h.cleanup /\ x.view.topic = t BY DEF Entries
  <2> HIDE DEF all
  <2>2. /\ r \in Hub /\ r.views = h.views /\ r.calls = h.calls
        /\ r.cleanup = h.cleanup \ all /\ h.ended \subseteq r.ended /\ r.live = h.live
        /\ r.archived = h.archived /\ r.unshared = h.unshared
        /\ call.got \in {"ok", "gone"} \/ t \in r.ended
    BY <1>0, <1>1, <1>2, <1>8 DEF Hub, all
  <2>3. HubOK(r, ts, known, gone) BY <2>2, LessIsFine DEF HubOK, ArchiveOK
  <2>4. call.got \in {"ok", "gone"} => ~ts[t].alive BY DEF CallOK
  <2>5. Keeps(h, r, ts) BY <2>1, <2>2, <2>4, HeldIs DEF Keeps
  <2>. QED BY <1>6, <1>8, <2>2, <2>3, <2>5 DEF GoesOn, r
<1>. QED BY <1>3, <1>5, <1>7, <1>8

(* Whatever the answer to a call, with what the hub is told by it.         *)
LEMMA HandledIsFine ==
  ASSUME NEW ts, NEW known, NEW gone, NEW h, HubOK(h, ts, known, gone), gone \subseteq known,
         NEW call \in h.calls, call.got # "none",
         NEW known2, NEW gone2,
         known2 = IF call.kind = "create" /\ call.got = "ok" THEN known \cup {call.topic}
                  ELSE known,
         gone2 = IF call.got = "gone" \/ (call.kind \in {"delete", "clean"} /\ call.got = "ok")
                 THEN gone \cup {call.topic} ELSE gone
  PROVE  LET h2 == Handled(Without(h, call), call)
         IN  /\ GoesOn(h, h2, ts, known2, gone2)
             /\ \A t \in known2 : t \in known \/ t \in Held(h2)
<1> DEFINE h0 == Without(h, call)
           h2 == Handled(h0, call)
<1>0. h \in Hub /\ call \in Call /\ call.chat \in Chat BY DEF HubOK, Hub, Call
<1>1. h0 \in Hub BY <1>0 DEF Hub, Without
<1>2. /\ h0.views = h.views /\ h0.calls = h.calls \ {call} /\ h0.unshared = h.unshared
      /\ h0.cleanup = h.cleanup /\ h0.ended = h.ended /\ h0.live = h.live
      /\ h0.archived = h.archived
  BY <1>0 DEF Hub, Without
<1> HIDE DEF h0
<1>3. GoesOn(h, h0, ts, known, gone) BY <1>1, <1>2, SameIsFine DEF HubOK, ArchiveOK
<1>a. HubOK(h0, ts, known, gone) BY <1>3 DEF GoesOn
<1> SUFFICES /\ GoesOn(h0, h2, ts, known2, gone2)
             /\ \A t \in known2 : t \in known \/ t \in Held(h2)
  BY <1>3, KeepsOn DEF GoesOn, h0
<1>4. call.kind # "create" => CallOK(h0, ts, known, call)
  BY <1>2 DEF HubOK, CallsOK, CallOK
<1>5. call.kind = "create" =>
        /\ NoMaking(h0, call.chat) /\ h0.views[call.chat].topic = 0
        /\ h0.views[call.chat].here /\ ~h0.archived /\ call.got # "gone"
        /\ call.got = "ok" => IsIn(ts, call.chat, call.topic) /\ call.topic \notin known
  <2> SUFFICES ASSUME call.kind = "create"
               PROVE  /\ NoMaking(h0, call.chat) /\ h0.views[call.chat].topic = 0
                      /\ h0.views[call.chat].here /\ ~h0.archived /\ call.got # "gone"
                      /\ call.got = "ok" => /\ IsIn(ts, call.chat, call.topic)
                                            /\ call.topic \notin known
    OBVIOUS
  <2>1. h.views[call.chat].topic = 0 /\ h.views[call.chat].busy BY DEF HubOK, MakingOK
  <2>2. NoMaking(h0, call.chat) BY <1>2 DEF HubOK, MakingOK, NoMaking
  <2>3. call.got # "gone" /\ (call.got = "ok" => /\ IsIn(ts, call.chat, call.topic)
                                                /\ call.topic \notin known)
    BY DEF HubOK, MakingOK
  <2>. QED BY <1>0, <1>2, <2>1, <2>2, <2>3 DEF HubOK, PlacesOK, ArchiveOK
<1>6. CASE call.kind = "create" /\ call.got = "ok"
  <2>1. h2 = Created(h0, call) /\ known2 = known \cup {call.topic} /\ gone2 = gone
    BY <1>6 DEF Handled, OnTopicDone
  <2> HIDE DEF h2
  <2>2. /\ GoesOn(h0, h2, ts, known \cup {call.topic}, gone) /\ call.topic \in Held(h2)
    BY <1>0, <1>5, <1>6, <1>a, <2>1, CreatedIsFine
  <2>3. GoesOn(h0, h2, ts, known2, gone2) BY <2>1, <2>2
  <2>4. \A t \in known2 : t \in known \/ t \in Held(h2) BY <2>1, <2>2
  <2>. QED BY <2>3, <2>4
<1>7. CASE call.kind \in {"edit", "separator"} /\ call.got = "ok"
  <2>1. h2 = OnTopicDone(h0, call) /\ known2 = known /\ gone2 = gone BY <1>7 DEF Handled
  <2> HIDE DEF h2
  <2>2. IsIn(ts, call.chat, call.topic) BY <1>4, <1>7 DEF CallOK
  <2>. QED BY <1>0, <1>7, <1>a, <2>1, <2>2, EditedIsFine
<1>8. CASE call.kind \in {"edit", "separator", "post"} /\ call.got = "gone"
  <2>1. h2 = Invalid(h0, call) /\ known2 = known /\ gone2 = gone \cup {call.topic}
    BY <1>8 DEF Handled, OnTopicDone, OnLanded
  <2> HIDE DEF h2
  <2>2. IsIn(ts, call.chat, call.topic) /\ ~ts[call.topic].alive BY <1>4, <1>8 DEF CallOK
  <2>3. GoesOn(h0, h2, ts, known, gone) /\ \A c \in Chat : h2.views[c].topic # call.topic
    BY <1>0, <1>a, <2>1, <2>2, InvalidIsFine
  <2>4. HubOK(h2, ts, known2, gone2)
    <3>1. HubOK(h2, ts, known, gone) BY <2>3 DEF GoesOn
    <3>2. HubOK(h2, ts, known, gone \cup {call.topic}) BY <2>3, <3>1, GoneAlso
    <3>. QED BY <2>1, <3>2
  <2>. QED BY <2>1, <2>3, <2>4 DEF GoesOn
<1>9. CASE call.kind \in {"create", "edit", "separator"} /\ call.got \notin {"ok", "gone"}
  <2> DEFINE h1 == Closed(h0, call)
  <2>1. h2 = Failed(h1, call) /\ known2 = known /\ gone2 = gone
    BY <1>9 DEF Handled, OnTopicDone
  <2>2. GoesOn(h0, h1, ts, known, gone) /\ h1.views = h0.views /\ h1.calls = h0.calls
    BY <1>a, ClosedIsFine
  <2> HIDE DEF h1, h2
  <2>3. CASE NoMaking(h0, call.chat)
    BY <2>2, <2>3, <1>0, <2>1, FailedIsFine, KeepsOn DEF NoMaking, GoesOn
  <2>4. CASE ~NoMaking(h0, call.chat)
    <3>1. h0.views[call.chat].topic = 0 BY <1>a, <2>4 DEF HubOK, MakingOK, NoMaking
    <3>2. call.kind # "create" /\ call.topic # 0
      BY <1>4, <1>5, <1>a, <2>4, ZeroIsNone DEF CallOK, IsIn, HubOK
    <3>3. h2 = h1 BY <2>1, <2>2, <3>1, <3>2 DEF Failed, OfTopic
    <3>. QED BY <2>1, <2>2, <3>3
  <2>. QED BY <2>3, <2>4
<1>10. CASE call.kind = "post" /\ call.got # "gone"
  <2>1. h2 \in {Proven(h0, "private"), Closed(h0, call)} /\ known2 = known /\ gone2 = gone
    BY <1>10 DEF Handled, OnLanded
  <2> HIDE DEF h2
  <2>. QED BY <1>a, <2>1, ProvenIsFine, ClosedIsFine
<1>11. CASE call.kind = "delete"
  <2>1. h2 = OnDeleted(h0, call) /\ known2 = known /\ gone2 \in {gone, gone \cup {call.topic}}
    BY <1>11 DEF Handled
  <2> HIDE DEF h2
  <2>2. /\ GoesOn(h0, h2, ts, known, gone)
        /\ \A c \in Chat : h2.views[c].topic # call.topic
    BY <1>0, <1>4, <1>11, <1>a, <2>1, DeletedIsFine
  <2>. QED BY <2>1, <2>2, GoneAlso DEF GoesOn
<1>12. CASE call.kind = "clean"
  <2>1. /\ h2 = OnCleaned(h0, call) /\ known2 = known
        /\ gone2 = IF call.got \in {"ok", "gone"} THEN gone \cup {call.topic} ELSE gone
    BY <1>12 DEF Handled
  <2> HIDE DEF h2
  <2>2. /\ GoesOn(h0, h2, ts, known, gone)
        /\ call.got \in {"ok", "gone"} => \A c \in Chat : h2.views[c].topic # call.topic
    BY <1>0, <1>4, <1>12, <1>a, <2>1, CleanedIsFine
  <2>3. HubOK(h2, ts, known, gone2)
    <3>1. CASE gone2 = gone BY <2>2, <3>1 DEF GoesOn
    <3>2. CASE gone2 = gone \cup {call.topic} /\ \A c \in Chat : h2.views[c].topic # call.topic
      BY <2>2, <3>2, GoneAlso DEF GoesOn
    <3>. QED BY <2>1, <2>2, <3>1, <3>2
  <2>. QED BY <2>1, <2>2, <2>3 DEF GoesOn
<1>13. call.kind \in Kind BY <1>0 DEF Call
<1>14. call.got = "gone" => call.kind # "create" BY <1>5
<1>15. \/ call.kind \in {"create", "edit", "separator"} /\ call.got = "ok"
       \/ call.kind \in {"create", "edit", "separator"} /\ call.got \notin {"ok", "gone"}
       \/ call.kind \in {"edit", "separator", "post"} /\ call.got = "gone"
       \/ call.kind = "post" /\ call.got # "gone"
       \/ call.kind \in {"delete", "clean"}
  BY <1>13, <1>14 DEF Kind
<1> HIDE DEF h2
<1>. QED BY <1>6, <1>7, <1>8, <1>9, <1>10, <1>11, <1>12, <1>15

-----------------------------------------------------------------------------
(* The calls in Telegram.                                                  *)
(* Topics are only added, and none comes back.                             *)
Grows(ts, ts2) ==
  /\ ts2 \in Seq(Topic) /\ DOMAIN ts \subseteq DOMAIN ts2
  /\ \A t \in DOMAIN ts : ts2[t].chat = ts[t].chat /\ (ts2[t].alive => ts[t].alive)

LEMMA GrownIsFine ==
  ASSUME NEW ts, NEW ts2, NEW known, NEW gone, NEW h, HubOK(h, ts, known, gone),
         Grows(ts, ts2)
  PROVE  HubOK(h, ts2, known, gone)
BY DEF Grows, IsIn, HubOK, PlacesOK, MakingOK, CallsOK, CallOK

(* A call comes to an end; no part of the hub looks at it yet.             *)
LEMMA CallEndsFine ==
  ASSUME NEW ts, NEW known, NEW gone, NEW h, HubOK(h, ts, known, gone),
         NEW call \in h.calls, NEW k \in Call,
         k.kind = call.kind, k.chat = call.chat, k.text = call.text,
         k.kind = "create" => k.got # "gone",
         k.kind = "create" /\ k.got = "ok" => IsIn(ts, k.chat, k.topic) /\ k.topic \notin known,
         k.kind = "create" /\ k.got # "ok" => k.topic = 0,
         k.kind # "create" => k.topic = call.topic,
         k.got = "gone" \/ (k.got = "ok" /\ k.kind \in {"delete", "clean"})
           => ~ts[k.topic].alive
  PROVE  GoesOn(h, [h EXCEPT !.calls = (@ \ {call}) \cup {k}], ts, known, gone)
<1> DEFINE h2 == [h EXCEPT !.calls = (@ \ {call}) \cup {k}]
<1>0. h \in Hub BY DEF HubOK
<1>1. h2 \in Hub BY <1>0 DEF Hub
<1>2. /\ h2.views = h.views /\ h2.calls = (h.calls \ {call}) \cup {k}
      /\ h2.unshared = h.unshared /\ h2.cleanup = h.cleanup /\ h2.ended = h.ended
      /\ h2.live = h.live /\ h2.archived = h.archived
  BY <1>0 DEF Hub
<1> HIDE DEF h2
<1>3. PlacesOK(h2, ts, known) /\ ArchiveOK(h2) /\ NoneGone(h2, gone)
  BY <1>2 DEF HubOK, PlacesOK, ArchiveOK, NoneGone
<1>4. MakingOK(h2, ts, known)
  <2> SUFFICES ASSUME NEW x \in h2.calls, x.kind = "create"
               PROVE  /\ h2.views[x.chat].topic = 0 /\ h2.views[x.chat].busy
                      /\ \A j \in h2.calls : j.kind = "create" /\ j.chat = x.chat => j = x
                      /\ x.got # "gone"
                      /\ x.got = "ok" => IsIn(ts, x.chat, x.topic) /\ x.topic \notin known
                      /\ x.got # "ok" => x.topic = 0
    BY DEF MakingOK
  <2>1. CASE x = k BY <1>2, <2>1 DEF HubOK, MakingOK
  <2>2. CASE x \in h.calls /\ x # call BY <1>2, <2>2 DEF HubOK, MakingOK
  <2>. QED BY <1>2, <2>1, <2>2
<1>5. CallsOK(h2, ts, known)
  <2> SUFFICES ASSUME NEW x \in h2.calls, x.kind # "create" PROVE CallOK(h2, ts, known, x)
    BY DEF CallsOK
  <2>1. CASE x = k BY <1>2, <2>1 DEF HubOK, CallsOK, CallOK
  <2>2. CASE x \in h.calls /\ x # call BY <1>2, <2>2 DEF HubOK, CallsOK, CallOK
  <2>. QED BY <1>2, <2>1, <2>2
<1>6. Keeps(h, h2, ts) BY <1>2, HeldIs DEF Keeps
<1>. QED BY <1>1, <1>3, <1>4, <1>5, <1>6 DEF HubOK, GoesOn, h2

LEMMA TopicChangeGrows ==
  ASSUME NEW ts \in Seq(Topic), NEW t \in DOMAIN ts, NEW x \in Topic,
         x.chat = ts[t].chat, x.alive => ts[t].alive
  PROVE  Grows(ts, [ts EXCEPT ![t] = x])
BY DEF Grows

LEMMA DoneGrows ==
  ASSUME tg \in [topics : Seq(Topic), blocked : BOOLEAN],
         NEW call \in Call, call.kind # "create" => call.topic \in DOMAIN tg.topics,
         call.kind = "separator" => call.text # <<>>
  PROVE  /\ Done(call) \in [topics : Seq(Topic), blocked : BOOLEAN]
         /\ Grows(tg.topics, Done(call).topics)
         /\ call.kind = "create" => IsIn(Done(call).topics, call.chat, Len(tg.topics) + 1)
         /\ call.kind \in {"delete", "clean"} => ~Done(call).topics[call.topic].alive
<1> DEFINE ts == tg.topics
           t  == call.topic
           r  == Done(call)
<1>0. ts \in Seq(Topic) /\ call.chat \in Chat /\ call.look \in Look /\ call.kind \in Kind
  BY DEF Call
<1>1. ASSUME NEW new \in Topic, r = [tg EXCEPT !.topics = Append(@, new)],
             new.chat = call.chat
      PROVE  /\ r \in [topics : Seq(Topic), blocked : BOOLEAN]
             /\ Grows(ts, r.topics) /\ IsIn(r.topics, call.chat, Len(ts) + 1)
  <2> HIDE DEF r
  <2>0. Append(ts, new) \in Seq(Topic) BY <1>0, <1>1
  <2>1. r.topics = Append(ts, new) /\ r \in [topics : Seq(Topic), blocked : BOOLEAN]
    <3> DEFINE longer == Append(ts, new)
    <3>1. r = [tg EXCEPT !.topics = longer] /\ longer \in Seq(Topic) BY <1>1, <2>0
    <3> HIDE DEF longer
    <3>2. r.topics = longer /\ r \in [topics : Seq(Topic), blocked : BOOLEAN] BY <3>1
    <3>. QED BY <3>2 DEF longer
  <2> HIDE DEF ts
  <2>. QED BY <1>0, <1>1, <2>1 DEF Grows, IsIn
<1>2. ASSUME NEW x \in Topic, t \in DOMAIN ts, x.chat = ts[t].chat, x.alive => ts[t].alive,
             r = [tg EXCEPT !.topics = [ts EXCEPT ![t] = x]]
      PROVE  /\ r \in [topics : Seq(Topic), blocked : BOOLEAN]
             /\ Grows(ts, r.topics) /\ r.topics[t] = x
  <2>1. Grows(ts, [ts EXCEPT ![t] = x]) BY <1>0, <1>2, TopicChangeGrows
  <2>2. r.topics = [ts EXCEPT ![t] = x] /\ r \in [topics : Seq(Topic), blocked : BOOLEAN]
    BY <1>2, <2>1 DEF Grows
  <2> HIDE DEF r, ts
  <2>. QED BY <1>0, <1>2, <2>1, <2>2
<1>3. CASE call.kind = "create"
  <2> DEFINE new == [chat |-> call.chat, alive |-> TRUE, look |-> call.look, shows |-> 0]
  <2>1. new \in Topic /\ new.chat = call.chat BY <1>0 DEF Topic
  <2>2. r = [tg EXCEPT !.topics = Append(@, new)] BY <1>3 DEF Done
  <2> HIDE DEF new, r
  <2>. QED BY <1>1, <1>3, <2>1, <2>2 DEF r
<1>4. CASE call.kind \in {"edit", "separator", "delete", "clean"}
  <2>0. t \in DOMAIN ts /\ ts[t] \in Topic BY <1>0, <1>4
  <2> DEFINE n == IF Last(call.text) = ShareLine THEN ts[t].shows ELSE Last(call.text)
             x == IF call.kind = "edit" THEN [ts[t] EXCEPT !.look = call.look]
                  ELSE IF call.kind = "separator" THEN [ts[t] EXCEPT !.shows = n]
                  ELSE [ts[t] EXCEPT !.alive = FALSE]
  <2>1. r = [tg EXCEPT !.topics = [ts EXCEPT ![t] = x]] BY <1>4, <2>0 DEF Done
  <2>2. call.kind = "separator" => n \in Nat BY <2>0 DEF Call, Last, Topic
  <2> HIDE DEF n
  <2>3. /\ x \in Topic /\ x.chat = ts[t].chat /\ (x.alive => ts[t].alive)
        /\ call.kind \in {"delete", "clean"} => ~x.alive
    BY <1>0, <1>4, <2>0, <2>2 DEF Topic
  <2> HIDE DEF x, r
  <2>. QED BY <1>2, <1>4, <2>0, <2>1, <2>3 DEF r
<1>5. CASE call.kind = "post" BY <1>5, <1>0 DEF Done, Grows
<1>. QED BY <1>0, <1>3, <1>4, <1>5 DEF Kind

-----------------------------------------------------------------------------
(* The steps.                                                              *)
(* A step that the hub is told nothing of a topic by.                      *)
LEMMA StepGoesOn ==
  ASSUME TopicsInv, UNCHANGED plan, past' \in Past', past'.known = past.known, past'.gone = past.gone,
         tg' \in [topics : Seq(Topic), blocked : BOOLEAN], Grows(tg.topics, tg'.topics),
         HubOK(hub', tg'.topics, past.known, past.gone), Keeps(hub, hub', tg.topics),
         \/ file' = file
         \/ /\ HubOK(file', tg'.topics, past.known, {})
            /\ file'.ended = {} /\ file'.calls = {}
  PROVE  TopicsInv'
<1>1. /\ past.known \subseteq DOMAIN tg.topics /\ past.gone \subseteq past.known
      /\ \A t \in past.gone : ~tg.topics[t].alive
      /\ HubOK(file, tg.topics, past.known, {}) /\ past \in Past
      /\ file.ended = {} /\ file.calls = {} /\ TopicsOwned
  BY DEF TopicsInv
<1>2. past' \in Past' /\ past'.known = past.known /\ past'.gone = past.gone OBVIOUS
<1>3. /\ past.known \subseteq DOMAIN tg'.topics
      /\ \A t \in past.gone : ~tg'.topics[t].alive
  BY <1>1 DEF Grows
<1>4. HubOK(file', tg'.topics, past.known, {}) /\ file'.ended = {} /\ file'.calls = {}
  BY <1>1, GrownIsFine
<1>5. TopicsOwned'
  <2> SUFFICES ASSUME NEW t \in past.known, tg'.topics[t].alive PROVE t \in Held(hub')
    BY <1>2 DEF TopicsOwned
  <2>1. t \in DOMAIN tg.topics /\ tg.topics[t].alive BY <1>1 DEF Grows
  <2>. QED BY <1>1, <2>1 DEF TopicsOwned, Keeps
<1>. QED BY <1>1, <1>2, <1>3, <1>4, <1>5 DEF TopicsInv

LEMMA StepIsFine ==
  ASSUME TopicsInv, UNCHANGED <<plan, past>>,
         tg' \in [topics : Seq(Topic), blocked : BOOLEAN], Grows(tg.topics, tg'.topics),
         HubOK(hub', tg'.topics, past.known, past.gone), Keeps(hub, hub', tg.topics),
         \/ file' = file
         \/ /\ HubOK(file', tg'.topics, past.known, {})
            /\ file'.ended = {} /\ file'.calls = {}
  PROVE  TopicsInv'
BY StepGoesOn DEF TopicsInv, Past

LEMMA SameTopics ==
  ASSUME NEW ts \in Seq(Topic)
  PROVE  Grows(ts, ts)
BY DEF Grows

(* An event that the hub handles with h before it pumps.                   *)
LEMMA ActGoesOn ==
  ASSUME TopicsInv, UNCHANGED <<plan, file>>, past' \in Past',
         past'.known = past.known, past'.gone = past.gone,
         tg' \in [topics : Seq(Topic), blocked : BOOLEAN], tg'.topics = tg.topics,
         NEW h, GoesOn(hub, h, tg.topics, past.known, past.gone), hub' = Pump(h)
  PROVE  TopicsInv'
BY PumpIsFine, KeepsOn, SameTopics, StepGoesOn DEF GoesOn, TopicsInv

LEMMA ActIsFine ==
  ASSUME TopicsInv, UNCHANGED <<plan, past, file>>,
         tg' \in [topics : Seq(Topic), blocked : BOOLEAN], tg'.topics = tg.topics,
         NEW h, GoesOn(hub, h, tg.topics, past.known, past.gone), hub' = Pump(h)
  PROVE  TopicsInv'
BY ActGoesOn DEF TopicsInv, Past

LEMMA InvParts ==
  ASSUME TopicsInv
  PROVE  /\ HubOK(hub, tg.topics, past.known, past.gone) /\ hub \in Hub
         /\ tg \in [topics : Seq(Topic), blocked : BOOLEAN] /\ tg.topics \in Seq(Topic)
         /\ past \in Past /\ past.known \subseteq DOMAIN tg.topics
         /\ past.gone \subseteq past.known /\ \A t \in past.gone : ~tg.topics[t].alive
BY DEF TopicsInv, HubOK

LEMMA StartStep ==
  ASSUME TopicsInv, NEW n \in Nat, Start(n)
  PROVE  TopicsInv'
<1> DEFINE h1 == [Occupied(hub, n) EXCEPT !.live = TRUE, !.running = TRUE, !.archived = FALSE]
           h  == IF hub.archived THEN Homed(h1) ELSE h1
<1>1. GoesOn(hub, h, tg.topics, past.known, past.gone) BY InvParts, StartIsFine
<1> DEFINE old == IF n = hub.session THEN past.old ELSE {e.view.topic : e \in hub.cleanup}
<1>2. hub' = Pump(h) /\ UNCHANGED <<plan, tg, file>> /\ past' = [past EXCEPT !.old = old]
  BY DEF Start, Act
<1>3. old \in SUBSET Nat BY InvParts DEF Hub, View, Past
<1> HIDE DEF h, old
<1>4. past' \in Past' /\ past'.known = past.known /\ past'.gone = past.gone
  BY <1>2, <1>3, InvParts DEF Past
<1>. QED BY <1>1, <1>2, <1>4, InvParts, ActGoesOn

LEMMA EndStep ==
  ASSUME TopicsInv, End \/ Seen \/ GraceOver
  PROVE  TopicsInv'
BY InvParts, SameIsFine, ActIsFine DEF HubOK, ArchiveOK, End, Act, Hub, Seen, GraceOver

LEMMA WritesStep ==
  ASSUME TopicsInv, NEW t, UserWrites(t)
  PROVE  TopicsInv'
<1> DEFINE h1 == Reopened(hub)
           h  == Revived(h1, t)
<1>1. GoesOn(hub, h1, tg.topics, past.known, past.gone) BY InvParts, ReopenedIsFine
<1>2. t \notin past.gone BY InvParts, ZeroIsNone DEF UserWrites, InChat
<1> HIDE DEF h1
<1>3. GoesOn(hub, h, tg.topics, past.known, past.gone)
  BY <1>1, <1>2, RevivedIsFine, KeepsOn DEF GoesOn
<1>4. hub' = Pump(h) /\ UNCHANGED <<plan, file, past>> /\ tg' = [tg EXCEPT !.blocked = FALSE]
  BY DEF UserWrites, Act, h1
<1> HIDE DEF h
<1>. QED BY <1>3, <1>4, InvParts, ActIsFine

LEMMA DeletesStep ==
  ASSUME TopicsInv, NEW t, UserDeletes(t)
  PROVE  TopicsInv'
<1>1. /\ t \in DOMAIN tg.topics /\ UNCHANGED <<plan, hub, file, past>>
      /\ tg' = [tg EXCEPT !.topics[t].alive = FALSE]
  BY DEF UserDeletes, InChat
<1> DEFINE x == [tg.topics[t] EXCEPT !.alive = FALSE]
<1>2. x \in Topic /\ x.chat = tg.topics[t].chat /\ ~x.alive
  <2>1. tg.topics[t] \in Topic BY <1>1, InvParts
  <2>. QED BY <2>1 DEF Topic
<1>3. tg' = [tg EXCEPT !.topics = [tg.topics EXCEPT ![t] = x]] BY <1>1
<1> HIDE DEF x
<1>4. Grows(tg.topics, [tg.topics EXCEPT ![t] = x])
  BY <1>1, <1>2, InvParts, TopicChangeGrows
<1>5. tg' \in [topics : Seq(Topic), blocked : BOOLEAN] /\ Grows(tg.topics, tg'.topics)
  BY <1>3, InvParts, <1>4 DEF Grows
<1>6. HubOK(hub', tg'.topics, past.known, past.gone) /\ Keeps(hub, hub', tg.topics)
  BY <1>1, <1>5, InvParts, GrownIsFine DEF Keeps
<1>. QED BY <1>1, <1>5, <1>6, StepIsFine

LEMMA BlocksStep ==
  ASSUME TopicsInv, UserBlocks
  PROVE  TopicsInv'
BY InvParts, SameTopics, StepIsFine DEF UserBlocks, Keeps

LEMMA ShareStep ==
  ASSUME TopicsInv, Share
  PROVE  TopicsInv'
<1> DEFINE ts      == tg.topics
           adopted == hub.views["group"].here /\ hub.views["group"].fallback
           h0      == IF adopted THEN Shared(hub) ELSE hub
           h1      == Reopened(h0)
           h       == IF ~adopted /\ AtHome(h1) THEN Shared(h1) ELSE h1
<1>1. GoesOn(hub, h0, ts, past.known, past.gone)
  BY InvParts, SharedIsFine DEF GoesOn, Keeps
<1>2. /\ hub' = Pump(h) /\ UNCHANGED <<plan, file, past>>
      /\ tg' = [tg EXCEPT !.blocked = FALSE]
  BY DEF Share, Act, FromHome
<1> HIDE DEF h0
<1>3. GoesOn(hub, h1, ts, past.known, past.gone)
  BY <1>1, ReopenedIsFine, KeepsOn DEF GoesOn
<1> HIDE DEF h1
<1>4. GoesOn(hub, h, ts, past.known, past.gone)
  <2>1. CASE AtHome(h1)
    BY <1>3, <2>1, SharedIsFine, KeepsOn DEF GoesOn, HubOK, ArchiveOK, AtHome, Ready, Chat
  <2>2. CASE ~AtHome(h1) BY <1>3, <2>2
  <2>. QED BY <2>1, <2>2
<1> HIDE DEF h
<1>. QED BY <1>2, <1>4, InvParts, ActIsFine

LEMMA UnshareStep ==
  ASSUME TopicsInv, Unshare
  PROVE  TopicsInv'
<1> DEFINE h1 == Reopened(hub)
           h  == Unshared(h1)
<1>1. GoesOn(hub, h1, tg.topics, past.known, past.gone) BY InvParts, ReopenedIsFine
<1>2. GoesOn(hub, h, tg.topics, past.known, past.gone)
  BY <1>1, UnsharedIsFine, KeepsOn DEF GoesOn
<1>3. hub' = Pump(h) /\ UNCHANGED <<plan, file, past>> /\ tg' = [tg EXCEPT !.blocked = FALSE]
  BY DEF Unshare, Act, FromHome
<1> HIDE DEF h
<1>. QED BY <1>2, <1>3, InvParts, ActIsFine

LEMMA CleanupStep ==
  ASSUME TopicsInv, Cleanup
  PROVE  TopicsInv'
BY InvParts, ArchivedIsFine, ActIsFine DEF Cleanup, Act

LEMMA PostStep ==
  ASSUME TopicsInv, Post
  PROVE  TopicsInv'
<1> DEFINE t == hub.views["private"].topic
           k == CallOf("post", "private", t, <<>>, <<>>)
<1>1. t # 0 /\ hub' = Handed(hub, k) /\ UNCHANGED <<plan, tg, file, past>>
  BY DEF Post, AtHome, Ready
<1>2. t \in Nat /\ IsIn(tg.topics, "private", t) /\ t \in past.known
  BY <1>1, InvParts DEF HubOK, PlacesOK, Hub, View, Chat
<1>3. k \in Call /\ k.kind = "post" /\ k.chat = "private" /\ k.topic = t /\ k.got = "none"
  <2>1. <<>> \in Seq(Nat) /\ <<>> \in Look BY DEF Look
  <2> HIDE DEF t
  <2>. QED BY <1>2, <2>1 DEF Call, Kind, Chat, CallOf
<1> HIDE DEF k
<1>4. CallOK(hub, tg.topics, past.known, k) BY <1>2, <1>3 DEF CallOK
<1>5. GoesOn(hub, hub', tg.topics, past.known, past.gone)
  BY <1>1, <1>3, <1>4, InvParts, HandedIsFine
<1>6. Grows(tg.topics, tg'.topics) BY <1>1, InvParts, SameTopics
<1>. QED BY <1>1, <1>5, <1>6, InvParts, StepIsFine DEF GoesOn

LEMMA RetryStep ==
  ASSUME TopicsInv, Retry
  PROVE  TopicsInv'
<1> DEFINE again(v) == [v EXCEPT !.failed = {}]
           h == [EachView(hub, again) EXCEPT !.later = {}]
<1>1. hub' = Pump(h) /\ UNCHANGED <<plan, tg, file, past>> BY DEF Retry, Act
<1>2. GoesOn(hub, h, tg.topics, past.known, past.gone) BY InvParts, RetriedIsFine
<1> HIDE DEF h
<1>. QED BY <1>1, <1>2, InvParts, ActIsFine

LEMMA SaveStep ==
  ASSUME TopicsInv, Save
  PROVE  TopicsInv'
BY InvParts, RestoredIsFine, SameTopics, StepIsFine DEF Save, Keeps

LEMMA TakesStep ==
  ASSUME TopicsInv, NEW call \in hub.calls, Takes(call)
  PROVE  TopicsInv'
<1> DEFINE ts    == tg.topics
           made  == call.kind = "create"
           gone  == ~made /\ call.topic \notin InChat(call.chat)
           topic == IF made THEN Len(ts) + 1 ELSE call.topic
           With(k) == hub' = [hub EXCEPT !.calls = (@ \ {call}) \cup {k}]
<1>0. /\ HubOK(hub, ts, past.known, past.gone) /\ hub \in Hub /\ call \in Call
      /\ tg \in [topics : Seq(Topic), blocked : BOOLEAN] /\ ts \in Seq(Topic)
      /\ past.known \subseteq DOMAIN ts
  BY InvParts DEF Hub
<1>1. UNCHANGED <<plan, file, past>> /\ call.got = "none" BY DEF Takes
<1>2. /\ ~made => CallOK(hub, ts, past.known, call)
      /\ made => call.topic = 0
  BY <1>0, <1>1 DEF HubOK, CallsOK, MakingOK
<1>3. /\ call.kind # "create" => call.topic \in DOMAIN ts
      /\ call.kind = "separator" => call.text # <<>>
  BY <1>2 DEF CallOK, IsIn
<1>4. /\ Done(call) \in [topics : Seq(Topic), blocked : BOOLEAN]
      /\ Grows(ts, Done(call).topics)
      /\ made => IsIn(Done(call).topics, call.chat, Len(ts) + 1)
      /\ call.kind \in {"delete", "clean"} => ~Done(call).topics[call.topic].alive
  BY <1>0, <1>3, DoneGrows
<1>5. ASSUME NEW k \in Call, k.kind = call.kind, k.chat = call.chat, k.text = call.text, With(k),
             tg' \in [topics : Seq(Topic), blocked : BOOLEAN], Grows(ts, tg'.topics),
             made => k.got # "gone",
             made /\ k.got = "ok" => IsIn(tg'.topics, k.chat, k.topic) /\ k.topic \notin past.known,
             made /\ k.got # "ok" => k.topic = 0,
             ~made => k.topic = call.topic,
             k.got = "gone" \/ (k.got = "ok" /\ k.kind \in {"delete", "clean"})
               => ~tg'.topics[k.topic].alive
      PROVE  TopicsInv'
  <2>1. HubOK(hub, tg'.topics, past.known, past.gone) BY <1>0, <1>5, GrownIsFine
  <2>2. GoesOn(hub, hub', tg'.topics, past.known, past.gone) BY <1>5, <2>1, CallEndsFine
  <2>3. Keeps(hub, hub', ts)
    <3>1. /\ hub'.views = hub.views /\ hub'.unshared = hub.unshared
          /\ hub'.cleanup = hub.cleanup /\ hub'.ended = hub.ended
      BY <1>0, <1>5 DEF Hub
    <3>. QED BY <3>1, HeldIs DEF Keeps
  <2>. QED BY <1>1, <1>5, <2>2, <2>3, StepIsFine DEF GoesOn
<1>6. ASSUME NEW got \in {"lost", "failed", "refused", "gone", "forbidden"}, Answer(call, got),
             \/ tg' = tg
             \/ tg' = Done(call),
             got = "gone" => gone /\ tg' = tg
      PROVE  TopicsInv'
  <2> DEFINE k == [call EXCEPT !.got = got]
  <2>1. /\ k \in Call /\ k.kind = call.kind /\ k.chat = call.chat /\ k.text = call.text
        /\ k.topic = call.topic /\ k.got = got
    BY <1>0, <1>6 DEF Call
  <2>2. With(k) BY <1>6 DEF Answer
  <2> HIDE DEF k
  <2>3. tg' \in [topics : Seq(Topic), blocked : BOOLEAN] /\ Grows(ts, tg'.topics)
    BY <1>0, <1>4, <1>6, SameTopics
  <2>4. k.got = "gone" => ~tg'.topics[k.topic].alive
    <3> SUFFICES ASSUME got = "gone" PROVE ~ts[call.topic].alive
      BY <1>6, <2>1
    <3>1. CallOK(hub, ts, past.known, call) /\ call.topic \notin InChat(call.chat)
      BY <1>2, <1>6
    <3>. QED BY <3>1 DEF InChat, CallOK, IsIn
  <2>5. made => k.got # "gone" BY <1>6, <2>1
  <2>. QED BY <1>2, <1>5, <2>1, <2>2, <2>3, <2>4, <2>5
<1>7. ASSUME tg' = Done(call), With([call EXCEPT !.topic = topic, !.got = "ok"])
      PROVE  TopicsInv'
  <2> DEFINE k == [call EXCEPT !.topic = topic, !.got = "ok"]
  <2>1. topic \in Nat BY <1>0, <1>3 DEF Call
  <2>2. made => topic \notin past.known BY <1>0
  <2>a. ~made => topic = call.topic OBVIOUS
  <2>b. made => topic = Len(ts) + 1 OBVIOUS
  <2> HIDE DEF topic
  <2>3. /\ k \in Call /\ k.kind = call.kind /\ k.chat = call.chat /\ k.text = call.text
        /\ k.topic = topic /\ k.got = "ok"
    BY <1>0, <2>1 DEF Call
  <2>4. With(k) BY <1>7
  <2> HIDE DEF k
  <2>. QED BY <1>4, <1>5, <1>7, <2>2, <2>3, <2>4, <2>a, <2>b
<1>8. \/ \E got \in {"lost", "failed", "refused", "gone", "forbidden"} :
           /\ Answer(call, got) /\ (tg' = tg \/ tg' = Done(call))
           /\ got = "gone" => gone /\ tg' = tg
      \/ tg' = Done(call) /\ With([call EXCEPT !.topic = topic, !.got = "ok"])
  BY DEF Takes
<1>. QED BY <1>6, <1>7, <1>8

LEMMA AnsweredStep ==
  ASSUME TopicsInv, NEW call \in hub.calls, Answered(call)
  PROVE  TopicsInv'
<1> DEFINE ts     == tg.topics
           made   == call.kind = "create" /\ call.got = "ok"
           ended  == call.got = "gone" \/ (call.kind \in {"delete", "clean"} /\ call.got = "ok")
           known2 == IF made THEN past.known \cup {call.topic} ELSE past.known
           gone2  == IF ended THEN past.gone \cup {call.topic} ELSE past.gone
           since2 == IF made THEN [past.since EXCEPT ![call.topic] = hub.session] ELSE past.since
           lost2  == past.lost \/ (call.kind = "edit" /\ call.got = "lost")
           h      == Handled(Without(hub, call), call)
<1>0. /\ HubOK(hub, ts, past.known, past.gone) /\ hub \in Hub /\ call \in Call
      /\ ts \in Seq(Topic) /\ past.known \subseteq DOMAIN ts
      /\ past \in Past /\ past.gone \subseteq past.known
      /\ \A t \in past.gone : ~ts[t].alive
      /\ HubOK(file, ts, past.known, {}) /\ file.ended = {} /\ file.calls = {}
      /\ TopicsOwned
  BY InvParts DEF TopicsInv, Hub
<1>1. /\ call.got # "none" /\ hub' = Pump(h) /\ past' = Told(call)
      /\ UNCHANGED <<plan, tg, file>>
  BY DEF Answered, Act
<1>2. /\ made => IsIn(ts, call.chat, call.topic) /\ call.topic \in Nat
      /\ ended => /\ call.topic \in past.known /\ ~ts[call.topic].alive
                  /\ ~made
  BY <1>0 DEF HubOK, MakingOK, CallsOK, CallOK, Call
<1>3. /\ past'.known = known2 /\ past'.gone = gone2 /\ past' \in Past'
  <2>1. past' = [past EXCEPT !.known = known2, !.since = since2, !.gone = gone2, !.lost = lost2]
    BY <1>1 DEF Told
  <2>2. known2 \in SUBSET Nat /\ gone2 \in SUBSET Nat /\ lost2 \in BOOLEAN
    BY <1>0, <1>2 DEF Past, Call
  <2>3. since2 \in [1 .. plan.topics -> Nat] BY <1>0 DEF Past, Hub
  <2> HIDE DEF known2, gone2, since2, lost2
  <2>4. past' \in Past BY <1>0, <2>1, <2>2, <2>3 DEF Past
  <2>. QED BY <1>0, <1>1, <2>1, <2>4 DEF Past
<1>4. /\ GoesOn(hub, h, ts, known2, gone2)
      /\ \A t \in known2 : t \in past.known \/ t \in Held(h)
  <2>1. known2 = IF call.kind = "create" /\ call.got = "ok" THEN past.known \cup {call.topic}
                 ELSE past.known
    OBVIOUS
  <2>2. gone2 = IF call.got = "gone" \/ (call.kind \in {"delete", "clean"} /\ call.got = "ok")
                THEN past.gone \cup {call.topic} ELSE past.gone
    OBVIOUS
  <2> HIDE DEF known2, gone2, h
  <2>3. LET h2 == Handled(Without(hub, call), call)
        IN  /\ GoesOn(hub, h2, ts, known2, gone2)
            /\ \A t \in known2 : t \in past.known \/ t \in Held(h2)
    BY <1>0, <1>1, <2>1, <2>2, HandledIsFine
  <2>. QED BY <2>3 DEF h
<1>5. /\ known2 \subseteq DOMAIN ts /\ gone2 \subseteq known2
      /\ \A t \in gone2 : ~ts[t].alive /\ past.known \subseteq known2
  BY <1>0, <1>2 DEF IsIn
<1> HIDE DEF h, known2, gone2
<1>6. GoesOn(hub, hub', ts, known2, gone2) /\ Keeps(h, hub', ts)
  BY <1>1, <1>4, PumpIsFine, KeepsOn DEF GoesOn
<1>7. HubOK(file, ts, known2, {}) BY <1>0 DEF known2, HubOK, PlacesOK, MakingOK, CallsOK
<1>8. TopicsOwned'
  <2> SUFFICES ASSUME NEW t \in known2, ts[t].alive PROVE t \in Held(hub')
    BY <1>1, <1>3 DEF TopicsOwned
  <2>1. CASE t \in past.known BY <1>0, <2>1, <1>6 DEF TopicsOwned, GoesOn, Keeps
  <2>2. CASE t \in Held(h) BY <1>5, <1>6, <2>2 DEF Keeps
  <2>. QED BY <1>4, <2>1, <2>2
<1>. QED BY <1>0, <1>1, <1>3, <1>5, <1>6, <1>7, <1>8, InvParts DEF TopicsInv, GoesOn

LEMMA CrashStep ==
  ASSUME TopicsInv, Crash
  PROVE  TopicsInv'
<1> DEFINE ts     == tg.topics
           known2 == past.known \cap (Held(file) \cup hub.ended)
           h      == [file EXCEPT !.ended = hub.ended]
<1>0. /\ HubOK(file, ts, past.known, {}) /\ file \in Hub /\ hub \in Hub
      /\ file.ended = {} /\ file.calls = {}
      /\ ts \in Seq(Topic) /\ past.known \subseteq DOMAIN ts /\ past \in Past
  BY InvParts DEF TopicsInv, HubOK
<1>1. /\ hub' = Pump(h) /\ past'.known = known2 /\ past'.gone = {}
      /\ UNCHANGED <<plan, tg, file>> /\ past' \in Past'
  <2> DEFINE lost2  == past.lost \/ \E k \in hub.calls : k.kind = "edit" /\ k.got \in {"ok", "lost"}
             lossy2 == past.lossy \/ file # Restored(hub)
  <2>1. /\ past' = [past EXCEPT !.known = known2, !.gone = {}, !.lost = lost2, !.lossy = lossy2]
        /\ hub' = Pump(h) /\ UNCHANGED <<plan, tg, file>>
    BY DEF Crash, Act
  <2>2. lost2 \in BOOLEAN /\ lossy2 \in BOOLEAN /\ known2 \in SUBSET Nat BY <1>0 DEF Past
  <2> HIDE DEF lost2, lossy2, known2, h
  <2>3. past' \in Past BY <1>0, <2>1, <2>2 DEF Past
  <2>. QED BY <1>0, <2>1, <2>3 DEF Past
<1>2. \A t \in past.known : t \in Held(file) => t \in known2 OBVIOUS
<1>3. known2 \subseteq past.known /\ \A t \in known2 : t \in Held(file) \/ t \in hub.ended
  OBVIOUS
<1> HIDE DEF known2
<1>4. HubOK(file, ts, known2, {})
  BY <1>0, <1>2, HeldIs DEF HubOK, PlacesOK, MakingOK, CallsOK
<1>5. GoesOn(file, h, ts, known2, {}) /\ h.ended = hub.ended
  <2>1. h \in Hub BY <1>0 DEF Hub
  <2>2. /\ h.views = file.views /\ h.calls = file.calls /\ h.unshared = file.unshared
        /\ h.cleanup = file.cleanup /\ h.ended = hub.ended /\ h.live = file.live
        /\ h.archived = file.archived
    BY <1>0 DEF Hub
  <2> HIDE DEF h
  <2>. QED BY <1>0, <1>4, <2>1, <2>2, SameIsFine DEF HubOK, ArchiveOK
<1> HIDE DEF h
<1>6. GoesOn(h, hub', ts, known2, {}) BY <1>1, <1>5, PumpIsFine DEF GoesOn
<1>7. TopicsOwned'
  <2> SUFFICES ASSUME NEW t \in known2, ts[t].alive PROVE t \in Held(hub')
    BY <1>1 DEF TopicsOwned
  <2>1. t \in DOMAIN ts BY <1>0, <1>3
  <2>2. t \in Held(h) BY <1>3, <1>5, <2>1, HeldIs DEF GoesOn, Keeps
  <2>. QED BY <1>6, <2>1, <2>2 DEF GoesOn, Keeps
<1>. QED BY <1>0, <1>1, <1>3, <1>4, <1>6, <1>7, InvParts DEF TopicsInv, GoesOn

LEMMA InitFine ==
  ASSUME Init
  PROVE  TopicsInv
<1>0. plan \in Plans BY DEF Init
<1>1. NoSlot \in Hub BY NewViews, ViewPair DEF NoSlot, Hub
<1>2. /\ NoSlot.calls = {} /\ NoSlot.ended = {} /\ NoSlot.unshared = {} /\ NoSlot.cleanup = {}
      /\ ~NoSlot.live
      /\ \A c \in Chat : NoSlot.views[c].topic = 0 /\ ~NoSlot.views[c].busy
  BY NewViews DEF NoSlot, Chat
<1>3. tg.topics = <<>> /\ hub = NoSlot /\ file = NoSlot /\ past.known = {} /\ past.gone = {}
  BY DEF Init
<1>4. HubOK(NoSlot, <<>>, {}, {})
  BY <1>1, <1>2 DEF HubOK, PlacesOK, ArchiveOK, MakingOK, CallsOK, NoneGone
<1>5. past \in Past BY DEF Init, Past
<1>6. tg \in [topics : Seq(Topic), blocked : BOOLEAN] BY DEF Init
<1>7. TopicsOwned BY <1>3 DEF TopicsOwned
<1>. QED BY <1>2, <1>3, <1>4, <1>5, <1>6, <1>7 DEF TopicsInv

LEMMA NextFine ==
  ASSUME TopicsInv, [Next]_topicVars, plan \in Plans
  PROVE  TopicsInv'
<1>1. CASE UNCHANGED topicVars
  BY <1>1, InvParts, SameTopics, StepIsFine DEF Keeps, topicVars
<1>2. CASE \E n \in 1 .. plan.runs : Start(n) BY <1>2, StartStep
<1>3. CASE End \/ Seen \/ GraceOver BY <1>3, EndStep
<1>4. CASE \E t \in 0 .. Len(tg.topics) : UserWrites(t) BY <1>4, WritesStep
<1>5. CASE \E t \in DOMAIN tg.topics : UserDeletes(t) BY <1>5, DeletesStep
<1>6. CASE UserBlocks \/ Share \/ Unshare \/ Cleanup \/ Post
  BY <1>6, BlocksStep, ShareStep, UnshareStep, CleanupStep, PostStep
<1>7. CASE \E call \in hub.calls : Takes(call) \/ Answered(call)
  BY <1>7, TakesStep, AnsweredStep
<1>8. CASE Retry \/ Save \/ Crash BY <1>8, RetryStep, SaveStep, CrashStep
<1>. QED BY <1>1, <1>2, <1>3, <1>4, <1>5, <1>6, <1>7, <1>8 DEF Next

-----------------------------------------------------------------------------
(* The invariant holds of every run of every plan.                         *)
THEOREM TopicsInvariance == Spec => []TopicsInv
<1>1. Init => TopicsInv /\ plan \in Plans BY InitFine DEF Init
<1>2. TopicsInv /\ plan \in Plans /\ [Next]_topicVars => (TopicsInv /\ plan \in Plans)'
  <2> SUFFICES ASSUME TopicsInv, plan \in Plans, [Next]_topicVars
               PROVE  TopicsInv' /\ (plan \in Plans)'
    OBVIOUS
  <2>1. plan' = plan
    BY DEF Next, topicVars, Start, End, Seen, UserWrites, UserDeletes, UserBlocks, Share,
           Unshare, Cleanup, Post, Takes, Answered, Retry, GraceOver, Save, Crash
  <2>. QED BY <2>1, NextFine
<1>. QED BY <1>1, <1>2, PTL DEF Spec

(* No topic the hub was told of is forgotten while it stands in Telegram,  *)
(* through shares, late answers, archived slots and crashes.               *)
THEOREM NoTopicForgotten == Spec => []TopicsOwned
<1>1. TopicsInv => TopicsOwned BY DEF TopicsInv
<1>. QED BY <1>1, TopicsInvariance, PTL

(* No view shows a topic after the hub was told that it is gone.           *)
THEOREM NoViewOfGone == Spec => []ViewsAlive
<1>1. TopicsInv => ViewsAlive BY InvParts DEF ViewsAlive, Topics, Shown, HubOK, NoneGone
<1>. QED BY <1>1, TopicsInvariance, PTL

-----------------------------------------------------------------------------
(* Once all is quiet, a running session has its topics, and they are right.*)

(* What a view may owe its topic: the share line, the name of a session,   *)
(* both, or nothing.                                                       *)
Silent == {<<>>, <<ShareLine>>}
Names(n) == {<<n>>, <<ShareLine, n>>}
Lines == Silent \cup UNION {Names(n) : n \in Nat \ {0}}

Shares(text) == text # <<>> /\ text[1] = ShareLine

Changes == {"create", "edit", "separator"}

(* Views say one session at most, and a fallback is not shared.            *)
FormOK(h) ==
  /\ \A c \in Chat : h.views[c].pending \in Lines
  /\ \A e \in h.cleanup : e.view.pending \in Lines
  /\ h.views["group"].fallback => h.views["group"].here
  /\ h.views["group"].fallback \/ h.archived =>
       ~h.views["group"].opening /\ ~Shares(h.views["group"].pending)
  /\ h.session = 0 => h.archived /\ h.cleanup = {}

(* A view is busy while a call changes its topic, and only then; an        *)
(* archived topic is not changed.                                          *)
BusyOK(h) ==
  \A c \in Chat : h.views[c].busy =>
    \E k \in h.calls : /\ k.kind \in Changes /\ k.chat = c
                       /\ k.kind # "create" => k.topic = h.views[c].topic

ChangesOK(h) ==
  \A k \in h.calls : k.kind \in {"edit", "separator"} =>
    /\ \A c \in Chat : h.views[c].topic = k.topic => h.views[c].busy
    /\ \A e \in h.cleanup : e.view.topic # k.topic
    /\ \A j \in h.calls : j.kind \in {"edit", "separator"} /\ j.topic = k.topic => j = k

(* The view of a separator that names a session still owes a name.         *)
SeparatorsOK(h, ts) ==
  \A k \in h.calls : k.kind = "separator" =>
    /\ k.text \in Lines /\ k.text # <<>>
    /\ k.text # <<ShareLine>> =>
         /\ \A c \in Chat : h.views[c].topic = k.topic => h.views[c].pending \notin Silent
         /\ k.got = "ok" => ts[k.topic].shows = Last(k.text)

(* What was done is seen: a new topic has its look, an edited one too.     *)
MadeOK(h, ts) ==
  \A k \in h.calls :
    /\ k.kind = "create" /\ k.got = "ok" => ts[k.topic].shows = 0 /\ ts[k.topic].look = k.look
    /\ k.kind = "edit" /\ k.got = "ok" => ts[k.topic].look = k.look

FlightOK(h, ts) == BusyOK(h) /\ ChangesOK(h) /\ SeparatorsOK(h, ts) /\ MadeOK(h, ts)

(* A topic looks as its view knows, or as the answer under way will say.   *)
LookRight(h, ts, p, v) ==
  \/ p.lost \/ ts[v.topic].look = v.applied
  \/ \E k \in h.calls : k.kind = "edit" /\ k.topic = v.topic /\ k.got \in {"ok", "lost"}

(* It is about the slot's session, or owed its name.                       *)
AboutRight(h, ts, p, v) ==
  \/ v.topic \in p.old \/ v.pending \in Names(h.session)
  \/ /\ v.pending \in Silent
     /\ h.session = IF ts[v.topic].shows = 0 THEN p.since[v.topic] ELSE ts[v.topic].shows

SaysRight(h, ts, p, v) == LookRight(h, ts, p, v) /\ AboutRight(h, ts, p, v)

SaysOK(h, ts, p) ==
  ~p.lossy =>
    /\ \A c \in Chat : h.views[c].topic # 0 => SaysRight(h, ts, p, h.views[c])
    /\ \A e \in h.cleanup : SaysRight(h, ts, p, e.view)

HomeOK(h, ts, p) == FormOK(h) /\ FlightOK(h, ts) /\ SaysOK(h, ts, p)

(* What the pump leaves.                                                   *)
PumpedOK(h) ==
  /\ h.live /\ h.running /\ ~h.closed => h.views["private"].here
  /\ h.live => \E c \in Shown(h) : Usable(h, c)
  /\ ~Leaves(h)
  /\ \A c \in Chat : JobsOf(h, c) = {}

HomeInv ==
  /\ TopicsInv /\ plan \in Plans
  /\ Len(tg.topics) <= plan.topics
  /\ HomeOK(hub, tg.topics, past)
  /\ PumpedOK(hub)
  /\ FormOK(file) /\ \A c \in Chat : ~file.views[c].busy

-----------------------------------------------------------------------------
(* The hub before and after a part of a step.                              *)
LEMMA ViewTopic ==
  ASSUME NEW ts, NEW known, NEW gone, NEW h, HubOK(h, ts, known, gone), NEW c \in Chat,
         h.views[c].topic # 0
  PROVE  IsIn(ts, c, h.views[c].topic) /\ h.views[c].topic \in known
BY DEF HubOK, PlacesOK

LEMMA ChangeTopic ==
  ASSUME NEW ts, NEW known, NEW gone, NEW h, HubOK(h, ts, known, gone), NEW k \in h.calls,
         k.kind \in {"edit", "separator"}
  PROVE  /\ IsIn(ts, k.chat, k.topic) /\ k.topic # 0 /\ k.topic \in known
         /\ \A c \in Chat : h.views[c].topic = k.topic => c = k.chat
BY ZeroIsNone, ViewTopic DEF HubOK, CallsOK, CallOK, IsIn

(* Views as they were, gone or not busy any more, and calls as they were   *)
(* or ended.                                                               *)
LEMMA AlikeIsRight ==
  ASSUME NEW ts, NEW known, NEW gone, NEW p, NEW h, HubOK(h, ts, known, gone), HomeOK(h, ts, p),
         NEW h2, HubOK(h2, ts, known, gone), FormOK(h2), h2.session = h.session,
         h2.cleanup \subseteq h.cleanup,
         \A k \in h2.calls : k \in h.calls \/ k.kind \notin Changes,
         \A c \in Chat :
           \/ h2.views[c].topic = 0 /\ ~h2.views[c].busy
           \/ /\ h2.views[c].topic = h.views[c].topic
              /\ h2.views[c].pending = h.views[c].pending
              /\ h2.views[c].applied = h.views[c].applied
              /\ h2.views[c].busy = h.views[c].busy
              /\ \A k \in h.calls :
                   /\ k.kind \in Changes /\ k.chat = c
                   /\ k.kind # "create" => k.topic = h.views[c].topic
                   => k \in h2.calls
           \/ /\ h2.views[c].topic = h.views[c].topic /\ ~h2.views[c].busy
              /\ \A k \in h2.calls : k.kind \in {"edit", "separator"}
                                       => k.topic # h2.views[c].topic
              /\ ~p.lossy /\ h2.views[c].topic # 0 => SaysRight(h2, ts, p, h2.views[c])
  PROVE  HomeOK(h2, ts, p)
<1>1. \A k \in h2.calls : k.kind \in Changes => k \in h.calls OBVIOUS
<1>2. FlightOK(h, ts) /\ SaysOK(h, ts, p) BY DEF HomeOK
<1>3. BusyOK(h2)
  <2> SUFFICES ASSUME NEW c \in Chat, h2.views[c].busy
               PROVE  \E k \in h2.calls : /\ k.kind \in Changes /\ k.chat = c
                                          /\ k.kind # "create" => k.topic = h2.views[c].topic
    BY DEF BusyOK
  <2>. QED BY <1>2 DEF FlightOK, BusyOK
<1>4. \A k \in h2.calls : k.kind \in {"edit", "separator"} => k \in h.calls /\ k.topic # 0
  BY <1>1, ChangeTopic DEF Changes
<1>5. ChangesOK(h2) BY <1>2, <1>4 DEF FlightOK, ChangesOK
<1>6. SeparatorsOK(h2, ts) BY <1>2, <1>4 DEF FlightOK, SeparatorsOK
<1>7. MadeOK(h2, ts) BY <1>1, <1>2 DEF FlightOK, MadeOK, Changes
<1>8. SaysOK(h2, ts, p)
  <2>1. ASSUME NEW c \in Chat, ~p.lossy, h2.views[c].topic # 0
        PROVE  SaysRight(h2, ts, p, h2.views[c])
    <3> SUFFICES ASSUME /\ h2.views[c].topic = h.views[c].topic
                        /\ h2.views[c].pending = h.views[c].pending
                        /\ h2.views[c].applied = h.views[c].applied
                        /\ \A k \in h.calls :
                             /\ k.kind \in Changes /\ k.chat = c
                             /\ k.kind # "create" => k.topic = h.views[c].topic
                             => k \in h2.calls
                 PROVE  SaysRight(h2, ts, p, h2.views[c])
      BY <2>1
    <3>1. SaysRight(h, ts, p, h.views[c]) BY <1>2, <2>1 DEF SaysOK
    <3>2. \A k \in h.calls : k.kind = "edit" /\ k.topic = h.views[c].topic => k \in h2.calls
      BY ChangeTopic DEF Changes
    <3>3. LookRight(h2, ts, p, h2.views[c]) BY <3>1, <3>2 DEF SaysRight, LookRight
    <3>4. AboutRight(h2, ts, p, h2.views[c]) BY <3>1 DEF SaysRight, AboutRight
    <3>. QED BY <3>3, <3>4 DEF SaysRight
  <2>2. ASSUME NEW e \in h2.cleanup, ~p.lossy PROVE SaysRight(h2, ts, p, e.view)
    BY <1>2, <2>2 DEF SaysOK, FlightOK, ChangesOK, SaysRight, LookRight, AboutRight
  <2>. QED BY <2>1, <2>2 DEF SaysOK
<1>. QED BY <1>3, <1>5, <1>6, <1>7, <1>8 DEF HomeOK, FlightOK

(* The same with nothing of the calls ended.                               *)
LEMMA SameIsRight ==
  ASSUME NEW ts, NEW known, NEW gone, NEW p, NEW h, HubOK(h, ts, known, gone), HomeOK(h, ts, p),
         NEW h2, HubOK(h2, ts, known, gone), FormOK(h2), h2.session = h.session,
         h2.cleanup \subseteq h.cleanup, h.calls \subseteq h2.calls,
         \A k \in h2.calls : k \in h.calls \/ k.kind \notin Changes,
         \A c \in Chat :
           \/ h2.views[c].topic = 0 /\ ~h2.views[c].busy
           \/ /\ h2.views[c].topic = h.views[c].topic
              /\ h2.views[c].pending = h.views[c].pending
              /\ h2.views[c].applied = h.views[c].applied
              /\ h2.views[c].busy = h.views[c].busy
  PROVE  HomeOK(h2, ts, p)
BY AlikeIsRight

(* No view at all, and a new one.                                          *)
LEMMA EmptyForm ==
  /\ NoView.pending \in Lines /\ NewView.pending \in Lines
  /\ ~NoView.fallback /\ ~NewView.fallback /\ ~NoView.opening /\ ~NewView.opening
  /\ ~Shares(NoView.pending) /\ ~Shares(NewView.pending)
  /\ NoView.topic = 0 /\ NewView.topic = 0 /\ ~NoView.busy /\ ~NewView.busy
BY DEF NoView, NewView, Lines, Silent, Shares

(* A view without a topic takes the place of another.                      *)
LEMMA BlankIsRight ==
  ASSUME NEW ts, NEW known, NEW gone, NEW p, NEW h, HubOK(h, ts, known, gone), HomeOK(h, ts, p),
         NEW h2, HubOK(h2, ts, known, gone), NEW c \in Chat, NEW v,
         h2.views = [h.views EXCEPT ![c] = v], h2.calls = h.calls, h2.cleanup = h.cleanup,
         h2.session = h.session, h2.archived = h.archived,
         v.topic = 0, ~v.busy, v.pending \in Lines,
         c = "group" => /\ v.fallback => v.here
                        /\ v.fallback \/ h.archived => ~v.opening /\ ~Shares(v.pending)
  PROVE  HomeOK(h2, ts, p)
BY SameIsRight DEF HubOK, Hub, HomeOK, FormOK, Chat

LEMMA FallbackLeavesRight ==
  ASSUME NEW ts, NEW known, NEW gone, NEW p, NEW h, HubOK(h, ts, known, gone), HomeOK(h, ts, p)
  PROVE  HomeOK(WithoutFallback(h), ts, p)
<1> DEFINE h2 == [h EXCEPT !.views["group"] = NoView,
                           !.ended = @ \cup ({h.views["group"].topic} \ {0})]
<1>1. CASE ~Leaves(h) BY <1>1 DEF WithoutFallback
<1>2. CASE Leaves(h)
  <2>1. WithoutFallback(h) = h2 BY <1>2 DEF WithoutFallback
  <2>2. HubOK(h2, ts, known, gone) BY <2>1, WithoutFallbackIsFine DEF GoesOn
  <2>3. /\ h2.views = [h.views EXCEPT !["group"] = NoView] /\ h2.calls = h.calls
        /\ h2.cleanup = h.cleanup /\ h2.session = h.session /\ h2.archived = h.archived
    BY DEF HubOK, Hub
  <2> HIDE DEF h2
  <2>. QED BY <2>1, <2>2, <2>3, EmptyForm, BlankIsRight DEF Chat
<1>. QED BY <1>1, <1>2

(* What a pump sees to first.                                              *)
ShowsOK(h) ==
  /\ h.live /\ h.running /\ ~h.closed => h.views["private"].here
  /\ h.live => \E c \in Shown(h) : Usable(h, c)
  /\ ~Leaves(h)

LEMMA EnsuredIsRight ==
  ASSUME NEW ts, NEW known, NEW gone, NEW p, NEW h, HubOK(h, ts, known, gone), HomeOK(h, ts, p)
  PROVE  HomeOK(Ensured(h), ts, p) /\ ShowsOK(Ensured(h))
<1> DEFINE h1 == WithPrivate(h)
           h2 == WithGroup(h1)
           h3 == WithoutFallback(h2)
           v  == [NewView EXCEPT !.fallback = TRUE]
<1>0. h \in Hub /\ h.views \in [Chat -> View] BY DEF HubOK, Hub
<1>1. \/ h1 = h
      \/ h.live /\ ~h.views["private"].here /\ h1 = [h EXCEPT !.views["private"] = NewView]
  BY DEF WithPrivate
<1>2. h1.live /\ h1.running /\ ~h1.closed => h1.views["private"].here
  BY <1>0, NewViews DEF WithPrivate, Hub, Chat
<1>3. HubOK(h1, ts, known, gone) /\ HomeOK(h1, ts, p)
  <2>1. CASE h1 = h BY <2>1
  <2>2. CASE h.live /\ ~h.views["private"].here /\ h1 = [h EXCEPT !.views["private"] = NewView]
    <3>1. HubOK(h1, ts, known, gone)
      <4> HIDE DEF h1
      <4>. QED BY <2>2, NewViewIsFine, NewViews DEF Chat, GoesOn
    <3>2. /\ h1.views = [h.views EXCEPT !["private"] = NewView] /\ h1.calls = h.calls
          /\ h1.cleanup = h.cleanup /\ h1.session = h.session /\ h1.archived = h.archived
      BY <1>0, <2>2 DEF Hub
    <3> HIDE DEF h1
    <3>. QED BY <3>1, <3>2, EmptyForm, BlankIsRight DEF Chat
  <2>. QED BY <1>1, <2>1, <2>2
<1> HIDE DEF h1
<1>a. h1 \in Hub /\ h1.views \in [Chat -> View] BY <1>3 DEF HubOK, Hub
<1>b. v \in View /\ v.here /\ v.topic = 0 /\ ~v.busy /\ v.pending \in Lines /\ ~v.opening
      /\ ~Shares(v.pending)
  BY NewViews, EmptyForm DEF View
<1>4. \/ h2 = h1 /\ (h1.live => \E c \in Shown(h1) : Usable(h1, c))
      \/ h1.live /\ ~h1.views["group"].here /\ h2 = [h1 EXCEPT !.views["group"] = v]
  BY DEF WithGroup, Shown, Usable, Chat
<1> HIDE DEF v, h2
<1>5. /\ HubOK(h2, ts, known, gone) /\ HomeOK(h2, ts, p)
      /\ h2.live /\ h2.running /\ ~h2.closed => h2.views["private"].here
      /\ h2.live => \E c \in Shown(h2) : Usable(h2, c)
  BY <1>2, <1>3, <1>b, NewViewIsFine, <1>a, BlankIsRight, <1>4 DEF Chat, GoesOn, Hub, Shown,
     Usable
<1>6. HomeOK(h3, ts, p) BY <1>5, FallbackLeavesRight
<1>7. ShowsOK(h3)
  <2>1. CASE ~Leaves(h2) BY <1>5, <2>1 DEF WithoutFallback, ShowsOK
  <2>2. CASE Leaves(h2)
    <3>1. /\ h3.views = [h2.views EXCEPT !["group"] = NoView] /\ h3.live = h2.live
          /\ h3.running = h2.running /\ h3.closed = h2.closed /\ h2.views \in [Chat -> View]
      BY <1>5, <2>2 DEF WithoutFallback, HubOK, Hub
    <3> HIDE DEF h3
    <3>2. h3.views["private"] = h2.views["private"] /\ ~h3.views["group"].here
      BY <3>1, NewViews DEF Chat
    <3>3. h2.views["private"].here /\ Usable(h2, "private")
      BY <1>5, <2>2 DEF Leaves, AtHome, Ready, HubOK, PlacesOK, Chat
    <3>. QED BY <3>1, <3>2, <3>3 DEF ShowsOK, Shown, Usable, Leaves, Chat
  <2>. QED BY <2>1, <2>2
<1>. QED BY <1>6, <1>7 DEF Ensured, h1, h2

(* The views as they are, and calls that change no topic.                  *)
LEMMA CallsAreRight ==
  ASSUME NEW ts, NEW known, NEW gone, NEW p, NEW h, HubOK(h, ts, known, gone), HomeOK(h, ts, p),
         NEW h2, HubOK(h2, ts, known, gone), h2.views = h.views, h2.session = h.session,
         h2.archived = h.archived, h2.cleanup \subseteq h.cleanup, h.calls \subseteq h2.calls,
         \A k \in h2.calls : k \in h.calls \/ k.kind \notin Changes
  PROVE  HomeOK(h2, ts, p)
BY SameIsRight DEF HomeOK, FormOK

LEMMA ShowsSame ==
  ASSUME NEW h, ShowsOK(h), NEW h2, h2.views = h.views, h2.live = h.live,
         h2.running = h.running, h2.closed = h.closed, h2.proven = h.proven
  PROVE  ShowsOK(h2)
BY DEF ShowsOK, Shown, Usable, Leaves, AtHome, Ready

LEMMA DeletesAreRight ==
  ASSUME NEW ts, NEW known, NEW gone, NEW p, NEW h, HubOK(h, ts, known, gone), HomeOK(h, ts, p),
         ShowsOK(h)
  PROVE  HomeOK(DeleteUnshared(h), ts, p) /\ ShowsOK(DeleteUnshared(h))
<1> DEFINE due == h.unshared \ (h.deleting \cup h.later)
           new == {CallOf("delete", "group", t, <<>>, <<>>) : t \in due}
           h2  == DeleteUnshared(h)
<1>1. \A k \in new : k.kind \notin Changes BY DEF CallOf, Changes
<1>2. /\ h2.views = h.views /\ h2.session = h.session /\ h2.archived = h.archived
      /\ h2.cleanup = h.cleanup /\ h2.calls \in {h.calls, h.calls \cup new}
      /\ h2.live = h.live /\ h2.running = h.running /\ h2.closed = h.closed
      /\ h2.proven = h.proven
  BY DEF HubOK, Hub, DeleteUnshared
<1>3. HubOK(h2, ts, known, gone) BY DeleteUnsharedIsFine DEF GoesOn
<1> HIDE DEF h2, new
<1>4. HomeOK(h2, ts, p) BY <1>1, <1>2, <1>3, CallsAreRight
<1>5. ShowsOK(h2) BY <1>2, ShowsSame
<1>. QED BY <1>4, <1>5 DEF h2

LEMMA CleanedInIsRight ==
  ASSUME NEW ts, NEW known, NEW gone, NEW p, NEW h, HubOK(h, ts, known, gone), HomeOK(h, ts, p),
         ShowsOK(h), NEW c \in Chat
  PROVE  HomeOK(CleanedIn(h, c), ts, p) /\ ShowsOK(CleanedIn(h, c))
<1> DEFINE k(t) == CallOf("clean", c, t, <<>>, <<>>)
           h2   == CleanedIn(h, c)
<1>1. \A t : k(t).kind \notin Changes BY DEF CallOf, Changes
<1> HIDE DEF k
<1>2. /\ h2.views = h.views /\ h2.session = h.session /\ h2.archived = h.archived
      /\ h2.cleanup \subseteq h.cleanup
      /\ h2.calls = h.calls \/ \E t : h2.calls = h.calls \cup {k(t)}
      /\ h2.live = h.live /\ h2.running = h.running /\ h2.closed = h.closed
      /\ h2.proven = h.proven
  <2> DEFINE t  == Min({e.view.topic : e \in Queued(h, c)})
             h3 == [h EXCEPT !.flying[c] = t]
  <2>1. \/ h2 = h
        \/ h2 = [h EXCEPT !.cleanup = @ \ Queued(h, c),
                          !.ended = @ \cup {e.view.topic : e \in Queued(h, c)}]
        \/ h2 = [h3 EXCEPT !.calls = @ \cup {k(t)}]
    BY DEF CleanedIn, Handed, k
  <2> HIDE DEF h2, t
  <2>. QED BY <2>1 DEF HubOK, Hub
<1>3. HubOK(h2, ts, known, gone) BY CleanedInIsFine DEF GoesOn
<1> HIDE DEF h2
<1>4. HomeOK(h2, ts, p) BY <1>1, <1>2, <1>3, CallsAreRight
<1>5. ShowsOK(h2) BY <1>2, ShowsSame
<1>. QED BY <1>4, <1>5 DEF h2

LEMMA JobIs ==
  ASSUME NEW h, NEW c, NEW k \in JobsOf(h, c)
  PROVE  /\ JobsOf(h, c) = {k} /\ k.chat = c /\ k.got = "none" /\ ~h.views[c].busy
         /\ \/ k.kind = "create" /\ h.views[c].topic = 0
            \/ k.kind = "edit" /\ k.topic = h.views[c].topic /\ k.topic # 0
            \/ /\ k.kind = "separator" /\ k.topic = h.views[c].topic /\ k.topic # 0
               /\ k.text = h.views[c].pending /\ k.text # <<>>
<1> DEFINE v  == h.views[c]
           k1 == CallOf("create", c, 0, <<>>, Wanted(h))
           k2 == CallOf("separator", c, v.topic, v.pending, <<>>)
           k3 == CallOf("edit", c, v.topic, <<>>, Wanted(h))
<1>1. /\ k1.kind = "create" /\ k1.chat = c /\ k1.got = "none"
      /\ k2.kind = "separator" /\ k2.chat = c /\ k2.got = "none" /\ k2.topic = v.topic
      /\ k2.text = v.pending
      /\ k3.kind = "edit" /\ k3.chat = c /\ k3.got = "none" /\ k3.topic = v.topic
  BY DEF CallOf
<1>2. /\ ~v.busy
      /\ \/ v.topic = 0 /\ JobsOf(h, c) = {k1}
         \/ v.topic # 0 /\ v.pending # <<>> /\ JobsOf(h, c) = {k2}
         \/ v.topic # 0 /\ JobsOf(h, c) = {k3}
  BY DEF JobsOf
<1> HIDE DEF k1, k2, k3
<1>. QED BY <1>1, <1>2

LEMMA WorkIsRight ==
  ASSUME NEW ts, NEW known, NEW gone, NEW p, NEW h, HubOK(h, ts, known, gone), HomeOK(h, ts, p),
         ShowsOK(h)
  PROVE  HomeOK(TopicWork(h), ts, p) /\ PumpedOK(TopicWork(h))
<1> DEFINE J(c) == JobsOf(h, c)
           new == UNION {J(c) : c \in Chat}
           h2  == TopicWork(h)
<1>0. h \in Hub /\ h.views \in [Chat -> View] BY DEF HubOK, Hub
<1>1. /\ h2.session = h.session /\ h2.archived = h.archived /\ h2.cleanup = h.cleanup
      /\ h2.live = h.live /\ h2.running = h.running /\ h2.closed = h.closed
      /\ h2.proven = h.proven /\ h2.edits = h.edits /\ h2.calls = h.calls \cup new
      /\ h2.views = [c \in Chat |-> [h.views[c] EXCEPT !.busy = @ \/ J(c) # {}]]
  BY <1>0 DEF TopicWork, Hub
<1>2. \A k : k \in new <=> \E c \in Chat : k \in J(c) OBVIOUS
<1> HIDE DEF h2, new
<1>3. \A c \in Chat : /\ h2.views[c] = [h.views[c] EXCEPT !.busy = @ \/ J(c) # {}]
                      /\ h2.views[c].topic = h.views[c].topic
                      /\ h2.views[c].pending = h.views[c].pending
                      /\ h2.views[c].applied = h.views[c].applied
                      /\ h2.views[c].fallback = h.views[c].fallback
                      /\ h2.views[c].opening = h.views[c].opening
                      /\ h2.views[c].here = h.views[c].here
                      /\ h2.views[c].failed = h.views[c].failed
                      /\ h2.views[c].busy = (h.views[c].busy \/ J(c) # {})
  BY <1>0, <1>1 DEF View
<1>4. \A c \in Chat : \A k \in J(c) :
        /\ J(c) = {k} /\ k.chat = c /\ k.got = "none" /\ ~h.views[c].busy
        /\ \/ k.kind = "create" /\ h.views[c].topic = 0
           \/ k.kind = "edit" /\ k.topic = h.views[c].topic /\ k.topic # 0
           \/ /\ k.kind = "separator" /\ k.topic = h.views[c].topic /\ k.topic # 0
              /\ k.text = h.views[c].pending /\ k.text # <<>>
  BY JobIs
<1> HIDE DEF J
<1>5. FormOK(h) /\ FlightOK(h, ts) /\ SaysOK(h, ts, p) BY DEF HomeOK
<1>6. FormOK(h2) BY <1>1, <1>3, <1>5 DEF FormOK, Chat
<1>7. BusyOK(h2)
  <2> SUFFICES ASSUME NEW c \in Chat, h2.views[c].busy
               PROVE  \E k \in h2.calls : /\ k.kind \in Changes /\ k.chat = c
                                          /\ k.kind # "create" => k.topic = h2.views[c].topic
    BY DEF BusyOK
  <2>1. CASE h.views[c].busy BY <1>1, <1>3, <1>5, <2>1 DEF FlightOK, BusyOK
  <2>2. CASE J(c) # {}
    <3>1. PICK k \in J(c) : TRUE BY <2>2
    <3>2. k \in h2.calls /\ k.chat = c /\ k.kind \in Changes
      BY <1>1, <1>2, <1>4, <3>1 DEF Changes
    <3>3. k.kind # "create" => k.topic = h.views[c].topic BY <1>4, <3>1
    <3>4. h2.views[c].topic = h.views[c].topic BY <1>3
    <3>. QED BY <3>2, <3>3, <3>4
  <2>. QED BY <1>3, <2>1, <2>2
<1>8. ASSUME NEW k \in new, k.kind \in {"edit", "separator"}
      PROVE  \E c \in Chat : /\ k \in J(c) /\ k.topic = h.views[c].topic /\ k.topic # 0
                             /\ \A d \in Chat : h.views[d].topic = k.topic => d = c
  <2>1. PICK c \in Chat : k \in J(c) BY <1>2
  <2>2. k.topic = h.views[c].topic /\ k.topic # 0 BY <1>4, <1>8, <2>1
  <2>. QED BY <2>1, <2>2, ViewTopic DEF IsIn
<1>9. ChangesOK(h2)
  <2> SUFFICES ASSUME NEW k \in h2.calls, k.kind \in {"edit", "separator"}
               PROVE  /\ \A c \in Chat : h.views[c].topic = k.topic => h2.views[c].busy
                      /\ \A e \in h.cleanup : e.view.topic # k.topic
                      /\ \A j \in h2.calls : j.kind \in {"edit", "separator"}
                                             /\ j.topic = k.topic => j = k
    BY <1>1, <1>3 DEF ChangesOK
  <2>1. CASE k \in h.calls
    <3>1. /\ \A c \in Chat : h.views[c].topic = k.topic => h.views[c].busy
          /\ \A e \in h.cleanup : e.view.topic # k.topic
          /\ \A j \in h.calls : j.kind \in {"edit", "separator"} /\ j.topic = k.topic => j = k
      BY <1>5, <2>1 DEF FlightOK, ChangesOK
    <3>2. ASSUME NEW j \in new, j.kind \in {"edit", "separator"} PROVE j.topic # k.topic
      <4>1. PICK c \in Chat : j \in J(c) /\ j.topic = h.views[c].topic BY <1>8, <3>2
      <4>. QED BY <1>4, <3>1, <4>1
    <3>. QED BY <1>1, <1>3, <3>1, <3>2
  <2>2. CASE k \in new
    <3>1. PICK c \in Chat : /\ k \in J(c) /\ k.topic = h.views[c].topic /\ k.topic # 0
                            /\ \A d \in Chat : h.views[d].topic = k.topic => d = c
      BY <1>8, <2>2
    <3>2. \A d \in Chat : h.views[d].topic = k.topic => h2.views[d].busy BY <1>3, <3>1
    <3>3. \A e \in h.cleanup : e.view.topic # k.topic BY <3>1 DEF HubOK, PlacesOK
    <3>4. ASSUME NEW j \in h2.calls, j.kind \in {"edit", "separator"}, j.topic = k.topic
          PROVE  j = k
      <4>1. j \notin h.calls BY <1>4, <1>5, <3>1, <3>4 DEF FlightOK, ChangesOK
      <4>2. PICK d \in Chat : j \in J(d) /\ j.topic = h.views[d].topic
        BY <1>1, <1>8, <3>4, <4>1
      <4>. QED BY <1>4, <3>1, <3>4, <4>2
    <3>. QED BY <3>2, <3>3, <3>4
  <2>. QED BY <1>1, <2>1, <2>2
<1>10. SeparatorsOK(h2, ts)
  <2> SUFFICES ASSUME NEW k \in h2.calls, k.kind = "separator"
               PROVE  /\ k.text \in Lines /\ k.text # <<>>
                      /\ k.text # <<ShareLine>> =>
                           /\ \A c \in Chat : h.views[c].topic = k.topic
                                                => h.views[c].pending \notin Silent
                           /\ k.got = "ok" => ts[k.topic].shows = Last(k.text)
    BY <1>3, ZenonT(60) DEF SeparatorsOK
  <2>1. CASE k \in h.calls BY <1>5, <2>1 DEF FlightOK, SeparatorsOK
  <2>2. CASE k \in new
    <3>1. PICK c \in Chat : /\ k \in J(c)
                            /\ \A d \in Chat : h.views[d].topic = k.topic => d = c
      BY <1>8, <2>2
    <3>2. k.text = h.views[c].pending /\ k.text # <<>> /\ k.got = "none" BY <1>4, <3>1
    <3>. QED BY <1>5, <3>1, <3>2 DEF FormOK, Silent
  <2>. QED BY <1>1, <2>1, <2>2
<1>11. MadeOK(h2, ts) BY <1>1, <1>2, <1>4, <1>5 DEF FlightOK, MadeOK
<1>12. SaysOK(h2, ts, p)
  <2>1. ASSUME NEW v, SaysRight(h, ts, p, v), NEW w, w.topic = v.topic,
               w.pending = v.pending, w.applied = v.applied
        PROVE  SaysRight(h2, ts, p, w)
    BY <1>1, <2>1 DEF SaysRight, LookRight, AboutRight
  <2>. QED BY <1>1, <1>3, <1>5, <2>1 DEF SaysOK
<1>13. ShowsOK(h2) BY <1>1, <1>3 DEF ShowsOK, Shown, Usable, Leaves, AtHome, Ready, Chat
<1>14. \A c \in Chat : JobsOf(h2, c) = {}
  <2> SUFFICES ASSUME NEW c \in Chat, J(c) = {} PROVE JobsOf(h2, c) = {}
    BY <1>3 DEF JobsOf
  <2>1. h2.views[c] = h.views[c]
    <3> DEFINE b == h.views[c].busy \/ J(c) # {}
    <3>1. h2.views[c] = [h.views[c] EXCEPT !.busy = b] /\ h.views[c] \in View
      BY <1>0, <1>3
    <3>2. b = h.views[c].busy BY <3>1 DEF View
    <3> HIDE DEF b
    <3>. QED BY <3>1, <3>2 DEF View
  <2>2. Wanted(h2) = Wanted(h) /\ Usable(h2, c) = Usable(h, c) BY <1>1 DEF Wanted, Usable
  <2>. QED BY <1>1, <2>1, <2>2 DEF JobsOf, J
<1>. QED BY <1>6, <1>7, <1>9, <1>10, <1>11, <1>12, <1>13, <1>14
     DEF HomeOK, FlightOK, PumpedOK, ShowsOK, h2

LEMMA PumpIsRight ==
  ASSUME NEW ts, NEW known, NEW gone, NEW p, NEW h, HubOK(h, ts, known, gone), HomeOK(h, ts, p)
  PROVE  HomeOK(Pump(h), ts, p) /\ PumpedOK(Pump(h))
<1> DEFINE h1 == Ensured(h)
           h2 == DeleteUnshared(h1)
           h3 == CleanedIn(h2, "private")
           h4 == CleanedIn(h3, "group")
<1>1. HubOK(h1, ts, known, gone) /\ HomeOK(h1, ts, p) /\ ShowsOK(h1)
  BY EnsuredIsFine, EnsuredIsRight DEF GoesOn
<1> HIDE DEF h1
<1>2. HubOK(h2, ts, known, gone) /\ HomeOK(h2, ts, p) /\ ShowsOK(h2)
  BY <1>1, DeleteUnsharedIsFine, DeletesAreRight DEF GoesOn
<1> HIDE DEF h2
<1>3. HubOK(h3, ts, known, gone) /\ HomeOK(h3, ts, p) /\ ShowsOK(h3)
  BY <1>2, CleanedInIsFine, CleanedInIsRight DEF GoesOn, Chat
<1> HIDE DEF h3
<1>4. HubOK(h4, ts, known, gone) /\ HomeOK(h4, ts, p) /\ ShowsOK(h4)
  BY <1>3, CleanedInIsFine, CleanedInIsRight DEF GoesOn, Chat
<1> HIDE DEF h4
<1>5. HomeOK(TopicWork(h4), ts, p) /\ PumpedOK(TopicWork(h4)) BY <1>4, WorkIsRight
<1>6. Pump(h) = TopicWork(h4) BY DEF Pump, DeleteCleaned, h1, h2, h3, h4
<1>. QED BY <1>5, <1>6

-----------------------------------------------------------------------------
(* Sessions, and what people do.                                           *)
LEMMA LinesAre ==
  ASSUME NEW text
  PROVE  /\ text \in Silent => text \in Lines
         /\ \A n \in Nat \ {0} : text \in Names(n) => /\ text \in Lines /\ text \notin Silent
                                                      /\ text \in Seq(Nat)
         /\ text \in Lines => text \in Silent \/ \E n \in Nat \ {0} : text \in Names(n)
         /\ text \in Lines => text \in Seq(Nat)
<1>1. ASSUME NEW n \in Nat \ {0}, text \in Names(n)
      PROVE  text \in Lines /\ text \notin Silent /\ text \in Seq(Nat)
  <2>1. text \in Lines BY <1>1 DEF Lines
  <2>2. text = <<n>> \/ text = <<0, n>> BY <1>1 DEF Names, ShareLine
  <2>3. text \in Seq(Nat) /\ text # <<>>
    <3>1. <<n>> \in Seq(Nat) /\ <<0, n>> \in Seq(Nat) /\ <<n>> # <<>> /\ <<0, n>> # <<>>
      OBVIOUS
    <3>. QED BY <2>2, <3>1
  <2>4. text # <<0>> BY <2>2
  <2>. QED BY <2>1, <2>3, <2>4 DEF Silent, ShareLine
<1>2. text \in Silent => text \in Lines /\ text \in Seq(Nat)
  <2>1. <<>> \in Seq(Nat) /\ <<ShareLine>> \in Seq(Nat) BY DEF ShareLine
  <2>. QED BY <2>1 DEF Lines, Silent
<1>3. text \in Lines => text \in Silent \/ \E n \in Nat \ {0} : text \in Names(n)
  BY DEF Lines
<1>. QED BY <1>1, <1>2, <1>3

LEMMA NameJoins ==
  ASSUME NEW text \in Lines, NEW n \in Nat \ {0}
  PROVE  LET t2 == IF text # <<>> /\ Head(text) = ShareLine THEN <<ShareLine, n>> ELSE <<n>>
         IN  t2 \in Names(n) /\ (Shares(t2) <=> Shares(text))
BY LinesAre DEF Names, Shares, ShareLine

LEMMA OccupiedIsRight ==
  ASSUME NEW ts, NEW known, NEW gone, NEW p, NEW h, HubOK(h, ts, known, gone), HomeOK(h, ts, p),
         NEW n \in Nat \ {0}, n \in {h.session, h.session + 1}, NEW p2,
         p2.lost = p.lost, p2.lossy = p.lossy, p2.since = p.since,
         n = h.session => p2.old = p.old,
         n # h.session => p2.old = {e.view.topic : e \in h.cleanup}
  PROVE  /\ HomeOK(Occupied(h, n), ts, p2)
         /\ Occupied(h, n).session = n
         /\ Occupied(h, n).views["group"].opening = h.views["group"].opening
         /\ Shares(Occupied(h, n).views["group"].pending) <=> Shares(h.views["group"].pending)
<1> DEFINE new(v) == [v EXCEPT !.pending = IF @ # <<>> /\ Head(@) = ShareLine
                                           THEN <<ShareLine, n>> ELSE <<n>>]
           vs == [c \in Chat |-> IF h.views[c].here THEN new(h.views[c]) ELSE h.views[c]]
           h1 == [h EXCEPT !.session = n]
           h2 == [[h EXCEPT !.views = vs] EXCEPT !.session = n]
           r  == Occupied(h, n)
<1>0. h \in Hub /\ h.views \in [Chat -> View] /\ h.session \in Nat BY DEF HubOK, Hub
<1>1. FormOK(h) /\ FlightOK(h, ts) /\ SaysOK(h, ts, p) BY DEF HomeOK
<1>2. HubOK(r, ts, known, gone) BY OccupiedIsFine DEF GoesOn
<1>3. CASE h.session \in {0, n}
  <2>1. r = h1 BY <1>3 DEF Occupied
  <2>2. /\ r.views = h.views /\ r.session = n /\ r.calls = h.calls /\ r.cleanup = h.cleanup
        /\ r.archived = h.archived
    BY <1>0, <2>1 DEF Hub
  <2> HIDE DEF r, h1
  <2>3. FormOK(r) BY <1>1, <2>2 DEF FormOK
  <2>4. FlightOK(r, ts)
    BY <1>1, <2>2 DEF FlightOK, BusyOK, ChangesOK, SeparatorsOK, MadeOK
  <2>5. SaysOK(r, ts, p2)
    BY <1>1, <2>2, <1>3 DEF SaysOK, SaysRight, LookRight, AboutRight, FormOK, HubOK, ArchiveOK
  <2>. QED BY <2>2, <2>3, <2>4, <2>5 DEF HomeOK, r
<1>4. CASE h.session \notin {0, n}
  <2>1. r = h2 BY <1>4 DEF Occupied, EachView
  <2>2. /\ r.views = vs /\ r.session = n /\ r.calls = h.calls /\ r.cleanup = h.cleanup
        /\ r.archived = h.archived
    BY <1>0, <2>1 DEF Hub
  <2>3. ASSUME NEW c \in Chat
        PROVE  /\ r.views[c].topic = h.views[c].topic /\ r.views[c].applied = h.views[c].applied
               /\ r.views[c].busy = h.views[c].busy /\ r.views[c].here = h.views[c].here
               /\ r.views[c].fallback = h.views[c].fallback
               /\ r.views[c].opening = h.views[c].opening
               /\ \/ r.views[c].pending \in Names(n)
                  \/ h.views[c].topic = 0 /\ r.views[c].pending = h.views[c].pending
               /\ r.views[c].pending \in Lines
               /\ Shares(r.views[c].pending) <=> Shares(h.views[c].pending)
    <3> DEFINE v == h.views[c]
               q == IF v.pending # <<>> /\ Head(v.pending) = ShareLine
                    THEN <<ShareLine, n>> ELSE <<n>>
    <3>1. v \in View /\ v.pending \in Lines BY <1>0, <1>1 DEF FormOK
    <3>2. CASE ~v.here BY <2>2, <3>2, <3>1 DEF HubOK, PlacesOK
    <3>3. CASE v.here
      <4>1. r.views[c] = [v EXCEPT !.pending = q] BY <2>2, <3>3
      <4>2. q \in Names(n) /\ (Shares(q) <=> Shares(v.pending)) BY <3>1, NameJoins
      <4> HIDE DEF q, v
      <4>3. q \in Lines BY <4>2, LinesAre
      <4>4. /\ r.views[c].pending = q /\ r.views[c].topic = v.topic
            /\ r.views[c].applied = v.applied /\ r.views[c].busy = v.busy
            /\ r.views[c].here = v.here /\ r.views[c].fallback = v.fallback
            /\ r.views[c].opening = v.opening
        BY <3>1, <4>1 DEF View
      <4>. QED BY <4>2, <4>3, <4>4 DEF v
    <3>. QED BY <3>2, <3>3
  <2> HIDE DEF r, h2, vs
  <2>4. FormOK(r) BY <1>1, <1>4, <2>2, <2>3 DEF FormOK, Chat
  <2>5. BusyOK(r) /\ ChangesOK(r) /\ MadeOK(r, ts)
    BY <1>1, <2>2, <2>3 DEF FlightOK, BusyOK, ChangesOK, MadeOK
  <2>6. SeparatorsOK(r, ts)
    <3>1. \A c \in Chat : /\ r.views[c].topic = h.views[c].topic
                          /\ h.views[c].pending \notin Silent => r.views[c].pending \notin Silent
      BY <2>3, LinesAre
    <3>. QED BY <1>1, <2>2, <3>1 DEF FlightOK, SeparatorsOK
  <2>7. SaysOK(r, ts, p2)
    BY <2>2, <2>3, <1>1, <1>4 DEF SaysOK, SaysRight, LookRight, AboutRight
  <2>. QED BY <2>2, <2>3, <2>4, <2>5, <2>6, <2>7 DEF HomeOK, FlightOK, Chat, r
<1>. QED BY <1>3, <1>4

LEMMA HomedIsRight ==
  ASSUME NEW ts, NEW known, NEW gone, NEW p, NEW h, HubOK(h, ts, known, gone), HomeOK(h, ts, p),
         ~h.archived, ~h.views["group"].opening, ~Shares(h.views["group"].pending)
  PROVE  HomeOK(Homed(h), ts, p)
<1> DEFINE vs == [private |-> NewView, group |-> NoView]
           h1 == [h EXCEPT !.views["group"].fallback = @ \/ h.views["group"].here]
           h2 == [h EXCEPT !.views = vs]
           r  == Homed(h)
<1>0. h \in Hub /\ h.views \in [Chat -> View] /\ FormOK(h) BY DEF HubOK, Hub, HomeOK
<1>1. HubOK(r, ts, known, gone) BY HomedIsFine DEF GoesOn
<1>2. r = h \/ r = h1 \/ r = h2 BY DEF Homed
<1>3. CASE r = h1
  <2>1. /\ r.views = [h.views EXCEPT !["group"].fallback = @ \/ h.views["group"].here]
        /\ r.calls = h.calls /\ r.cleanup = h.cleanup /\ r.session = h.session
        /\ r.archived = h.archived
    BY <1>0, <1>3 DEF Hub
  <2> HIDE DEF r, h1
  <2>2. \A c \in Chat : /\ r.views[c].topic = h.views[c].topic
                        /\ r.views[c].pending = h.views[c].pending
                        /\ r.views[c].applied = h.views[c].applied
                        /\ r.views[c].busy = h.views[c].busy
                        /\ r.views[c].opening = h.views[c].opening
                        /\ r.views[c].here = h.views[c].here
    BY <1>0, <2>1 DEF View, Chat
  <2>3. r.views["group"].fallback => r.views["group"].here
    BY <1>0, <2>1, <2>2 DEF FormOK, View, Chat
  <2>4. FormOK(r) BY <1>0, <2>1, <2>2, <2>3 DEF FormOK, Chat
  <2>. QED BY <1>1, <2>1, <2>2, <2>4, SameIsRight DEF r
<1>4. CASE r = h2
  <2>1. /\ r.views = vs /\ r.calls = h.calls /\ r.cleanup = h.cleanup /\ r.session = h.session
        /\ r.archived = h.archived
    BY <1>0, <1>4 DEF Hub
  <2> HIDE DEF r, h2
  <2>2. r.views["private"] = NewView /\ r.views["group"] = NoView BY <2>1
  <2>3. FormOK(r) BY <1>0, <2>1, <2>2, EmptyForm DEF FormOK, Chat
  <2>. QED BY <1>1, <2>1, <2>2, <2>3, EmptyForm, SameIsRight DEF Chat, r
<1>. QED BY <1>2, <1>3, <1>4

LEMMA StartIsRight ==
  ASSUME NEW ts, NEW known, NEW gone, NEW p, NEW h0, HubOK(h0, ts, known, gone),
         HomeOK(h0, ts, p),
         NEW n \in Nat \ {0}, n \in {h0.session, h0.session + 1}, NEW p2,
         p2.lost = p.lost, p2.lossy = p.lossy, p2.since = p.since,
         n = h0.session => p2.old = p.old,
         n # h0.session => p2.old = {e.view.topic : e \in h0.cleanup}
  PROVE  LET h == [Occupied(h0, n) EXCEPT !.live = TRUE, !.running = TRUE, !.archived = FALSE]
         IN  HomeOK(IF h0.archived THEN Homed(h) ELSE h, ts, p2)
<1> DEFINE h1 == Occupied(h0, n)
           h  == [h1 EXCEPT !.live = TRUE, !.running = TRUE, !.archived = FALSE]
<1>1. /\ HubOK(h1, ts, known, gone) /\ HomeOK(h1, ts, p2) /\ h1.session = n
      /\ h1.views["group"].opening = h0.views["group"].opening
      /\ Shares(h1.views["group"].pending) <=> Shares(h0.views["group"].pending)
  BY OccupiedIsFine, OccupiedIsRight DEF GoesOn
<1>2. h1 \in Hub BY <1>1 DEF HubOK
<1> HIDE DEF h1
<1>3. /\ h \in Hub /\ h.views = h1.views /\ h.calls = h1.calls /\ h.unshared = h1.unshared
      /\ h.cleanup = h1.cleanup /\ h.ended = h1.ended /\ ~h.archived /\ h.session = h1.session
  BY <1>2 DEF Hub
<1> HIDE DEF h
<1>4. HubOK(h, ts, known, gone) BY <1>1, <1>3, SameIsFine DEF GoesOn
<1>5. FormOK(h) BY <1>1, <1>3 DEF HomeOK, FormOK
<1>6. HomeOK(h, ts, p2) BY <1>1, <1>3, <1>4, <1>5, SameIsRight
<1>7. h0.archived => ~h.views["group"].opening /\ ~Shares(h.views["group"].pending)
  BY <1>1, <1>3 DEF HomeOK, FormOK
<1>8. h0.archived => HomeOK(Homed(h), ts, p2) BY <1>3, <1>4, <1>6, <1>7, HomedIsRight
<1>. QED BY <1>6, <1>8 DEF h, h1

(* What the hub knows of its chats, and how its slot goes.                 *)
LEMMA SameViewsAreRight ==
  ASSUME NEW ts, NEW known, NEW gone, NEW p, NEW h, HubOK(h, ts, known, gone), HomeOK(h, ts, p),
         NEW h2, HubOK(h2, ts, known, gone), h2.calls = h.calls, h2.cleanup = h.cleanup,
         h2.session = h.session, h2.archived = h.archived,
         \A c \in Chat : /\ h2.views[c].topic = h.views[c].topic
                         /\ h2.views[c].pending = h.views[c].pending
                         /\ h2.views[c].applied = h.views[c].applied
                         /\ h2.views[c].busy = h.views[c].busy
                         /\ h2.views[c].here = h.views[c].here
                         /\ h2.views[c].fallback = h.views[c].fallback
                         /\ h2.views[c].opening = h.views[c].opening
  PROVE  HomeOK(h2, ts, p)
BY SameIsRight DEF HomeOK, FormOK, Chat

LEMMA ReopenedIsRight ==
  ASSUME NEW ts, NEW known, NEW gone, NEW p, NEW h, HubOK(h, ts, known, gone), HomeOK(h, ts, p)
  PROVE  /\ HomeOK(Reopened(h), ts, p) /\ Reopened(h).archived = h.archived
<1> DEFINE f  == IF h.closed THEN {} ELSE h.views["private"].failed
           vs == [h.views EXCEPT !["private"].failed = f]
           h1 == [h EXCEPT !.proven = TRUE, !.closed = FALSE, !.views = vs]
<1>0. h \in Hub /\ h.views \in [Chat -> View] /\ "private" \in Chat
  BY DEF HubOK, Hub, Chat
<1>1. vs \in [Chat -> View]
  <2>1. f \in SUBSET Look BY <1>0 DEF View
  <2> HIDE DEF f
  <2>. QED BY <1>0, <2>1 DEF View
<1>2. \A c \in Chat : /\ vs[c].topic = h.views[c].topic /\ vs[c].here = h.views[c].here
                      /\ vs[c].busy = h.views[c].busy /\ vs[c].pending = h.views[c].pending
                      /\ vs[c].applied = h.views[c].applied
                      /\ vs[c].fallback = h.views[c].fallback
                      /\ vs[c].opening = h.views[c].opening
  BY <1>0 DEF View, Chat
<1>3. Reopened(h) = WithoutFallback(h1) BY <1>0 DEF Hub, Reopened
<1> HIDE DEF vs
<1>4. /\ h1 \in Hub /\ h1.calls = h.calls /\ h1.unshared = h.unshared
      /\ h1.cleanup = h.cleanup /\ h1.ended = h.ended /\ h1.session = h.session
      /\ h1.live = h.live /\ h1.archived = h.archived /\ h1.views = vs
  BY <1>0, <1>1 DEF Hub
<1> HIDE DEF h1
<1>5. HubOK(h1, ts, known, gone) BY <1>2, <1>4, SameIsFine DEF HubOK, ArchiveOK, GoesOn
<1>6. HomeOK(h1, ts, p) BY <1>2, <1>4, <1>5, SameViewsAreRight
<1>7. HomeOK(WithoutFallback(h1), ts, p) BY <1>5, <1>6, FallbackLeavesRight
<1>8. WithoutFallback(h1).archived = h1.archived BY <1>4 DEF WithoutFallback, Hub
<1>. QED BY <1>3, <1>4, <1>7, <1>8

LEMMA RevivedIsRight ==
  ASSUME NEW ts, NEW known, NEW gone, NEW p, NEW h, HubOK(h, ts, known, gone), HomeOK(h, ts, p),
         NEW t
  PROVE  HomeOK(Revived(h, t), ts, p)
<1> DEFINE all == {e \in Queued(h, "private") : e.view.topic = t}
           e   == CHOOSE x \in all : TRUE
           v   == [e.view EXCEPT !.busy = FALSE, !.failed = {}]
           vs  == [private |-> v, group |-> NoView]
           h2  == [h EXCEPT !.cleanup = @ \ all, !.archived = FALSE, !.views = vs]
<1>0. /\ h \in Hub /\ h.views \in [Chat -> View] /\ h.cleanup \subseteq [chat : Chat, view : View]
      /\ FormOK(h) /\ FlightOK(h, ts) /\ SaysOK(h, ts, p)
  BY DEF HubOK, Hub, HomeOK
<1>1. CASE Revived(h, t) = h BY <1>1
<1>2. CASE all # {} /\ Revived(h, t) = h2
  <2>1. e \in h.cleanup /\ e.view.topic = t /\ e.view \in View
    <3>1. e \in all BY <1>2
    <3> HIDE DEF e
    <3>. QED BY <1>0, <3>1 DEF Queued
  <2> HIDE DEF e, all
  <2>3. /\ v.topic = t /\ ~v.busy /\ v.pending = e.view.pending /\ v.applied = e.view.applied
    BY <2>1 DEF View
  <2> HIDE DEF v
  <2>4. vs["private"] = v /\ vs["group"] = NoView OBVIOUS
  <2> HIDE DEF vs
  <2>5. /\ h2.calls = h.calls /\ h2.cleanup \subseteq h.cleanup /\ ~h2.archived
        /\ h2.views = vs /\ h2.session = h.session
    BY <1>0 DEF Hub
  <2> HIDE DEF h2
  <2>6. h2.views["private"] = v /\ h2.views["group"] = NoView BY <2>4, <2>5
  <2>7. FormOK(h2) BY <1>0, <2>1, <2>3, <2>5, <2>6, EmptyForm DEF FormOK, Chat
  <2>8. BusyOK(h2) BY <2>3, <2>6, EmptyForm DEF BusyOK, Chat
  <2>9. ASSUME NEW k \in h2.calls, k.kind \in {"edit", "separator"}
        PROVE  k \in h.calls /\ \A c \in Chat : h2.views[c].topic # k.topic
    BY <1>0, <2>1, <2>5, <2>9, ChangeTopic, <2>3, <2>6, EmptyForm DEF FlightOK, ChangesOK, Chat
  <2>10. ChangesOK(h2) BY <1>0, <2>5, <2>9 DEF FlightOK, ChangesOK
  <2>11. SeparatorsOK(h2, ts) /\ MadeOK(h2, ts)
    BY <1>0, <2>5, <2>9 DEF FlightOK, SeparatorsOK, MadeOK
  <2>12. SaysOK(h2, ts, p)
    BY <2>5, <1>0, <2>1, <2>3, <2>6, EmptyForm DEF SaysRight, LookRight, AboutRight, SaysOK, Chat
  <2>. QED BY <1>2, <2>7, <2>8, <2>10, <2>11, <2>12 DEF HomeOK, FlightOK
<1>. QED BY <1>1, <1>2 DEF Revived

LEMMA SharedIsRight ==
  ASSUME NEW ts, NEW known, NEW gone, NEW p, NEW h, HubOK(h, ts, known, gone), HomeOK(h, ts, p),
         ~h.archived
  PROVE  HomeOK(Shared(h), ts, p) /\ Shared(h).archived = h.archived
<1> DEFINE v  == h.views["group"]
           w1 == [NewView EXCEPT !.opening = TRUE]
           w2 == [v EXCEPT !.fallback = FALSE, !.pending = <<ShareLine>> \o @]
           w3 == [v EXCEPT !.fallback = FALSE, !.opening = TRUE]
           r  == Shared(h)
           Now(w) == r = [h EXCEPT !.views["group"] = w]
<1>0. h \in Hub /\ h.views \in [Chat -> View] /\ v \in View /\ "group" \in Chat
  BY DEF HubOK, Hub, Chat
<1>1. HubOK(r, ts, known, gone) /\ FormOK(h) /\ FlightOK(h, ts) /\ SaysOK(h, ts, p)
  BY SharedIsFine DEF GoesOn, HomeOK
<1>2. \/ r = h
      \/ ~v.here /\ Now(w1)
      \/ v.fallback /\ v.topic # 0 /\ Now(w2)
      \/ v.fallback /\ v.topic = 0 /\ Now(w3)
  <2>1. [h EXCEPT !.views["group"].fallback = FALSE,
                  !.views["group"].pending = <<ShareLine>> \o @]
          = [h EXCEPT !.views["group"] = w2]
    BY <1>0 DEF Hub, View
  <2>2. [h EXCEPT !.views["group"].fallback = FALSE, !.views["group"].opening = TRUE]
          = [h EXCEPT !.views["group"] = w3]
    BY <1>0 DEF Hub, View
  <2>. QED BY <2>1, <2>2 DEF Shared
<1>3. ASSUME NEW w, Now(w)
      PROVE  /\ r.views = [h.views EXCEPT !["group"] = w] /\ r.calls = h.calls
             /\ r.cleanup = h.cleanup /\ r.session = h.session /\ r.archived = h.archived
             /\ r.views["group"] = w /\ r.views["private"] = h.views["private"]
  <2>1. /\ r.views = [h.views EXCEPT !["group"] = w] /\ r.calls = h.calls
        /\ r.cleanup = h.cleanup /\ r.session = h.session /\ r.archived = h.archived
    BY <1>0, <1>3 DEF Hub
  <2> HIDE DEF r
  <2>. QED BY <1>0, <2>1 DEF Chat
<1>4. CASE r = h BY <1>4
<1>5. CASE ~v.here /\ Now(w1)
  <2>1. w1.topic = 0 /\ ~w1.busy /\ w1.pending \in Lines /\ ~w1.fallback
    BY EmptyForm, NewViews DEF View
  <2> HIDE DEF w1
  <2>2. /\ r.views = [h.views EXCEPT !["group"] = w1] /\ r.calls = h.calls
        /\ r.cleanup = h.cleanup /\ r.session = h.session /\ r.archived = h.archived
    BY <1>3, <1>5
  <2> HIDE DEF Now, r
  <2>3. HomeOK(r, ts, p) BY <1>0, <1>1, <2>1, <2>2, BlankIsRight
  <2>. QED BY <2>2, <2>3 DEF r
<1>6. CASE v.fallback /\ v.topic = 0 /\ Now(w3)
  <2>1. /\ w3.topic = 0 /\ w3.busy = v.busy /\ w3.pending = v.pending /\ ~w3.fallback
        /\ w3.applied = v.applied
    BY <1>0, <1>6 DEF View
  <2> HIDE DEF w3, r
  <2>2. FormOK(r) BY <1>1, <1>3, <1>6, <2>1 DEF FormOK, Chat
  <2>3. \A c \in Chat : /\ r.views[c].topic = h.views[c].topic
                        /\ r.views[c].pending = h.views[c].pending
                        /\ r.views[c].applied = h.views[c].applied
                        /\ r.views[c].busy = h.views[c].busy
    BY <1>3, <1>6, <2>1 DEF Chat
  <2>. QED BY <1>1, <1>3, <1>6, <2>2, <2>3, SameIsRight DEF r
<1>7. CASE v.fallback /\ v.topic # 0 /\ Now(w2)
  <2>1. /\ w2.topic = v.topic /\ w2.busy = v.busy /\ ~w2.fallback
        /\ w2.applied = v.applied /\ w2.pending = <<ShareLine>> \o v.pending
    BY <1>0, <1>7 DEF View
  <2>2. /\ w2.pending \in Lines
        /\ v.pending \notin Silent => w2.pending \notin Silent
        /\ v.pending \in Silent => w2.pending \in Silent
        /\ v.pending \in Names(h.session) => w2.pending \in Names(h.session)
    <3>1. v.pending \in Lines /\ ~Shares(v.pending) BY <1>1, <1>7 DEF FormOK, Chat
    <3>2. v.pending = <<>> \/ \E n \in Nat \ {0} : v.pending = <<n>>
      BY <3>1 DEF Lines, Silent, Names, Shares
    <3>3. CASE v.pending = <<>> BY <2>1, <3>3, LinesAre DEF Names, Silent
    <3>4. ASSUME NEW n \in Nat \ {0}, v.pending = <<n>>
          PROVE  /\ w2.pending \in Lines /\ v.pending \notin Silent /\ w2.pending \notin Silent
                 /\ v.pending \in Names(h.session) => w2.pending \in Names(h.session)
      <4>1. w2.pending = <<ShareLine, n>>
        <5>1. <<ShareLine>> \o <<n>> = <<ShareLine, n>>
          <6> DEFINE a == <<0>>
                     b == <<n>>
                     c == <<0, n>>
          <6>1. a \in Seq(Nat) /\ b \in Seq(Nat) /\ c \in Seq(Nat) OBVIOUS
          <6>2. /\ Len(a) = 1 /\ Len(b) = 1 /\ Len(c) = 2
                /\ a[1] = 0 /\ b[1] = n /\ c[1] = 0 /\ c[2] = n
            OBVIOUS
          <6> HIDE DEF a, b, c
          <6>3. /\ a \o b \in Seq(Nat) /\ Len(a \o b) = 2
                /\ (a \o b)[1] = 0 /\ (a \o b)[2] = n
            <7>1. /\ a \o b \in Seq(Nat) /\ Len(a \o b) = Len(a) + Len(b)
                  /\ \A i \in 1 .. Len(a) + Len(b) :
                       (a \o b)[i] = IF i <= Len(a) THEN a[i] ELSE b[i - Len(a)]
              BY <6>1, ConcatProperties
            <7>. QED BY <6>2, <7>1
          <6>4. \A i \in 1 .. Len(a \o b) : (a \o b)[i] = c[i] BY <6>2, <6>3
          <6>5. a \o b = c BY <6>1, <6>2, <6>3, <6>4, SeqEqual
          <6>. QED BY <6>5 DEF a, b, c, ShareLine
        <5>. QED BY <2>1, <3>4, <5>1
      <4>2. w2.pending \in Names(n) /\ v.pending \in Names(n) BY <3>4, <4>1 DEF Names
      <4>3. v.pending \in Names(h.session) => h.session = n BY <3>4 DEF Names, ShareLine
      <4>. QED BY <4>2, <4>3, LinesAre
    <3>. QED BY <3>2, <3>3, <3>4
  <2> HIDE DEF w2
  <2>a. /\ r.calls = h.calls /\ r.cleanup = h.cleanup /\ r.session = h.session
        /\ r.archived = h.archived
        /\ r.views["group"] = w2 /\ r.views["private"] = h.views["private"]
    BY <1>3, <1>7
  <2> HIDE DEF Now, r
  <2>3. \A c \in Chat :
          /\ r.views[c].topic = h.views[c].topic /\ r.views[c].applied = h.views[c].applied
          /\ r.views[c].busy = h.views[c].busy
          /\ h.views[c].pending \notin Silent => r.views[c].pending \notin Silent
          /\ h.views[c].pending \in Silent => r.views[c].pending \in Silent
          /\ h.views[c].pending \in Names(h.session) => r.views[c].pending \in Names(h.session)
    BY <2>1, <2>2, <2>a DEF Chat
  <2>4. FormOK(r) BY <1>1, <2>2, <2>a, <2>1 DEF FormOK, Chat
  <2>5. FlightOK(r, ts)
    BY <1>1, <2>3, <2>a DEF FlightOK, BusyOK, ChangesOK, SeparatorsOK, MadeOK
  <2>6. SaysOK(r, ts, p) BY <2>a, <2>3, <1>1 DEF SaysRight, LookRight, AboutRight, SaysOK
  <2>. QED BY <2>4, <2>5, <2>6, <2>a DEF HomeOK, r
<1> HIDE DEF r
<1>. QED BY <1>2, <1>4, <1>5, <1>6, <1>7 DEF r

LEMMA UnsharedIsRight ==
  ASSUME NEW ts, NEW known, NEW gone, NEW p, NEW h, HubOK(h, ts, known, gone), HomeOK(h, ts, p)
  PROVE  HomeOK(Unshared(h), ts, p)
<1> DEFINE h2 == [h EXCEPT !.views["group"] = NoView,
                           !.unshared = @ \cup ({h.views["group"].topic} \ {0})]
<1>1. Unshared(h) = h \/ Unshared(h) = h2 BY DEF Unshared
<1>2. CASE Unshared(h) = h2
  <2>1. HubOK(h2, ts, known, gone) BY <1>2, UnsharedIsFine DEF GoesOn
  <2>2. /\ h2.views = [h.views EXCEPT !["group"] = NoView] /\ h2.calls = h.calls
        /\ h2.cleanup = h.cleanup /\ h2.session = h.session /\ h2.archived = h.archived
    BY DEF HubOK, Hub
  <2> HIDE DEF h2
  <2>. QED BY <1>2, <2>1, <2>2, EmptyForm, BlankIsRight DEF Chat
<1>. QED BY <1>1, <1>2

(* Topics that are archived are those of views that nothing changes.       *)
LEMMA ArchivedIsRight ==
  ASSUME NEW ts, NEW known, NEW gone, NEW p, NEW h, HubOK(h, ts, known, gone), HomeOK(h, ts, p),
         ~h.archived, \A c \in Shown(h) : ~h.views[c].busy
  PROVE  HomeOK(Archived(h), ts, p)
<1> DEFINE some == {c \in Shown(h) : h.views[c].topic # 0 /\ Deletable(h, c)}
           new == {[chat |-> c, view |-> h.views[c]] : c \in some}
           vs  == [private |-> NoView, group |-> NewView]
           r   == Archived(h)
<1>0. /\ h \in Hub /\ h.views \in [Chat -> View]
      /\ FormOK(h) /\ FlightOK(h, ts) /\ SaysOK(h, ts, p)
  BY DEF HubOK, Hub, HomeOK
<1>1. /\ r.views = vs /\ r.calls = h.calls /\ r.cleanup = h.cleanup \cup new
      /\ r.session = h.session
  BY <1>0 DEF Hub, Archived
<1>2. ASSUME NEW e \in new
      PROVE  \E c \in Chat : /\ e.view = h.views[c] /\ h.views[c].topic # 0
                             /\ ~h.views[c].busy
  BY DEF Shown
<1> HIDE DEF r, new, some
<1>3. r.views["private"] = NoView /\ r.views["group"] = NewView BY <1>1
<1>4. \A c \in Chat : r.views[c].topic = 0 /\ ~r.views[c].busy
  BY <1>3, EmptyForm DEF Chat
<1>5. FormOK(r) BY <1>0, <1>1, <1>2, <1>3, EmptyForm DEF FormOK, Chat
<1>6. BusyOK(r) BY <1>4 DEF BusyOK
<1>7. ChangesOK(r)
  <2> SUFFICES ASSUME NEW k \in h.calls, k.kind \in {"edit", "separator"}
               PROVE  /\ k.topic # 0
                      /\ \A e \in r.cleanup : e.view.topic # k.topic
                      /\ \A j \in h.calls : j.kind \in {"edit", "separator"}
                                            /\ j.topic = k.topic => j = k
    BY <1>1, <1>4 DEF ChangesOK
  <2>1. \A e \in new : e.view.topic # k.topic BY <1>0, <1>2 DEF FlightOK, ChangesOK
  <2>. QED BY <1>0, <1>1, <2>1, ChangeTopic DEF FlightOK, ChangesOK
<1>8. SeparatorsOK(r, ts) /\ MadeOK(r, ts)
  BY ChangeTopic, <1>0, <1>1, <1>4 DEF FlightOK, SeparatorsOK, MadeOK
<1>9. SaysOK(r, ts, p)
  BY <1>1, <1>0, <1>2, <1>4 DEF SaysRight, LookRight, AboutRight, SaysOK
<1>. QED BY <1>5, <1>6, <1>7, <1>8, <1>9 DEF HomeOK, FlightOK, r

-----------------------------------------------------------------------------
(* The clock, and the file.                                                *)
LEMMA RetriedIsRight ==
  ASSUME NEW ts, NEW known, NEW gone, NEW p, NEW h, HubOK(h, ts, known, gone), HomeOK(h, ts, p)
  PROVE  LET again(v) == [v EXCEPT !.failed = {}]
         IN  HomeOK([EachView(h, again) EXCEPT !.later = {}], ts, p)
<1> DEFINE vs == [c \in Chat |-> IF h.views[c].here THEN [h.views[c] EXCEPT !.failed = {}]
                                 ELSE h.views[c]]
           h2 == [[h EXCEPT !.views = vs] EXCEPT !.later = {}]
           again(v) == [v EXCEPT !.failed = {}]
<1>0. h \in Hub /\ h.views \in [Chat -> View] BY DEF HubOK, Hub
<1>1. h2 = [EachView(h, again) EXCEPT !.later = {}] BY DEF EachView
<1>2. HubOK(h2, ts, known, gone) BY <1>1, RetriedIsFine DEF GoesOn
<1>3. /\ h2.calls = h.calls /\ h2.cleanup = h.cleanup /\ h2.session = h.session
      /\ h2.archived = h.archived /\ h2.views = vs
  BY <1>0 DEF Hub
<1>4. \A c \in Chat : /\ vs[c].topic = h.views[c].topic /\ vs[c].here = h.views[c].here
                      /\ vs[c].busy = h.views[c].busy /\ vs[c].pending = h.views[c].pending
                      /\ vs[c].applied = h.views[c].applied
                      /\ vs[c].fallback = h.views[c].fallback
                      /\ vs[c].opening = h.views[c].opening
  BY <1>0 DEF View
<1> HIDE DEF h2, vs
<1>5. HomeOK(h2, ts, p) BY <1>2, <1>3, <1>4, SameViewsAreRight
<1>. QED BY <1>1, <1>5

LEMMA RestoredIsRight ==
  ASSUME NEW ts, NEW known, NEW gone, NEW h, HubOK(h, ts, known, gone), FormOK(h)
  PROVE  /\ FormOK(Restored(h)) /\ Restored(h).cleanup = h.cleanup
         /\ Restored(h).session = h.session
         /\ \A c \in Chat : /\ ~Restored(h).views[c].busy
                            /\ Restored(h).views[c].topic = h.views[c].topic
                            /\ Restored(h).views[c].pending = h.views[c].pending
                            /\ Restored(h).views[c].applied = h.views[c].applied
<1> DEFINE vs == [c \in Chat |-> IF h.views[c].here
                                 THEN [h.views[c] EXCEPT !.busy = FALSE, !.failed = {}]
                                 ELSE h.views[c]]
           h1 == [h EXCEPT !.views = vs]
           r  == Restored(h)
<1>0. h \in Hub /\ h.views \in [Chat -> View] BY DEF HubOK, Hub
<1>1. \A c \in Chat : /\ vs[c].topic = h.views[c].topic /\ vs[c].here = h.views[c].here
                      /\ ~vs[c].busy /\ vs[c].pending = h.views[c].pending
                      /\ vs[c].applied = h.views[c].applied
                      /\ vs[c].fallback = h.views[c].fallback
                      /\ vs[c].opening = h.views[c].opening
  BY <1>0 DEF View, HubOK, PlacesOK
<1>2. r = [h1 EXCEPT !.running = FALSE, !.closed = FALSE, !.proven = FALSE,
                     !.edits = FALSE, !.deleting = {}, !.later = {},
                     !.flying = [c \in Chat |-> 0], !.calls = {}, !.ended = {}]
  BY DEF Restored, EachView, Free
<1> HIDE DEF vs, r
<1>3. /\ h1.cleanup = h.cleanup /\ h1.session = h.session /\ h1.archived = h.archived
      /\ h1.views = vs
  BY <1>0 DEF Hub
<1>a. DOMAIN h1 = DOMAIN h /\ DOMAIN h = {"views", "session", "live", "archived", "unshared",
        "cleanup", "running", "closed", "proven", "edits", "deleting", "later", "flying",
        "calls", "ended"}
  BY <1>0 DEF Hub
<1> HIDE DEF h1
<1>4. /\ r.cleanup = h.cleanup /\ r.session = h.session /\ r.archived = h.archived
      /\ r.views = vs
  BY <1>2, <1>3, <1>a
<1>5. FormOK(r) BY <1>1, <1>4 DEF FormOK, Chat
<1>. QED BY <1>1, <1>4, <1>5 DEF r

(* A crash: the file is what the hub was, or something was lost.           *)
LEMMA CrashedIsRight ==
  ASSUME NEW ts, NEW known, NEW gone, NEW p, NEW h, HubOK(h, ts, known, gone), HomeOK(h, ts, p),
         NEW f \in Hub, FormOK(f), f.calls = {}, \A c \in Chat : ~f.views[c].busy,
         NEW p2, p2.since = p.since, p2.old = p.old, p.lost => p2.lost,
         (\E k \in h.calls : k.kind = "edit" /\ k.got \in {"ok", "lost"}) => p2.lost,
         ~p2.lossy => ~p.lossy /\ f = Restored(h),
         NEW end
  PROVE  HomeOK([f EXCEPT !.ended = end], ts, p2)
<1> DEFINE r == [f EXCEPT !.ended = end]
<1>1. /\ r.views = f.views /\ r.calls = {} /\ r.cleanup = f.cleanup /\ r.session = f.session
      /\ r.archived = f.archived
  BY DEF Hub
<1> HIDE DEF r
<1>2. FormOK(r) BY <1>1 DEF FormOK
<1>3. FlightOK(r, ts) BY <1>1 DEF FlightOK, BusyOK, ChangesOK, SeparatorsOK, MadeOK
<1>4. SaysOK(r, ts, p2)
  <2> SUFFICES ASSUME ~p2.lossy
               PROVE  /\ \A c \in Chat : r.views[c].topic # 0 => SaysRight(r, ts, p2, r.views[c])
                      /\ \A e \in r.cleanup : SaysRight(r, ts, p2, e.view)
    BY DEF SaysOK
  <2>1. /\ r.cleanup = h.cleanup /\ r.session = h.session
        /\ \A c \in Chat : /\ r.views[c].topic = h.views[c].topic
                           /\ r.views[c].pending = h.views[c].pending
                           /\ r.views[c].applied = h.views[c].applied
    BY <1>1, RestoredIsRight DEF HomeOK
  <2>2. ASSUME NEW x, SaysRight(h, ts, p, x), NEW w, w.topic = x.topic,
               w.pending = x.pending, w.applied = x.applied
        PROVE  SaysRight(r, ts, p2, w)
    BY <2>2, <2>1 DEF SaysRight, LookRight, AboutRight
  <2>3. SaysOK(h, ts, p) /\ ~p.lossy BY DEF HomeOK
  <2>. QED BY <2>1, <2>2, <2>3 DEF SaysOK
<1>. QED BY <1>2, <1>3, <1>4 DEF HomeOK, r

-----------------------------------------------------------------------------
(* The calls in Telegram.                                                  *)
LEMMA TextsEnd ==
  ASSUME NEW text \in Lines, text # <<>>, text # <<ShareLine>>
  PROVE  Last(text) # ShareLine
<1>1. PICK n \in Nat \ {0} : text = <<n>> \/ text = <<0, n>>
  BY DEF Lines, Silent, Names, ShareLine
<1>2. Len(<<n>>) = 1 /\ Len(<<0, n>>) = 2 OBVIOUS
<1>3. Last(text) = n BY <1>1, <1>2 DEF Last
<1>. QED BY <1>3 DEF ShareLine

(* A call comes to its end, done or not.                                   *)
LEMMA TakenIsRight ==
  ASSUME NEW ts, NEW ts2, NEW known, NEW gone, NEW p, NEW h, HubOK(h, ts, known, gone),
         HomeOK(h, ts, p), known \subseteq DOMAIN ts,
         NEW call \in h.calls, call.got = "none", NEW k, k.kind = call.kind, k.chat = call.chat,
         k.text = call.text, k.look = call.look, call.kind # "create" => k.topic = call.topic,
         NEW h2, h2 = [h EXCEPT !.calls = (@ \ {call}) \cup {k}],
         \A t \in DOMAIN ts :
           /\ \/ ts2[t].look = ts[t].look
              \/ call.kind = "edit" /\ t = call.topic /\ k.got \in {"ok", "lost"}
           /\ \/ ts2[t].shows = ts[t].shows
              \/ call.kind = "separator" /\ t = call.topic /\ Last(call.text) # ShareLine,
         call.kind = "separator" /\ k.got = "ok" /\ Last(call.text) # ShareLine
           => ts2[call.topic].shows = Last(call.text),
         call.kind = "edit" /\ k.got = "ok" => ts2[call.topic].look = call.look,
         call.kind = "create" /\ k.got = "ok"
           => ts2[k.topic].shows = 0 /\ ts2[k.topic].look = call.look
  PROVE  HomeOK(h2, ts2, p)
<1>0. /\ h \in Hub /\ ts \in Seq(Topic) /\ FormOK(h) /\ FlightOK(h, ts) /\ SaysOK(h, ts, p)
  BY DEF HubOK, HomeOK
<1>1. /\ h2.views = h.views /\ h2.calls = (h.calls \ {call}) \cup {k}
      /\ h2.cleanup = h.cleanup /\ h2.session = h.session /\ h2.archived = h.archived
  BY <1>0 DEF Hub
<1>2. FormOK(h2) BY <1>0, <1>1 DEF FormOK
<1>3. BusyOK(h2)
  <2> SUFFICES ASSUME NEW c \in Chat, h.views[c].busy
               PROVE  \E j \in h2.calls : /\ j.kind \in Changes /\ j.chat = c
                                          /\ j.kind # "create" => j.topic = h.views[c].topic
    BY <1>1 DEF BusyOK
  <2>1. PICK j \in h.calls : /\ j.kind \in Changes /\ j.chat = c
                             /\ j.kind # "create" => j.topic = h.views[c].topic
    BY <1>0 DEF FlightOK, BusyOK
  <2>2. CASE j = call BY <1>1, <2>1, <2>2
  <2>3. CASE j # call BY <1>1, <2>1, <2>3
  <2>. QED BY <2>2, <2>3
<1>4. ChangesOK(h2)
  <2> SUFFICES ASSUME NEW j \in h2.calls, j.kind \in {"edit", "separator"}
               PROVE  /\ \A c \in Chat : h.views[c].topic = j.topic => h.views[c].busy
                      /\ \A e \in h.cleanup : e.view.topic # j.topic
                      /\ \A i \in h2.calls : i.kind \in {"edit", "separator"}
                                             /\ i.topic = j.topic => i = j
    BY <1>1 DEF ChangesOK
  <2>1. CASE j = k BY <1>0, <1>1, <2>1 DEF FlightOK, ChangesOK
  <2>2. CASE j \in h.calls /\ j # call BY <1>0, <1>1, <2>2 DEF FlightOK, ChangesOK
  <2>. QED BY <1>1, <2>1, <2>2
<1>5. \A j \in h.calls : j.kind \in {"edit", "separator"} => j.topic \in DOMAIN ts
  BY ChangeTopic DEF IsIn
<1>6. SeparatorsOK(h2, ts2)
  <2> SUFFICES ASSUME NEW j \in h2.calls, j.kind = "separator"
               PROVE  /\ j.text \in Lines /\ j.text # <<>>
                      /\ j.text # <<ShareLine>> =>
                           /\ \A c \in Chat : h.views[c].topic = j.topic
                                                => h.views[c].pending \notin Silent
                           /\ j.got = "ok" => ts2[j.topic].shows = Last(j.text)
    BY <1>1 DEF SeparatorsOK
  <2>1. CASE j = k BY <1>0, <2>1, TextsEnd DEF FlightOK, SeparatorsOK
  <2>2. CASE j \in h.calls /\ j # call
    BY <1>0, <2>2, <1>5 DEF FlightOK, ChangesOK, SeparatorsOK
  <2>. QED BY <1>1, <2>1, <2>2
<1>7. MadeOK(h2, ts2)
  <2> SUFFICES ASSUME NEW j \in h2.calls
               PROVE  /\ j.kind = "create" /\ j.got = "ok"
                           => ts2[j.topic].shows = 0 /\ ts2[j.topic].look = j.look
                      /\ j.kind = "edit" /\ j.got = "ok" => ts2[j.topic].look = j.look
    BY DEF MadeOK
  <2>1. CASE j = k BY <2>1
  <2>2. CASE j \in h.calls /\ j # call /\ j.kind = "create" /\ j.got = "ok"
    BY <2>2, ChangeTopic, <1>0 DEF HubOK, MakingOK, IsIn, FlightOK, MadeOK
  <2>3. CASE j \in h.calls /\ j # call /\ j.kind = "edit" /\ j.got = "ok"
    BY <1>0, <2>3, <1>5 DEF FlightOK, ChangesOK, MadeOK
  <2>. QED BY <1>1, <2>1, <2>2, <2>3
<1>8. SaysOK(h2, ts2, p)
  <2>1. ASSUME NEW v, SaysRight(h, ts, p, v), v.topic \in DOMAIN ts,
               call.kind = "separator" /\ call.topic = v.topic /\ Last(call.text) # ShareLine
                 => v.pending \notin Silent
        PROVE  SaysRight(h2, ts2, p, v)
    <3>1. LookRight(h2, ts2, p, v) BY <2>1, <1>1 DEF SaysRight, LookRight
    <3>2. AboutRight(h2, ts2, p, v) BY <1>1, <2>1 DEF SaysRight, AboutRight
    <3>. QED BY <3>1, <3>2 DEF SaysRight
  <2>2. ASSUME NEW c \in Chat, ~p.lossy, h.views[c].topic # 0
        PROVE  SaysRight(h2, ts2, p, h.views[c])
    <3>1. h.views[c].topic \in DOMAIN ts BY <2>2, ViewTopic DEF IsIn
    <3>2. call.kind = "separator" /\ call.topic = h.views[c].topic /\ Last(call.text) # ShareLine
            => h.views[c].pending \notin Silent
      BY <1>0 DEF Last, FlightOK, SeparatorsOK
    <3>. QED BY <1>0, <2>1, <2>2, <3>1, <3>2 DEF SaysOK
  <2>3. ASSUME NEW e \in h.cleanup, ~p.lossy PROVE SaysRight(h2, ts2, p, e.view)
    BY <1>0, <2>1, <2>3 DEF HubOK, PlacesOK, IsIn, FlightOK, ChangesOK, SaysOK
  <2>. QED BY <1>1, <2>2, <2>3 DEF SaysOK
<1>. QED BY <1>2, <1>3, <1>4, <1>6, <1>7, <1>8 DEF HomeOK, FlightOK

-----------------------------------------------------------------------------
(* What is left of a text once another went out.                           *)
LEMMA GreatestIs ==
  ASSUME NEW S \in SUBSET Nat, NEW m \in S, \A y \in S : m >= y
  PROVE  Max(S) = m
<1>1. \E x \in S : \A y \in S : x >= y OBVIOUS
<1>2. Max(S) \in S /\ \A y \in S : Max(S) >= y BY <1>1 DEF Max
<1>3. Max(S) >= m /\ m >= Max(S) /\ Max(S) \in Nat /\ m \in Nat BY <1>2
<1> HIDE DEF Max
<1>. QED BY <1>3

LEMMA LeastIs ==
  ASSUME NEW a \in Nat, NEW b \in Nat
  PROVE  /\ Min({a, b}) \in Nat /\ Min({a, b}) =< a /\ Min({a, b}) =< b
         /\ Min({a, b}) = a \/ Min({a, b}) = b
BY DEF Min

LEMMA SuffixEnds ==
  ASSUME NEW s \in Seq(Nat), NEW q \in Seq(Nat), s # <<>>, IsSuffix(s, q)
  PROVE  Len(s) =< Len(q) /\ s[Len(s)] = q[Len(q)]
<1> DEFINE a == Reverse(s)
           b == Reverse(q)
<1>1. /\ a \in Seq(Nat) /\ Len(a) = Len(s) /\ \A i \in 1 .. Len(s) : a[i] = s[(Len(s) - i) + 1]
      /\ b \in Seq(Nat) /\ Len(b) = Len(q) /\ \A i \in 1 .. Len(q) : b[i] = q[(Len(q) - i) + 1]
  BY DEF Reverse
<1>2. Len(a) <= Len(b) /\ SubSeq(a, 1, Len(a)) = SubSeq(b, 1, Len(a))
  BY DEF IsSuffix, IsPrefix
<1> HIDE DEF a, b
<1>3. Len(s) \in Nat /\ Len(s) >= 1 /\ Len(q) \in Nat OBVIOUS
<1>4. a[1] = b[1] BY <1>1, <1>3, SubSeqProperties, <1>2
<1>5. a[1] = s[Len(s)] /\ b[1] = q[Len(q)] BY <1>1, <1>2, <1>3, SMTT(30)
<1>. QED BY <1>1, <1>2, <1>4, <1>5

LEMMA UnsentAfter ==
  ASSUME NEW q \in Seq(Nat), NEW s \in Seq(Nat), NEW m \in Nat, m =< Len(q), m =< Len(s),
         \A i \in 1 .. m : q[i] = s[i],
         m = Len(q) \/ m = Len(s) \/ q[m + 1] # s[m + 1]
  PROVE  Unsent(q, s) = IF m > 0 THEN SubSeq(q, m + 1, Len(q))
                        ELSE IF IsSuffix(s, q) THEN SubSeq(q, 1, Len(q) - Len(s)) ELSE q
<1> DEFINE n == Min({Len(q), Len(s)})
           S == {k \in 0 .. n : SubSeq(q, 1, k) = SubSeq(s, 1, k)}
<1>0. Len(q) \in Nat /\ Len(s) \in Nat OBVIOUS
<1>1. n \in Nat /\ n =< Len(q) /\ n =< Len(s) /\ (n = Len(q) \/ n = Len(s))
  <2> HIDE DEF n
  <2>. QED BY <1>0, LeastIs DEF n
<1>2. ASSUME NEW k \in 0 .. n
      PROVE  /\ SubSeq(q, 1, k) \in Seq(Nat) /\ Len(SubSeq(q, 1, k)) = k
             /\ SubSeq(s, 1, k) \in Seq(Nat) /\ Len(SubSeq(s, 1, k)) = k
             /\ \A i \in 1 .. k : SubSeq(q, 1, k)[i] = q[i] /\ SubSeq(s, 1, k)[i] = s[i]
  <2> HIDE DEF n
  <2>1. k \in Int /\ k >= 0 /\ k =< Len(q) /\ k =< Len(s) BY <1>0, <1>1
  <2>2. (\A i \in 1 .. k : q[i] \in Nat) /\ (\A i \in 1 .. k : s[i] \in Nat)
    BY <1>0, <2>1, SMTT(30)
  <2>3. /\ SubSeq(q, 1, k) \in Seq(Nat)
        /\ Len(SubSeq(q, 1, k)) = IF 1 <= k THEN k - 1 + 1 ELSE 0
        /\ \A i \in 1 .. k - 1 + 1 : SubSeq(q, 1, k)[i] = q[1 + i - 1]
    BY <2>1, <2>2, SubSeqProperties, SMTT(30)
  <2>4. /\ SubSeq(s, 1, k) \in Seq(Nat)
        /\ Len(SubSeq(s, 1, k)) = IF 1 <= k THEN k - 1 + 1 ELSE 0
        /\ \A i \in 1 .. k - 1 + 1 : SubSeq(s, 1, k)[i] = s[1 + i - 1]
    BY <2>1, <2>2, SubSeqProperties
  <2>. QED BY <2>1, <2>3, <2>4
<1>3. m \in 0 .. n BY <1>0, <1>1
<1>4. m \in S
  <2>1. SubSeq(q, 1, m) = SubSeq(s, 1, m) BY <1>2, <1>3, SeqEqual
  <2>. QED BY <1>3, <2>1
<1>5. \A k \in S : m >= k
  <2> SUFFICES ASSUME NEW k \in 0 .. n, SubSeq(q, 1, k) = SubSeq(s, 1, k), k > m PROVE FALSE
    BY <1>1
  <2>1. m + 1 \in 1 .. k BY <1>1
  <2>2. q[m + 1] = s[m + 1] BY <1>2, <2>1
  <2>3. m # Len(q) /\ m # Len(s) BY <1>0, <1>1
  <2>. QED BY <2>2, <2>3
<1>6. S \in SUBSET Nat BY <1>1
<1>7. Max(S) = m
  <2> HIDE DEF S, n
  <2>. QED BY <1>4, <1>5, <1>6, GreatestIs
<1>. QED BY <1>7 DEF Unsent

LEMMA UnsentApart ==
  ASSUME NEW q \in Seq(Nat), NEW s \in Seq(Nat), q = <<>> \/ q[1] # s[1]
  PROVE  Unsent(q, s) = IF IsSuffix(s, q) THEN SubSeq(q, 1, Len(q) - Len(s)) ELSE q
<1> DEFINE m == 0
<1>1. m \in Nat /\ m =< Len(q) /\ m =< Len(s) /\ ~(m > 0) /\ m + 1 = 1 OBVIOUS
<1>2. \A i \in 1 .. m : q[i] = s[i] OBVIOUS
<1>3. m = Len(q) \/ m = Len(s) \/ q[m + 1] # s[m + 1] OBVIOUS
<1> HIDE DEF m
<1>4. Unsent(q, s) = IF m > 0 THEN SubSeq(q, m + 1, Len(q))
                     ELSE IF IsSuffix(s, q) THEN SubSeq(q, 1, Len(q) - Len(s)) ELSE q
  BY <1>1, <1>2, <1>3, UnsentAfter
<1>. QED BY <1>1, <1>4

LEMMA UnsentFirst ==
  ASSUME NEW q \in Seq(Nat), NEW s \in Seq(Nat), Len(q) >= 1, Len(s) >= 1, q[1] = s[1],
         Len(q) = 1 \/ Len(s) = 1 \/ q[2] # s[2]
  PROVE  Unsent(q, s) = SubSeq(q, 2, Len(q))
<1> DEFINE m == 1
<1>1. m \in Nat /\ m =< Len(q) /\ m =< Len(s) /\ m > 0 /\ m + 1 = 2 OBVIOUS
<1>2. \A i \in 1 .. m : q[i] = s[i] OBVIOUS
<1>3. m = Len(q) \/ m = Len(s) \/ q[m + 1] # s[m + 1] OBVIOUS
<1> HIDE DEF m
<1>4. Unsent(q, s) = IF m > 0 THEN SubSeq(q, m + 1, Len(q))
                     ELSE IF IsSuffix(s, q) THEN SubSeq(q, 1, Len(q) - Len(s)) ELSE q
  BY <1>1, <1>2, <1>3, UnsentAfter
<1>. QED BY <1>1, <1>4

LEMMA UnsentBoth ==
  ASSUME NEW q \in Seq(Nat), NEW s \in Seq(Nat), Len(q) = 2, Len(s) = 2,
         q[1] = s[1], q[2] = s[2]
  PROVE  Unsent(q, s) = SubSeq(q, 3, Len(q))
<1> DEFINE m == 2
<1>1. m \in Nat /\ m = Len(q) /\ m =< Len(s) /\ m > 0 /\ m + 1 = 3 OBVIOUS
<1>2. \A i \in 1 .. m : q[i] = s[i] OBVIOUS
<1> HIDE DEF m
<1>3. Unsent(q, s) = IF m > 0 THEN SubSeq(q, m + 1, Len(q))
                     ELSE IF IsSuffix(s, q) THEN SubSeq(q, 1, Len(q) - Len(s)) ELSE q
  BY <1>1, <1>2, UnsentAfter, ZenonT(60)
<1>. QED BY <1>1, <1>3

LEMMA UnsentIsRight ==
  ASSUME NEW q \in Lines, NEW s \in Lines, s # <<>>
  PROVE  /\ Unsent(q, s) \in Lines
         /\ Shares(Unsent(q, s)) => Shares(q)
         /\ q \in Silent => Unsent(q, s) \in Silent
         /\ \A n \in Nat \ {0} : q \in Names(n) =>
              \/ Unsent(q, s) \in Names(n)
              \/ Unsent(q, s) \in Silent /\ s # <<ShareLine>> /\ Last(s) = n
<1> DEFINE r == Unsent(q, s)
<1>0. q \in Seq(Nat) /\ s \in Seq(Nat) /\ s[1] \in Nat /\ Len(s) \in {1, 2}
  BY LinesAre DEF Lines, Silent, Names, ShareLine
<1>1. CASE q = <<>>
  <2>1. ~IsSuffix(s, q)
    <3> SUFFICES ASSUME IsSuffix(s, q) PROVE FALSE
      OBVIOUS
    <3>1. Len(s) =< Len(q) /\ Len(q) = 0 BY <1>0, <1>1, SuffixEnds
    <3>. QED BY <1>0, <3>1
  <2>2. r = IF IsSuffix(s, q) THEN SubSeq(q, 1, Len(q) - Len(s)) ELSE q
    BY <1>0, <1>1, UnsentApart
  <2>3. r = q BY <2>1, <2>2
  <2> HIDE DEF r
  <2>. QED BY <2>3 DEF r
<1>2. CASE q = <<0>>
  <2>1. Len(q) = 1 /\ q[1] = 0 BY <1>2
  <2>2. CASE s[1] = 0
    <3>1. r = SubSeq(q, 2, 1) BY <1>0, <2>1, <2>2, UnsentFirst, SMTT(30)
    <3>2. r = <<>> BY <3>1, SubSeqEmpty
    <3> HIDE DEF r
    <3>3. \A n \in Nat \ {0} : q \notin Names(n) BY <1>2, LinesAre DEF Silent, ShareLine
    <3>. QED BY <3>2, <3>3, LinesAre DEF r, Silent, Shares
  <2>3. CASE s[1] # 0
    <3>1. s = <<s[1]>> /\ Len(s) = 1 BY <2>3 DEF Lines, Silent, Names, ShareLine
    <3>2. ~IsSuffix(s, q) BY <1>0, <2>1, <2>3, <3>1, SuffixEnds
    <3>3. r = IF IsSuffix(s, q) THEN SubSeq(q, 1, Len(q) - Len(s)) ELSE q
      BY <1>0, <2>1, <2>3, UnsentApart
    <3>4. r = q BY <3>2, <3>3
    <3> HIDE DEF r
    <3>. QED BY <3>4 DEF r
  <2>. QED BY <2>2, <2>3
<1>3. ASSUME NEW n \in Nat \ {0}, q = <<n>>
      PROVE  r = q \/ (r = <<>> /\ s = <<n>>)
  <2>1. Len(q) = 1 /\ q[1] = n BY <1>3
  <2>2. CASE s[1] = n
    <3>1. s = <<n>> BY <2>2 DEF Lines, Silent, Names, ShareLine
    <3>2. r = SubSeq(q, 2, 1)
      <4>1. Len(q) >= 1 /\ Len(s) >= 1 /\ q[1] = s[1] /\ Len(q) = 1 BY <1>0, <2>1, <2>2
      <4>2. Unsent(q, s) = SubSeq(q, 2, Len(q)) BY <1>0, <4>1, UnsentFirst
      <4>. QED BY <2>1, <4>2
    <3>. QED BY <3>1, <3>2, SubSeqEmpty
  <2>3. CASE s[1] # n
    <3>1. ~IsSuffix(s, q)
      <4> SUFFICES ASSUME IsSuffix(s, q) PROVE FALSE
        OBVIOUS
      <4>1. Len(s) =< 1 /\ s[Len(s)] = n BY <1>0, <2>1, SuffixEnds
      <4>. QED BY <1>0, <2>3, <4>1
    <3>2. r = IF IsSuffix(s, q) THEN SubSeq(q, 1, Len(q) - Len(s)) ELSE q
      BY <1>0, <2>1, <2>3, UnsentApart
    <3>. QED BY <3>1, <3>2
  <2>. QED BY <2>2, <2>3
<1>4. ASSUME NEW n \in Nat \ {0}, q = <<0, n>>
      PROVE  \/ r = q \/ r = <<n>>
             \/ r \in Silent /\ s # <<0>> /\ Last(s) = n
  <2>1. Len(q) = 2 /\ q[1] = 0 /\ q[2] = n BY <1>4
  <2>2. CASE s[1] = 0 /\ (Len(s) = 1 \/ s[2] # n)
    <3>1. r = SubSeq(q, 2, 2)
      <4>1. /\ Len(q) >= 1 /\ Len(s) >= 1 /\ q[1] = s[1]
            /\ Len(s) = 1 \/ q[2] # s[2]
        BY <1>0, <2>1, <2>2
      <4>2. Unsent(q, s) = SubSeq(q, 2, Len(q)) BY <1>0, <4>1, UnsentFirst
      <4>. QED BY <2>1, <4>2
    <3>2. r = <<n>>
      <4>1. /\ SubSeq(q, 2, 2) \in Seq(Nat) /\ Len(SubSeq(q, 2, 2)) = 1
            /\ SubSeq(q, 2, 2)[1] = n
        BY <1>0, <2>1, SubSeqProperties
      <4> DEFINE x == <<n>>
      <4>2. x \in Seq(Nat) /\ Len(x) = 1 /\ x[1] = n OBVIOUS
      <4> HIDE DEF x, r
      <4>3. r = x BY <3>1, <4>1, <4>2, SeqEqual
      <4>. QED BY <4>3 DEF x
    <3>. QED BY <3>2
  <2>3. CASE s[1] = 0 /\ Len(s) = 2 /\ s[2] = n
    <3>1. r = SubSeq(q, 3, 2) BY <1>0, <2>1, <2>3, UnsentBoth
    <3>2. r = <<>> BY <3>1, SubSeqEmpty
    <3>3. Last(s) = n /\ s # <<0>> BY <2>3 DEF Last
    <3>. QED BY <3>2, <3>3 DEF Silent
  <2>4. CASE s[1] # 0
    <3>1. s = <<s[1]>> /\ Len(s) = 1 /\ s # <<0>>
      BY <2>4 DEF Lines, Silent, Names, ShareLine
    <3>2. r = IF IsSuffix(s, q) THEN SubSeq(q, 1, Len(q) - Len(s)) ELSE q
      BY <1>0, <2>1, <2>4, UnsentApart
    <3>3. CASE ~IsSuffix(s, q) BY <3>2, <3>3
    <3>4. CASE IsSuffix(s, q)
      <4>1. s[1] = n /\ Last(s) = n BY <1>0, <2>1, <3>1, <3>4, SuffixEnds DEF Last
      <4>2. r = SubSeq(q, 1, 1) BY <2>1, <3>1, <3>2, <3>4
      <4>3. r = <<0>>
        <5>1. /\ SubSeq(q, 1, 1) \in Seq(Nat) /\ Len(SubSeq(q, 1, 1)) = 1
              /\ SubSeq(q, 1, 1)[1] = 0
          BY <1>0, <2>1, SubSeqProperties
        <5> DEFINE x == <<0>>
        <5>2. x \in Seq(Nat) /\ Len(x) = 1 /\ x[1] = 0 OBVIOUS
        <5> HIDE DEF x, r
        <5>3. r = x BY <4>2, <5>1, <5>2, SeqEqual
        <5>. QED BY <5>3 DEF x
      <4>. QED BY <3>1, <4>1, <4>3 DEF Silent, ShareLine
    <3>. QED BY <3>3, <3>4
  <2>. QED BY <1>0, <2>2, <2>3, <2>4
<1> HIDE DEF r
<1>5. ASSUME NEW n \in Nat \ {0}, q \in Names(n)
      PROVE  /\ r \in Lines /\ (Shares(r) => Shares(q))
             /\ \/ r \in Names(n)
                \/ r \in Silent /\ s # <<ShareLine>> /\ Last(s) = n
             /\ q \notin Silent /\ \A i \in Nat \ {0} : q \in Names(i) => i = n
  <2>1. q \notin Silent /\ q \in Lines BY <1>5, LinesAre
  <2>2. CASE q = <<n>>
    BY <2>2, <1>5, <2>1, LinesAre, <1>3 DEF Names, ShareLine, Last, Silent, Shares
  <2>3. CASE q = <<0, n>>
    BY <2>3, <1>5, <2>1, LinesAre, <1>4 DEF Names, ShareLine, Shares
  <2>. QED BY <1>5, <2>2, <2>3 DEF Names, ShareLine
<1>6. CASE \E n \in Nat \ {0} : q \in Names(n) BY <1>5, <1>6 DEF r
<1>. QED BY <1>1, <1>2, <1>6, LinesAre DEF r, Silent, ShareLine


-----------------------------------------------------------------------------
(* The answers.                                                            *)
LEMMA ToldMore ==
  ASSUME NEW ts, NEW p, NEW h, HomeOK(h, ts, p), NEW p2, p2.lossy = p.lossy, p2.old = p.old,
         p2.since = p.since, p.lost => p2.lost
  PROVE  HomeOK(h, ts, p2)
BY DEF SaysRight, LookRight, AboutRight, HomeOK, SaysOK

(* A call that is answered, with what becomes of the view it was for.      *)
LEMMA AnswerIsRight ==
  ASSUME NEW ts, NEW known, NEW gone, NEW p, NEW h, HubOK(h, ts, known, gone), HomeOK(h, ts, p),
         NEW call \in h.calls, call.kind = "create" => call.got # "ok",
         NEW h2, HubOK(h2, ts, known, gone), h2.calls = h.calls \ {call},
         h2.cleanup \subseteq h.cleanup, h2.session = h.session, h2.archived = h.archived,
         NEW v, v = h.views[call.chat], NEW w,
         \/ /\ v.here /\ v.topic = call.topic
            /\ h2.views = [h.views EXCEPT ![call.chat] = w]
         \/ ~(v.here /\ v.topic = call.topic) /\ h2.views = h.views,
         v.here /\ v.topic = call.topic =>
           /\ w.here /\ ~w.busy /\ w.pending \in Lines /\ (Shares(w.pending) => Shares(v.pending))
           /\ w.fallback = v.fallback /\ (w.opening => v.opening)
           /\ \/ w.topic = 0
              \/ /\ w.topic = call.topic /\ call.kind \in {"edit", "separator"}
                 /\ ~p.lossy => SaysRight(h2, ts, p, w)
  PROVE  HomeOK(h2, ts, p)
<1> DEFINE c == call.chat
<1>0. /\ h \in Hub /\ h.views \in [Chat -> View] /\ c \in Chat /\ call \in Call
      /\ FormOK(h) /\ FlightOK(h, ts)
  BY DEF HubOK, Hub, Call, HomeOK
<1>1. CASE v.here /\ v.topic = call.topic
  BY <1>0, <1>1, AlikeIsRight DEF FormOK, Chat, FlightOK, ChangesOK
<1>2. CASE ~(v.here /\ v.topic = call.topic)
  <2>1. h2.views = h.views BY <1>2
  <2>2. FormOK(h2) BY <1>0, <2>1 DEF FormOK
  <2>3. call.kind # "create" BY <1>2 DEF HubOK, MakingOK, PlacesOK, Hub, Call
  <2>4. call.kind \in {"edit", "separator"} => \A d \in Chat : h.views[d].topic # call.topic
    <3> SUFFICES ASSUME call.kind \in {"edit", "separator"}, NEW d \in Chat,
                        h.views[d].topic = call.topic
                 PROVE  FALSE
      OBVIOUS
    <3>1. d = c /\ call.topic # 0 BY ChangeTopic
    <3>2. h.views[d].here BY <3>1 DEF HubOK, PlacesOK
    <3>. QED BY <1>2, <3>1, <3>2
  <2>5. \A d \in Chat : \A k \in h.calls :
          /\ k.kind \in Changes /\ k.chat = d
          /\ k.kind # "create" => k.topic = h.views[d].topic
          => k \in h2.calls
    BY <2>3, <2>4 DEF Changes
  <2>. QED BY <2>1, <2>2, <2>5, AlikeIsRight
<1>. QED BY <1>1, <1>2

(* A new topic: it has its look, and is about the session of this moment.  *)
LEMMA CreatedIsRight ==
  ASSUME NEW ts, NEW known, NEW gone, NEW p, NEW h, HubOK(h, ts, known, gone), HomeOK(h, ts, p),
         NEW call \in h.calls, call.kind = "create", call.got = "ok",
         NEW p2, p2.lossy = p.lossy, p2.old = p.old, p.lost => p2.lost,
         p2.since = [p.since EXCEPT ![call.topic] = h.session], call.topic \in DOMAIN p.since
  PROVE  HomeOK(Created(Without(h, call), call), ts, p2)
<1> DEFINE c    == call.chat
           t    == call.topic
           v    == h.views[c]
           line == IF v.opening THEN <<ShareLine>> ELSE <<>>
           w    == [Free(v) EXCEPT !.topic = t, !.applied = call.look, !.pending = line,
                                   !.opening = FALSE, !.busy = v.opening]
           k    == CallOf("separator", c, t, line, <<>>)
           h2   == Created(Without(h, call), call)
<1>0. /\ h \in Hub /\ h.views \in [Chat -> View] /\ c \in Chat /\ call \in Call
      /\ v \in View /\ FormOK(h) /\ FlightOK(h, ts) /\ SaysOK(h, ts, p)
  BY DEF HubOK, Hub, Call, HomeOK
<1>1. v.here /\ v.topic = 0 /\ ~h.archived /\ IsIn(ts, c, t) /\ t \notin known
  BY <1>0 DEF HubOK, MakingOK, PlacesOK, ArchiveOK
<1>2. /\ w.here /\ w.topic = t /\ w.applied = call.look /\ w.pending = line /\ ~w.opening
      /\ w.busy = v.opening /\ w.fallback = v.fallback
  <2> HIDE DEF line
  <2>. QED BY <1>0, <1>1 DEF View, Free
<1>3. /\ k.kind = "separator" /\ k.chat = c /\ k.topic = t /\ k.text = line /\ k.got = "none"
  BY DEF CallOf
<1>4. line \in Silent /\ (v.opening => line = <<ShareLine>>) /\ (~v.opening => line = <<>>)
  BY DEF Silent
<1>5. /\ h2.views = [h.views EXCEPT ![c] = w] /\ h2.cleanup = h.cleanup
      /\ h2.session = h.session /\ h2.archived = h.archived
      /\ h2.calls = (h.calls \ {call}) \cup (IF v.opening THEN {k} ELSE {})
  <2> DEFINE h0 == Without(h, call)
             h1 == [h0 EXCEPT !.views[c] = w]
             hp == Proven(h1, c)
  <2>1. /\ h0 \in Hub /\ h0.views = h.views /\ h0.cleanup = h.cleanup
        /\ h0.session = h.session /\ h0.archived = h.archived /\ h0.calls = h.calls \ {call}
    BY <1>0 DEF Hub, Without
  <2>2. h2 = IF v.opening THEN Handed(hp, k) ELSE hp
    <3> HIDE DEF h0
    <3>1. h0.views[c] = v /\ v.here BY <1>1, <2>1
    <3>. QED BY <3>1 DEF Created, h0
  <2> HIDE DEF h0, h2, w, k
  <2>3. /\ hp.views = [h0.views EXCEPT ![c] = w] /\ hp.cleanup = h0.cleanup
        /\ hp.session = h0.session /\ hp.archived = h0.archived /\ hp.calls = h0.calls
        /\ Handed(hp, k).views = hp.views /\ Handed(hp, k).cleanup = hp.cleanup
        /\ Handed(hp, k).session = hp.session /\ Handed(hp, k).archived = hp.archived
        /\ Handed(hp, k).calls = hp.calls \cup {k}
    BY <2>1 DEF Hub, Proven, Handed
  <2> HIDE DEF hp
  <2>. QED BY <2>1, <2>2, <2>3
<1> HIDE DEF w, k, line, h2
<1>6. h2.views[c] = w /\ \A d \in Chat : d # c => h2.views[d] = h.views[d] BY <1>0, <1>5
<1>7. FormOK(h2) BY <1>4, LinesAre, <1>0, <1>2, <1>6, <1>1, <1>5 DEF Shares, FormOK, Chat
<1>8. BusyOK(h2)
  <2> SUFFICES ASSUME NEW d \in Chat, h2.views[d].busy
               PROVE  \E j \in h2.calls : /\ j.kind \in Changes /\ j.chat = d
                                          /\ j.kind # "create" => j.topic = h2.views[d].topic
    BY DEF BusyOK
  <2>1. CASE d = c BY <1>2, <1>3, <1>5, <1>6, <2>1 DEF Changes
  <2>2. CASE d # c
    <3>1. PICK j \in h.calls : /\ j.kind \in Changes /\ j.chat = d
                               /\ j.kind # "create" => j.topic = h.views[d].topic
      BY <1>0, <1>6, <2>2 DEF FlightOK, BusyOK
    <3>. QED BY <1>5, <1>6, <2>2, <3>1
  <2>. QED BY <2>1, <2>2
<1>9. /\ \A d \in Chat : d # c /\ h.views[d].topic # 0 => h.views[d].topic # t
      /\ \A e \in h.cleanup : e.view.topic # t
      /\ \A j \in h.calls : j.kind \in {"edit", "separator"} => j.topic # t
  BY <1>1, ViewTopic, ChangeTopic DEF HubOK, PlacesOK
<1>a. t # 0 BY <1>1, ZeroIsNone DEF IsIn, HubOK
<1>b. \A j \in h2.calls : j = k \/ j \in h.calls BY <1>5
<1>10. ChangesOK(h2)
  <2> SUFFICES ASSUME NEW j \in h2.calls, j.kind \in {"edit", "separator"}
               PROVE  /\ \A d \in Chat : h2.views[d].topic = j.topic => h2.views[d].busy
                      /\ \A e \in h2.cleanup : e.view.topic # j.topic
                      /\ \A i \in h2.calls : i.kind \in {"edit", "separator"}
                                             /\ i.topic = j.topic => i = j
    BY DEF ChangesOK
  <2>1. CASE j = k /\ v.opening
    <3>1. \A d \in Chat : h2.views[d].topic = t => d = c BY <1>6, <1>9, <1>a
    <3>2. j.topic = t /\ h2.views[c].busy BY <1>2, <1>3, <1>6, <2>1
    <3>3. \A e \in h2.cleanup : e.view.topic # t BY <1>5, <1>9
    <3>4. \A i \in h2.calls : i.kind \in {"edit", "separator"} /\ i.topic = t => i = j
      BY <1>9, <1>b, <2>1
    <3>. QED BY <3>1, <3>2, <3>3, <3>4
  <2>2. CASE j \in h.calls
    BY <1>2, <1>6, <1>9, <2>2, <1>3, <1>b, <1>0, <1>5 DEF FlightOK, ChangesOK
  <2>. QED BY <1>5, <2>1, <2>2
<1>11. SeparatorsOK(h2, ts)
  <2> SUFFICES ASSUME NEW j \in h2.calls, j.kind = "separator"
               PROVE  /\ j.text \in Lines /\ j.text # <<>>
                      /\ j.text # <<ShareLine>> =>
                           /\ \A d \in Chat : h2.views[d].topic = j.topic
                                                => h2.views[d].pending \notin Silent
                           /\ j.got = "ok" => ts[j.topic].shows = Last(j.text)
    BY DEF SeparatorsOK
  <2>1. CASE j = k /\ v.opening
    <3>1. line \in Lines /\ line = <<ShareLine>> /\ <<ShareLine>> # <<>>
      BY <1>4, <2>1, LinesAre
    <3>. QED BY <1>3, <2>1, <3>1
  <2>2. CASE j \in h.calls BY <1>2, <1>6, <1>9, <2>2, <1>0 DEF FlightOK, SeparatorsOK
  <2>. QED BY <1>5, <2>1, <2>2
<1>12. MadeOK(h2, ts) BY <1>0, <1>3, <1>b DEF FlightOK, MadeOK
<1>13. SaysOK(h2, ts, p2)
  BY <1>5, <1>0, <1>2, <1>4, <1>6, <1>9 DEF SaysRight, LookRight, AboutRight, FlightOK, MadeOK,
     SaysOK
<1>. QED BY <1>7, <1>8, <1>10, <1>11, <1>12, <1>13 DEF HomeOK, FlightOK, h2

(* The hub told of less is as good.                                        *)
LEMMA GoneLess ==
  ASSUME NEW ts, NEW known, NEW gone, NEW gone2, NEW h, HubOK(h, ts, known, gone2),
         gone \subseteq gone2
  PROVE  HubOK(h, ts, known, gone)
BY DEF HubOK, NoneGone

(* What is left of a separator that got through.                           *)
LEMMA SeparatedIsRight ==
  ASSUME NEW ts, NEW known, NEW gone, NEW p, NEW h, HubOK(h, ts, known, gone), HomeOK(h, ts, p),
         ~p.lossy, NEW call \in h.calls, call.kind = "separator", call.got = "ok",
         NEW h2, h2.session = h.session,
         NEW v, v = h.views[call.chat], v.topic = call.topic,
         NEW w, w.topic = v.topic, w.applied = v.applied,
         w.pending = Unsent(v.pending, call.text)
  PROVE  SaysRight(h2, ts, p, w)
<1>a. call.topic # 0 BY ChangeTopic
<1>0. /\ h \in Hub /\ call.chat \in Chat /\ call.topic # 0
      /\ FormOK(h) /\ FlightOK(h, ts) /\ SaysOK(h, ts, p)
  BY <1>a DEF HubOK, Hub, Call, HomeOK
<1>1. SaysRight(h, ts, p, v) BY <1>0 DEF SaysOK
<1>2. LookRight(h2, ts, p, w) BY <1>0, <1>1 DEF FlightOK, ChangesOK, SaysRight, LookRight
<1>3. /\ v.pending \in Lines /\ call.text \in Lines /\ call.text # <<>>
      /\ call.text # <<ShareLine>> => ts[call.topic].shows = Last(call.text)
  BY <1>0 DEF FormOK, FlightOK, SeparatorsOK
<1>4. h.session \in Nat \ {0} BY <1>0 DEF FormOK, HubOK, ArchiveOK, Hub
<1>5. /\ v.pending \in Silent => w.pending \in Silent
      /\ v.pending \in Names(h.session) =>
           \/ w.pending \in Names(h.session)
           \/ w.pending \in Silent /\ call.text # <<ShareLine>> /\ Last(call.text) = h.session
  <2> DEFINE r == Unsent(v.pending, call.text)
  <2>1. /\ v.pending \in Silent => r \in Silent
        /\ \A n \in Nat \ {0} : v.pending \in Names(n) =>
             \/ r \in Names(n)
             \/ r \in Silent /\ call.text # <<ShareLine>> /\ Last(call.text) = n
    BY <1>3, UnsentIsRight
  <2>2. w.pending = r OBVIOUS
  <2> HIDE DEF r
  <2>. QED BY <1>4, <2>1, <2>2
<1>6. AboutRight(h2, ts, p, w) BY <1>3, <1>4, <1>5, <1>1 DEF AboutRight, SaysRight
<1>. QED BY <1>2, <1>6 DEF SaysRight

(* Whatever the answer to a call.                                          *)
LEMMA HandledIsRight ==
  ASSUME NEW ts, NEW known, NEW gone, NEW p0, NEW h, HubOK(h, ts, known, gone),
         HomeOK(h, ts, p0), gone \subseteq known,
         NEW call \in h.calls, call.got # "none",
         NEW p, p.lossy = p0.lossy, p.old = p0.old,
         p0.lost \/ (call.kind = "edit" /\ call.got = "lost") => p.lost,
         p.since = IF call.kind = "create" /\ call.got = "ok"
                   THEN [p0.since EXCEPT ![call.topic] = h.session] ELSE p0.since,
         call.kind = "create" /\ call.got = "ok" => call.topic \in DOMAIN p0.since
  PROVE  HomeOK(Handled(Without(h, call), call), ts, p)
<1> DEFINE h0 == Without(h, call)
           h2 == Handled(h0, call)
           c  == call.chat
           v  == h.views[c]
           here == v.here /\ v.topic = call.topic
           Same(r) == /\ r.calls = h.calls \ {call} /\ r.cleanup \subseteq h.cleanup
                      /\ r.session = h.session /\ r.archived = h.archived
           Now(r, w) == \/ here /\ r.views = [h.views EXCEPT ![c] = w]
                        \/ ~here /\ r.views = h.views
           blank == [NewView EXCEPT !.fallback = v.fallback, !.opening = v.opening]
<1>0. /\ h \in Hub /\ h.views \in [Chat -> View] /\ c \in Chat /\ call \in Call /\ v \in View
      /\ FormOK(h) /\ FlightOK(h, ts)
  BY DEF HubOK, Hub, Call, HomeOK
<1>1. CASE call.kind = "create" /\ call.got = "ok"
  <2>1. h2 = Created(h0, call) BY <1>1 DEF Handled, OnTopicDone
  <2>2. p.since = [p0.since EXCEPT ![call.topic] = h.session] BY <1>1
  <2> HIDE DEF h2
  <2>3. HomeOK(Created(Without(h, call), call), ts, p)
    BY <1>1, <2>1, <2>2, CreatedIsRight
  <2>. QED BY <2>1, <2>3 DEF h2
<1>2. CASE ~(call.kind = "create" /\ call.got = "ok")
  <2>1. HomeOK(h, ts, p) BY <1>2, ToldMore
  <2>2. HubOK(h2, ts, known, gone)
    <3> DEFINE gone2 == IF call.got = "gone"
                           \/ (call.kind \in {"delete", "clean"} /\ call.got = "ok")
                        THEN gone \cup {call.topic} ELSE gone
    <3>1. gone \subseteq gone2 OBVIOUS
    <3>2. known = IF call.kind = "create" /\ call.got = "ok" THEN known \cup {call.topic}
                  ELSE known
      BY <1>2
    <3>3. gone2 = IF call.got = "gone" \/ (call.kind \in {"delete", "clean"} /\ call.got = "ok")
                  THEN gone \cup {call.topic} ELSE gone
      OBVIOUS
    <3> HIDE DEF gone2, h2
    <3>4. LET r == Handled(Without(h, call), call)
          IN  /\ GoesOn(h, r, ts, known, gone2)
              /\ \A t \in known : t \in known \/ t \in Held(r)
      BY <3>2, <3>3, HandledIsFine
    <3>5. GoesOn(h, h2, ts, known, gone2) BY <3>4 DEF h2
    <3>. QED BY <3>1, <3>5, GoneLess DEF GoesOn
  <2>3. /\ h0 \in Hub /\ h0.views = h.views /\ Same(h0)
        /\ h0.unshared = h.unshared /\ Wanted(h0) = Wanted(h)
    BY <1>0 DEF Hub, Without, Wanted
  <2>a. h0.views[c] = v /\ h0.cleanup = h.cleanup BY <1>0 DEF Hub, Without
  <2> SUFFICES HomeOK(h2, ts, p)
    OBVIOUS
  <2> HIDE DEF h0, h2
  <2>4. ASSUME NEW w, Same(h2), Now(h2, w),
               here =>
                 /\ w.here /\ ~w.busy /\ w.pending \in Lines
                 /\ Shares(w.pending) => Shares(v.pending)
                 /\ w.fallback = v.fallback /\ (w.opening => v.opening)
                 /\ \/ w.topic = 0
                    \/ /\ w.topic = call.topic /\ call.kind \in {"edit", "separator"}
                       /\ ~p.lossy => SaysRight(h2, ts, p, w)
        PROVE  HomeOK(h2, ts, p)
    <3> HIDE DEF v
    <3>1. v = h.views[call.chat] BY DEF v
    <3>. QED BY <1>2, <2>1, <2>2, <2>4, <3>1, AnswerIsRight
  <2>5. ASSUME Same(h2), Now(h2, blank) PROVE HomeOK(h2, ts, p)
    <3>1. /\ blank.here /\ ~blank.busy /\ blank.pending = <<>> /\ blank.topic = 0
          /\ blank.fallback = v.fallback /\ blank.opening = v.opening
      BY <1>0 DEF NewView, NoView
    <3>2. blank.pending \in Lines /\ ~Shares(blank.pending)
      BY <3>1, LinesAre DEF Silent, Shares
    <3> HIDE DEF blank, v, here
    <3>. QED BY <2>4, <2>5, <3>1, <3>2
  <2>6. ASSUME Same(h2), h2.views = h.views, call.kind \notin Changes PROVE HomeOK(h2, ts, p)
    BY <1>0, <2>6, <2>1, <2>2, AlikeIsRight DEF FormOK
  <2>7. CASE call.kind = "edit" /\ call.got = "ok"
    <3> DEFINE w == [Free(v) EXCEPT !.applied = call.look]
    <3>1. Same(h2) /\ Now(h2, w)
      <4>1. h2 = IF here THEN [h0 EXCEPT !.views[c] = w] ELSE h0
        BY <2>3, <2>7, <2>a DEF h2, Handled, OnTopicDone, OfTopic
      <4> HIDE DEF w, v, here
      <4>. QED BY <2>3, <4>1 DEF Hub
    <3>2. /\ w.here = v.here /\ ~w.busy /\ w.pending = v.pending /\ w.fallback = v.fallback
          /\ w.opening = v.opening /\ w.topic = v.topic /\ w.applied = call.look
      BY <1>0 DEF View, Free
    <3> HIDE DEF w
    <3>3. here /\ ~p.lossy => SaysRight(h2, ts, p, w)
      <4> SUFFICES ASSUME here, ~p.lossy PROVE SaysRight(h2, ts, p, w)
        OBVIOUS
      <4>1. ts[call.topic].look = call.look /\ call.topic # 0
        BY <1>0, <2>7, ChangeTopic DEF FlightOK, MadeOK
      <4>2. AboutRight(h, ts, p, v) BY <1>0, <2>1, <4>1 DEF HomeOK, SaysOK, SaysRight
      <4>3. LookRight(h2, ts, p, w) BY <3>2, <4>1 DEF LookRight
      <4>4. AboutRight(h2, ts, p, w) BY <3>1, <3>2, <4>2 DEF AboutRight
      <4>. QED BY <4>3, <4>4 DEF SaysRight
    <3>4. v.pending \in Lines BY <1>0 DEF FormOK
    <3>5. here =>
           /\ w.here /\ ~w.busy /\ w.pending \in Lines
           /\ Shares(w.pending) => Shares(v.pending)
           /\ w.fallback = v.fallback /\ (w.opening => v.opening)
           /\ \/ w.topic = 0
              \/ /\ w.topic = call.topic /\ call.kind \in {"edit", "separator"}
                 /\ ~p.lossy => SaysRight(h2, ts, p, w)
      BY <2>7, <3>2, <3>3, <3>4
    <3> HIDE DEF Same, Now, here, v
    <3>. QED BY <2>4, <3>1, <3>5
  <2>8. CASE call.kind = "separator" /\ call.got = "ok"
    <3> DEFINE w == [Free(v) EXCEPT !.pending = Unsent(@, call.text)]
    <3>1. Same(h2) /\ Now(h2, w)
      <4>1. h2 = IF here THEN [h0 EXCEPT !.views[c] = w] ELSE h0
        BY <2>3, <2>8, <2>a DEF h2, Handled, OnTopicDone, OfTopic
      <4> HIDE DEF w, v, here
      <4>. QED BY <2>3, <4>1 DEF Hub
    <3>2. /\ w.here = v.here /\ ~w.busy /\ w.pending = Unsent(v.pending, call.text)
          /\ w.fallback = v.fallback /\ w.opening = v.opening /\ w.topic = v.topic
          /\ w.applied = v.applied
      BY <1>0 DEF View, Free
    <3> HIDE DEF w
    <3>3. here /\ ~p.lossy => SaysRight(h2, ts, p, w)
      BY <2>1, <2>8, <3>1, <3>2, SeparatedIsRight
    <3>4. v.pending \in Lines /\ call.text \in Lines /\ call.text # <<>>
      BY <1>0, <2>8 DEF FormOK, FlightOK, SeparatorsOK
    <3>5. w.pending \in Lines /\ (Shares(w.pending) => Shares(v.pending))
      BY <3>2, <3>4, UnsentIsRight
    <3>6. here =>
           /\ w.here /\ ~w.busy /\ w.pending \in Lines
           /\ Shares(w.pending) => Shares(v.pending)
           /\ w.fallback = v.fallback /\ (w.opening => v.opening)
           /\ \/ w.topic = 0
              \/ /\ w.topic = call.topic /\ call.kind \in {"edit", "separator"}
                 /\ ~p.lossy => SaysRight(h2, ts, p, w)
      BY <2>8, <3>2, <3>3, <3>5
    <3> HIDE DEF Same, Now, here, v
    <3>. QED BY <2>4, <3>1, <3>6
  <2>9. CASE call.kind \in {"create", "edit", "separator"} /\ call.got \notin {"ok", "gone"}
    <3> DEFINE h1 == Closed(h0, call)
               w  == [v EXCEPT !.busy = FALSE, !.failed = {Wanted(h1)}]
    <3>1. h1 \in Hub /\ h1.views = h.views /\ Same(h1) BY <2>3 DEF Hub, Closed
    <3>2. Same(h2) /\ Now(h2, w)
      <4>1. h1.views[c] = v BY <3>1
      <4> HIDE DEF h1
      <4>2. h2 = IF here THEN [h1 EXCEPT !.views[c] = w] ELSE h1
        BY <2>9, <4>1 DEF h1, h2, Handled, OnTopicDone, OfTopic, Failed
      <4> HIDE DEF w, v, here
      <4>. QED BY <3>1, <4>2 DEF Hub
    <3>3. /\ w.here = v.here /\ ~w.busy /\ w.pending = v.pending /\ w.fallback = v.fallback
          /\ w.opening = v.opening /\ w.topic = v.topic /\ w.applied = v.applied
      BY <1>0 DEF View
    <3> HIDE DEF w
    <3>4. CASE call.kind = "create"
      <4>1. call.topic = 0 BY <2>9, <3>4 DEF HubOK, MakingOK
      <4>2. v.pending \in Lines BY <1>0 DEF FormOK
      <4>3. here =>
             /\ w.here /\ ~w.busy /\ w.pending \in Lines
             /\ Shares(w.pending) => Shares(v.pending)
             /\ w.fallback = v.fallback /\ (w.opening => v.opening)
             /\ \/ w.topic = 0
                \/ /\ w.topic = call.topic /\ call.kind \in {"edit", "separator"}
                   /\ ~p.lossy => SaysRight(h2, ts, p, w)
        BY <3>3, <4>1, <4>2
      <4> HIDE DEF Same, Now, here, v
      <4>. QED BY <2>4, <3>2, <4>3
    <3>5. CASE call.kind \in {"edit", "separator"}
      <4>1. here /\ ~p.lossy => SaysRight(h2, ts, p, w)
        <5> SUFFICES ASSUME here, ~p.lossy PROVE SaysRight(h2, ts, p, w)
          OBVIOUS
        <5>1. SaysRight(h, ts, p, v) BY <1>0, <2>1, <3>5, ChangeTopic DEF HomeOK, SaysOK
        <5>2. \A j \in h.calls : j.kind = "edit" /\ j.topic = call.topic => j = call
          BY <1>0, <3>5 DEF FlightOK, ChangesOK
        <5>3. LookRight(h2, ts, p, w) BY <2>9, <3>3, <5>1, <5>2 DEF SaysRight, LookRight
        <5>4. AboutRight(h2, ts, p, w) BY <3>2, <3>3, <5>1 DEF SaysRight, AboutRight
        <5>. QED BY <5>3, <5>4 DEF SaysRight
      <4>2. v.pending \in Lines BY <1>0 DEF FormOK
      <4>3. here =>
             /\ w.here /\ ~w.busy /\ w.pending \in Lines
             /\ Shares(w.pending) => Shares(v.pending)
             /\ w.fallback = v.fallback /\ (w.opening => v.opening)
             /\ \/ w.topic = 0
                \/ /\ w.topic = call.topic /\ call.kind \in {"edit", "separator"}
                   /\ ~p.lossy => SaysRight(h2, ts, p, w)
        BY <3>3, <3>5, <4>1, <4>2
      <4> HIDE DEF Same, Now, here, v
      <4>. QED BY <2>4, <3>2, <4>3
    <3>. QED BY <2>9, <3>4, <3>5
  <2>10. CASE call.kind \in {"edit", "separator", "post"} /\ call.got = "gone"
    <3>1. h2 = IF here THEN [h0 EXCEPT !.views[c] = blank] ELSE h0
      BY <2>10, <2>a DEF h2, Handled, OnTopicDone, OnLanded, Invalid, OfTopic
    <3> HIDE DEF blank, v, here
    <3>2. Same(h2) /\ Now(h2, blank) BY <2>3, <3>1 DEF Hub
    <3> HIDE DEF Same, Now, here, v
    <3>. QED BY <2>5, <3>2
  <2>11. CASE call.kind = "post" /\ call.got # "gone"
    <3>1. h2 \in {Proven(h0, "private"), Closed(h0, call)}
      BY <2>11 DEF h2, Handled, OnLanded
    <3>2. Same(h2) /\ h2.views = h.views BY <2>3, <3>1 DEF Hub, Proven, Closed
    <3> HIDE DEF Same, Now, here, v
    <3>. QED BY <2>6, <2>11, <3>2 DEF Changes
  <2>12. CASE call.kind = "delete"
    <3>1. h2 = OnDeleted(h0, call) BY <2>12 DEF h2, Handled
    <3>2. Same(h2) /\ h2.views = h.views BY <2>3, <3>1 DEF Hub, OnDeleted
    <3> HIDE DEF Same, Now, here, v
    <3>. QED BY <2>6, <2>12, <3>2 DEF Changes
  <2>13. CASE call.kind = "clean"
    <3> DEFINE h1 == Landed(h0, call)
    <3>1. h1 \in Hub /\ h1.views = h.views /\ Same(h1) BY <1>0, <2>3 DEF Hub, Landed
    <3>2. h1.views[c] = v BY <3>1
    <3>3. h2 = OnCleaned(h0, call) BY <2>13 DEF h2, Handled
    <3>4. \/ h2 = Invalid(h1, call)
          \/ Same(h2) /\ h2.views = h.views
      <4> HIDE DEF h1
      <4>1. \/ h2 = Invalid(h1, call) \/ h2 = h1
            \/ \E x : h2 = [h1 EXCEPT !.cleanup = @ \ Entries(h0, call.topic), !.ended = x]
        BY <3>3 DEF OnCleaned, h1
      <4>. QED BY <3>1, <4>1 DEF Hub
    <3>5. CASE h2 = Invalid(h1, call)
      <4> HIDE DEF h1
      <4>1. h2 = IF here THEN [h1 EXCEPT !.views[c] = blank] ELSE h1
        BY <3>2, <3>5 DEF Invalid, OfTopic
      <4> HIDE DEF blank, v, here
      <4>2. Same(h2) /\ Now(h2, blank) BY <3>1, <4>1 DEF Hub
      <4> HIDE DEF Same, Now, here, v
      <4>. QED BY <2>5, <4>2
    <3> HIDE DEF h1, Same, Now, here, v
    <3>. QED BY <2>6, <2>13, <3>4, <3>5 DEF Changes
  <2>14. call.kind \in Kind /\ (call.got = "gone" => call.kind # "create")
    BY <1>0 DEF Call, HubOK, MakingOK
  <2>. QED BY <1>2, <2>7, <2>8, <2>9, <2>10, <2>11, <2>12, <2>13, <2>14 DEF Kind
<1>. QED BY <1>1, <1>2

-----------------------------------------------------------------------------
(* The steps, once more.                                                   *)
LEMMA ActIsRight ==
  ASSUME NEW ts, NEW known, NEW gone, NEW p, NEW h, HubOK(h, ts, known, gone), HomeOK(h, ts, p),
         hub' = Pump(h), tg'.topics = ts, past' = p
  PROVE  HomeOK(hub', tg'.topics, past') /\ PumpedOK(hub')
BY PumpIsRight

LEMMA HomeParts ==
  ASSUME HomeInv
  PROVE  /\ TopicsInv /\ HubOK(hub, tg.topics, past.known, past.gone) /\ hub \in Hub
         /\ tg.topics \in Seq(Topic) /\ past \in Past /\ past.known \subseteq DOMAIN tg.topics
         /\ past.gone \subseteq past.known
         /\ HubOK(file, tg.topics, past.known, {}) /\ file \in Hub /\ file.calls = {}
         /\ HomeOK(hub, tg.topics, past) /\ PumpedOK(hub)
         /\ plan.topics \in Nat
BY TopicViewsAssumption, InvParts DEF HomeInv, TopicsInv, HubOK

LEMMA StartRight ==
  ASSUME HomeInv, NEW n \in Nat, Start(n)
  PROVE  HomeOK(hub', tg'.topics, past') /\ PumpedOK(hub')
<1> DEFINE h1  == [Occupied(hub, n) EXCEPT !.live = TRUE, !.running = TRUE, !.archived = FALSE]
           h   == IF hub.archived THEN Homed(h1) ELSE h1
           old == IF n = hub.session THEN past.old ELSE {e.view.topic : e \in hub.cleanup}
<1>1. /\ n \in Nat \ {0} /\ n \in {hub.session, hub.session + 1}
      /\ hub' = Pump(h) /\ tg' = tg /\ past' = [past EXCEPT !.old = old]
  BY DEF Start, Act
<1>2. HubOK(h, tg.topics, past.known, past.gone) BY HomeParts, StartIsFine DEF GoesOn
<1> HIDE DEF old
<1>3. /\ past'.lost = past.lost /\ past'.lossy = past.lossy /\ past'.since = past.since
      /\ past'.old = old
  BY <1>1, HomeParts DEF Past
<1>4. HomeOK(h, tg.topics, past')
  <2>1. /\ n = hub.session => past'.old = past.old
        /\ n # hub.session => past'.old = {e.view.topic : e \in hub.cleanup}
    BY <1>3 DEF old
  <2> HIDE DEF h
  <2>. QED BY <1>1, <1>3, <2>1, HomeParts, StartIsRight DEF h
<1> HIDE DEF h
<1>. QED BY <1>1, <1>2, <1>4, ActIsRight

LEMMA EndRight ==
  ASSUME HomeInv, End \/ Seen \/ GraceOver
  PROVE  HomeOK(hub', tg'.topics, past') /\ PumpedOK(hub')
<1>1. ASSUME NEW h \in Hub, h.views = hub.views, h.calls = hub.calls, h.unshared = hub.unshared,
             h.cleanup = hub.cleanup, h.ended = hub.ended, h.archived = hub.archived,
             h.session = hub.session, h.live => hub.live, hub' = Pump(h), UNCHANGED <<tg, past>>
      PROVE  HomeOK(hub', tg'.topics, past') /\ PumpedOK(hub')
  BY <1>1, HomeParts, SameIsFine, SameViewsAreRight, ActIsRight DEF HubOK, ArchiveOK, GoesOn
<1>2. CASE End BY <1>1, <1>2, HomeParts DEF End, Act, Hub
<1>3. CASE Seen BY <1>1, <1>3, HomeParts DEF Seen, Act, Hub
<1>4. CASE GraceOver BY <1>1, <1>4, HomeParts DEF GraceOver, Act, Hub
<1>. QED BY <1>2, <1>3, <1>4

LEMMA WritesRight ==
  ASSUME HomeInv, NEW t, UserWrites(t)
  PROVE  HomeOK(hub', tg'.topics, past') /\ PumpedOK(hub')
<1> DEFINE h1 == Reopened(hub)
           h  == Revived(h1, t)
<1>1. HubOK(h1, tg.topics, past.known, past.gone) /\ HomeOK(h1, tg.topics, past)
  BY HomeParts, ReopenedIsFine, ReopenedIsRight DEF GoesOn
<1>2. t \notin past.gone BY HomeParts, ZeroIsNone, InvParts DEF UserWrites, InChat
<1>3. hub' = Pump(h) /\ past' = past /\ tg' = [tg EXCEPT !.blocked = FALSE]
  BY DEF UserWrites, Act
<1> HIDE DEF h1
<1>4. HubOK(h, tg.topics, past.known, past.gone) /\ HomeOK(h, tg.topics, past)
  BY <1>1, <1>2, RevivedIsFine, RevivedIsRight DEF GoesOn
<1>5. tg'.topics = tg.topics BY <1>3, HomeParts, InvParts
<1> HIDE DEF h
<1>. QED BY <1>3, <1>4, <1>5, ActIsRight

(* Topics that say what they said.                                         *)
LEMMA SameLooks ==
  ASSUME NEW ts, NEW known, NEW gone, NEW p, NEW h, HubOK(h, ts, known, gone), HomeOK(h, ts, p),
         NEW ts2, \A t \in DOMAIN ts : ts2[t].look = ts[t].look /\ ts2[t].shows = ts[t].shows
  PROVE  HomeOK(h, ts2, p)
<1>0. FormOK(h) /\ FlightOK(h, ts) /\ SaysOK(h, ts, p) BY DEF HomeOK
<1>1. \A k \in h.calls : k.kind \in {"edit", "separator"} \/ (k.kind = "create" /\ k.got = "ok")
                           => k.topic \in DOMAIN ts
  BY ChangeTopic DEF HubOK, MakingOK, IsIn
<1>2. SeparatorsOK(h, ts2) /\ MadeOK(h, ts2)
  BY <1>0, <1>1 DEF FlightOK, SeparatorsOK, MadeOK
<1>3. ASSUME NEW v, v.topic \in DOMAIN ts, SaysRight(h, ts, p, v) PROVE SaysRight(h, ts2, p, v)
  BY <1>3 DEF SaysRight, LookRight, AboutRight
<1>4. SaysOK(h, ts2, p) BY ViewTopic, <1>0, <1>3 DEF IsIn, HubOK, PlacesOK, SaysOK
<1>. QED BY <1>0, <1>2, <1>4 DEF HomeOK, FlightOK

LEMMA DeletesRight ==
  ASSUME HomeInv, NEW t, UserDeletes(t)
  PROVE  /\ HomeOK(hub', tg'.topics, past') /\ PumpedOK(hub')
         /\ Len(tg'.topics) = Len(tg.topics)
<1>1. /\ t \in DOMAIN tg.topics /\ UNCHANGED <<hub, past>>
      /\ tg' = [tg EXCEPT !.topics[t].alive = FALSE]
  BY DEF UserDeletes, InChat
<1> DEFINE x == [tg.topics[t] EXCEPT !.alive = FALSE]
<1>2. x \in Topic /\ x.look = tg.topics[t].look /\ x.shows = tg.topics[t].shows
  <2>1. tg.topics[t] \in Topic BY <1>1, HomeParts
  <2>. QED BY <2>1 DEF Topic
<1>3. tg' = [tg EXCEPT !.topics = [tg.topics EXCEPT ![t] = x]] BY <1>1
<1> HIDE DEF x
<1>4. tg'.topics = [tg.topics EXCEPT ![t] = x] BY <1>3, HomeParts, InvParts
<1>5. Len(tg'.topics) = Len(tg.topics) BY <1>4, HomeParts
<1>6. \A i \in DOMAIN tg.topics : /\ tg'.topics[i].look = tg.topics[i].look
                                  /\ tg'.topics[i].shows = tg.topics[i].shows
  BY <1>2, <1>4, HomeParts
<1>7. HomeOK(hub, tg'.topics, past) BY <1>6, HomeParts, SameLooks
<1>. QED BY <1>1, <1>5, <1>7, HomeParts

LEMMA ShareRight ==
  ASSUME HomeInv, Share
  PROVE  HomeOK(hub', tg'.topics, past') /\ PumpedOK(hub')
<1> DEFINE ts      == tg.topics
           adopted == hub.views["group"].here /\ hub.views["group"].fallback
           h0      == IF adopted THEN Shared(hub) ELSE hub
           h1      == Reopened(h0)
           h       == IF ~adopted /\ AtHome(h1) THEN Shared(h1) ELSE h1
           Fine(g) == /\ HubOK(g, ts, past.known, past.gone) /\ HomeOK(g, ts, past)
                      /\ ~g.archived
<1>0. /\ hub' = Pump(h) /\ past' = past
      /\ tg' = [tg EXCEPT !.blocked = FALSE] /\ hub.views["private"].topic \in InChat("private")
  BY DEF Share, Act, FromHome
<1>1. Fine(hub) BY <1>0, HomeParts, ZeroIsNone DEF InChat, HubOK, ArchiveOK, Chat
<1>2. ASSUME NEW g, Fine(g) PROVE Fine(Shared(g))
  BY <1>2, SharedIsFine, SharedIsRight DEF GoesOn
<1>3. ASSUME NEW g, Fine(g) PROVE Fine(Reopened(g))
  BY <1>3, ReopenedIsFine, ReopenedIsRight DEF GoesOn
<1> HIDE DEF Fine
<1>4. Fine(h0) BY <1>1, <1>2
<1> HIDE DEF h0
<1>5. Fine(h1) BY <1>3, <1>4
<1> HIDE DEF h1
<1>6. Fine(h) BY <1>2, <1>5
<1> HIDE DEF h
<1>7. tg'.topics = ts BY <1>0, HomeParts, InvParts
<1>. QED BY <1>0, <1>6, <1>7, ActIsRight DEF Fine

LEMMA UnshareRight ==
  ASSUME HomeInv, Unshare
  PROVE  HomeOK(hub', tg'.topics, past') /\ PumpedOK(hub')
<1> DEFINE h1 == Reopened(hub)
           h  == Unshared(h1)
<1>1. HubOK(h1, tg.topics, past.known, past.gone) /\ HomeOK(h1, tg.topics, past)
  BY HomeParts, ReopenedIsFine, ReopenedIsRight DEF GoesOn
<1>2. hub' = Pump(h) /\ past' = past /\ tg' = [tg EXCEPT !.blocked = FALSE]
  BY DEF Unshare, Act, FromHome
<1> HIDE DEF h1
<1>3. HubOK(h, tg.topics, past.known, past.gone) /\ HomeOK(h, tg.topics, past)
  BY <1>1, UnsharedIsFine, UnsharedIsRight DEF GoesOn
<1>4. tg'.topics = tg.topics BY <1>2, HomeParts, InvParts
<1> HIDE DEF h
<1>. QED BY <1>2, <1>3, <1>4, ActIsRight

LEMMA CleanupRight ==
  ASSUME HomeInv, Cleanup
  PROVE  HomeOK(hub', tg'.topics, past') /\ PumpedOK(hub')
<1> DEFINE h == Archived(hub)
<1>1. /\ ~hub.live /\ ~hub.archived /\ (\A c \in Shown(hub) : ~hub.views[c].busy)
      /\ hub' = Pump(h) /\ UNCHANGED <<tg, past>>
  BY DEF Cleanup, Act
<1>2. HubOK(h, tg.topics, past.known, past.gone) /\ HomeOK(h, tg.topics, past)
  BY <1>1, HomeParts, ArchivedIsFine, ArchivedIsRight DEF GoesOn
<1> HIDE DEF h
<1>. QED BY <1>1, <1>2, ActIsRight

(* Calls alone change nothing of what the pump left.                       *)
LEMMA PumpedSame ==
  ASSUME NEW h \in Hub, PumpedOK(h), NEW new
  PROVE  PumpedOK([h EXCEPT !.calls = new])
<1> DEFINE h2 == [h EXCEPT !.calls = new]
<1>1. /\ h2.views = h.views /\ h2.session = h.session /\ h2.live = h.live
      /\ h2.archived = h.archived /\ h2.running = h.running /\ h2.closed = h.closed
      /\ h2.proven = h.proven /\ h2.edits = h.edits
  BY DEF Hub
<1> HIDE DEF h2
<1>2. \A c : Usable(h2, c) <=> Usable(h, c) BY <1>1 DEF Usable
<1>3. Shown(h2) = Shown(h) /\ (Leaves(h2) <=> Leaves(h))
  BY <1>1, <1>2 DEF Shown, Leaves, AtHome, Ready
<1>4. Wanted(h2) = Wanted(h) BY <1>1 DEF Wanted
<1>5. \A c \in Chat : JobsOf(h2, c) = JobsOf(h, c) BY <1>1, <1>2, <1>4 DEF JobsOf
<1>6. PumpedOK(h2) BY <1>1, <1>2, <1>3, <1>5 DEF PumpedOK
<1>. QED BY <1>6 DEF h2

LEMMA PostRight ==
  ASSUME HomeInv, TopicsInv', Post
  PROVE  HomeOK(hub', tg'.topics, past') /\ PumpedOK(hub')
<1> DEFINE k == CallOf("post", "private", hub.views["private"].topic, <<>>, <<>>)
<1>1. hub' = Handed(hub, k) /\ UNCHANGED <<tg, past>> /\ k.kind = "post"
  BY DEF Post, CallOf
<1> HIDE DEF k
<1>2. HubOK(hub', tg.topics, past.known, past.gone) BY <1>1 DEF TopicsInv
<1>3. /\ hub'.views = hub.views /\ hub'.session = hub.session /\ hub'.archived = hub.archived
      /\ hub'.cleanup = hub.cleanup /\ hub'.calls = hub.calls \cup {k}
      /\ hub' = [hub EXCEPT !.calls = hub.calls \cup {k}]
  BY <1>1, HomeParts DEF Hub, Handed
<1>4. HomeOK(hub', tg.topics, past)
  BY <1>1, <1>2, <1>3, HomeParts, CallsAreRight DEF Changes
<1>5. PumpedOK(hub') BY <1>3, HomeParts, PumpedSame
<1>. QED BY <1>1, <1>4, <1>5

(* What a call that gets through changes of the topics.                    *)
LEMMA DoneShows ==
  ASSUME tg \in [topics : Seq(Topic), blocked : BOOLEAN],
         NEW call \in Call, call.kind # "create" => call.topic \in DOMAIN tg.topics
  PROVE  LET ts  == tg.topics
             ts2 == Done(call).topics
         IN  /\ \A t \in DOMAIN ts :
                  /\ \/ ts2[t].look = ts[t].look
                     \/ call.kind = "edit" /\ t = call.topic
                  /\ \/ ts2[t].shows = ts[t].shows
                     \/ call.kind = "separator" /\ t = call.topic /\ Last(call.text) # ShareLine
             /\ call.kind = "edit" => ts2[call.topic].look = call.look
             /\ call.kind = "separator" /\ Last(call.text) # ShareLine
                  => ts2[call.topic].shows = Last(call.text)
             /\ call.kind = "create" => /\ ts2[Len(ts) + 1].shows = 0
                                        /\ ts2[Len(ts) + 1].look = call.look
             /\ Len(ts2) = IF call.kind = "create" THEN Len(ts) + 1 ELSE Len(ts)
<1> DEFINE ts  == tg.topics
           t   == call.topic
           r   == Done(call)
           ts2 == r.topics
           Shows == /\ \A i \in DOMAIN ts :
                         /\ \/ ts2[i].look = ts[i].look
                            \/ call.kind = "edit" /\ i = t
                         /\ \/ ts2[i].shows = ts[i].shows
                            \/ call.kind = "separator" /\ i = t /\ Last(call.text) # ShareLine
                    /\ call.kind = "edit" => ts2[t].look = call.look
                    /\ call.kind = "separator" /\ Last(call.text) # ShareLine
                         => ts2[t].shows = Last(call.text)
                    /\ call.kind = "create" => /\ ts2[Len(ts) + 1].shows = 0
                                               /\ ts2[Len(ts) + 1].look = call.look
                    /\ Len(ts2) = IF call.kind = "create" THEN Len(ts) + 1 ELSE Len(ts)
<1> SUFFICES Shows
  OBVIOUS
<1>0. ts \in Seq(Topic) /\ call.kind \in Kind BY DEF Call
<1>1. CASE call.kind = "create"
  <2> DEFINE new == [chat |-> call.chat, alive |-> TRUE, look |-> call.look, shows |-> 0]
  <2>1. new.look = call.look /\ new.shows = 0 OBVIOUS
  <2>2. r = [tg EXCEPT !.topics = Append(ts, new)] BY <1>1 DEF Done
  <2> HIDE DEF new, r
  <2>3. ts2 = Append(ts, new) BY <2>2
  <2> HIDE DEF ts, ts2
  <2>4. /\ Len(ts2) = Len(ts) + 1 /\ ts2[Len(ts) + 1] = new
        /\ \A i \in DOMAIN ts : ts2[i] = ts[i]
    BY <1>0, <2>3
  <2>. QED BY <1>1, <2>1, <2>4
<1>2. CASE call.kind \in {"edit", "separator", "delete", "clean"}
  <2>0. t \in DOMAIN ts /\ ts[t] \in Topic BY <1>0, <1>2
  <2> DEFINE n == IF Last(call.text) = ShareLine THEN ts[t].shows ELSE Last(call.text)
             x == IF call.kind = "edit" THEN [ts[t] EXCEPT !.look = call.look]
                  ELSE IF call.kind = "separator" THEN [ts[t] EXCEPT !.shows = n]
                  ELSE [ts[t] EXCEPT !.alive = FALSE]
  <2>1. r = [tg EXCEPT !.topics = [ts EXCEPT ![t] = x]] BY <1>2, <2>0 DEF Done
  <2>a. /\ Last(call.text) = ShareLine => n = ts[t].shows
        /\ Last(call.text) # ShareLine => n = Last(call.text)
    OBVIOUS
  <2> HIDE DEF n
  <2>2. /\ call.kind = "edit" => x.look = call.look /\ x.shows = ts[t].shows
        /\ call.kind = "separator" => x.look = ts[t].look /\ x.shows = n
        /\ call.kind \in {"delete", "clean"} => x.look = ts[t].look /\ x.shows = ts[t].shows
    BY <2>0 DEF Topic
  <2> HIDE DEF x, r
  <2>3. ts2 = [ts EXCEPT ![t] = x] BY <2>1
  <2> HIDE DEF ts, ts2
  <2>4. /\ Len(ts2) = Len(ts) /\ ts2[t] = x
        /\ \A i \in DOMAIN ts : i # t => ts2[i] = ts[i]
    BY <1>0, <2>0, <2>3
  <2>. QED BY <1>2, <2>2, <2>4, <2>a
<1>3. CASE call.kind = "post"
  <2>1. r = tg BY <1>3 DEF Done
  <2> HIDE DEF r
  <2>2. ts2 = ts BY <2>1
  <2> HIDE DEF ts, ts2
  <2>. QED BY <1>3, <2>2
<1>. QED BY <1>0, <1>1, <1>2, <1>3 DEF Kind

LEMMA TakesRight ==
  ASSUME HomeInv, NEW call \in hub.calls, Takes(call)
  PROVE  /\ HomeOK(hub', tg'.topics, past') /\ PumpedOK(hub')
         /\ Len(tg'.topics) =< plan.topics
<1> DEFINE ts    == tg.topics
           ts2   == Done(call).topics
           made  == call.kind = "create"
           topic == IF made THEN Len(ts) + 1 ELSE call.topic
           With(k) == hub' = [hub EXCEPT !.calls = (@ \ {call}) \cup {k}]
<1>0. /\ HubOK(hub, ts, past.known, past.gone) /\ hub \in Hub /\ call \in Call
      /\ tg \in [topics : Seq(Topic), blocked : BOOLEAN] /\ ts \in Seq(Topic)
      /\ past.known \subseteq DOMAIN ts /\ HomeOK(hub, ts, past) /\ PumpedOK(hub)
      /\ plan.topics \in Nat /\ Len(ts) =< plan.topics
  BY HomeParts, InvParts DEF Hub, HomeInv
<1>1. past' = past /\ call.got = "none" /\ (made => Len(ts) < plan.topics) BY DEF Takes
<1>2. call.kind # "create" => call.topic \in DOMAIN ts
  BY <1>0, <1>1 DEF HubOK, CallsOK, CallOK, IsIn
<1>3. /\ \A t \in DOMAIN ts :
           /\ \/ ts2[t].look = ts[t].look
              \/ call.kind = "edit" /\ t = call.topic
           /\ \/ ts2[t].shows = ts[t].shows
              \/ call.kind = "separator" /\ t = call.topic /\ Last(call.text) # ShareLine
      /\ call.kind = "edit" => ts2[call.topic].look = call.look
      /\ call.kind = "separator" /\ Last(call.text) # ShareLine
           => ts2[call.topic].shows = Last(call.text)
      /\ made => ts2[Len(ts) + 1].shows = 0 /\ ts2[Len(ts) + 1].look = call.look
      /\ Len(ts2) = IF made THEN Len(ts) + 1 ELSE Len(ts)
  BY <1>0, <1>2, DoneShows
<1> HIDE DEF ts2
<1>4. ASSUME NEW k, With(k), k.kind = call.kind, k.chat = call.chat, k.text = call.text,
             k.look = call.look, ~made => k.topic = call.topic, k.got # "none",
             \/ tg' = tg /\ k.got \notin {"ok", "lost"}
             \/ tg' = Done(call) /\ k.got = "lost"
             \/ tg' = Done(call) /\ k.got = "ok" /\ (made => k.topic = Len(ts) + 1)
      PROVE  /\ HomeOK(hub', tg'.topics, past') /\ PumpedOK(hub')
             /\ Len(tg'.topics) =< plan.topics
  <2>1. PumpedOK(hub')
    <3> DEFINE new == (hub.calls \ {call}) \cup {k}
    <3>1. hub' = [hub EXCEPT !.calls = new] BY <1>4
    <3> HIDE DEF new
    <3>. QED BY <1>0, <3>1, PumpedSame
  <2>2. CASE tg' = tg /\ k.got \notin {"ok", "lost"}
    BY <1>0, <1>1, <1>4, <2>2, TakenIsRight, <2>1
  <2>3. CASE /\ tg' = Done(call) /\ k.got \in {"ok", "lost"}
             /\ made /\ k.got = "ok" => k.topic = Len(ts) + 1
    <3>1. HomeOK(hub', ts2, past) BY <1>0, <1>1, <1>3, <1>4, <2>3, TakenIsRight, SMTT(30)
    <3>2. Len(ts2) =< plan.topics BY <1>0, <1>1, <1>3
    <3>. QED BY <1>1, <2>1, <2>3, <3>1, <3>2 DEF ts2
  <2>. QED BY <1>4, <2>2, <2>3
<1>5. ASSUME NEW got, got \notin {"none", "ok"}, Answer(call, got),
             \/ tg' = tg /\ got # "lost"
             \/ tg' = Done(call) /\ got = "lost"
      PROVE  /\ HomeOK(hub', tg'.topics, past') /\ PumpedOK(hub')
             /\ Len(tg'.topics) =< plan.topics
  <2> DEFINE k == [call EXCEPT !.got = got]
  <2>1. /\ k.kind = call.kind /\ k.chat = call.chat /\ k.text = call.text
        /\ k.look = call.look /\ k.topic = call.topic /\ k.got = got
    BY <1>0 DEF Call
  <2>2. With(k) BY <1>5 DEF Answer
  <2> HIDE DEF k, With, ts
  <2>. QED BY <1>4, <1>5, <2>1, <2>2
<1>6. ASSUME tg' = Done(call), With([call EXCEPT !.topic = topic, !.got = "ok"])
      PROVE  /\ HomeOK(hub', tg'.topics, past') /\ PumpedOK(hub')
             /\ Len(tg'.topics) =< plan.topics
  <2> DEFINE k == [call EXCEPT !.topic = topic, !.got = "ok"]
  <2>1. /\ ~made => topic = call.topic
        /\ made => topic = Len(ts) + 1
    OBVIOUS
  <2> HIDE DEF topic
  <2>2. /\ k.kind = call.kind /\ k.chat = call.chat /\ k.text = call.text
        /\ k.look = call.look /\ k.topic = topic /\ k.got = "ok"
    BY <1>0 DEF Call
  <2>3. With(k) BY <1>6
  <2> HIDE DEF k, With, ts
  <2>. QED BY <1>4, <1>6, <2>1, <2>2, <2>3
<1>7. \/ \E got \in {"lost", "failed", "refused", "gone", "forbidden"} :
           /\ Answer(call, got)
           /\ \/ tg' = tg /\ got # "lost"
              \/ tg' = Done(call) /\ got = "lost"
      \/ tg' = Done(call) /\ With([call EXCEPT !.topic = topic, !.got = "ok"])
  BY DEF Takes
<1>. QED BY <1>5, <1>6, <1>7

LEMMA AnsweredRight ==
  ASSUME HomeInv, NEW call \in hub.calls, Answered(call)
  PROVE  HomeOK(hub', tg'.topics, past') /\ PumpedOK(hub')
<1> DEFINE ts     == tg.topics
           made   == call.kind = "create" /\ call.got = "ok"
           known2 == IF call.kind = "create" /\ call.got = "ok" THEN past.known \cup {call.topic}
                     ELSE past.known
           gone2  == IF call.got = "gone" \/ (call.kind \in {"delete", "clean"} /\ call.got = "ok")
                     THEN past.gone \cup {call.topic} ELSE past.gone
           since2 == IF made THEN [past.since EXCEPT ![call.topic] = hub.session] ELSE past.since
           lost2  == past.lost \/ (call.kind = "edit" /\ call.got = "lost")
           h      == Handled(Without(hub, call), call)
<1>0. /\ HubOK(hub, ts, past.known, past.gone) /\ HomeOK(hub, ts, past) /\ ts \in Seq(Topic)
      /\ past \in Past /\ past.gone \subseteq past.known
      /\ plan.topics \in Nat /\ Len(ts) =< plan.topics
  BY HomeParts DEF HomeInv
<1>1. call.got # "none" /\ hub' = Pump(h) /\ past' = Told(call) /\ tg' = tg
  BY DEF Answered, Act
<1>2. made => call.topic \in DOMAIN past.since
  <2> SUFFICES ASSUME made PROVE call.topic \in 1 .. plan.topics
    BY <1>0 DEF Past
  <2>1. call.topic \in DOMAIN ts BY <1>0 DEF HubOK, MakingOK, IsIn
  <2>. QED BY <1>0, <2>1
<1>3. /\ past'.lossy = past.lossy /\ past'.old = past.old /\ past'.lost = lost2
      /\ past'.since = since2
  <2>1. past' = [past EXCEPT !.known = known2, !.since = since2, !.gone = gone2, !.lost = lost2]
    BY <1>1 DEF Told
  <2> HIDE DEF known2, since2, gone2, lost2
  <2>. QED BY <1>0, <2>1 DEF Past
<1>4. HomeOK(h, ts, past')
  <2> HIDE DEF h
  <2>. QED BY <1>0, <1>1, <1>2, <1>3, HandledIsRight DEF h
<1>5. HubOK(h, ts, known2, gone2)
  <2>1. /\ known2 = IF call.kind = "create" /\ call.got = "ok" THEN past.known \cup {call.topic}
                    ELSE past.known
        /\ gone2 = IF call.got = "gone" \/ (call.kind \in {"delete", "clean"} /\ call.got = "ok")
                   THEN past.gone \cup {call.topic} ELSE past.gone
    OBVIOUS
  <2> HIDE DEF known2, gone2, h
  <2>2. LET r == Handled(Without(hub, call), call)
        IN  /\ GoesOn(hub, r, ts, known2, gone2)
            /\ \A t \in known2 : t \in past.known \/ t \in Held(r)
    BY <1>0, <1>1, <2>1, HandledIsFine
  <2>. QED BY <2>2 DEF h, GoesOn
<1> HIDE DEF h, known2, gone2
<1>. QED BY <1>1, <1>4, <1>5, ActIsRight

LEMMA RetryRight ==
  ASSUME HomeInv, Retry
  PROVE  HomeOK(hub', tg'.topics, past') /\ PumpedOK(hub')
<1> DEFINE again(v) == [v EXCEPT !.failed = {}]
           h == [EachView(hub, again) EXCEPT !.later = {}]
<1>1. hub' = Pump(h) /\ UNCHANGED <<tg, past>> BY DEF Retry, Act
<1>2. HubOK(h, tg.topics, past.known, past.gone) BY HomeParts, RetriedIsFine DEF GoesOn
<1>3. HomeOK(h, tg.topics, past) BY HomeParts, RetriedIsRight
<1> HIDE DEF h
<1>. QED BY <1>1, <1>2, <1>3, ActIsRight

LEMMA CrashRight ==
  ASSUME HomeInv, Crash
  PROVE  HomeOK(hub', tg'.topics, past') /\ PumpedOK(hub')
<1> DEFINE ts     == tg.topics
           known2 == past.known \cap (Held(file) \cup hub.ended)
           lost2  == past.lost \/ \E k \in hub.calls : k.kind = "edit" /\ k.got \in {"ok", "lost"}
           lossy2 == past.lossy \/ file # Restored(hub)
           h      == [file EXCEPT !.ended = hub.ended]
<1>0. /\ HubOK(hub, ts, past.known, past.gone) /\ HomeOK(hub, ts, past) /\ past \in Past
      /\ HubOK(file, ts, past.known, {}) /\ file \in Hub /\ hub \in Hub /\ file.calls = {}
      /\ FormOK(file) /\ \A c \in Chat : ~file.views[c].busy
  BY HomeParts DEF HomeInv
<1>1. /\ hub' = Pump(h) /\ tg' = tg
      /\ past' = [past EXCEPT !.known = known2, !.gone = {}, !.lost = lost2, !.lossy = lossy2]
  BY DEF Crash, Act
<1>2. /\ past'.since = past.since /\ past'.old = past.old
      /\ past'.lost = lost2 /\ past'.lossy = lossy2
  <2> HIDE DEF known2, lost2, lossy2, h
  <2>. QED BY <1>0, <1>1 DEF Past
<1>3. HubOK(h, ts, past.known, {})
  <2>1. h \in Hub BY <1>0 DEF Hub
  <2>2. /\ h.views = file.views /\ h.calls = file.calls /\ h.unshared = file.unshared
        /\ h.cleanup = file.cleanup /\ h.live = file.live /\ h.archived = file.archived
        /\ h.ended = hub.ended
    BY <1>0 DEF Hub
  <2> HIDE DEF h
  <2>. QED BY <1>0, <2>1, <2>2, LessIsFine DEF HubOK, ArchiveOK
<1>4. HomeOK(h, ts, past')
  <2>1. /\ past.lost => past'.lost
        /\ (\E k \in hub.calls : k.kind = "edit" /\ k.got \in {"ok", "lost"}) => past'.lost
        /\ ~past'.lossy => ~past.lossy /\ file = Restored(hub)
    BY <1>2
  <2>. QED BY <1>0, <1>2, <2>1, CrashedIsRight
<1> HIDE DEF h
<1>. QED BY <1>1, <1>3, <1>4, ActIsRight

LEMMA SaveRight ==
  ASSUME HomeInv, Save
  PROVE  FormOK(file') /\ \A c \in Chat : ~file'.views[c].busy
BY HomeParts, RestoredIsRight DEF Save, HomeOK

LEMMA InitRight ==
  ASSUME Init
  PROVE  HomeInv
<1>1. /\ NoSlot.calls = {} /\ NoSlot.cleanup = {} /\ ~NoSlot.live /\ NoSlot.archived
      /\ ~NoSlot.closed /\ ~NoSlot.proven /\ ~NoSlot.running
      /\ NoSlot.views["private"] = NoView /\ NoSlot.views["group"] = NewView
  BY DEF NoSlot
<1>2. FormOK(NoSlot) /\ \A c \in Chat : ~NoSlot.views[c].busy
  BY <1>1, EmptyForm DEF FormOK, Chat
<1>3. HomeOK(NoSlot, tg.topics, past)
  BY <1>1, EmptyForm, <1>2 DEF Chat, FlightOK, BusyOK, ChangesOK, SeparatorsOK, MadeOK, HomeOK,
     SaysOK
<1>4. PumpedOK(NoSlot) BY <1>1, EmptyForm DEF JobsOf, Leaves, PumpedOK
<1>5. hub = NoSlot /\ file = NoSlot /\ plan \in Plans /\ tg.topics = <<>> BY DEF Init
<1>6. Len(tg.topics) =< plan.topics BY <1>5, TopicViewsAssumption
<1>. QED BY <1>2, <1>3, <1>4, <1>5, <1>6, InitFine DEF HomeInv

LEMMA NextRight ==
  ASSUME HomeInv, [Next]_topicVars
  PROVE  HomeInv'
<1>0. plan' = plan
  BY DEF Next, topicVars, Start, End, Seen, UserWrites, UserDeletes, UserBlocks, Share,
         Unshare, Cleanup, Post, Takes, Answered, Retry, GraceOver, Save, Crash
<1>1. TopicsInv' /\ (plan \in Plans)' BY <1>0, NextFine DEF HomeInv
<1>2. /\ HomeOK(hub', tg'.topics, past') /\ PumpedOK(hub')
      /\ Len(tg'.topics) =< plan.topics
  <2> DEFINE Right == /\ HomeOK(hub', tg'.topics, past') /\ PumpedOK(hub')
                      /\ Len(tg'.topics) =< plan.topics
  <2>a. Len(tg.topics) =< plan.topics /\ tg \in [topics : Seq(Topic), blocked : BOOLEAN]
    BY HomeParts, InvParts DEF HomeInv
  <2>1. CASE UNCHANGED <<hub, tg, past>> BY <2>1, <2>a, HomeParts
  <2>2. CASE tg'.topics = tg.topics /\ HomeOK(hub', tg'.topics, past') /\ PumpedOK(hub')
    BY <2>2, <2>a
  <2> HIDE DEF Right
  <2>3. CASE \E n \in 1 .. plan.runs : Start(n)
    <3>1. PICK n \in 1 .. plan.runs : Start(n) BY <2>3
    <3>2. tg' = tg BY <3>1 DEF Start
    <3>. QED BY <2>2, <3>1, <3>2, StartRight
  <2>4. CASE End \/ Seen \/ GraceOver \/ Cleanup \/ Retry
    BY <2>4, <2>2, EndRight, CleanupRight, RetryRight DEF End, Seen, GraceOver, Cleanup, Retry
  <2>5. CASE \E t \in 0 .. Len(tg.topics) : UserWrites(t)
    <3>1. PICK t : UserWrites(t) BY <2>5
    <3>2. tg'.topics = tg.topics BY <2>a, <3>1 DEF UserWrites
    <3>. QED BY <2>2, <3>1, <3>2, WritesRight
  <2>6. CASE \E t \in DOMAIN tg.topics : UserDeletes(t)
    BY <2>6, <2>a, DeletesRight DEF Right
  <2>7. CASE UserBlocks BY <2>7, <2>a, <2>2, HomeParts DEF UserBlocks
  <2>8. CASE Share \/ Unshare
    BY <2>8, <2>a, <2>2, ShareRight, UnshareRight DEF Share, Unshare, FromHome
  <2>9. CASE Post BY <2>9, <1>1, <2>2, PostRight DEF Post
  <2>10. CASE \E call \in hub.calls : Takes(call) BY <2>10, TakesRight DEF Right
  <2>11. CASE \E call \in hub.calls : Answered(call)
    <3>1. PICK call \in hub.calls : Answered(call) BY <2>11
    <3>2. tg' = tg BY <3>1 DEF Answered
    <3>. QED BY <2>2, <3>1, <3>2, AnsweredRight
  <2>12. CASE Crash BY <2>12, <2>2, CrashRight DEF Crash
  <2>13. CASE Save BY <2>1, <2>13 DEF Save
  <2>14. CASE UNCHANGED topicVars BY <2>1, <2>14 DEF topicVars
  <2>. QED BY <2>3, <2>4, <2>5, <2>6, <2>7, <2>8, <2>9, <2>10, <2>11, <2>12, <2>13, <2>14
           DEF Next, Right
<1>3. FormOK(file') /\ \A c \in Chat : ~file'.views[c].busy
  <2>1. CASE file' = file BY <2>1 DEF HomeInv
  <2>2. CASE Save BY <2>2, SaveRight
  <2>. QED BY <2>1, <2>2
           DEF Next, topicVars, Start, End, Seen, UserWrites, UserDeletes, UserBlocks, Share,
               Unshare, Cleanup, Post, Takes, Answered, Retry, GraceOver, Crash
<1>. QED BY <1>0, <1>1, <1>2, <1>3 DEF HomeInv

-----------------------------------------------------------------------------
(* What a running session shows is right, or the hub owes it a line, or a *)
(* call that puts it right is under way, at every step, for every plan;    *)
(* the pump leaves nothing undone.                                         *)
THEOREM HomeInvariance == Spec => []HomeInv
<1>. QED BY InitRight, NextRight, PTL DEF Spec

(* Once all is quiet, a running session has its topic where its owner is,  *)
(* and its topics say whose they are and how it is.                        *)
THEOREM SessionIsAtHome == Spec => []HomeIsRight
<1>1. HomeInv => HomeIsRight
  <2> SUFFICES ASSUME HomeInv, Quiet, hub.live, hub.running
               PROVE  /\ ~hub.closed => AtHome(hub) /\ ~(hub.proven /\ hub.views["group"].fallback)
                      /\ hub.closed => hub.views["group"].topic # 0
                      /\ \A c \in Chat : \A t \in {hub.views[c].topic} \cap InChat(c) :
                           Usable(hub, c) /\ ~past.lossy =>
                             /\ t \in past.old \/ About(t) = hub.session
                             /\ past.lost \/ tg.topics[t].look = Wanted(hub)
    BY DEF HomeIsRight
  <2>1. /\ hub.calls = {} /\ hub.edits /\ \A c \in Chat : hub.views[c].failed = {}
    BY DEF Quiet
  <2>2. FormOK(hub) /\ SaysOK(hub, tg.topics, past) /\ \A c \in Chat : ~hub.views[c].busy
    BY <2>1, HomeParts DEF HomeOK, FlightOK, BusyOK
  <2>3. ~hub.archived BY HomeParts DEF HubOK, ArchiveOK
  <2>4. ASSUME NEW c \in Chat, hub.views[c].here, Usable(hub, c)
        PROVE  /\ hub.views[c].topic # 0 /\ hub.views[c].pending = <<>>
               /\ hub.views[c].applied = Wanted(hub)
    BY <2>1, <2>2, <2>3, <2>4, HomeParts DEF PumpedOK, JobsOf
  <2>5. ~hub.closed => AtHome(hub) /\ ~(hub.proven /\ hub.views["group"].fallback)
    <3> SUFFICES ASSUME ~hub.closed
                 PROVE  AtHome(hub) /\ ~(hub.proven /\ hub.views["group"].fallback)
      OBVIOUS
    <3>1. AtHome(hub) BY <2>4, HomeParts DEF PumpedOK, AtHome, Ready, Usable, Chat
    <3>2. ~(hub.proven /\ hub.views["group"].fallback)
      BY <2>2, <3>1, HomeParts DEF PumpedOK, Leaves, FormOK, Chat
    <3>. QED BY <3>1, <3>2
  <2>6. hub.closed => hub.views["group"].topic # 0
    BY <2>4, HomeParts DEF PumpedOK, Usable, Shown, Chat
  <2>7. ASSUME NEW c \in Chat, NEW t, t = hub.views[c].topic, t \in InChat(c),
               Usable(hub, c), ~past.lossy
        PROVE  /\ t \in past.old \/ About(t) = hub.session
               /\ past.lost \/ tg.topics[t].look = Wanted(hub)
    <3>1. t # 0 BY <2>7, HomeParts, ZeroIsNone DEF InChat
    <3>2. hub.views[c].here BY <2>7, <3>1, HomeParts DEF HubOK, PlacesOK
    <3>3. SaysRight(hub, tg.topics, past, hub.views[c]) BY <2>2, <2>7, <3>1 DEF SaysOK
    <3>4. hub.views[c].pending = <<>> /\ hub.views[c].applied = Wanted(hub)
      BY <2>4, <2>7, <3>2
    <3>5. past.lost \/ tg.topics[t].look = Wanted(hub)
      BY <2>1, <2>7, <3>3, <3>4 DEF SaysRight, LookRight
    <3>6. hub.views[c].pending \notin Names(hub.session) BY <3>4 DEF Names
    <3>7. t \in past.old \/ About(t) = hub.session
      BY <2>7, <3>3, <3>6 DEF SaysRight, AboutRight, About
    <3>. QED BY <3>5, <3>7
  <2>. QED BY <2>5, <2>6, <2>7
<1>. QED BY <1>1, HomeInvariance, PTL
=============================================================================
