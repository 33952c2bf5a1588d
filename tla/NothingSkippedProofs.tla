------------------------- MODULE NothingSkippedProofs -------------------------
(* Proof that TranscriptStream skips no line, for every transcript, every  *)
(* limit and everything that may go wrong.                                 *)
EXTENDS TranscriptStreamProofs

(* What became of a message that was handed to the scheduler.              *)
Took(s, m) == m.state = "accepted" \/ Done(s, m)

Lost(s, m) ==
  \/ m.state = "refused"
  \/ \E r \in s.out.done : r.number = m.number /\ r.what \in {"gone", "unsent"}

(* The places a restart or a rewind may read on from: the offset is place  *)
(* 0, then come the barriers, and where the stream is now.                 *)
Places(s) ==
  {k \in 0 .. Len(s.live.waiting) + 1 :
     k \in DOMAIN s.live.waiting => IsBarrier(s.live.waiting[k])}

ToAt(s, k, at, cur) ==
  IF k = 0 THEN at ELSE IF k \in DOMAIN s.live.waiting THEN s.live.waiting[k].to ELSE cur

OpenAt(s, k) ==
  IF k = 0 THEN s.live.committed
  ELSE IF k \in DOMAIN s.live.waiting THEN s.live.waiting[k].open ELSE s.live.open

(* The messages before a place.                                            *)
Before(s, k) ==
  {s.live.waiting[j] : j \in {h \in DOMAIN s.live.waiting : h < k /\ ~IsBarrier(s.live.waiting[h])}}

(* A write that was lost although a newer one into its message was taken.  *)
Torn(s, m) ==
  /\ m.op.into # 0 /\ Lost(s, m)
  /\ \E n \in Messages(s.live) :
       n.number > m.number /\ n.op.into = m.op.into /\ Took(s, n)

(* The message that `o` grows in is `m`, or will be.                       *)
Aims(s, o, m) ==
  \/ o.key = m
  \/ o.key = 0 /\ o.number # 0 /\ \E r \in s.out.done : r.number = o.number /\ r.key = m

(* Line i stays in message m, whatever may still be written into it.       *)
FirmIn(s, i, k, m, a) ==
  /\ m \in DOMAIN s.topic /\ i \in ToSet(s.topic[m])
  /\ \A n \in Messages(s.live) :
       n.op.into = m /\ ~Took(s, n) => i \in ToSet(n.op.text) /\ ~n.absorb
  /\ a => \A p \in Places(s) :
            p >= k /\ Aims(s, OpenAt(s, p), m) => i \in ToSet(OpenAt(s, p).text)

(* Line i is shown for good, given up, or on its way before place k.       *)
Covered(s, i, k, K, a) ==
  \/ i \in K
  \/ \E m \in Before(s, k) : ~Took(s, m) /\ i \in ToSet(m.op.text)
  \/ \E m \in DOMAIN s.topic : FirmIn(s, i, k, m, a)

(* What is before a place is covered, unless it is never passed.           *)
AllCovered(s, at, cur, K, a) ==
  \A k \in Places(s) : \A i \in Pieces :
    i <= ToAt(s, k, at, cur) => (\E m \in Before(s, k) : Torn(s, m)) \/ Covered(s, i, k, K, a)

(* Texts of one message only grow.                                         *)
TextsGrow(s) ==
  \A m, n \in Messages(s.live) :
    m.op.into # 0 /\ m.op.into = n.op.into =>
      /\ m.number < n.number => ToSet(m.op.text) \subseteq ToSet(n.op.text)
      /\ n.absorb => n.number <= m.number

AbsorbsInto(s) == \A m \in Messages(s.live) : m.absorb => m.op.into # 0

(* The open message of a place has all that was written into it before,    *)
(* and is the last one sent while it waits for its key.                    *)
OpenGrows(s, k) ==
  LET o == OpenAt(s, k)
  IN /\ o.key # 0 =>
          \A m \in Before(s, k) : m.op.into = o.key => ToSet(m.op.text) \subseteq ToSet(o.text)
     /\ o.key = 0 /\ o.number # 0 =>
          /\ \E m \in Before(s, k) :
               m.number = o.number /\ m.op.into = 0 /\ ToSet(m.op.text) \subseteq ToSet(o.text)
          /\ \A m \in Before(s, k) : m.number <= o.number

(* A message new in the topic is nobody's yet.                             *)
Fresh(s, a) ==
  \A r \in s.out.done : r.key # 0 =>
    /\ \A m \in Messages(s.live) : m.op.into # r.key
    /\ a => \A p \in Places(s) : OpenAt(s, p).key # r.key
    /\ \A x \in s.out.done : x.key = r.key => x = r

(* A call is open where the last line read is one.                         *)
CallAt(to, call) == call <=> (to \in Line /\ Script[to] = "call")

CallsRight(s, at, cur) ==
  /\ CallAt(at.to, at.call) /\ CallAt(cur, s.live.call)
  /\ \A k \in DOMAIN s.live.waiting :
       IsBarrier(s.live.waiting[k]) => CallAt(s.live.waiting[k].to, s.live.waiting[k].call)

(* The stream lies after the offset `at`, `cur` lines were read, those of  *)
(* `K` are given up.                                                       *)
Whole(s, at, cur, K, a) ==
  /\ AllCovered(s, at.to, cur, K, a) /\ TextsGrow(s) /\ AbsorbsInto(s)
  /\ a => \A k \in Places(s) : OpenGrows(s, k)
  /\ Fresh(s, a) /\ CallsRight(s, at, cur)

(* The stream, as far as the lemmas below look at it.                      *)
Sound(s, L, E) ==
  /\ s \in StreamIn(L, E) /\ Numbered(s.live) /\ Queued(s)
  /\ \A m \in Messages(s.live) : m.op.into # 0 => m.op.into \in DOMAIN s.topic
  /\ \A o \in Opens(s.live) : o.key # 0 => o.key \in DOMAIN s.topic
  /\ \A r \in s.out.done : r.key # 0 => r.key \in DOMAIN s.topic

LEMMA GoodIsSound ==
  ASSUME NEW L, NEW E, NEW B, NEW G, NEW a, NEW W, NEW s, Good(s, L, E, B, G, a, W)
  PROVE  Sound(s, L, E)
BY DEF Good, Placed, PlacedMessage, Free, PlacedOpen, PlacedReply, Sound

LEMMA BeforeIs ==
  ASSUME NEW L, NEW E, NEW s \in StreamIn(L, E)
  PROVE  /\ \A k \in Places(s) : Before(s, k) \subseteq Messages(s.live)
         /\ Before(s, 0) = {} /\ Before(s, Len(s.live.waiting) + 1) = Messages(s.live)
         /\ {0, Len(s.live.waiting) + 1} \subseteq Places(s)
         /\ Len(s.live.waiting) \in Nat /\ DOMAIN s.live.waiting = 1 .. Len(s.live.waiting)
         /\ Places(s) \subseteq 0 .. Len(s.live.waiting) + 1
<1>1. s.live.waiting \in WaitingIn(L, E) BY InStreamType
<1>2. Len(s.live.waiting) \in Nat /\ DOMAIN s.live.waiting = 1 .. Len(s.live.waiting)
  BY <1>1 DEF WaitingIn
<1>3. Messages(s.live) =
        {s.live.waiting[k] : k \in {j \in DOMAIN s.live.waiting : ~IsBarrier(s.live.waiting[j])}}
  BY <1>1, MessageOf
<1>4. \A k \in Places(s) : Before(s, k) \subseteq Messages(s.live) BY <1>3 DEF Before
<1>5. Before(s, 0) = {} BY <1>2 DEF Before
<1>6. Before(s, Len(s.live.waiting) + 1) = Messages(s.live) BY <1>2, <1>3 DEF Before
<1>7. {0, Len(s.live.waiting) + 1} \subseteq Places(s) /\ Places(s) \subseteq 0 .. Len(s.live.waiting) + 1
  BY <1>2 DEF Places
<1>. QED BY <1>2, <1>4, <1>5, <1>6, <1>7

(* A message was taken, was lost, or is in the scheduler's queue.          *)
LEMMA OneOfThree ==
  ASSUME NEW L, NEW E, NEW s, Sound(s, L, E), NEW m \in Messages(s.live)
  PROVE  /\ Took(s, m) => ~Lost(s, m)
         /\ ~Took(s, m) /\ ~Lost(s, m) => \E k \in DOMAIN s.out.queue : s.out.queue[k].number = m.number
         /\ Took(s, m) \/ Lost(s, m) => \A k \in DOMAIN s.out.queue : s.out.queue[k].number # m.number
<1>1. /\ s \in StreamIn(L, E) /\ Numbered(s.live) /\ Queued(s) /\ s.live \in LiveIn(L, E)
      /\ Messages(s.live) \subseteq MessageIn(L, E) /\ s.out.done \in SUBSET ReplyIn
  BY InStreamType DEF Sound
<1>2. m.state \in {"waiting", "accepted", "refused"} BY <1>1 DEF MessageIn
<1>3. ASSUME NEW n \in Messages(s.live), n.number = m.number PROVE n = m
  BY <1>1, <1>3, SameMessage
<1>4. \A r \in s.out.done : r.number = m.number => m.state = "waiting"
  BY <1>1, <1>3 DEF Queued
<1>5. \A k \in DOMAIN s.out.queue : s.out.queue[k].number = m.number => m.state = "waiting"
  <2>1. ASSUME NEW k \in DOMAIN s.out.queue, s.out.queue[k].number = m.number
        PROVE  m.state = "waiting"
    <3>1. PICK n \in Messages(s.live) : n.state = "waiting" /\ SameWrite(n.op, s.out.queue[k])
      BY <1>1 DEF Queued
    <3>2. n.number = m.number BY <1>1, <2>1, <3>1 DEF SameWrite, Numbered
    <3>. QED BY <1>3, <3>1, <3>2
  <2>. QED BY <2>1
<1>6. \A r, x \in s.out.done : r.number = x.number => r = x BY <1>1 DEF Queued
<1>7. Took(s, m) => ~Lost(s, m) BY <1>4, <1>6 DEF Took, Lost, Done
<1>8. ~Took(s, m) /\ ~Lost(s, m) => \E k \in DOMAIN s.out.queue : s.out.queue[k].number = m.number
  BY <1>2, <1>1 DEF Took, Lost, Done, ReplyIn, Queued
<1>9. Took(s, m) \/ Lost(s, m) => \A k \in DOMAIN s.out.queue : s.out.queue[k].number # m.number
  BY <1>1, <1>5 DEF Queued, Took, Lost, Done
<1>. QED BY <1>7, <1>8, <1>9

-----------------------------------------------------------------------------
(* Steps that write nothing new.                                           *)

Like(m, n) == m.number = n.number /\ m.op = n.op /\ m.absorb = n.absorb

(* `g` says which places of `s` those of `t` were.                         *)
PlacesStay(s, t, g, at, bt, cur, dur) ==
  /\ \A k \in Places(t) : g[k] \in Places(s) /\ ToAt(t, k, bt.to, dur) = ToAt(s, g[k], at.to, cur)
  /\ \A k, p \in Places(t) : p >= k => g[p] >= g[k]
  /\ CallsRight(t, bt, dur)

(* No message is new; those gone or taken show their lines or gave them up *)
MessagesStay(s, t, g, H) ==
  /\ \A m \in Messages(t.live) : \E n \in Messages(s.live) :
       Like(m, n) /\ (~Took(t, m) => ~Took(s, n))
  /\ \A k \in Places(t) : \A m \in Before(t, k) : \E n \in Before(s, g[k]) : Like(m, n)
  /\ \A k \in Places(t) : \A n \in Before(s, g[k]) : ~Took(s, n) =>
       \E m \in Before(t, k) : Like(m, n) /\ (Took(t, m) => ToSet(n.op.text) \subseteq H)
  /\ \A k \in Places(t) : \A n \in Before(s, g[k]) : Torn(s, n) => \E m \in Before(t, k) : Torn(t, m)

(* The topic keeps its lines, but for those given up and those in a status *)
(* message whose first write was not taken.                                *)
TopicStays(s, t, H) ==
  /\ 0 \notin DOMAIN t.topic
  /\ \A m \in DOMAIN s.topic : m \in DOMAIN t.topic /\
       \A i \in ToSet(s.topic[m]) :
         \/ i \in ToSet(t.topic[m]) \cup H
         \/ \E n \in Messages(s.live) : n.op.into = m /\ ~Took(s, n) /\ n.absorb

(* Open messages are closed, or their key is known now.                    *)
OpensStay(s, t, g) ==
  \A p \in Places(t) :
    LET x == OpenAt(t, p)
        o == OpenAt(s, g[p])
    IN \/ x = NoOpen
       \/ x = o /\ (o.key = 0 /\ o.number # 0 =>
            \A n \in Before(s, g[p]) : n.number = o.number => \E m \in Before(t, p) : Like(m, n))
       \/ /\ x.text = o.text /\ x.key # 0 /\ o.key = 0 /\ o.number # 0
          /\ \E r \in s.out.done \ t.out.done : r.number = o.number /\ r.key = x.key

Steady(s, t, g, at, bt, cur, dur, H, b) ==
  /\ PlacesStay(s, t, g, at, bt, cur, dur) /\ MessagesStay(s, t, g, H) /\ TopicStays(s, t, H)
  /\ b => OpensStay(s, t, g)
  /\ \A r \in t.out.done : r.key # 0 => r \in s.out.done

LEMMA SteadyCovered ==
  ASSUME NEW s, NEW t, NEW g, NEW at, NEW bt, NEW cur, NEW dur, NEW K, NEW H, K \subseteq H,
         NEW a, NEW b, b => a, AllCovered(s, at.to, cur, K, a),
         Steady(s, t, g, at, bt, cur, dur, H, b)
  PROVE  AllCovered(t, bt.to, dur, H, b)
<1>1. SUFFICES ASSUME NEW k \in Places(t), NEW i \in Pieces, i <= ToAt(t, k, bt.to, dur)
               PROVE  (\E m \in Before(t, k) : Torn(t, m)) \/ Covered(t, i, k, H, b)
  BY DEF AllCovered
<1>2. g[k] \in Places(s) /\ i <= ToAt(s, g[k], at.to, cur) BY <1>1 DEF Steady, PlacesStay
<1>3. (\E m \in Before(s, g[k]) : Torn(s, m)) \/ Covered(s, i, g[k], K, a)
  BY <1>2 DEF AllCovered
<1>4. CASE \E m \in Before(s, g[k]) : Torn(s, m) BY <1>4 DEF Steady, MessagesStay
<1>5. CASE i \in K BY <1>5 DEF Covered
<1>6. ASSUME NEW n \in Before(s, g[k]), ~Took(s, n), i \in ToSet(n.op.text)
      PROVE  Covered(t, i, k, H, b)
  <2>1. PICK m \in Before(t, k) : Like(m, n) /\ (Took(t, m) => ToSet(n.op.text) \subseteq H)
    BY <1>6 DEF Steady, MessagesStay
  <2>. QED BY <1>6, <2>1 DEF Covered, Like
<1>7. ASSUME NEW m \in DOMAIN s.topic, FirmIn(s, i, g[k], m, a)
      PROVE  Covered(t, i, k, H, b)
  <2>1. m \in DOMAIN t.topic /\ m # 0 BY DEF Steady, TopicStays
  <2>2. i \in ToSet(t.topic[m]) \cup H BY <1>7 DEF Steady, TopicStays, FirmIn
  <2>3. ASSUME NEW x \in Messages(t.live), x.op.into = m, ~Took(t, x)
        PROVE  i \in ToSet(x.op.text) /\ ~x.absorb
    <3>1. PICK n \in Messages(s.live) : Like(x, n) /\ ~Took(s, n)
      BY <2>3 DEF Steady, MessagesStay
    <3>. QED BY <1>7, <2>3, <3>1 DEF Like, FirmIn
  <2>4. ASSUME b, NEW p \in Places(t), p >= k, Aims(t, OpenAt(t, p), m)
        PROVE  i \in ToSet(OpenAt(t, p).text)
    <3> DEFINE x == OpenAt(t, p)
               o == OpenAt(s, g[p])
    <3>1. g[p] \in Places(s) /\ g[p] >= g[k] BY <2>4 DEF Steady, PlacesStay
    <3>2. x # NoOpen BY <2>1, <2>4 DEF Aims, NoOpen
    <3>3. Aims(s, o, m) /\ x.text = o.text
      <4>1. CASE x = o
        <5>1. \A r \in t.out.done : r.key # 0 => r \in s.out.done BY DEF Steady
        <5> HIDE DEF x, o
        <5>2. Aims(t, o, m) BY <2>4, <4>1 DEF x
        <5>. QED BY <2>1, <4>1, <5>1, <5>2 DEF Aims
      <4>2. CASE x # o
        <5>1. /\ x.text = o.text /\ x.key # 0 /\ o.key = 0 /\ o.number # 0
              /\ \E r \in s.out.done \ t.out.done : r.number = o.number /\ r.key = x.key
          BY <2>4, <3>2, <4>2 DEF Steady, OpensStay
        <5> HIDE DEF x, o
        <5>2. x.key = m BY <2>4, <5>1 DEF Aims, x
        <5>. QED BY <5>1, <5>2 DEF Aims
      <4>. QED BY <4>1, <4>2
    <3> HIDE DEF x, o
    <3>4. i \in ToSet(o.text) BY <1>7, <2>4, <3>1, <3>3 DEF FirmIn, o
    <3>. QED BY <3>3, <3>4 DEF x
  <2>5. CASE i \in H BY <2>5 DEF Covered
  <2>6. CASE i \in ToSet(t.topic[m]) BY <2>1, <2>3, <2>4, <2>6 DEF FirmIn, Covered
  <2>. QED BY <2>2, <2>5, <2>6
<1>. QED BY <1>3, <1>4, <1>5, <1>6, <1>7 DEF Covered

LEMMA SteadyWhole ==
  ASSUME NEW s, NEW t, NEW g, NEW at, NEW bt, NEW cur, NEW dur, NEW K, NEW H, K \subseteq H,
         NEW a, NEW b, b => a, Whole(s, at, cur, K, a),
         Steady(s, t, g, at, bt, cur, dur, H, b)
  PROVE  Whole(t, bt, dur, H, b)
<1>1. AllCovered(t, bt.to, dur, H, b) BY SteadyCovered DEF Whole
<1>2. \A m \in Messages(t.live) : \E n \in Messages(s.live) : Like(m, n)
  BY DEF Steady, MessagesStay
<1>3. TextsGrow(t) /\ AbsorbsInto(t) BY <1>2 DEF Whole, TextsGrow, AbsorbsInto, Like
<1>4. ASSUME b, NEW k \in Places(t) PROVE OpenGrows(t, k)
  <2> DEFINE x == OpenAt(t, k)
             o == OpenAt(s, g[k])
  <2>1. g[k] \in Places(s) /\ OpenGrows(s, g[k]) BY <1>4 DEF Whole, Steady, PlacesStay
  <2>2. \A m \in Before(t, k) : \E n \in Before(s, g[k]) : Like(m, n)
    BY DEF Steady, MessagesStay
  <2>3. CASE x = NoOpen BY <2>3 DEF OpenGrows, NoOpen
  <2>4. CASE x = o /\ (o.key = 0 /\ o.number # 0 =>
            \A n \in Before(s, g[k]) : n.number = o.number => \E m \in Before(t, k) : Like(m, n))
    <3>1. x.key # 0 => \A m \in Before(t, k) : m.op.into = x.key => ToSet(m.op.text) \subseteq ToSet(x.text)
      BY <2>1, <2>2, <2>4 DEF OpenGrows, Like
    <3>2. x.key = 0 /\ x.number # 0 => \A m \in Before(t, k) : m.number <= x.number
      BY <2>1, <2>2, <2>4 DEF OpenGrows, Like
    <3>3. ASSUME x.key = 0, x.number # 0
          PROVE  \E m \in Before(t, k) :
                   m.number = x.number /\ m.op.into = 0 /\ ToSet(m.op.text) \subseteq ToSet(x.text)
      <4>1. PICK n \in Before(s, g[k]) :
               n.number = o.number /\ n.op.into = 0 /\ ToSet(n.op.text) \subseteq ToSet(o.text)
        BY <2>1, <2>4, <3>3 DEF OpenGrows
      <4>2. PICK m \in Before(t, k) : Like(m, n) BY <2>4, <3>3, <4>1
      <4>. QED BY <2>4, <4>1, <4>2 DEF Like
    <3>. QED BY <3>1, <3>2, <3>3 DEF OpenGrows
  <2>5. CASE /\ x.text = o.text /\ x.key # 0 /\ o.key = 0 /\ o.number # 0
             /\ \E r \in s.out.done \ t.out.done : r.number = o.number /\ r.key = x.key
    BY <2>5, <1>2 DEF Whole, Fresh, Before, Messages, ToSet, Like, OpenGrows
  <2>. QED BY <1>4, <2>3, <2>4, <2>5 DEF Steady, OpensStay
<1>5. Fresh(t, b)
  <2>1. SUFFICES ASSUME NEW r \in t.out.done, r.key # 0
                 PROVE  /\ \A m \in Messages(t.live) : m.op.into # r.key
                        /\ b => \A p \in Places(t) : OpenAt(t, p).key # r.key
                        /\ \A x \in t.out.done : x.key = r.key => x = r
    BY DEF Fresh
  <2>2. \A x \in t.out.done : x.key # 0 => x \in s.out.done BY DEF Steady
  <2>3. r \in s.out.done /\ Fresh(s, a) BY <2>1, <2>2 DEF Whole
  <2>4. \A m \in Messages(t.live) : m.op.into # r.key BY <1>2, <2>1, <2>3 DEF Fresh, Like
  <2>5. \A x \in t.out.done : x.key = r.key => x = r BY <2>1, <2>2, <2>3 DEF Fresh
  <2>6. ASSUME b, NEW p \in Places(t) PROVE OpenAt(t, p).key # r.key
    BY <2>1, <2>3, <2>6 DEF Steady, PlacesStay, Fresh, OpensStay, NoOpen
  <2>. QED BY <2>4, <2>5, <2>6
<1>6. CallsRight(t, bt, dur) BY DEF Steady, PlacesStay
<1>. QED BY <1>1, <1>3, <1>4, <1>5, <1>6 DEF Whole

-----------------------------------------------------------------------------
(* Steps that hand the scheduler a write.                                  *)

(* Message `e` is sent: from `s` to `t`.                                   *)
Sends(s, t, e) ==
  /\ t.topic = s.topic /\ t.out = HandOff(s.out, e.op)
  /\ t.live.waiting = Append(s.live.waiting, e) /\ t.live.committed = s.live.committed
  /\ Messages(t.live) = Messages(s.live) \cup {e}
  /\ e.number = s.live.next + 1 /\ e.op.number = e.number /\ e.state = "waiting"

(* It writes into a new message, into the open one or into one that shows  *)
(* nothing yet.                                                            *)
WritesInto(s, e, a) ==
  /\ e.absorb => e.op.into # 0
  /\ e.op.into # 0 =>
       \/ /\ s.topic[e.op.into] = <<>>
          /\ \A n \in Messages(s.live) : n.op.into # e.op.into
       \/ /\ a /\ s.live.open.key = e.op.into /\ ~e.absorb
          /\ ToSet(s.live.open.text) \subseteq ToSet(e.op.text)
  /\ \A r \in s.out.done : r.key # 0 => r.key # e.op.into

(* What is open then: nothing, the open one with its new text, or that one.*)
OpensAs(s, t, e) ==
  LET o == t.live.open
  IN \/ o = NoOpen
     \/ /\ o.key = s.live.open.key /\ o.key = e.op.into /\ o.key # 0 /\ o.text = e.op.text
        /\ ToSet(s.live.open.text) \subseteq ToSet(e.op.text)
     \/ /\ o = [key |-> e.op.into, number |-> e.number, text |-> e.op.text]
        /\ e.op.into # 0 => /\ s.topic[e.op.into] = <<>>
                            /\ \A n \in Messages(s.live) : n.op.into # e.op.into

(* The places stay, but that the last one is behind `e`.                   *)
SentPlaces(s, t, e) ==
  LET n == Len(s.live.waiting)
  IN /\ n \in Nat /\ n + 2 \in Places(t) /\ Places(t) \subseteq 0 .. n + 2
     /\ n + 1 \in Places(s) /\ n + 1 \notin Places(t)
     /\ \A k \in Places(t) \ {n + 2} :
          /\ k \in Places(s) /\ k < n + 1 /\ Before(t, k) = Before(s, k)
          /\ OpenAt(t, k) = OpenAt(s, k) /\ \A at, cur, dur : ToAt(t, k, at, dur) = ToAt(s, k, at, cur)
     /\ Before(s, n + 1) = Messages(s.live) /\ Before(t, n + 2) = Messages(t.live)
     /\ OpenAt(s, n + 1) = s.live.open /\ OpenAt(t, n + 2) = t.live.open
     /\ \A at, cur : ToAt(s, n + 1, at, cur) = cur /\ ToAt(t, n + 2, at, cur) = cur

LEMMA SentPlacesAre ==
  ASSUME NEW L, NEW E, NEW s \in StreamIn(L, E), NEW t \in StreamIn(L, E), NEW e \in MessageIn(L, E),
         Sends(s, t, e)
  PROVE  SentPlaces(s, t, e)
<1> DEFINE n == Len(s.live.waiting)
           w == s.live.waiting
           v == t.live.waiting
<1>1. n \in Nat /\ DOMAIN w = 1 .. n /\ n + 1 \in Places(s) /\ Before(s, n + 1) = Messages(s.live)
  BY BeforeIs
<1>2. w \in WaitingIn(L, E) BY InStreamType
<1>3. /\ Len(v) = n + 1 /\ DOMAIN v = 1 .. n + 1 /\ v[n + 1] = e
      /\ \A k \in 1 .. n : v[k] = w[k]
  BY <1>2 DEF WaitingIn, Sends
<1>4. ~IsBarrier(e) BY DEF IsBarrier, MessageIn
<1>5. /\ Len(v) + 1 \in Places(t) /\ Before(t, Len(v) + 1) = Messages(t.live)
      /\ Places(t) \subseteq 0 .. Len(v) + 1
  BY BeforeIs
<1>6. n + 2 \in Places(t) /\ Places(t) \subseteq 0 .. n + 2 /\ Before(t, n + 2) = Messages(t.live)
  BY <1>1, <1>3, <1>5
<1>7. n + 1 \notin Places(t) BY <1>1, <1>3, <1>4 DEF Places
<1>8. ASSUME NEW k \in Places(t) \ {n + 2}
      PROVE  /\ k \in Places(s) /\ k < n + 1 /\ Before(t, k) = Before(s, k)
             /\ OpenAt(t, k) = OpenAt(s, k)
             /\ \A at, cur, dur : ToAt(t, k, at, dur) = ToAt(s, k, at, cur)
  <2>1. k \in 0 .. n BY <1>1, <1>6, <1>7, <1>8
  <2>2. k \in Places(s) BY <1>1, <1>3, <1>8, <2>1 DEF Places
  <2> DEFINE I == {h \in DOMAIN v : h < k /\ ~IsBarrier(v[h])}
             J == {h \in DOMAIN w : h < k /\ ~IsBarrier(w[h])}
  <2>3. I = J /\ \A j \in J : v[j] = w[j] BY <1>1, <1>3, <2>1, SMTT(20)
  <2>7. {v[j] : j \in I} = {w[j] : j \in J}
    <3> HIDE DEF I, J, v, w
    <3>. QED BY <2>3
  <2>4. Before(t, k) = Before(s, k) BY <2>7 DEF Before
  <2>5. OpenAt(t, k) = OpenAt(s, k) BY <1>1, <1>3, <2>1 DEF OpenAt, Sends
  <2>6. \A at, cur, dur : ToAt(t, k, at, dur) = ToAt(s, k, at, cur)
    BY <1>1, <1>3, <2>1 DEF ToAt
  <2>. QED BY <1>1, <2>1, <2>2, <2>4, <2>5, <2>6
<1>9. OpenAt(s, n + 1) = s.live.open /\ OpenAt(t, n + 2) = t.live.open
  BY <1>1, <1>3 DEF OpenAt
<1>10. \A at, cur : ToAt(s, n + 1, at, cur) = cur /\ ToAt(t, n + 2, at, cur) = cur
  BY <1>1, <1>3 DEF ToAt
<1>. QED BY <1>1, <1>6, <1>7, <1>8, <1>9, <1>10 DEF SentPlaces

(* What became of the messages sent before stays so; `e` was not taken.    *)
LEMMA SentState ==
  ASSUME NEW L, NEW E, NEW s, Sound(s, L, E), NEW t \in StreamIn(L, E), NEW e \in MessageIn(L, E),
         Sends(s, t, e)
  PROVE  /\ \A n \in Messages(s.live) : (Took(t, n) <=> Took(s, n)) /\ (Lost(t, n) <=> Lost(s, n))
         /\ ~Took(t, e) /\ \A n \in Messages(s.live) : n.number < e.number
         /\ \A r \in t.out.done : r \in s.out.done \/ (r.number = e.number /\ r.key = 0)
         /\ s.out.done \subseteq t.out.done
         /\ \A r \in s.out.done : r.number # e.number
<1>1. /\ s \in StreamIn(L, E) /\ Numbered(s.live) /\ Queued(s) /\ s.live.next \in Nat
      /\ s.out \in OutIn(L) /\ s.out.done \in SUBSET ReplyIn
      /\ Messages(s.live) \subseteq MessageIn(L, E)
  BY InStreamType DEF Sound
<1>2. e.op \in OpIn(L) BY DEF MessageIn
<1>3. \/ t.out.done = s.out.done
      \/ t.out.done = s.out.done \cup {[number |-> e.op.number, what |-> "unsent", key |-> 0]}
  BY <1>1, <1>2, HandOffType DEF Sends
<1>4. \A n \in Messages(s.live) : n.number < e.number
  <2>1. SUFFICES ASSUME NEW n \in Messages(s.live) PROVE n.number < e.number
    OBVIOUS
  <2>2. n.number <= s.live.next /\ n.number \in Nat BY <1>1 DEF Numbered, MessageIn
  <2>. QED BY <1>1, <2>2 DEF Sends
<1>5. \A r \in s.out.done : r.number # e.number
  <2>1. SUFFICES ASSUME NEW r \in s.out.done PROVE r.number # e.number
    OBVIOUS
  <2>2. PICK m \in Messages(s.live) : m.number = r.number BY <1>1 DEF Queued
  <2>3. m.number < e.number /\ m.number \in Nat /\ e.number \in Nat
    BY <1>1, <1>4 DEF MessageIn
  <2>. QED BY <2>2, <2>3
<1>6. e.op.number = e.number /\ e.state = "waiting" BY DEF Sends
<1>7. \A r \in t.out.done : r \in s.out.done \/ (r.number = e.number /\ r.what = "unsent" /\ r.key = 0)
  BY <1>3, <1>6
<1>8. ~Took(t, e) BY <1>5, <1>6, <1>7 DEF Took, Done
<1>9. ASSUME NEW n \in Messages(s.live)
      PROVE  (Took(t, n) <=> Took(s, n)) /\ (Lost(t, n) <=> Lost(s, n))
  BY <1>1, <1>4, <1>3, <1>7 DEF MessageIn, Took, Lost, Done
<1>. QED BY <1>3, <1>4, <1>5, <1>7, <1>8, <1>9

(* Of the lines up to `dur`, those after `cur` are `lines`.                *)
ShowsMore(cur, dur, lines) == \A i \in Pieces : i <= dur => i <= cur \/ i \in lines

LEMMA SentWhole ==
  ASSUME NEW L, NEW E, NEW s, Sound(s, L, E), NEW t \in StreamIn(L, E), NEW e \in MessageIn(L, E),
         Sends(s, t, e), NEW at, NEW cur, NEW dur, NEW K, NEW a,
         Whole(s, at, cur, K, a), WritesInto(s, e, a), a => OpensAs(s, t, e),
         ShowsMore(cur, dur, ToSet(e.op.text)),
         CallAt(dur, t.live.call)
  PROVE  Whole(t, at, dur, K, a)
<1> DEFINE n == Len(s.live.waiting)
           open == s.live.open
           o == t.live.open
<1>1. SentPlaces(s, t, e) BY SentPlacesAre DEF Sound
<1>2. /\ \A m \in Messages(s.live) : (Took(t, m) <=> Took(s, m)) /\ (Lost(t, m) <=> Lost(s, m))
      /\ ~Took(t, e) /\ \A m \in Messages(s.live) : m.number < e.number
      /\ \A r \in t.out.done : r \in s.out.done \/ (r.number = e.number /\ r.key = 0)
      /\ s.out.done \subseteq t.out.done
      /\ \A r \in s.out.done : r.number # e.number
  BY SentState
<1>3. /\ Messages(t.live) = Messages(s.live) \cup {e} /\ t.topic = s.topic
      /\ t.live.committed = s.live.committed
  BY DEF Sends
<1>4. /\ s \in StreamIn(L, E) /\ s.topic \in Seq(Seq(L \cup {0})) /\ 0 \notin DOMAIN s.topic
      /\ Messages(s.live) \subseteq MessageIn(L, E)
  <2>1. s \in StreamIn(L, E) BY DEF Sound
  <2>2. /\ s.topic \in Seq(Seq(L \cup {0})) /\ Len(s.topic) \in Nat
        /\ DOMAIN s.topic = 1 .. Len(s.topic) /\ Messages(s.live) \subseteq MessageIn(L, E)
    BY <2>1, InStreamType
  <2>. QED BY <2>1, <2>2
<1>5. \A k \in Places(s) : Before(s, k) \subseteq Messages(s.live) BY <1>4, BeforeIs
<1>6. ASSUME NEW k \in Places(t), NEW i \in Pieces, i <= ToAt(t, k, at.to, dur)
      PROVE  (\E m \in Before(t, k) : Torn(t, m)) \/ Covered(t, i, k, K, a)
  <2> DEFINE j == IF k = n + 2 THEN n + 1 ELSE k
  <2>1. /\ j \in Places(s) /\ Before(s, j) \subseteq Before(t, k)
        /\ i <= ToAt(s, j, at.to, cur) \/ (k = n + 2 /\ i \in ToSet(e.op.text))
        /\ \A p \in Places(t) : p # n + 2 /\ p >= k => p >= j
        /\ n + 1 >= j
    BY <1>1, <1>3, <1>6 DEF SentPlaces, ShowsMore
  <2> HIDE DEF j
  <2>2. CASE k = n + 2 /\ i \in ToSet(e.op.text)
    BY <1>1, <1>3, <2>2, <1>2 DEF SentPlaces, Covered
  <2>3. CASE i <= ToAt(s, j, at.to, cur)
    <3>1. (\E m \in Before(s, j) : Torn(s, m)) \/ Covered(s, i, j, K, a)
      BY <2>1, <2>3 DEF Whole, AllCovered
    <3>2. ASSUME NEW m \in Before(s, j), Torn(s, m) PROVE Torn(t, m) /\ m \in Before(t, k)
      BY <1>2, <1>3, <1>5, <2>1, <3>2 DEF Torn
    <3>3. ASSUME NEW m \in Before(s, j), ~Took(s, m), i \in ToSet(m.op.text)
          PROVE  Covered(t, i, k, K, a)
      BY <1>2, <1>5, <2>1, <3>3 DEF Covered
    <3>4. ASSUME NEW m \in DOMAIN s.topic, FirmIn(s, i, j, m, a) PROVE Covered(t, i, k, K, a)
      <4>1. m \in DOMAIN t.topic /\ i \in ToSet(t.topic[m]) /\ m # 0 /\ s.topic[m] # <<>>
        BY <3>4, <1>3, <1>4 DEF FirmIn, ToSet
      <4>2. ASSUME a PROVE Aims(s, open, m) => i \in ToSet(open.text)
        BY <1>1, <2>1, <3>4, <4>2 DEF SentPlaces, FirmIn
      <4>3. ASSUME NEW x \in Messages(t.live), x.op.into = m, ~Took(t, x)
            PROVE  i \in ToSet(x.op.text) /\ ~x.absorb
        BY <1>2, <3>4, <4>3, <4>1, <4>2, <1>3 DEF FirmIn, WritesInto, Aims
      <4>4. ASSUME a, NEW p \in Places(t), p >= k, Aims(t, OpenAt(t, p), m)
            PROVE  i \in ToSet(OpenAt(t, p).text)
        <5>1. CASE p # n + 2
          BY <1>1, <2>1, <4>4, <5>1, <1>2, <4>1, <3>4 DEF SentPlaces, Aims, FirmIn
        <5>2. CASE p = n + 2
          BY <1>1, <4>4, <5>2, <4>1, <4>2, <1>2 DEF SentPlaces, Aims, NoOpen, OpensAs
        <5>. QED BY <5>1, <5>2
      <4>5. FirmIn(t, i, k, m, a) BY <4>1, <4>3, <4>4 DEF FirmIn
      <4>. QED BY <4>1, <4>5 DEF Covered
    <3>5. CASE i \in K BY <3>5 DEF Covered
    <3>. QED BY <3>1, <3>2, <3>3, <3>4, <3>5 DEF Covered
  <2>. QED BY <2>1, <2>2, <2>3
<1>7. TextsGrow(t)
  <2>1. SUFFICES ASSUME NEW x \in Messages(t.live), NEW y \in Messages(t.live),
                        x.op.into # 0, x.op.into = y.op.into
                 PROVE  /\ x.number < y.number => ToSet(x.op.text) \subseteq ToSet(y.op.text)
                        /\ y.absorb => y.number <= x.number
    BY DEF TextsGrow
  <2>2. TextsGrow(s) BY DEF Whole
  <2>3. x.number \in Nat /\ y.number \in Nat BY <1>3, <1>4 DEF MessageIn
  <2>4. CASE x \in Messages(s.live) /\ y \in Messages(s.live)
    BY <2>1, <2>2, <2>4 DEF TextsGrow
  <2>5. CASE x = e /\ y = e BY <2>3, <2>5
  <2>6. CASE x = e /\ y \in Messages(s.live) BY <1>2, <2>6, <2>3
  <2>7. CASE x \in Messages(s.live) /\ y = e
    BY <2>1, <2>7, <1>1 DEF WritesInto, Whole, SentPlaces, OpenGrows
  <2>. QED BY <1>3, <2>4, <2>5, <2>6, <2>7
<1>8. AbsorbsInto(t) BY <1>3 DEF AbsorbsInto, Whole, WritesInto
<1>9. ASSUME a, NEW k \in Places(t) PROVE OpenGrows(t, k)
  <2>1. CASE k # n + 2 BY <1>1, <2>1, <1>9 DEF SentPlaces, Whole, OpenGrows
  <2>2. CASE k = n + 2
    <3>1. /\ OpenAt(t, k) = o /\ Before(t, k) = Messages(s.live) \cup {e}
          /\ OpenGrows(s, n + 1) /\ OpenAt(s, n + 1) = open /\ Before(s, n + 1) = Messages(s.live)
      BY <1>1, <1>3, <1>9, <2>2 DEF Whole, SentPlaces
    <3>2. CASE o = NoOpen BY <3>1, <3>2 DEF OpenGrows, NoOpen
    <3>3. CASE /\ o.key = open.key /\ o.key = e.op.into /\ o.key # 0 /\ o.text = e.op.text
               /\ ToSet(open.text) \subseteq ToSet(e.op.text)
      BY <3>1, <3>3 DEF OpenGrows
    <3>4. CASE /\ o = [key |-> e.op.into, number |-> e.number, text |-> e.op.text]
               /\ e.op.into # 0 => \A x \in Messages(s.live) : x.op.into # e.op.into
      <4>1. o.key = e.op.into /\ o.number = e.number /\ o.text = e.op.text BY <3>4
      <4>2. \A m \in Messages(s.live) \cup {e} : m.number <= e.number
        BY <1>2, <1>4 DEF MessageIn
      <4>. QED BY <3>1, <3>4, <4>1, <4>2 DEF OpenGrows
    <3>. QED BY <1>9, <3>2, <3>3, <3>4 DEF OpensAs
  <2>. QED BY <2>1, <2>2
<1>10. Fresh(t, a)
  <2>1. SUFFICES ASSUME NEW r \in t.out.done, r.key # 0
                 PROVE  /\ \A m \in Messages(t.live) : m.op.into # r.key
                        /\ a => \A p \in Places(t) : OpenAt(t, p).key # r.key
                        /\ \A x \in t.out.done : x.key = r.key => x = r
    BY DEF Fresh
  <2>2. r \in s.out.done /\ Fresh(s, a) BY <1>2, <2>1 DEF Whole
  <2>3. \A m \in Messages(t.live) : m.op.into # r.key
    BY <1>3, <2>1, <2>2 DEF Fresh, WritesInto
  <2>4. \A x \in t.out.done : x.key = r.key => x = r BY <1>2, <2>1, <2>2 DEF Fresh
  <2>5. ASSUME a, NEW p \in Places(t) PROVE OpenAt(t, p).key # r.key
    BY <1>1, <2>1, <2>2, <2>5 DEF SentPlaces, Fresh, OpensAs, NoOpen, WritesInto
  <2>. QED BY <2>3, <2>4, <2>5
<1>11. CallsRight(t, at, dur)
  <2>1. s.live.waiting \in WaitingIn(L, E) /\ Len(s.live.waiting) \in Nat
    BY <1>4, InStreamType, BeforeIs
  <2>2. \A k \in DOMAIN t.live.waiting :
          t.live.waiting[k] = e \/ (k \in DOMAIN s.live.waiting /\ t.live.waiting[k] = s.live.waiting[k])
    BY <2>1 DEF Sends, WaitingIn
  <2>3. ~IsBarrier(e) BY DEF IsBarrier, MessageIn
  <2>. QED BY <2>2, <2>3 DEF CallsRight, Whole
<1>. QED BY <1>6, <1>7, <1>8, <1>9, <1>10, <1>11 DEF Whole, AllCovered

-----------------------------------------------------------------------------
(* Steps after which the same messages wait between the same barriers.     *)
Shape(s, t) ==
  LET w == s.live.waiting
      v == t.live.waiting
  IN /\ DOMAIN v = DOMAIN w /\ t.live.call = s.live.call
     /\ \A k \in DOMAIN w :
          /\ IsBarrier(v[k]) <=> IsBarrier(w[k])
          /\ IsBarrier(w[k]) => v[k].to = w[k].to /\ v[k].call = w[k].call
          /\ ~IsBarrier(w[k]) => Like(v[k], w[k])

(* What was taken or lost stays so; lines taken now are in `H`.            *)
Fares(s, t, H) ==
  LET w == s.live.waiting
      v == t.live.waiting
  IN \A k \in DOMAIN w : ~IsBarrier(w[k]) =>
       /\ Took(s, w[k]) => Took(t, v[k])
       /\ Took(t, v[k]) => Took(s, w[k]) \/ ToSet(w[k].op.text) \subseteq H
       /\ Lost(s, w[k]) => Lost(t, v[k])

OpenStays(s, t, p) ==
  LET x == OpenAt(t, p)
      o == OpenAt(s, p)
  IN \/ x = NoOpen \/ x = o
     \/ /\ x.text = o.text /\ x.key # 0 /\ o.key = 0 /\ o.number # 0
        /\ \E r \in s.out.done \ t.out.done : r.number = o.number /\ r.key = x.key

LEMMA ShapePlaces ==
  ASSUME NEW L, NEW E, NEW s \in StreamIn(L, E), NEW t \in StreamIn(L, E), Shape(s, t)
  PROVE  /\ Places(t) = Places(s) /\ Places(s) \subseteq Nat
         /\ \A k \in Places(s) : \A at, cur : ToAt(t, k, at, cur) = ToAt(s, k, at, cur)
         /\ \A k : Before(t, k) = {t.live.waiting[j] :
                     j \in {h \in DOMAIN s.live.waiting : h < k /\ ~IsBarrier(s.live.waiting[h])}}
         /\ Messages(t.live) = {t.live.waiting[j] :
                     j \in {h \in DOMAIN s.live.waiting : ~IsBarrier(s.live.waiting[h])}}
         /\ Messages(s.live) = {s.live.waiting[j] :
                     j \in {h \in DOMAIN s.live.waiting : ~IsBarrier(s.live.waiting[h])}}
<1> DEFINE w == s.live.waiting
           v == t.live.waiting
<1>1. /\ Len(w) \in Nat /\ DOMAIN w = 1 .. Len(w) /\ Len(v) \in Nat /\ DOMAIN v = 1 .. Len(v)
      /\ Places(s) \subseteq 0 .. Len(w) + 1
  BY BeforeIs
<1>2. /\ DOMAIN v = DOMAIN w
      /\ \A k \in DOMAIN w :
           /\ IsBarrier(v[k]) <=> IsBarrier(w[k])
           /\ IsBarrier(w[k]) => v[k].to = w[k].to /\ v[k].call = w[k].call
  BY DEF Shape
<1>3. Len(v) = Len(w) BY <1>1, <1>2
<1>4. Places(t) = Places(s) BY <1>2, <1>3 DEF Places
<1>5. Places(s) \subseteq Nat BY <1>1
<1>6. \A k \in DOMAIN w : k \in Nat BY <1>1
<1>7. ASSUME NEW k \in Places(s), NEW at, NEW cur PROVE ToAt(t, k, at, cur) = ToAt(s, k, at, cur)
  BY <1>2 DEF ToAt, Places
<1>8. ASSUME NEW k
      PROVE  Before(t, k) = {v[j] : j \in {h \in DOMAIN w : h < k /\ ~IsBarrier(w[h])}}
  BY <1>2 DEF Before
<1>9. /\ Messages(t.live) = {v[j] : j \in {h \in DOMAIN v : ~IsBarrier(v[h])}}
      /\ Messages(s.live) = {w[j] : j \in {h \in DOMAIN w : ~IsBarrier(w[h])}}
  <2>1. v \in WaitingIn(L, E) /\ w \in WaitingIn(L, E) BY InStreamType
  <2>2. Messages(t.live) = {v[j] : j \in {h \in DOMAIN v : ~IsBarrier(v[h])}}
    BY <2>1, MessageOf
  <2>3. Messages(s.live) = {w[j] : j \in {h \in DOMAIN w : ~IsBarrier(w[h])}}
    BY <2>1, MessageOf
  <2>. QED BY <2>2, <2>3
<1>10. {h \in DOMAIN v : ~IsBarrier(v[h])} = {h \in DOMAIN w : ~IsBarrier(w[h])} BY <1>2
<1>. QED BY <1>4, <1>5, <1>7, <1>8, <1>9, <1>10

LEMMA ShapeWhole ==
  ASSUME NEW L, NEW E, NEW s \in StreamIn(L, E), NEW t \in StreamIn(L, E), Shape(s, t),
         NEW K, NEW H, K \subseteq H, Fares(s, t, H), TopicStays(s, t, H),
         NEW a, NEW b, b => a, b => \A p \in Places(s) : OpenStays(s, t, p),
         \A r \in t.out.done : r.key # 0 => r \in s.out.done,
         NEW at, NEW cur, Whole(s, at, cur, K, a)
  PROVE  Whole(t, at, cur, H, b)
<1> DEFINE w == s.live.waiting
           v == t.live.waiting
           g == [k \in Nat |-> k]
<1>1. /\ Places(t) = Places(s) /\ Places(s) \subseteq Nat
      /\ \A k \in Places(s) : \A z, y : ToAt(t, k, z, y) = ToAt(s, k, z, y)
      /\ \A k : Before(t, k) = {v[j] : j \in {h \in DOMAIN w : h < k /\ ~IsBarrier(w[h])}}
      /\ Messages(t.live) = {v[j] : j \in {h \in DOMAIN w : ~IsBarrier(w[h])}}
      /\ Messages(s.live) = {w[j] : j \in {h \in DOMAIN w : ~IsBarrier(w[h])}}
  BY ShapePlaces
<1>2. \A k : Before(s, k) = {w[j] : j \in {h \in DOMAIN w : h < k /\ ~IsBarrier(w[h])}}
  BY DEF Before
<1>3. \A k \in Places(t) : g[k] = k BY <1>1
<1> HIDE DEF g
<1>4. PlacesStay(s, t, g, at, at, cur, cur)
  BY <1>1, <1>3 DEF Whole, CallsRight, Shape, PlacesStay
<1>5. \A j \in DOMAIN w : ~IsBarrier(w[j]) =>
        /\ Like(v[j], w[j])
        /\ Took(s, w[j]) => Took(t, v[j])
        /\ Took(t, v[j]) => Took(s, w[j]) \/ ToSet(w[j].op.text) \subseteq H
        /\ Lost(s, w[j]) => Lost(t, v[j])
  BY DEF Shape, Fares
<1>6. MessagesStay(s, t, g, H)
  <2>1. \A m \in Messages(t.live) : \E n \in Messages(s.live) : Like(m, n) /\ (~Took(t, m) => ~Took(s, n))
    BY <1>1, <1>5
  <2>2. \A k \in Places(t) : \A m \in Before(t, k) : \E n \in Before(s, g[k]) : Like(m, n)
    BY <1>1, <1>2, <1>3, <1>5
  <2>3. \A k \in Places(t) : \A n \in Before(s, g[k]) : ~Took(s, n) =>
          \E m \in Before(t, k) : Like(m, n) /\ (Took(t, m) => ToSet(n.op.text) \subseteq H)
    BY <1>1, <1>2, <1>3, <1>5
  <2>4. ASSUME NEW k \in Places(t), NEW n \in Before(s, g[k]), Torn(s, n)
        PROVE  \E m \in Before(t, k) : Torn(t, m)
    <3>1. PICK j \in DOMAIN w : j < k /\ ~IsBarrier(w[j]) /\ n = w[j] BY <1>2, <1>3, <2>4
    <3>2. v[j] \in Before(t, k) BY <1>1, <3>1
    <3>3. PICK x \in Messages(s.live) : x.number > n.number /\ x.op.into = n.op.into /\ Took(s, x)
      BY <2>4 DEF Torn
    <3>4. PICK i \in DOMAIN w : ~IsBarrier(w[i]) /\ x = w[i] BY <1>1, <3>3
    <3>5. v[i] \in Messages(t.live) /\ Like(v[i], x) /\ Took(t, v[i])
      BY <1>1, <1>5, <3>3, <3>4
    <3>6. Like(v[j], n) /\ Lost(t, v[j]) /\ n.op.into # 0 BY <1>5, <2>4, <3>1 DEF Torn
    <3>7. Torn(t, v[j]) BY <3>3, <3>5, <3>6 DEF Torn, Like
    <3>. QED BY <3>2, <3>7
  <2>. QED BY <2>1, <2>2, <2>3, <2>4 DEF MessagesStay
<1>7. ASSUME b PROVE OpensStay(s, t, g)
  <2>1. SUFFICES ASSUME NEW p \in Places(t), OpenAt(t, p) = OpenAt(s, p),
                        NEW n \in Before(s, p)
                 PROVE  \E m \in Before(t, p) : Like(m, n)
    BY <1>1, <1>3, <1>7 DEF OpensStay, OpenStays
  <2>. QED BY <1>1, <1>2, <1>5
<1>8. Steady(s, t, g, at, at, cur, cur, H, b) BY <1>4, <1>6, <1>7 DEF Steady
<1>. QED BY <1>8, SteadyWhole

(* The topic, as it is, keeps its lines.                                   *)
LEMMA SameTopic ==
  ASSUME NEW L, NEW E, NEW s \in StreamIn(L, E), NEW t, t.topic = s.topic, NEW H
  PROVE  TopicStays(s, t, H)
BY InStreamType DEF TopicStays

(* Each message is like itself.                                            *)
LEMMA SameFares ==
  ASSUME NEW s, NEW t, t.live.waiting = s.live.waiting, t.out.done = s.out.done, NEW H
  PROVE  Fares(s, t, H)
BY DEF Fares, Took, Lost, Done

(* What waits and was answered stays, and the topic.                       *)
LEMMA SameWhole ==
  ASSUME NEW L, NEW E, NEW s \in StreamIn(L, E), NEW t \in StreamIn(L, E),
         t.topic = s.topic, t.out.done = s.out.done, t.live.waiting = s.live.waiting,
         t.live.open = s.live.open, t.live.committed = s.live.committed,
         t.live.call = s.live.call, NEW K, NEW H, K \subseteq H, NEW a, NEW b, b => a,
         NEW at, NEW cur, Whole(s, at, cur, K, a)
  PROVE  Whole(t, at, cur, H, b)
BY SameTopic, SameFares, ShapeWhole DEF Shape, Like, OpenStays, OpenAt

LEMMA ClosedWhole ==
  ASSUME NEW L, NEW E, NEW s \in StreamIn(L, E), NEW t \in StreamIn(L, E),
         t.topic = s.topic, t.out.done = s.out.done, t.live = CloseOpen(s.live),
         NEW K, NEW a, NEW at, NEW cur, Whole(s, at, cur, K, a)
  PROVE  Whole(t, at, cur, K, a)
<1> DEFINE lw == CloseOpen(s.live)
           w == s.live.waiting
<1>1. s.live \in LiveIn(L, E) BY InStreamType
<1>2. /\ lw.open = NoOpen /\ lw.committed = NoOpen /\ lw.call = s.live.call
      /\ DOMAIN lw.waiting = DOMAIN w
      /\ \A k \in DOMAIN w :
           /\ IsBarrier(lw.waiting[k]) <=> IsBarrier(w[k])
           /\ ~IsBarrier(w[k]) => lw.waiting[k] = w[k]
           /\ IsBarrier(w[k]) =>
                /\ lw.waiting[k].to = w[k].to /\ lw.waiting[k].call = w[k].call
                /\ lw.waiting[k].open = NoOpen
  BY <1>1, CloseOpenIs DEF SameReads, SameRest
<1> HIDE DEF lw
<1>3. t.live = lw BY DEF lw
<1>4. Shape(s, t) BY <1>2, <1>3 DEF Shape, Like
<1>5. Fares(s, t, K) BY <1>2, <1>3 DEF Fares, Took, Lost, Done
<1>6. \A p \in Places(s) : OpenAt(t, p) = NoOpen BY <1>2, <1>3 DEF OpenAt, Places
<1>. QED BY <1>4, <1>5, <1>6, SameTopic, ShapeWhole DEF OpenStays

LEMMA TopicWhole ==
  ASSUME NEW L, NEW E, NEW s \in StreamIn(L, E), NEW t \in StreamIn(L, E),
         t.live = s.live, t.out.done = s.out.done, NEW K, NEW H, K \subseteq H,
         TopicStays(s, t, H), NEW a, NEW at, NEW cur, Whole(s, at, cur, K, a)
  PROVE  Whole(t, at, cur, H, a)
BY SameFares, ShapeWhole DEF Shape, Like, OpenStays, OpenAt

(* Messages are answered, but none gets into the topic.                    *)
LEMMA AnsweredWhole ==
  ASSUME NEW L, NEW E, NEW s \in StreamIn(L, E), NEW t \in StreamIn(L, E),
         t.live = s.live, t.topic = s.topic, NEW K, NEW H, K \subseteq H,
         s.out.done \subseteq t.out.done,
         \A r \in t.out.done : r \in s.out.done \/
           /\ r.key = 0
           /\ r.what \in {"sent", "merged", "skipped"} =>
                \A m \in Messages(s.live) : m.number = r.number => ToSet(m.op.text) \subseteq H,
         NEW a, NEW at, NEW cur, Whole(s, at, cur, K, a)
  PROVE  Whole(t, at, cur, H, a)
<1> DEFINE w == s.live.waiting
<1>1. Shape(s, t) BY DEF Shape, Like
<1>2. \A p \in Places(s) : OpenStays(s, t, p) BY DEF OpenStays, OpenAt
<1>3. Fares(s, t, H)
  <2>1. SUFFICES ASSUME NEW k \in DOMAIN w, ~IsBarrier(w[k])
                 PROVE  /\ Took(s, w[k]) => Took(t, w[k])
                        /\ Took(t, w[k]) => Took(s, w[k]) \/ ToSet(w[k].op.text) \subseteq H
                        /\ Lost(s, w[k]) => Lost(t, w[k])
    BY DEF Fares
  <2>2. w[k] \in Messages(s.live)
    <3>1. w \in WaitingIn(L, E) BY InStreamType
    <3>. QED BY <2>1, <3>1, MessageOf
  <2>. QED BY <2>2 DEF Took, Lost, Done
<1>. QED BY <1>1, <1>2, <1>3, SameTopic, ShapeWhole

(* Of an answer: the message it is for, with its state.                    *)
StatedAt(lv, lw, number, state) ==
  \A k \in DOMAIN lv.waiting :
    lw.waiting[k] = IF lv.waiting[k].number # number THEN lv.waiting[k]
                    ELSE [lv.waiting[k] EXCEPT !.state = state]

LEMMA NotedShape ==
  ASSUME NEW L, NEW E, NEW lv \in LiveIn(L, E), Numbered(lv),
         NEW r \in ReplyIn, NEW entry \in Messages(lv), entry.number = r.number,
         NEW state, state = IF r.what \in {"sent", "merged", "skipped"} THEN "accepted" ELSE "refused"
  PROVE  LET lw == Noted(lv, r, entry)
         IN /\ lw.call = lv.call
            /\ DOMAIN lw.waiting = DOMAIN lv.waiting
            /\ \A k \in DOMAIN lv.waiting :
                 /\ IsBarrier(lw.waiting[k]) <=> IsBarrier(lv.waiting[k])
                 /\ ~IsBarrier(lv.waiting[k]) =>
                      lw.waiting[k] = IF lv.waiting[k].number # r.number THEN lv.waiting[k]
                                      ELSE [lv.waiting[k] EXCEPT !.state = state]
                 /\ IsBarrier(lv.waiting[k]) =>
                      /\ lw.waiting[k].to = lv.waiting[k].to
                      /\ lw.waiting[k].call = lv.waiting[k].call
                      /\ lw.waiting[k].open \in
                           {lv.waiting[k].open, OpenedTo(lv.waiting[k].open, r.number, r.key)}
            /\ lw.open \in {lv.open, OpenedTo(lv.open, r.number, r.key)}
            /\ lw.committed \in {lv.committed, OpenedTo(lv.committed, r.number, r.key)}
<1> DEFINE ls == Stated(lv, r.number, state)
           lw == Noted(lv, r, entry)
           w == lv.waiting
<1>1. r.number \in Nat \ {0} /\ r.key \in Nat /\ state \in {"waiting", "accepted", "refused"}
  BY DEF ReplyIn
<1>2. StatedSet(lv, ls, entry, [entry EXCEPT !.state = state], L, E) BY <1>1, StatedIs
<1>3. StatedAt(lv, ls, r.number, state) BY DEF Stated, LiveIn, StatedAt
<1>4. lw = IF entry.op.into = 0 THEN Opened(ls, r.number, r.key) ELSE ls BY DEF Noted
<1> HIDE DEF ls, lw
<1>5. /\ ls \in LiveIn(L, E) /\ ls.call = lv.call /\ ls.open = lv.open /\ ls.committed = lv.committed
      /\ DOMAIN ls.waiting = DOMAIN w
      /\ \A k \in DOMAIN w :
           /\ IsBarrier(ls.waiting[k]) <=> IsBarrier(w[k])
           /\ IsBarrier(w[k]) => ls.waiting[k] = w[k]
  BY <1>2 DEF StatedSet, SameReads, SameRest
<1>6. CASE lw = ls BY <1>3, <1>5, <1>6 DEF StatedAt, lw
<1>7. CASE lw = Opened(ls, r.number, r.key)
  <2>1. OpenedSet(ls, lw, r.number, r.key, L, E) BY <1>1, <1>5, <1>7, OpenedIs
  <2>2. /\ lw.call = ls.call
        /\ lw.open = OpenedTo(ls.open, r.number, r.key)
        /\ lw.committed = OpenedTo(ls.committed, r.number, r.key)
        /\ DOMAIN lw.waiting = DOMAIN ls.waiting
        /\ \A k \in DOMAIN ls.waiting :
             /\ IsBarrier(lw.waiting[k]) <=> IsBarrier(ls.waiting[k])
             /\ ~IsBarrier(ls.waiting[k]) => lw.waiting[k] = ls.waiting[k]
             /\ IsBarrier(ls.waiting[k]) =>
                  /\ lw.waiting[k].to = ls.waiting[k].to
                  /\ lw.waiting[k].call = ls.waiting[k].call
                  /\ lw.waiting[k].open = OpenedTo(ls.waiting[k].open, r.number, r.key)
    BY <2>1 DEF OpenedSet, SameReads, SameRest
  <2>3. ASSUME NEW k \in DOMAIN w
        PROVE  /\ IsBarrier(lw.waiting[k]) <=> IsBarrier(w[k])
               /\ ~IsBarrier(w[k]) =>
                    lw.waiting[k] = IF w[k].number # r.number THEN w[k]
                                    ELSE [w[k] EXCEPT !.state = state]
               /\ IsBarrier(w[k]) =>
                    /\ lw.waiting[k].to = w[k].to /\ lw.waiting[k].call = w[k].call
                    /\ lw.waiting[k].open = OpenedTo(w[k].open, r.number, r.key)
    BY <1>3, <1>5, <2>2, <2>3 DEF StatedAt
  <2>. QED BY <1>5, <2>2, <2>3 DEF lw
<1>. QED BY <1>4, <1>6, <1>7

LEMMA NotedWhole ==
  ASSUME NEW L, NEW E, NEW s, Sound(s, L, E),
         NEW r \in s.out.done, NEW entry \in Messages(s.live), entry.number = r.number,
         NEW t \in StreamIn(L, E), t.topic = s.topic, t.out.done = s.out.done \ {r},
         t.live = Noted(s.live, r, entry),
         NEW K, NEW a, NEW at, NEW cur, Whole(s, at, cur, K, a)
  PROVE  Whole(t, at, cur, K, a)
<1> DEFINE w == s.live.waiting
           v == t.live.waiting
           state == IF r.what \in {"sent", "merged", "skipped"} THEN "accepted" ELSE "refused"
<1>1. s \in StreamIn(L, E) /\ Numbered(s.live) /\ Queued(s) BY DEF Sound
<1>2. s.live \in LiveIn(L, E) /\ r \in ReplyIn /\ w \in WaitingIn(L, E)
  BY <1>1, InStreamType
<1>3. r.number # 0 /\ r.what \in {"sent", "merged", "skipped", "gone", "unsent"}
  BY <1>2 DEF ReplyIn
<1>4. /\ t.live.call = s.live.call
      /\ DOMAIN v = DOMAIN w
      /\ \A k \in DOMAIN w :
           /\ IsBarrier(v[k]) <=> IsBarrier(w[k])
           /\ ~IsBarrier(w[k]) => v[k] = IF w[k].number # r.number THEN w[k]
                                         ELSE [w[k] EXCEPT !.state = state]
           /\ IsBarrier(w[k]) =>
                /\ v[k].to = w[k].to /\ v[k].call = w[k].call
                /\ v[k].open \in {w[k].open, OpenedTo(w[k].open, r.number, r.key)}
      /\ t.live.open \in {s.live.open, OpenedTo(s.live.open, r.number, r.key)}
      /\ t.live.committed \in {s.live.committed, OpenedTo(s.live.committed, r.number, r.key)}
  BY <1>1, <1>2, NotedShape
<1>5. ASSUME NEW k \in DOMAIN w, ~IsBarrier(w[k])
      PROVE  w[k] \in MessageIn(L, E) /\ w[k] \in Messages(s.live)
  BY <1>2, <1>5, WaitingType, MessageOf
<1>6. Shape(s, t) BY <1>4, <1>5 DEF Like, MessageIn, Shape
<1>7. \A x \in s.out.done : x.number = r.number => x = r BY <1>1 DEF Queued
<1>8. \A m \in Messages(s.live) : m.number = r.number => m.state = "waiting"
  <2>1. PICK n \in Messages(s.live) : n.state = "waiting" /\ n.number = r.number
    BY <1>1 DEF Queued
  <2>. QED BY <1>1, <1>2, <2>1, SameMessage
<1>9. Fares(s, t, K)
  <2>1. SUFFICES ASSUME NEW k \in DOMAIN w, ~IsBarrier(w[k])
                 PROVE  (Took(s, w[k]) <=> Took(t, v[k])) /\ (Lost(s, w[k]) => Lost(t, v[k]))
    BY DEF Fares
  <2>2. w[k] \in MessageIn(L, E) /\ w[k] \in Messages(s.live) BY <1>5, <2>1
  <2>3. CASE w[k].number # r.number BY <1>4, <2>1, <2>3 DEF Took, Lost, Done
  <2>4. CASE w[k].number = r.number
    <3>1. w[k].state = "waiting" /\ v[k].state = state /\ v[k].number = r.number
      BY <1>4, <1>8, <2>1, <2>2, <2>4 DEF MessageIn
    <3>2. \A x \in t.out.done : x.number # r.number BY <1>7
    <3>3. Took(s, w[k]) <=> r.what \in {"sent", "merged", "skipped"}
      BY <1>7, <2>4, <3>1 DEF Took, Done
    <3>4. Took(t, v[k]) <=> state = "accepted" BY <3>1, <3>2 DEF Took, Done
    <3>5. Lost(s, w[k]) => r.what \in {"gone", "unsent"} BY <1>7, <2>4, <3>1 DEF Lost
    <3>6. state = "refused" => Lost(t, v[k]) BY <3>1 DEF Lost
    <3>. QED BY <3>3, <3>4, <3>5, <3>6
  <2>. QED BY <2>3, <2>4
<1>10. ASSUME NEW p \in Places(s) PROVE OpenStays(s, t, p)
  <2> DEFINE x == OpenAt(t, p)
             o == OpenAt(s, p)
  <2>1. x \in {o, OpenedTo(o, r.number, r.key)} BY <1>4, <1>10 DEF OpenAt, Places
  <2>2. o \in OpenIn(L) BY <1>2, <1>10, WaitingType DEF LiveIn, Places, BarrierIn, OpenAt
  <2> HIDE DEF x, o
  <2>3. CASE x = o BY <2>3 DEF OpenStays, x, o
  <2>4. CASE x = OpenedTo(o, r.number, r.key) /\ x # o
    BY <2>4, <2>2, <1>3 DEF OpenedTo, OpenStays, x, OpenIn, o
  <2>. QED BY <2>1, <2>3, <2>4
<1>. QED BY <1>1, <1>6, <1>9, <1>10, SameTopic, ShapeWhole

-----------------------------------------------------------------------------
(* Steps that change the places.                                           *)

(* Each place is as one was before.                                        *)
LEMMA PlacedWhole ==
  ASSUME NEW L, NEW E, NEW s \in StreamIn(L, E), NEW t, NEW g, NEW at, NEW cur, NEW dur,
         t.topic = s.topic, t.out.done = s.out.done, Messages(t.live) = Messages(s.live),
         \A k \in Places(t) :
           /\ g[k] \in Places(s) /\ ToAt(t, k, at.to, dur) = ToAt(s, g[k], at.to, cur)
           /\ OpenAt(t, k) = OpenAt(s, g[k]) /\ Before(t, k) = Before(s, g[k])
           /\ \A p \in Places(t) : p >= k => g[p] >= g[k],
         CallsRight(t, at, dur), NEW K, NEW a, Whole(s, at, cur, K, a)
  PROVE  Whole(t, at, dur, K, a)
<1>1. PlacesStay(s, t, g, at, at, cur, dur) BY DEF PlacesStay
<1>2. \A m : (Took(t, m) <=> Took(s, m)) /\ (Torn(t, m) <=> Torn(s, m))
  BY DEF Took, Done, Torn, Lost
<1>3. MessagesStay(s, t, g, K) BY <1>2 DEF MessagesStay, Like
<1>4. OpensStay(s, t, g) BY DEF OpensStay, Like
<1>5. Steady(s, t, g, at, at, cur, dur, K, a) BY <1>1, <1>3, <1>4, SameTopic DEF Steady
<1>. QED BY <1>5, SteadyWhole

(* A barrier behind all that was read.                                     *)
LEMMA BarrierWhole ==
  ASSUME NEW L, NEW E, NEW s \in StreamIn(L, E), NEW t \in StreamIn(L, E), NEW to \in Nat,
         t.topic = s.topic, t.out.done = s.out.done, t.live = Barrier(s.live, to),
         NEW at, NEW K, NEW a, Whole(s, at, to, K, a)
  PROVE  Whole(t, at, to, K, a)
<1> DEFINE w == s.live.waiting
           v == t.live.waiting
<1>1. s.live \in LiveIn(L, E) /\ w \in WaitingIn(L, E) /\ v \in WaitingIn(L, E)
  BY InStreamType
<1>2. BarrierSet(s.live, t.live, to, L, E) BY <1>1, BarrierIs
<1>3. /\ t.live.open = s.live.open /\ t.live.committed = s.live.committed
      /\ Messages(t.live) = Messages(s.live) /\ t.live.call = s.live.call
  BY <1>2 DEF BarrierSet, SameRest
<1>4. PICK n \in Nat :
        /\ n = Len(w) \/ (n + 1 = Len(w) /\ IsBarrier(w[n + 1]))
        /\ Len(v) = n + 1 /\ DOMAIN v = 1 .. n + 1
        /\ \A k \in 1 .. n : v[k] = w[k]
        /\ v[n + 1] = [number |-> 0, to |-> to, call |-> s.live.call, open |-> s.live.open]
  BY <1>2 DEF BarrierSet
<1>5. /\ Len(w) \in Nat /\ DOMAIN w = 1 .. Len(w)
      /\ Places(s) \subseteq 0 .. Len(w) + 1 /\ Len(w) + 1 \in Places(s)
      /\ Before(s, Len(w) + 1) = Messages(s.live)
  BY BeforeIs
<1>6. Places(t) \subseteq 0 .. n + 2 /\ Before(t, n + 2) = Messages(t.live)
  BY BeforeIs, <1>4
<1> DEFINE g == [k \in Nat |-> IF k <= n THEN k ELSE Len(w) + 1]
<1>7. \A k \in Nat : g[k] = IF k <= n THEN k ELSE Len(w) + 1 OBVIOUS
<1> HIDE DEF g
<1>8. \A h \in DOMAIN v : h < n + 1 => h \in DOMAIN w /\ v[h] = w[h] BY <1>4, <1>5
<1>9. ASSUME NEW k \in Places(t), k <= n
      PROVE  /\ k \in Places(s) /\ \A at1, cur : ToAt(t, k, at1, cur) = ToAt(s, k, at1, cur)
             /\ OpenAt(t, k) = OpenAt(s, k) /\ Before(t, k) = Before(s, k)
  <2>1. k \in 0 .. n /\ (k \in DOMAIN v <=> k # 0) /\ (k \in DOMAIN w <=> k # 0)
    BY <1>4, <1>5, <1>6, <1>9
  <2>2. k # 0 => v[k] = w[k] BY <1>4, <2>1
  <2>3. k \in Places(s) BY <1>4, <1>5, <1>9, <2>1, <2>2 DEF Places
  <2>4. {h \in DOMAIN v : h < k /\ ~IsBarrier(v[h])} = {h \in DOMAIN w : h < k /\ ~IsBarrier(w[h])}
    BY <1>4, <1>5, <2>1
  <2>5. \A h \in {x \in DOMAIN w : x < k /\ ~IsBarrier(w[x])} : v[h] = w[h]
    BY <1>4, <1>5, <2>1
  <2>6. Before(t, k) = Before(s, k) BY <2>4, <2>5 DEF Before
  <2>. QED BY <1>3, <2>1, <2>2, <2>3, <2>6 DEF ToAt, OpenAt
<1>10. ASSUME NEW k \in Places(t), ~(k <= n)
       PROVE  /\ \A at1 : ToAt(t, k, at1, to) = to
              /\ OpenAt(t, k) = s.live.open /\ Before(t, k) = Messages(s.live)
  BY <1>6, <1>10, <1>4, <1>3 DEF ToAt, OpenAt, IsBarrier, Before
<1>11. /\ \A at1 : ToAt(s, Len(w) + 1, at1, to) = to
       /\ OpenAt(s, Len(w) + 1) = s.live.open
  BY <1>5 DEF ToAt, OpenAt
<1>12. ASSUME NEW k \in Places(t)
       PROVE  /\ g[k] \in Places(s) /\ ToAt(t, k, at.to, to) = ToAt(s, g[k], at.to, to)
              /\ OpenAt(t, k) = OpenAt(s, g[k]) /\ Before(t, k) = Before(s, g[k])
              /\ \A p \in Places(t) : p >= k => g[p] >= g[k]
  BY <1>6, <1>4, <1>5, <1>7, <1>9, <1>10, <1>11
<1>13. CallsRight(t, at, to) BY <1>4, <1>8, <1>3 DEF Whole, CallsRight
<1>. QED BY <1>3, <1>12, <1>13, PlacedWhole

(* Nothing waits any more: the stream is at the offset again.              *)
LEMMA EmptyWhole ==
  ASSUME NEW L, NEW E, NEW s \in StreamIn(L, E), NEW t \in StreamIn(L, E),
         t.live.waiting = <<>>, t.out.done = {}, t.topic = s.topic, NEW at, NEW cur,
         t.live.call = at.call,
         t.live.open \in {NoOpen, s.live.committed}, t.live.committed \in {NoOpen, s.live.committed},
         NEW K, NEW a, Whole(s, at, cur, K, a)
  PROVE  Whole(t, at, at.to, K, a)
<1> DEFINE g == [k \in Nat |-> 0]
<1>1. Messages(t.live) = {} BY DEF Messages, ToSet
<1>2. Places(t) \subseteq Nat /\ \A k \in Places(t) : k \in {0, 1} /\ g[k] = 0
  BY DEF Places
<1> HIDE DEF g
<1>3. \A k : Before(t, k) = {} /\ ToAt(t, k, at.to, at.to) = at.to
              /\ OpenAt(t, k) \in {NoOpen, s.live.committed}
  BY DEF Before, ToAt, OpenAt
<1>4. /\ 0 \in Places(s) /\ ToAt(s, 0, at.to, cur) = at.to /\ OpenAt(s, 0) = s.live.committed
      /\ Before(s, 0) = {}
  BY BeforeIs DEF ToAt, OpenAt
<1>5. CallsRight(t, at, at.to) BY DEF CallsRight, Whole
<1>6. PlacesStay(s, t, g, at, at, cur, at.to) BY <1>2, <1>3, <1>4, <1>5 DEF PlacesStay
<1>7. MessagesStay(s, t, g, K) BY <1>1, <1>2, <1>3, <1>4 DEF MessagesStay
<1>8. OpensStay(s, t, g) BY <1>2, <1>3, <1>4 DEF OpensStay
<1>9. Steady(s, t, g, at, at, cur, at.to, K, a) BY <1>6, <1>7, <1>8, SameTopic DEF Steady
<1>. QED BY <1>9, SteadyWhole

(* What was taken at the head is dropped, and the offset moves on.         *)
LEMMA AdvancedWhole ==
  ASSUME NEW L, NEW E, NEW B, NEW G, NEW c, NEW W, NEW s, Good(s, L, E, B, G, c, W),
         NEW t \in StreamIn(L, E), t.live = Advanced(s.live),
         t.topic = s.topic, t.out.done = s.out.done,
         NEW cur, NEW K, NEW a, Whole(s, offset, cur, K, a)
  PROVE  Whole(t, Committed(s.live), cur, K, a)
<1> DEFINE w == s.live.waiting
           v == t.live.waiting
           n == Passed(s.live)
           last == LastBarrier(s.live)
           bt == Committed(s.live)
           g == [k \in Nat |-> IF k = 0 THEN last ELSE n + k]
<1>1. s \in StreamIn(L, E) /\ Sound(s, L, E) /\ Numbered(s.live) /\ Placed(s, E)
  BY GoodIsSound DEF Good
<1>2. s.live \in LiveIn(L, E) /\ w \in WaitingIn(L, E) /\ Messages(s.live) \subseteq MessageIn(L, E)
  BY <1>1, InStreamType
<1>3. /\ n \in 0 .. Len(w) /\ Len(w) \in Nat /\ DOMAIN w = 1 .. Len(w)
      /\ \A k \in 1 .. n : IsBarrier(w[k]) \/ w[k].state = "accepted"
      /\ last \in 0 .. n /\ (last # 0 => IsBarrier(w[last]))
      /\ \A k \in last + 1 .. n : ~IsBarrier(w[k])
  BY <1>2, PassedIs
<1>4. AdvancedSet(s.live, t.live, L, E) BY <1>2, AdvancedIs
<1>5. /\ t.live.open = s.live.open /\ t.live.call = s.live.call
      /\ t.live.committed = IF last = 0 THEN s.live.committed ELSE w[last].open
      /\ Len(v) = Len(w) - n /\ DOMAIN v = 1 .. Len(w) - n
      /\ \A k \in 1 .. Len(w) - n : v[k] = w[n + k]
      /\ Messages(t.live) \subseteq Messages(s.live)
      /\ \A m \in Messages(s.live) : m \in Messages(t.live) \/ m.state = "accepted"
  BY <1>4 DEF AdvancedSet, SameAhead
<1>6. bt = IF last = 0 THEN offset ELSE [to |-> w[last].to, call |-> w[last].call]
  BY DEF Committed
<1>7. \A k \in Nat : g[k] = IF k = 0 THEN last ELSE n + k OBVIOUS
<1> HIDE DEF g, n, last, bt
<1>8. /\ Places(s) \subseteq 0 .. Len(w) + 1 /\ {0, Len(w) + 1} \subseteq Places(s)
      /\ \A k \in Places(s) : Before(s, k) \subseteq Messages(s.live)
  BY <1>1, BeforeIs
<1>9. Places(t) \subseteq 0 .. Len(w) - n + 1 /\ \A k \in Places(t) : Before(t, k) \subseteq Messages(t.live)
  BY <1>5, BeforeIs
<1>10. ASSUME NEW k \in Places(t)
       PROVE  /\ g[k] \in Places(s) /\ ToAt(t, k, bt.to, cur) = ToAt(s, g[k], offset.to, cur)
              /\ OpenAt(t, k) = OpenAt(s, g[k]) /\ Before(t, k) \subseteq Before(s, g[k])
              /\ \A m \in Before(s, g[k]) : m \in Before(t, k) \/ m.state = "accepted"
              /\ \A p \in Places(t) : p >= k => g[p] >= g[k]
  <2>1. k \in Nat /\ (\A p \in Places(t) : p \in Nat) /\ n \in Nat /\ last \in Nat /\ last <= n
    BY <1>3, <1>9
  <2>2. \A p \in Places(t) : p >= k => g[p] >= g[k] BY <1>7, <2>1
  <2>3. CASE k = 0
    <3>1. g[k] = last /\ k \notin DOMAIN v BY <1>5, <1>7, <2>3
    <3>2. last \in Places(s) BY <1>3, <1>8 DEF Places
    <3>3. Before(t, k) = {} BY <1>5, <2>3 DEF Before
    <3>4. \A m \in Before(s, last) : m.state = "accepted" BY <1>3 DEF Before
    <3>5. ToAt(t, k, bt.to, cur) = ToAt(s, last, offset.to, cur) /\ OpenAt(t, k) = OpenAt(s, last)
      BY <1>3, <1>5, <1>6, <2>3 DEF ToAt, OpenAt
    <3>. QED BY <2>2, <3>1, <3>2, <3>3, <3>4, <3>5
  <2>4. CASE k # 0
    <3>1. /\ g[k] = n + k /\ k \in 1 .. Len(w) - n + 1 /\ n + k # 0
          /\ (k \in DOMAIN v <=> n + k \in DOMAIN w) /\ (k \in DOMAIN v => v[k] = w[n + k])
      <4>1. g[k] = n + k /\ n + k # 0 BY <1>7, <2>1, <2>4
      <4>2. k \in 1 .. Len(w) - n + 1 BY <1>3, <1>9, <2>1, <2>4
      <4>3. k \in 1 .. Len(w) - n <=> n + k \in 1 .. Len(w) BY <1>3, <2>1, <4>2
      <4>. QED BY <1>3, <1>5, <4>1, <4>2, <4>3
    <3>2. n + k \in Places(s) BY <1>3, <1>8, <3>1 DEF Places
    <3>3. ToAt(t, k, bt.to, cur) = ToAt(s, n + k, offset.to, cur) /\ OpenAt(t, k) = OpenAt(s, n + k)
      BY <1>5, <2>4, <3>1 DEF ToAt, OpenAt
    <3>4. ASSUME NEW m \in Before(t, k) PROVE m \in Before(s, n + k)
      <4>1. PICK j \in DOMAIN v : j < k /\ ~IsBarrier(v[j]) /\ m = v[j] BY DEF Before
      <4>2. n + j \in DOMAIN w /\ n + j < n + k /\ v[j] = w[n + j]
        BY <1>3, <1>5, <2>1, <4>1, SMTT(20)
      <4>. QED BY <4>1, <4>2 DEF Before
    <3>5. ASSUME NEW m \in Before(s, n + k), m.state # "accepted" PROVE m \in Before(t, k)
      <4>1. PICK j \in DOMAIN w : j < n + k /\ ~IsBarrier(w[j]) /\ m = w[j] BY DEF Before
      <4>2. j > n BY <1>3, <3>5, <4>1
      <4>3. j - n \in DOMAIN v /\ j - n < k /\ v[j - n] = w[j]
        <5>1. j \in Nat /\ j - n \in 1 .. Len(w) - n /\ j - n < k /\ n + (j - n) = j
          BY <1>3, <2>1, <4>1, <4>2
        <5>. QED BY <1>5, <5>1
      <4>. QED BY <4>1, <4>3 DEF Before
    <3>. QED BY <2>2, <3>1, <3>2, <3>3, <3>4, <3>5
  <2>. QED BY <2>3, <2>4
<1>11. \A m : (Took(t, m) <=> Took(s, m)) /\ (Lost(t, m) <=> Lost(s, m))
  BY DEF Took, Done, Lost
<1>12. CallsRight(t, bt, cur)
  <2>1. CallsRight(s, offset, cur) BY DEF Whole
  <2>2. ASSUME NEW k \in DOMAIN v, IsBarrier(v[k]) PROVE CallAt(v[k].to, v[k].call)
    <3>1. n + k \in DOMAIN w /\ v[k] = w[n + k] BY <1>3, <1>5
    <3>. QED BY <2>1, <2>2, <3>1 DEF CallsRight
  <2>3. CallAt(bt.to, bt.call) BY <1>6, <2>1, <1>3 DEF CallsRight
  <2>. QED BY <1>5, <2>1, <2>2, <2>3 DEF CallsRight
<1>13. PlacesStay(s, t, g, offset, bt, cur, cur) BY <1>10, <1>12 DEF PlacesStay
<1>14. MessagesStay(s, t, g, K)
  <2>1. \A m \in Messages(t.live) : \E x \in Messages(s.live) : Like(m, x) /\ (~Took(t, m) => ~Took(s, x))
    BY <1>5, <1>11 DEF Like
  <2>2. \A k \in Places(t) : \A m \in Before(t, k) : \E x \in Before(s, g[k]) : Like(m, x)
    BY <1>10 DEF Like
  <2>3. \A k \in Places(t) : \A x \in Before(s, g[k]) : ~Took(s, x) =>
          \E m \in Before(t, k) : Like(m, x) /\ (Took(t, m) => ToSet(x.op.text) \subseteq K)
    BY <1>10, <1>11 DEF Like, Took
  <2>4. ASSUME NEW k \in Places(t), NEW x \in Before(s, g[k]), Torn(s, x)
        PROVE  \E m \in Before(t, k) : Torn(t, m)
    <3>1. PICK y \in Messages(s.live) : y.number > x.number /\ y.op.into = x.op.into /\ Took(s, y)
      BY <2>4 DEF Torn
    <3>2. x \in Messages(s.live) BY <1>8, <1>10
    <3>3. x.state # "accepted" /\ Lost(s, x) /\ x.op.into # 0
      BY <2>4, <1>1, <3>2, OneOfThree DEF Torn, Took
    <3>4. x \in Before(t, k) BY <1>10, <3>3
    <3>5. y \in Messages(t.live)
      <4>1. PICK i \in DOMAIN v : ~IsBarrier(v[i]) /\ x = v[i] BY <3>4 DEF Before
      <4>2. PICK j \in DOMAIN w : ~IsBarrier(w[j]) /\ y = w[j] BY <1>2, <3>1, MessageOf
      <4>3. n + i \in DOMAIN w /\ w[n + i] = x /\ n \in Nat /\ j \in Nat /\ i \in Nat
        BY <1>3, <1>5, <4>1, SMTT(30)
      <4>4. x.number \in Nat /\ y.number \in Nat BY <1>2, <3>2 DEF MessageIn
      <4>5. j > n + i BY <3>1, <4>2, <4>3, <4>4, <1>1, <4>1 DEF Numbered
      <4>6. j - n \in DOMAIN v /\ v[j - n] = w[j]
        BY <1>3, <1>5, <4>2, <4>3, <4>5, SMTT(20)
      <4>7. t.live.waiting \in WaitingIn(L, E) BY InStreamType
      <4>. QED BY <4>2, <4>6, <4>7, MessageOf
    <3>6. Torn(t, x) BY <1>11, <3>1, <3>3, <3>5 DEF Torn
    <3>. QED BY <3>4, <3>6
  <2>. QED BY <2>1, <2>2, <2>3, <2>4 DEF MessagesStay
<1>15. OpensStay(s, t, g)
  <2>1. SUFFICES ASSUME NEW p \in Places(t), OpenAt(t, p).key = 0, OpenAt(t, p).number # 0,
                        NEW x \in Before(s, g[p]), x.number = OpenAt(t, p).number
                 PROVE  x \in Before(t, p)
    BY <1>10 DEF OpensStay, Like
  <2> DEFINE o == OpenAt(t, p)
  <2>2. o \in Opens(s.live) BY <1>10 DEF OpenAt, Opens, Places
  <2>3. PlacedOpen(o, s, E) BY <1>1, <2>2 DEF Placed
  <2> HIDE DEF o
  <2>4. PICK m \in Messages(s.live) : m.number = o.number /\ m.state = "waiting"
    BY <2>1, <2>3 DEF PlacedOpen, o
  <2>5. x = m BY <1>8, <1>10, <1>1, <1>2, <2>1, <2>4, SameMessage DEF o
  <2>. QED BY <1>10, <2>4, <2>5
<1>16. Steady(s, t, g, offset, bt, cur, cur, K, a)
  BY <1>1, <1>13, <1>14, <1>15, SameTopic DEF Steady
<1>. QED BY <1>16, SteadyWhole DEF bt

LEMMA MovedWhole ==
  ASSUME NEW B, NEW G, NEW c, NEW W, NEW t, Good(t, Line, Ends, B, G, c, W), Moved(t.live),
         out' = t.out, topic' = t.topic,
         NEW cur, NEW K, NEW a, Whole(t, offset, cur, K, a)
  PROVE  Whole(St', offset', cur, K, a)
<1> DEFINE u == [t EXCEPT !.live = Advanced(t.live)]
<1>1. t \in StreamIn(Line, Ends) BY DEF Good
<1>2. u \in StreamIn(Line, Ends) BY AdvancedGood
<1>3. u.live = Advanced(t.live) /\ u.out = t.out /\ u.topic = t.topic
  BY <1>1 DEF StreamIn
<1>4. St' = u BY <1>1 DEF St, StreamIn, Moved
<1> HIDE DEF u
<1>5. Whole(u, Committed(t.live), cur, K, a) BY <1>2, <1>3, AdvancedWhole
<1>6. offset' = Committed(t.live) BY DEF Moved
<1>. QED BY <1>4, <1>5, <1>6

-----------------------------------------------------------------------------
(* Answers and lines are sent.                                             *)

LEMMA SoundClosed ==
  ASSUME NEW L, NEW E, NEW s, Sound(s, L, E), NEW t, t = [s EXCEPT !.live = CloseOpen(s.live)]
  PROVE  /\ Sound(t, L, E) /\ t.live = CloseOpen(s.live) /\ t.out = s.out /\ t.topic = s.topic
         /\ t.live.open = NoOpen
<1> DEFINE lw == CloseOpen(s.live)
           w == s.live.waiting
<1>1. s \in StreamIn(L, E) /\ Numbered(s.live) /\ Queued(s) BY DEF Sound
<1>2. s.live \in LiveIn(L, E) BY <1>1, InStreamType
<1>3. /\ lw \in LiveIn(L, E) /\ lw.open = NoOpen /\ lw.next = s.live.next
      /\ Messages(lw) = Messages(s.live) /\ Opens(lw) = {NoOpen}
      /\ DOMAIN lw.waiting = DOMAIN w
      /\ \A k \in DOMAIN w :
           /\ IsBarrier(lw.waiting[k]) <=> IsBarrier(w[k])
           /\ ~IsBarrier(w[k]) => lw.waiting[k] = w[k]
  BY <1>2, CloseOpenIs
<1> HIDE DEF lw
<1>4. t \in StreamIn(L, E) /\ t.live = lw /\ t.out = s.out /\ t.topic = s.topic
  BY <1>1, <1>3 DEF StreamIn, lw
<1>5. Numbered(t.live) BY <1>1, <1>3, <1>4 DEF Numbered
<1>6. Queued(t) BY <1>1, <1>3, <1>4 DEF Queued
<1>7. \A o \in Opens(t.live) : o.key = 0 BY <1>3, <1>4 DEF NoOpen
<1>. QED BY <1>3, <1>4, <1>5, <1>6, <1>7 DEF Sound, lw

(* Message `e` was pushed.                                                 *)
SoundPush(s, p, e, L, E) ==
  /\ Sound(p, L, E) /\ e \in MessageIn(L, E) /\ Pushes(s, p, e) /\ Sends(s, p, e)
  /\ p.live.open = s.live.open /\ p.live.call = s.live.call

LEMMA SoundSent ==
  ASSUME NEW L, NEW E, NEW s, Sound(s, L, E), NEW answer \in Seq(AnswerIn(E)),
         NEW text \in Seq(L), NEW into \in Nat, into # 0 => into \in DOMAIN s.topic,
         NEW merge \in BOOLEAN, NEW absorb \in BOOLEAN
  PROVE  SoundPush(s, Push(s, answer, text, into, merge, absorb),
                   NewEntry(s.live, answer, text, into, merge, absorb), L, E)
<1> DEFINE p == Push(s, answer, text, into, merge, absorb)
           e == NewEntry(s.live, answer, text, into, merge, absorb)
<1>1. s \in StreamIn(L, E) /\ Numbered(s.live) /\ Queued(s) BY DEF Sound
<1>2. p \in StreamIn(L, E) /\ e \in MessageIn(L, E) /\ Pushes(s, p, e) BY <1>1, PushIs
<1>3. Scheduled(s, p, e) BY <1>1, PushQueued
<1>10. e = NewEntry(s.live, answer, text, into, merge, absorb) OBVIOUS
<1> HIDE DEF p, e
<1>4. /\ e.op.into = into /\ e.number = s.live.next + 1 /\ e.op.number = e.number
      /\ e.state = "waiting"
  BY <1>10 DEF NewEntry, NewOp
<1>5. Sends(s, p, e) BY <1>2, <1>4 DEF Sends, Pushes
<1>6. /\ p.topic = s.topic /\ Messages(p.live) = Messages(s.live) \cup {e}
      /\ Opens(p.live) = Opens(s.live) /\ p.live.open = s.live.open /\ p.live.call = s.live.call
  BY <1>2 DEF Pushes, SameReads, SameRest
<1>7. \A m \in Messages(p.live) : m.op.into # 0 => m.op.into \in DOMAIN p.topic
  BY <1>4, <1>6 DEF Sound
<1>8. \A r \in p.out.done : r.key # 0 => r.key \in DOMAIN p.topic
  BY <1>3, <1>6 DEF Sound, Scheduled
<1>9. Sound(p, L, E) BY <1>2, <1>3, <1>6, <1>7, <1>8 DEF Sound, Scheduled
<1>. QED BY <1>2, <1>5, <1>6, <1>9 DEF SoundPush, p, e

LEMMA AnswerGoesWhole ==
  ASSUME NEW L, NEW E, E \subseteq L, NEW s, Sound(s, L, E), NEW an \in AnswerIn(E),
         NEW at, NEW cur, NEW K, NEW a, Whole(s, at, cur, K, a)
  PROVE  /\ Sound(AnswerGoes(s, an), L, E) /\ Whole(AnswerGoes(s, an), at, cur, K, a)
<1> DEFINE t == [s EXCEPT !.live = CloseOpen(s.live)]
           p == AnswerGoes(s, an)
           e == NewEntry(t.live, <<an>>, <<an.answer>>, 0, FALSE, FALSE)
<1>1. an.answer \in L /\ <<an.answer>> \in Seq(L) /\ <<an>> \in Seq(AnswerIn(E))
  BY DEF AnswerIn
<1>2. p = Push(t, <<an>>, <<an.answer>>, 0, FALSE, FALSE) BY DEF AnswerGoes
<1>3. /\ Sound(t, L, E) /\ t.live = CloseOpen(s.live) /\ t.out = s.out /\ t.topic = s.topic
      /\ t.live.open = NoOpen
  BY SoundClosed
<1> HIDE DEF p, t
<1>4. Whole(t, at, cur, K, a) BY <1>3, ClosedWhole DEF Sound
<1>6. e.op.into = 0 /\ ~e.absorb BY DEF NewEntry, NewOp
<1>11. e = NewEntry(t.live, <<an>>, <<an.answer>>, 0, FALSE, FALSE) OBVIOUS
<1> HIDE DEF e
<1>5. /\ Sound(p, L, E) /\ e \in MessageIn(L, E) /\ Sends(t, p, e)
      /\ p.live.open = NoOpen /\ p.live.call = t.live.call
  <2>1. /\ Sound(p, L, E) /\ e \in MessageIn(L, E) /\ Sends(t, p, e)
        /\ p.live.open = t.live.open /\ p.live.call = t.live.call
    <3>1. SoundPush(t, Push(t, <<an>>, <<an.answer>>, 0, FALSE, FALSE),
                    NewEntry(t.live, <<an>>, <<an.answer>>, 0, FALSE, FALSE), L, E)
      BY <1>1, <1>3, SoundSent
    <3>. QED BY <1>2, <1>11, <3>1 DEF SoundPush
  <2>. QED BY <1>3, <2>1
<1>7. WritesInto(t, e, a) /\ OpensAs(t, p, e) BY <1>5, <1>6 DEF WritesInto, OpensAs
<1>8. CallAt(cur, p.live.call) BY <1>4, <1>5 DEF Whole, CallsRight
<1>9. p \in StreamIn(L, E) /\ ShowsMore(cur, cur, ToSet(e.op.text))
  BY <1>5 DEF Sound, ShowsMore
<1>10. Whole(p, at, cur, K, a) BY <1>3, <1>4, <1>5, <1>7, <1>8, <1>9, SentWhole
<1>. QED BY <1>5, <1>10 DEF p

LEMMA AnswersGoWhole ==
  ASSUME NEW L, NEW E, E \subseteq L, NEW s, Sound(s, L, E), NEW answers \in Seq(AnswerIn(E)),
         NEW at, NEW cur, NEW K, NEW a, Whole(s, at, cur, K, a)
  PROVE  Sound(AnswersGo(s, answers), L, E) /\ Whole(AnswersGo(s, answers), at, cur, K, a)
<1> DEFINE S == {y \in StreamIn(L, E) : Sound(y, L, E) /\ Whole(y, at, cur, K, a)}
           T == [i \in 0 .. Len(answers) |-> S]
<1>1. s \in S BY DEF Sound
<1>2. Len(answers) \in Nat /\ \A i \in 1 .. Len(answers) : answers[i] \in AnswerIn(E)
  OBVIOUS
<1>3. \A y \in S : \A an \in AnswerIn(E) : AnswerGoes(y, an) \in S
  <2>1. SUFFICES ASSUME NEW y \in S, NEW an \in AnswerIn(E) PROVE AnswerGoes(y, an) \in S
    OBVIOUS
  <2>2. Sound(AnswerGoes(y, an), L, E) /\ Whole(AnswerGoes(y, an), at, cur, K, a)
    BY AnswerGoesWhole
  <2>. QED BY <2>2 DEF Sound
<1> HIDE DEF S
<1>4. s \in T[0] /\ \A i \in 1 .. Len(answers) : \A y \in T[i - 1] : AnswerGoes(y, answers[i]) \in T[i]
  BY <1>1, <1>2, <1>3
<1> HIDE DEF T
<1>5. AnswersGo(s, answers) \in T[Len(answers)] BY <1>2, <1>4, AnswersGoReach
<1>6. AnswersGo(s, answers) \in S BY <1>2, <1>5 DEF T
<1>. QED BY <1>6 DEF S

(* A line is sent from `d`, which is `s` but for what no write looks at.   *)
LineSent(s, d, t, e, o, text, into, absorb, L, E) ==
  /\ t \in StreamIn(L, E) /\ e \in MessageIn(L, E) /\ Sends(s, t, e)
  /\ t.live.open = o /\ t.live.call = d.live.call
  /\ e.op.text = text /\ e.op.into = into /\ e.absorb = absorb

LEMMA LineSentIs ==
  ASSUME NEW L, NEW E, NEW s \in StreamIn(L, E), NEW d \in StreamIn(L, E),
         d.out = s.out, d.topic = s.topic, SameWaiting(s.live, d.live),
         NEW text \in Seq(L), NEW into \in Nat, NEW merge \in BOOLEAN, NEW absorb \in BOOLEAN,
         NEW o \in OpenIn(L)
  PROVE  LineSent(s, d, WithOpen(Push(d, <<>>, text, into, merge, absorb), o),
                  NewEntry(d.live, <<>>, text, into, merge, absorb), o, text, into, absorb, L, E)
<1> DEFINE p == Push(d, <<>>, text, into, merge, absorb)
           e == NewEntry(d.live, <<>>, text, into, merge, absorb)
           t == WithOpen(p, o)
<1>1. p \in StreamIn(L, E) /\ e \in MessageIn(L, E) /\ Pushes(d, p, e)
  <2>1. <<>> \in Seq(AnswerIn(E)) OBVIOUS
  <2>. QED BY <2>1, PushIs
<1>2. /\ e.op.into = into /\ e.op.text = text /\ e.absorb = absorb /\ e.number = d.live.next + 1
      /\ e.op.number = e.number /\ e.state = "waiting"
  BY DEF NewEntry, NewOp
<1>3. t = [p EXCEPT !.live = [p.live EXCEPT !.open = o]] BY DEF WithOpen
<1> HIDE DEF p, e, t
<1>4. p.live \in LiveIn(L, E) BY <1>1, InStreamType
<1> DEFINE lw == [p.live EXCEPT !.open = o]
<1>5. /\ lw \in LiveIn(L, E) /\ lw.open = o /\ lw.call = p.live.call
      /\ lw.waiting = p.live.waiting /\ lw.committed = p.live.committed
  BY <1>4 DEF LiveIn
<1> HIDE DEF lw
<1>6. t \in StreamIn(L, E) /\ t.live = lw /\ t.out = p.out /\ t.topic = p.topic
  BY <1>1, <1>3, <1>5 DEF StreamIn, lw
<1>7. /\ p.topic = d.topic /\ p.out = HandOff(d.out, e.op)
      /\ p.live.waiting = Append(d.live.waiting, e) /\ p.live.committed = d.live.committed
      /\ Messages(p.live) = Messages(d.live) \cup {e} /\ p.live.call = d.live.call
  BY <1>1 DEF Pushes, SameReads, SameRest
<1>8. Messages(d.live) = Messages(s.live) BY DEF Messages, SameWaiting
<1>9. Messages(t.live) = Messages(p.live) BY <1>5, <1>6 DEF Messages
<1>10. /\ d.live.waiting = s.live.waiting /\ d.live.committed = s.live.committed
       /\ d.live.next = s.live.next
  BY DEF SameWaiting
<1>11. Sends(s, t, e) BY <1>2, <1>5, <1>6, <1>7, <1>8, <1>9, <1>10 DEF Sends
<1>. QED BY <1>1, <1>2, <1>5, <1>6, <1>7, <1>11 DEF LineSent, p, e, t

(* The places know the open turn message.                                  *)
LEMMA OpenIsLast ==
  ASSUME NEW L, NEW E, NEW s \in StreamIn(L, E)
  PROVE  \E p \in Places(s) : OpenAt(s, p) = s.live.open
BY BeforeIs DEF OpenAt

(* Line `i` is the one after `cur`.                                        *)
ShowsOne(cur, i) == ShowsMore(cur, i, {i})

LEMMA OneLine ==
  ASSUME NEW L, NEW i \in L
  PROVE  <<i>> \in Seq(L) /\ ToSet(<<i>>) = {i}
BY DEF ToSet

(* The line goes into the turn message.                                    *)
LEMMA GrownWhole ==
  ASSUME NEW L, NEW E, NEW s, Sound(s, L, E), NEW d \in StreamIn(L, E),
         d.out = s.out, d.topic = s.topic, SameWaiting(s.live, d.live), ~d.live.call,
         NEW i \in L, Script[i] # "call", NEW cur, ShowsOne(cur, i),
         s.live.open.key # 0,
         NEW more, more = Append(s.live.open.text, i),
         NEW o, o = [s.live.open EXCEPT !.text = more],
         NEW at, NEW K, NEW a, a, Whole(s, at, cur, K, a)
  PROVE  Whole(WithOpen(Push(d, <<>>, more, s.live.open.key, TRUE, FALSE), o), at, i, K, a)
<1> DEFINE open == s.live.open
           t == WithOpen(Push(d, <<>>, more, open.key, TRUE, FALSE), o)
           e == NewEntry(d.live, <<>>, more, open.key, TRUE, FALSE)
<1>1. s \in StreamIn(L, E) /\ open \in OpenIn(L) /\ open.text \in Seq(L) /\ open.key \in Nat
  BY InStreamType DEF Sound, OpenIn
<1>2. more \in Seq(L) /\ ToSet(more) = ToSet(open.text) \cup {i} BY <1>1, AppendSet
<1>3. o \in OpenIn(L) /\ o.key = open.key /\ o.text = more BY <1>1, <1>2 DEF OpenIn
<1>4. LineSent(s, d, t, e, o, more, open.key, FALSE, L, E)
  BY <1>1, <1>2, <1>3, LineSentIs
<1> HIDE DEF e, t
<1>5. /\ t \in StreamIn(L, E) /\ e \in MessageIn(L, E) /\ Sends(s, t, e)
      /\ t.live.open = o /\ ~t.live.call
      /\ e.op.text = more /\ e.op.into = open.key /\ ~e.absorb
  BY <1>4 DEF LineSent
<1>6. \A r \in s.out.done : r.key # 0 => r.key # e.op.into
  <2>1. Fresh(s, a) BY DEF Whole
  <2>2. PICK p \in Places(s) : OpenAt(s, p) = open BY <1>1, OpenIsLast
  <2>. QED BY <1>5, <2>1, <2>2 DEF Fresh
<1>7. WritesInto(s, e, a) BY <1>2, <1>5, <1>6 DEF WritesInto
<1>8. OpensAs(s, t, e) BY <1>2, <1>3, <1>5 DEF OpensAs
<1>9. ShowsMore(cur, i, ToSet(e.op.text)) BY <1>2, <1>5 DEF ShowsOne, ShowsMore
<1>10. CallAt(i, t.live.call) BY <1>5 DEF CallAt
<1>11. Whole(t, at, i, K, a) BY <1>5, <1>7, <1>8, <1>9, <1>10, SentWhole
<1>. QED BY <1>11 DEF t

(* The line becomes a message of its own, or one that shows nothing yet.   *)
LEMMA NewLineWhole ==
  ASSUME NEW L, NEW E, NEW s, Sound(s, L, E), NEW d \in StreamIn(L, E),
         d.out = s.out, d.topic = s.topic, SameWaiting(s.live, d.live), ~d.live.call,
         NEW i \in L, Script[i] # "call", NEW cur, ShowsOne(cur, i),
         NEW key \in Nat, NEW merge \in BOOLEAN, NEW absorb \in BOOLEAN, absorb => key # 0,
         key # 0 => /\ s.topic[key] = <<>>
                    /\ \A n \in Messages(s.live) : n.op.into # key
                    /\ \A r \in s.out.done : r.key # key,
         NEW o, o = NoOpen \/ o = [key |-> key, number |-> s.live.next + 1, text |-> <<i>>],
         NEW at, NEW K, NEW a, a, Whole(s, at, cur, K, a)
  PROVE  Whole(WithOpen(Push(d, <<>>, <<i>>, key, merge, absorb), o), at, i, K, a)
<1> DEFINE t == WithOpen(Push(d, <<>>, <<i>>, key, merge, absorb), o)
           e == NewEntry(d.live, <<>>, <<i>>, key, merge, absorb)
<1>1. s \in StreamIn(L, E) /\ s.live.next \in Nat BY InStreamType DEF Sound
<1>2. <<i>> \in Seq(L) /\ ToSet(<<i>>) = {i} BY OneLine
<1>3. o \in OpenIn(L)
  <2>1. <<>> \in Seq(L) OBVIOUS
  <2>2. NoOpen \in OpenIn(L) BY <2>1 DEF OpenIn, NoOpen
  <2>3. s.live.next + 1 \in Nat BY <1>1
  <2>4. [key |-> key, number |-> s.live.next + 1, text |-> <<i>>] \in OpenIn(L)
    BY <1>2, <2>3 DEF OpenIn
  <2>. QED BY <2>2, <2>4
<1>4. LineSent(s, d, t, e, o, <<i>>, key, absorb, L, E)
  BY <1>1, <1>2, <1>3, LineSentIs, ZenonT(40)
<1>5. e.number = d.live.next + 1 /\ d.live.next = s.live.next
  BY DEF NewEntry, SameWaiting
<1> HIDE DEF e, t
<1>6. /\ t \in StreamIn(L, E) /\ e \in MessageIn(L, E) /\ Sends(s, t, e)
      /\ t.live.open = o /\ ~t.live.call
      /\ e.op.text = <<i>> /\ e.op.into = key /\ (e.absorb => key # 0)
  BY <1>4 DEF LineSent
<1>7. \A r \in s.out.done : r.key # 0 => r.key # e.op.into BY <1>6
<1>8. WritesInto(s, e, a) BY <1>6, <1>7 DEF WritesInto
<1>9. OpensAs(s, t, e) BY <1>5, <1>6 DEF OpensAs
<1>10. ShowsMore(cur, i, ToSet(e.op.text)) BY <1>2, <1>6 DEF ShowsOne, ShowsMore
<1>11. CallAt(i, t.live.call) BY <1>6 DEF CallAt
<1>12. Whole(t, at, i, K, a) BY <1>6, <1>8, <1>9, <1>10, <1>11, SentWhole
<1>. QED BY <1>12 DEF t

(* A line that shows a piece, or none yet.                                 *)
LEMMA ShownWhole ==
  ASSUME NEW L, NEW E, NEW s, Sound(s, L, E), NEW c, NEW d \in StreamIn(L, E), c.st = d,
         c = [st |-> c.st, posted |-> c.posted, status |-> c.status, read |-> c.read, first |-> c.first],
         d.out = s.out, d.topic = s.topic, SameWaiting(s.live, d.live), ~d.live.call,
         NEW i \in L, Script[i] # "call", NEW cur, ShowsOne(cur, i),
         NEW at, NEW K, NEW a, a, Whole(s, at, cur, K, a)
  PROVE  Whole(Shown(c, i).st, at, i, K, a)
<1> DEFINE open == d.live.open
           quiet == Script[i] # "prompt"
           absorb == c.status /\ c.posted = 0
           key == IF absorb THEN Len(d.topic) + 1 ELSE 0
           more == Append(open.text, i)
           t == Shown(c, i).st
<1>1. open = s.live.open BY DEF SameWaiting
<1>2. CASE quiet /\ Grows(open) BY <1>2, <1>1, GrownWhole DEF Shown, Grows
<1>3. CASE ~(quiet /\ Grows(open))
  <2> DEFINE under == [d EXCEPT !.topic = IF absorb THEN Append(d.topic, <<>>) ELSE d.topic]
             base == [s EXCEPT !.topic = IF absorb THEN Append(d.topic, <<>>) ELSE d.topic]
             merge == quiet /\ ~absorb
             p == Push(under, <<>>, <<i>>, key, merge, absorb)
             o == IF quiet THEN [key |-> key, number |-> p.live.next, text |-> <<i>>] ELSE NoOpen
             top == IF absorb THEN Append(d.topic, <<>>) ELSE d.topic
  <2>1. t = WithOpen(p, o) BY <1>3 DEF Shown
  <2>2. merge \in BOOLEAN /\ absorb \in BOOLEAN OBVIOUS
  <2>3. /\ s \in StreamIn(L, E) /\ d.topic \in Seq(Seq(L \cup {0}))
        /\ Len(d.topic) \in Nat /\ DOMAIN d.topic = 1 .. Len(d.topic)
    <3>1. s \in StreamIn(L, E) BY DEF Sound
    <3>. QED BY <3>1, InStreamType, ZenonT(40)
  <2>4. /\ top \in Seq(Seq(L \cup {0})) /\ DOMAIN d.topic \subseteq DOMAIN top
        /\ (\A m \in DOMAIN d.topic : top[m] = d.topic[m])
        /\ key \in Nat /\ (key # 0 => key \notin DOMAIN d.topic /\ top[key] = <<>>)
        /\ absorb => key # 0
    BY <2>3, AppendTopic
  <2>5. /\ under \in StreamIn(L, E) /\ base \in StreamIn(L, E)
        /\ under.live = d.live /\ under.out = d.out /\ under.topic = top
        /\ base.live = s.live /\ base.out = s.out /\ base.topic = top
    BY <2>3, <2>4 DEF StreamIn
  <2> HIDE DEF top, under, base
  <2>6. Sound(base, L, E) BY <2>4, <2>5 DEF Sound, Queued
  <2>7. Whole(base, at, cur, K, a)
    <3>1. TopicStays(s, base, K) BY <2>5, InStreamType, <2>4 DEF TopicStays
    <3>. QED BY <2>3, <2>5, <3>1, TopicWhole
  <2>8. p.live.next = base.live.next + 1
    <3>1. p.live.next = under.live.next + 1
      <4>1. <<i>> \in Seq(L) /\ <<>> \in Seq(AnswerIn(E)) BY OneLine
      <4>2. Pushes(under, p, NewEntry(under.live, <<>>, <<i>>, key, merge, absorb))
        BY <2>2, <2>4, <2>5, <4>1, PushIs
      <4>. QED BY <4>2 DEF Pushes
    <3>. QED BY <2>5, <3>1 DEF SameWaiting
  <2>9. o = NoOpen \/ o = [key |-> key, number |-> base.live.next + 1, text |-> <<i>>]
    BY <2>8
  <2>10. key # 0 => /\ base.topic[key] = <<>>
                    /\ \A n \in Messages(base.live) : n.op.into # key
                    /\ \A r \in base.out.done : r.key # key
    BY <2>4, <2>5 DEF Sound
  <2>11. under.out = base.out /\ under.topic = base.topic /\ SameWaiting(base.live, under.live)
         /\ ~under.live.call
    BY <2>5
  <2> HIDE DEF merge, absorb, key, o
  <2>12. Whole(WithOpen(p, o), at, i, K, a)
    BY <2>2, <2>4, <2>5, <2>6, <2>7, <2>9, <2>10, <2>11, NewLineWhole
  <2>. QED BY <2>1, <2>12
<1>. QED BY <1>2, <1>3

(* What a step of the stream alone changes is not looked at.               *)
LEMMA QuietWhole ==
  ASSUME NEW L, NEW E, NEW s, Sound(s, L, E), NEW lw \in LiveIn(L, E),
         SameWaiting(s.live, lw), lw.call = s.live.call, NEW t, t = [s EXCEPT !.live = lw],
         NEW at, NEW cur, NEW K, NEW a, Whole(s, at, cur, K, a)
  PROVE  Sound(t, L, E) /\ Whole(t, at, cur, K, a)
<1>1. s \in StreamIn(L, E) /\ Numbered(s.live) /\ Queued(s) BY DEF Sound
<1>2. t \in StreamIn(L, E) /\ t.live = lw /\ t.out = s.out /\ t.topic = s.topic
  BY <1>1 DEF StreamIn
<1>3. Messages(t.live) = Messages(s.live) /\ Opens(t.live) = Opens(s.live)
  BY <1>2 DEF SameWaiting, Messages, Opens
<1>4. Numbered(t.live) /\ Queued(t) BY <1>1, <1>2, <1>3 DEF Numbered, Queued, SameWaiting
<1>5. Sound(t, L, E) BY <1>2, <1>3, <1>4 DEF Sound
<1>6. Whole(t, at, cur, K, a) BY <1>1, <1>2, SameWhole DEF SameWaiting
<1>. QED BY <1>5, <1>6

(* Lines were read that show nothing.                                      *)
LEMMA PassedWhole ==
  ASSUME NEW L, NEW E, NEW s \in StreamIn(L, E), NEW t \in StreamIn(L, E),
         t.topic = s.topic, t.out.done = s.out.done, SameWaiting(s.live, t.live),
         NEW cur, NEW dur, ShowsMore(cur, dur, {}), CallAt(dur, t.live.call),
         NEW at, NEW K, NEW a, Whole(s, at, cur, K, a)
  PROVE  Whole(t, at, dur, K, a)
<1>1. /\ AllCovered(s, at.to, cur, K, a) /\ TextsGrow(s) /\ AbsorbsInto(s)
      /\ a => \A k \in Places(s) : OpenGrows(s, k)
      /\ Fresh(s, a) /\ CallsRight(s, at, cur)
  BY DEF Whole
<1>2. /\ t.live.waiting = s.live.waiting /\ t.live.open = s.live.open
      /\ t.live.committed = s.live.committed
  BY DEF SameWaiting
<1>3. Messages(t.live) = Messages(s.live) BY <1>2 DEF Messages
<1>4. /\ Places(t) = Places(s)
      /\ \A k : Before(t, k) = Before(s, k) /\ OpenAt(t, k) = OpenAt(s, k)
  BY <1>2 DEF Places, Before, OpenAt
<1>5. \A m : (Took(t, m) <=> Took(s, m)) /\ (Lost(t, m) <=> Lost(s, m))
  BY DEF Took, Lost, Done
<1>6. \A m : Torn(t, m) <=> Torn(s, m) BY <1>3, <1>5 DEF Torn
<1>7. \A o, m : Aims(t, o, m) <=> Aims(s, o, m) BY DEF Aims
<1>8. \A i, k, m : FirmIn(t, i, k, m, a) <=> FirmIn(s, i, k, m, a)
  BY <1>3, <1>4, <1>5, <1>7 DEF FirmIn
<1>9. \A i, k : Covered(t, i, k, K, a) <=> Covered(s, i, k, K, a)
  BY <1>4, <1>5, <1>8 DEF Covered
<1>10. ASSUME NEW k \in Places(t), NEW i \in Pieces, i <= ToAt(t, k, at.to, dur)
       PROVE  i <= ToAt(s, k, at.to, cur)
  BY <1>2, <1>10 DEF ToAt, ShowsMore
<1>11. AllCovered(t, at.to, dur, K, a)
  <2> SUFFICES ASSUME NEW k \in Places(t), NEW i \in Pieces, i <= ToAt(t, k, at.to, dur)
               PROVE  (\E m \in Before(t, k) : Torn(t, m)) \/ Covered(t, i, k, K, a)
    BY DEF AllCovered
  <2>1. (\E m \in Before(s, k) : Torn(s, m)) \/ Covered(s, i, k, K, a)
    BY <1>1, <1>4, <1>10 DEF AllCovered
  <2>. QED BY <1>4, <1>6, <1>9, <2>1
<1>12. TextsGrow(t) /\ AbsorbsInto(t) BY <1>1, <1>3 DEF TextsGrow, AbsorbsInto
<1>13. a => \A k \in Places(t) : OpenGrows(t, k) BY <1>1, <1>4 DEF OpenGrows
<1>14. Fresh(t, a) BY <1>1, <1>3, <1>4 DEF Fresh
<1>15. CallsRight(t, at, dur) BY <1>1, <1>2 DEF CallsRight
<1>. QED BY <1>11, <1>12, <1>13, <1>14, <1>15 DEF Whole

(* The answer of a turn goes, or none does.                                *)
LEMMA TurnEndWhole ==
  ASSUME NEW L, NEW E, NEW B, NEW G, NEW a, NEW W, NEW c, GoodChunk(c, L, E, B, G, a, W),
         NEW e \in E, NEW at, NEW cur, NEW K, NEW b, Whole(c.st, at, cur, K, b)
  PROVE  Whole(TurnEnd(c, e).st, at, cur, K, b)
<1> DEFINE st == c.st
           lv == st.live
           k == Min(LetGo(lv, e))
           others == [lv EXCEPT !.held = RemoveAt(lv.held, k)]
           paired == [lv EXCEPT !.unpaired = Tail(lv.unpaired),
                                !.answeredEnds = lv.answeredEnds \cup {e}]
           ended == [lv EXCEPT !.ends = IF Len(lv.ends) < MaxHeld THEN Append(lv.ends, e)
                                        ELSE lv.ends]
           an == [lv.held[k] EXCEPT !.end = e]
           left1 == [st EXCEPT !.live = others]
           went == AnswerGoes(left1, an)
           posted == [c EXCEPT !.st = went, !.posted = c.posted + 1]
<1>1. c \in ChunkIn(L, E) /\ Good(st, L, E, B, G, a, W) BY DEF GoodChunk
<1>2. /\ st \in StreamIn(L, E) /\ lv \in LiveIn(L, E) /\ lv.held \in Seq(AnswerIn(E))
      /\ DOMAIN lv.held = 1 .. Len(lv.held) /\ Len(lv.held) \in Nat
      /\ Kept(st, E, B, G) /\ E \subseteq L
  BY <1>1, InStreamType DEF Good
<1>3. Sound(st, L, E) BY <1>1, GoodIsSound
<1>4. TurnEnd(c, e) =
        IF e \in lv.answeredEnds THEN c
        ELSE IF LetGo(lv, e) # {} THEN posted
        ELSE [c EXCEPT !.st = [st EXCEPT !.live = IF lv.unpaired # <<>> THEN paired ELSE ended]]
  BY DEF TurnEnd
<1>5. CASE e \in lv.answeredEnds BY <1>4, <1>5
<1>6. CASE e \notin lv.answeredEnds /\ LetGo(lv, e) # {}
  <2>1. LetGo(lv, e) \subseteq DOMAIN lv.held BY DEF LetGo
  <2>2. k \in DOMAIN lv.held BY <1>2, <1>6, <2>1, MinIs
  <2> HIDE DEF k
  <2>3. an \in AnswerIn(E)
    <3>1. lv.held[k] \in AnswerIn(E) BY <1>2, <2>2
    <3>. QED BY <3>1 DEF AnswerIn
  <2>4. RemoveAt(lv.held, k) \in Seq(AnswerIn(E)) BY <1>2, <2>2, RemoveIs
  <2>5. others \in LiveIn(L, E) /\ SameWaiting(lv, others) /\ others.call = lv.call
    BY <1>2, <2>4 DEF LiveIn, SameWaiting
  <2> HIDE DEF others, an
  <2>6. Sound(left1, L, E) /\ Whole(left1, at, cur, K, b) BY <1>3, <2>5, QuietWhole
  <2> HIDE DEF left1
  <2>7. Whole(went, at, cur, K, b) BY <1>2, <2>3, <2>6, AnswerGoesWhole
  <2>8. posted.st = went BY <1>1 DEF ChunkIn
  <2> HIDE DEF posted, went
  <2>. QED BY <1>4, <1>6, <2>7, <2>8
<1>7. CASE e \notin lv.answeredEnds /\ ~(LetGo(lv, e) # {})
  <2> DEFINE lw == IF lv.unpaired # <<>> THEN paired ELSE ended
  <2>1. lw \in LiveIn(L, E) /\ SameWaiting(lv, lw) /\ lw.call = lv.call
    <3>1. CASE lv.unpaired # <<>>
      <4>1. Tail(lv.unpaired) \in Seq(E) /\ lv.answeredEnds \cup {e} \in SUBSET E
        BY <1>2, <3>1 DEF LiveIn
      <4>. QED BY <1>2, <3>1, <4>1 DEF LiveIn, SameWaiting
    <3>2. CASE ~(lv.unpaired # <<>>)
      <4>1. (IF Len(lv.ends) < MaxHeld THEN Append(lv.ends, e) ELSE lv.ends) \in Seq(E)
        BY <1>2 DEF LiveIn
      <4>. QED BY <1>2, <3>2, <4>1 DEF LiveIn, SameWaiting
    <3>. QED BY <3>1, <3>2
  <2> HIDE DEF lw
  <2>2. Whole([st EXCEPT !.live = lw], at, cur, K, b) BY <1>3, <2>1, QuietWhole
  <2>3. TurnEnd(c, e).st = [st EXCEPT !.live = lw] BY <1>1, <1>4, <1>7 DEF lw, ChunkIn
  <2>. QED BY <2>2, <2>3
<1>. QED BY <1>5, <1>6, <1>7

(* Line `i` comes after the `cur` lines that were read.                    *)
NextLine(cur, i) == cur \in Nat /\ i = cur + 1 /\ i \in Line

LEMMA NextLineIs ==
  ASSUME plan \in Plans, NEW cur, NEW i, NextLine(cur, i)
  PROVE  /\ ShowsOne(cur, i)
         /\ i \notin Pieces => ShowsMore(cur, i, {})
BY Transcript DEF Pieces, NextLine, ShowsOne, ShowsMore

(* Which lines show a piece.                                               *)
LEMMA PiecesAre ==
  ASSUME plan \in Plans, NEW cur, NEW i, NextLine(cur, i), NEW call, CallAt(cur, call)
  PROVE  /\ Script[i] \in {"call", "end"} => i \notin Pieces
         /\ Script[i] = "result" /\ ~call => i \notin Pieces
         /\ Script[i] # "call" => CallAt(i, FALSE)
         /\ Script[i] = "call" => CallAt(i, TRUE)
BY Transcript DEF NextLine, Pieces, CallAt

(* Any line.                                                               *)
LEMMA AppliedWhole ==
  ASSUME plan \in Plans, NEW B, NEW G, NEW a, NEW W, NEW c, GoodChunk(c, Line, Ends, B, G, a, W), a,
         NEW i, NEW cur, NextLine(cur, i),
         NEW at, NEW K, Whole(c.st, at, cur, K, a)
  PROVE  Whole(Applied(c, i).st, at, i, K, a)
<1> DEFINE st == c.st
           lv == st.live
           with(now) == [c EXCEPT !.st = [st EXCEPT !.live = now]]
           quietLive == [lv EXCEPT !.call = FALSE]
           promptLive == [lv EXCEPT !.call = FALSE, !.lapsing = lv.lapsing \/ lv.ends # <<>>]
           callLive == [lv EXCEPT !.call = TRUE]
           flushed == with(quietLive)
           prompted == with(promptLive)
           called == with(callLive)
<1>1. /\ c \in ChunkIn(Line, Ends) /\ st \in StreamIn(Line, Ends) /\ lv \in LiveIn(Line, Ends)
      /\ Sound(st, Line, Ends)
  BY InStreamType, GoodIsSound DEF GoodChunk, Good
<1>2. i \in Line /\ Script[i] \in {"text", "prompt", "call", "result", "end"}
      /\ (i \in Ends <=> Script[i] = "end")
  BY Transcript DEF NextLine, AreLines
<1>3. ASSUME NEW lw \in {quietLive, promptLive, callLive}
      PROVE  /\ GoodChunk(with(lw), Line, Ends, B, G, a, W)
             /\ with(lw) \in ChunkIn(Line, Ends) /\ with(lw).st \in StreamIn(Line, Ends)
             /\ with(lw).st.live = lw /\ with(lw).st.out = st.out /\ with(lw).st.topic = st.topic
             /\ SameWaiting(lv, lw)
  <2>1. lw \in LiveIn(Line, Ends) /\ SameWaiting(lv, lw) /\ lw.held = lv.held
    BY <1>1 DEF LiveIn, SameWaiting
  <2>2. GoodChunk(with(lw), Line, Ends, B, G, a, W) BY <2>1, QuietChunk
  <2>3. /\ with(lw).st.live = lw /\ with(lw).st.out = st.out
        /\ with(lw).st.topic = st.topic
    BY <1>1 DEF ChunkIn, StreamIn
  <2>. QED BY <2>1, <2>2, <2>3 DEF GoodChunk, Good
<1>4. quietLive.call = FALSE /\ promptLive.call = FALSE /\ callLive.call = TRUE
  BY <1>1 DEF LiveIn
<1>5. Applied(c, i) =
        CASE Script[i] = "text" -> Shown(flushed, i)
          [] Script[i] = "prompt" -> Shown(prompted, i)
          [] Script[i] = "call" -> called
          [] Script[i] = "result" -> (IF lv.call THEN Shown(flushed, i) ELSE c)
          [] Script[i] = "end" -> TurnEnd(flushed, i)
  BY DEF Applied
<1>6. CallAt(cur, lv.call) BY DEF Whole, CallsRight
<1>7. /\ Script[i] \in {"call", "end"} => i \notin Pieces
      /\ Script[i] = "result" /\ ~lv.call => i \notin Pieces
      /\ Script[i] # "call" => CallAt(i, FALSE)
      /\ Script[i] = "call" => CallAt(i, TRUE)
  BY <1>6, PiecesAre
<1>8. ShowsOne(cur, i) /\ (i \notin Pieces => ShowsMore(cur, i, {})) BY NextLineIs
<1> HIDE DEF with, quietLive, promptLive, callLive
<1>9. ASSUME NEW lw \in {quietLive, promptLive}, Script[i] # "call"
      PROVE  Whole(Shown(with(lw), i).st, at, i, K, a)
  <2> DEFINE d == with(lw)
  <2>1. /\ d \in ChunkIn(Line, Ends) /\ d.st \in StreamIn(Line, Ends) /\ d.st.out = st.out
        /\ d.st.topic = st.topic /\ SameWaiting(st.live, d.st.live) /\ ~d.st.live.call
    BY <1>3, <1>4, <1>9
  <2> HIDE DEF d
  <2>2. d = [st |-> d.st, posted |-> d.posted, status |-> d.status, read |-> d.read, first |-> d.first]
    BY <2>1 DEF ChunkIn
  <2>3. Whole(Shown(d, i).st, at, i, K, a)
    BY <1>1, <1>2, <1>8, <1>9, <2>1, <2>2, ShownWhole
  <2>. QED BY <2>3 DEF d
<1>10. ASSUME NEW lw \in {quietLive, callLive}, CallAt(i, lw.call), i \notin Pieces
       PROVE  Whole(with(lw).st, at, i, K, a)
  <2> DEFINE d == with(lw)
  <2>1. /\ d.st \in StreamIn(Line, Ends) /\ d.st.out = st.out
        /\ d.st.topic = st.topic /\ SameWaiting(st.live, d.st.live) /\ d.st.live.call = lw.call
    BY <1>3, <1>10
  <2> HIDE DEF d
  <2>2. Whole(d.st, at, i, K, a) BY <1>1, <1>8, <1>10, <2>1, PassedWhole
  <2>. QED BY <2>2 DEF d
<1>11. flushed = with(quietLive) /\ prompted = with(promptLive) /\ called = with(callLive)
  OBVIOUS
<1>12. CASE Script[i] = "text" BY <1>5, <1>9, <1>11, <1>12
<1>13. CASE Script[i] = "prompt" BY <1>5, <1>9, <1>11, <1>13
<1>14. CASE Script[i] = "call" BY <1>4, <1>5, <1>7, <1>10, <1>11, <1>14
<1>15. CASE Script[i] = "result"
  <2>1. CASE lv.call BY <1>5, <1>9, <1>11, <1>15, <2>1
  <2>2. CASE ~lv.call
    <3>1. CallAt(i, lv.call) BY <1>1, <1>7, <1>15, <2>2 DEF LiveIn
    <3>2. SameWaiting(lv, lv) BY DEF SameWaiting
    <3>3. Whole(c.st, at, i, K, a)
      BY <1>1, <1>7, <1>8, <1>15, <2>2, <3>1, <3>2, PassedWhole
    <3>. QED BY <1>5, <1>15, <2>2, <3>3
  <2>. QED BY <2>1, <2>2
<1>16. CASE Script[i] = "end"
  <2>1. Whole(flushed.st, at, i, K, a) BY <1>4, <1>7, <1>10, <1>11, <1>16
  <2>2. GoodChunk(flushed, Line, Ends, B, G, a, W) BY <1>3, <1>11
  <2>3. i \in Ends BY <1>2, <1>16
  <2> HIDE DEF flushed
  <2>4. Whole(TurnEnd(flushed, i).st, at, i, K, a) BY <2>1, <2>2, <2>3, TurnEndWhole
  <2>. QED BY <1>5, <1>16, <2>4
<1>. QED BY <1>2, <1>12, <1>13, <1>14, <1>15, <1>16

LEMMA TakenLineWhole ==
  ASSUME plan \in Plans, NEW B, NEW G, NEW a, NEW W, NEW c, GoodChunk(c, Line, Ends, B, G, a, W), a,
         NEW i \in Line, NEW at, NEW K, Whole(c.st, at, c.read, K, a)
  PROVE  LET d == TakenLine(c, i)
         IN GoodChunk(d, Line, Ends, B, G, a, W) /\ Whole(d.st, at, d.read, K, a)
<1> DEFINE x == Applied(c, i)
           d == [x EXCEPT !.read = i]
<1>1. i \in Nat /\ AreLines({i}, Line, Ends) BY Transcript DEF AreLines
<1>2. c \in ChunkIn(Line, Ends) /\ c.read \in Nat BY DEF GoodChunk, ChunkIn
<1>3. GoodChunk(TakenLine(c, i), Line, Ends, B, G, a, W) BY <1>1, TakenLineGood
<1>4. CASE TakenLine(c, i) = c BY <1>4
<1>5. CASE TakenLine(c, i) # c
  <2>1. c.read = i - 1 /\ TakenLine(c, i) = d BY <1>5 DEF TakenLine
  <2>2. NextLine(c.read, i) BY <1>1, <1>2, <2>1 DEF NextLine
  <2>3. Whole(x.st, at, i, K, a) BY <2>2, AppliedWhole
  <2>4. x \in ChunkIn(Line, Ends) BY <1>1, AppliedGood DEF AreLines, GoodChunk
  <2> HIDE DEF x
  <2>5. d.st = x.st /\ d.read = i BY <2>4 DEF ChunkIn
  <2> HIDE DEF d
  <2>. QED BY <1>3, <2>1, <2>3, <2>5
<1>. QED BY <1>4, <1>5

LEMMA LinesReadWhole ==
  ASSUME plan \in Plans, NEW B, NEW G, NEW a, NEW W, NEW c, GoodChunk(c, Line, Ends, B, G, a, W), a,
         NEW from \in Nat, NEW to \in Nat, from <= to, from + 1 .. to \subseteq Line,
         NEW at, NEW K, Whole(c.st, at, c.read, K, a)
  PROVE  LET d == LinesRead(c, from, to)
         IN Whole(d.st, at, d.read, K, a)
<1> DEFINE P(d) == GoodChunk(d, Line, Ends, B, G, a, W) /\ Whole(d.st, at, d.read, K, a)
           T == [i \in from .. to |-> {d \in ChunkIn(Line, Ends) : P(d)}]
<1>1. c \in T[from]
  <2>1. GoodChunk(c, Line, Ends, B, G, a, W) /\ Whole(c.st, at, c.read, K, a) OBVIOUS
  <2>3. P(c) BY <2>1
  <2>4. from \in from .. to OBVIOUS
  <2>2. c \in ChunkIn(Line, Ends) BY DEF GoodChunk
  <2> HIDE DEF P
  <2>. QED BY <2>2, <2>3, <2>4
<1>2. ASSUME NEW i \in from + 1 .. to, NEW y \in T[i - 1] PROVE TakenLine(y, i) \in T[i]
  <2>1. i - 1 \in from .. to /\ i \in from .. to /\ i \in Line OBVIOUS
  <2>2. y \in ChunkIn(Line, Ends) /\ P(y) BY <1>2, <2>1
  <2> DEFINE d == TakenLine(y, i)
  <2>3. P(d) BY <2>1, <2>2, TakenLineWhole
  <2>4. d \in ChunkIn(Line, Ends) BY <2>3 DEF GoodChunk
  <2> HIDE DEF d, P
  <2>5. d \in T[i] BY <2>1, <2>3, <2>4
  <2>. QED BY <2>5 DEF d
<1>3. to \in from .. to OBVIOUS
<1> HIDE DEF T
<1>4. LinesRead(c, from, to) \in T[to] BY <1>1, <1>2, LinesReadReach
<1> HIDE DEF P
<1>5. P(LinesRead(c, from, to)) BY <1>3, <1>4 DEF T
<1>. QED BY <1>5 DEF P

(* The overdue answers go first.                                           *)
LEMMA OverdueWhole ==
  ASSUME NEW L, NEW E, NEW B, NEW G, NEW b, NEW W, NEW c, GoodChunk(c, L, E, B, G, b, W),
         NEW from \in Nat, NEW at, NEW cur, NEW K, NEW a, Whole(c.st, at, cur, K, a)
  PROVE  Whole(Overdue(c, from).st, at, cur, K, a)
<1> DEFINE st == c.st
           lv == st.live
           held == lv.held
           due == Cardinality({k \in DOMAIN held : \A j \in 1 .. k : held[j].end \in 1 .. from})
           head == SubSeq(held, 1, due)
           tail == SubSeq(held, due + 1, Len(held))
           lw == [lv EXCEPT !.held = tail]
           t == [st EXCEPT !.live = lw]
           p == AnswersGo(t, head)
           d == [c EXCEPT !.st = p, !.posted = c.posted + due]
<1>1. /\ c \in ChunkIn(L, E) /\ Good(st, L, E, B, G, b, W) /\ st \in StreamIn(L, E)
      /\ E \subseteq L /\ Sound(st, L, E)
  BY GoodIsSound DEF GoodChunk, Good
<1>2. /\ lv \in LiveIn(L, E) /\ held \in Seq(AnswerIn(E)) /\ Len(held) \in Nat
      /\ DOMAIN held = 1 .. Len(held)
  BY <1>1, InStreamType
<1>3. due \in 0 .. Len(held)
  <2> DEFINE D == {k \in DOMAIN held : \A j \in 1 .. k : held[j].end \in 1 .. from}
  <2>1. IsFiniteSet(1 .. Len(held)) /\ Cardinality(1 .. Len(held)) = Len(held)
    BY <1>2, FS_Interval
  <2>2. D \subseteq 1 .. Len(held) BY <1>2
  <2> HIDE DEF D
  <2>3. IsFiniteSet(D) /\ Cardinality(D) <= Len(held) BY <2>1, <2>2, FS_Subset
  <2>4. Cardinality(D) \in Nat BY <2>3, FS_CardinalityType
  <2>5. Cardinality(D) \in 0 .. Len(held) BY <1>2, <2>3, <2>4
  <2>. QED BY <2>5 DEF D
<1>4. Overdue(c, from) = d BY DEF Overdue
<1> HIDE DEF due
<1>5. head \in Seq(AnswerIn(E)) /\ tail \in Seq(AnswerIn(E)) BY <1>2, <1>3
<1> HIDE DEF head, tail
<1>6. lw \in LiveIn(L, E) /\ SameWaiting(lv, lw) /\ lw.call = lv.call
  BY <1>2, <1>5 DEF LiveIn, SameWaiting
<1> HIDE DEF lw
<1>7. Sound(t, L, E) /\ Whole(t, at, cur, K, a) BY <1>1, <1>6, QuietWhole
<1> HIDE DEF t
<1>8. Whole(p, at, cur, K, a) BY <1>1, <1>5, <1>7, AnswersGoWhole
<1> HIDE DEF p
<1>9. d.st = p BY <1>1 DEF ChunkIn
<1> HIDE DEF d
<1>. QED BY <1>4, <1>8, <1>9

(* The lines of a read, taken.                                             *)
LEMMA LinesTakenWhole ==
  ASSUME plan \in Plans, NEW B, NEW G, NEW a, NEW W, NEW lv, NEW s,
         s = [live |-> lv, out |-> out, topic |-> topic], Good(s, Line, Ends, B, G, a, W), a,
         NEW from \in Nat, NEW to \in Nat, from <= to, from + 1 .. to \subseteq Line,
         NEW more \in BOOLEAN, NEW status \in BOOLEAN, status => NoneQueued(s, Ends),
         NEW at, NEW K, Whole(s, at, from, K, a)
  PROVE  LET p == LinesTaken(lv, from, to, more, status)
         IN Whole(p, at, p.live.readAt, K, a)
<1> DEFINE start == [st |-> s, posted |-> 0, status |-> status, read |-> from, first |-> from + 1]
           first == Overdue(start, from)
           done == LinesRead(first, from, to)
           unpaired == done.st.live.unpaired
           debts == {k \in DOMAIN unpaired : unpaired[k] \in lv.debts}
           paid == IF more \/ done.read # to THEN done.st.live
                   ELSE [done.st.live EXCEPT !.unpaired = Picked(unpaired, DOMAIN unpaired \ debts)]
           u == [done.st EXCEPT !.live = paid]
           p == [done.st EXCEPT !.live = Barrier(paid, done.read)]
<1>1. start \in ChunkIn(Line, Ends) /\ start.st = s /\ start.read = from /\ start.status = status
  BY DEF ChunkIn, Good
<1>2. LinesTaken(lv, from, to, more, status) = p BY DEF LinesTaken
<1> HIDE DEF start
<1>3. GoodChunk(start, Line, Ends, B, G, a, W) /\ Whole(start.st, at, from, K, a)
  BY <1>1 DEF GoodChunk
<1>4. /\ GoodChunk(first, Line, Ends, B, G, a, W) /\ first.read = from
      /\ Whole(first.st, at, from, K, a)
  <2>1. SameLines(start, first) /\ GoodChunk(first, Line, Ends, B, G, a, W)
    BY <1>3, OverdueGood
  <2>2. Whole(first.st, at, from, K, a) BY <1>3, OverdueWhole
  <2>. QED BY <1>1, <2>1, <2>2 DEF SameLines
<1> HIDE DEF first
<1>5. AreLines(from + 1 .. to, Line, Ends) BY Transcript DEF AreLines
<1>6. GoodChunk(done, Line, Ends, B, G, a, W) /\ Whole(done.st, at, done.read, K, a)
  <2>1. first.read <= from BY <1>4
  <2>2. GoodChunk(done, Line, Ends, B, G, a, W) BY <1>4, <1>5, <2>1, LinesReadGood
  <2>3. Whole(first.st, at, first.read, K, a) BY <1>4
  <2>4. Whole(done.st, at, done.read, K, a) BY <1>4, <2>3, LinesReadWhole
  <2>. QED BY <2>2, <2>4
<1> HIDE DEF done
<1>7. /\ Good(done.st, Line, Ends, B, G, a, W) /\ done.st \in StreamIn(Line, Ends) /\ done.read \in Nat
      /\ done.st.live \in LiveIn(Line, Ends) /\ unpaired \in Seq(Ends) /\ Sound(done.st, Line, Ends)
  BY <1>6, InStreamType, GoodIsSound DEF GoodChunk, Good, ChunkIn, LiveIn
<1>8. Picked(unpaired, DOMAIN unpaired \ debts) \in Seq(Ends) BY <1>7, PickedSet
<1> HIDE DEF debts
<1>9. paid \in LiveIn(Line, Ends) /\ SameWaiting(done.st.live, paid) /\ paid.held = done.st.live.held
      /\ paid.call = done.st.live.call
  BY <1>7, <1>8 DEF LiveIn, SameWaiting
<1> HIDE DEF paid
<1>10. Good(u, Line, Ends, B, G, a, W) /\ u \in StreamIn(Line, Ends)
  BY <1>7, <1>9, QuietGood
<1>11. Whole(u, at, done.read, K, a)
  <2> DEFINE st == done.st
             cur == done.read
  <2>1. /\ Sound(st, Line, Ends) /\ paid \in LiveIn(Line, Ends) /\ SameWaiting(st.live, paid)
        /\ paid.call = st.live.call /\ Whole(st, at, cur, K, a)
    BY <1>6, <1>7, <1>9
  <2>2. u = [st EXCEPT !.live = paid] OBVIOUS
  <2> HIDE DEF u, st, cur
  <2>3. Whole(u, at, cur, K, a) BY <2>1, <2>2, QuietWhole
  <2>. QED BY <2>3 DEF cur
<1>12. u.live = paid /\ u.out = done.st.out /\ u.topic = done.st.topic
  BY <1>7 DEF StreamIn
<1>13. p.live = Barrier(paid, done.read) /\ p.out = u.out /\ p.topic = u.topic
  BY <1>7, <1>12 DEF StreamIn
<1> HIDE DEF u
<1>14. BarrierSet(paid, Barrier(paid, done.read), done.read, Line, Ends)
  BY <1>7, <1>9, BarrierIs
<1>15. p \in StreamIn(Line, Ends) /\ p.live.readAt = done.read
  BY <1>7, <1>13, <1>14 DEF BarrierSet, StreamIn
<1> HIDE DEF p
<1>16. Whole(p, at, done.read, K, a)
  BY <1>7, <1>10, <1>11, <1>12, <1>13, <1>15, BarrierWhole
<1>. QED BY <1>2, <1>15, <1>16

-----------------------------------------------------------------------------
(* The steps of the stream, while none sent an older write again.          *)
WholeNow(K, a) == Whole(St, offset, live.readAt, K, a)

WholeNext(K, a) == Whole(St', offset', live'.readAt, K, a)

LEMMA StIsSound ==
  ASSUME StreamInv
  PROVE  /\ Sound(St, Line, Ends) /\ St \in StreamIn(Line, Ends)
         /\ St.live = live /\ St.out = out /\ St.topic = topic
BY StIs, GoodIsSound DEF StreamInv, Good

(* What the scheduler, the topic and the stream's writes do not notice.    *)
LEMMA LiveWhole ==
  ASSUME StreamInv, NEW a, NEW b, b => a, WholeNow(fate.skipped, a),
         live'.waiting = live.waiting, live'.open = live.open,
         live'.committed = live.committed, live'.call = live.call, live'.readAt = live.readAt,
         out' = out, topic' = topic, offset' = offset, live' \in LiveIn(Line, Ends)
  PROVE  WholeNext(fate.skipped, b)
<1>1. St \in StreamIn(Line, Ends) /\ St.live = live /\ St.out = out /\ St.topic = topic
  BY StIsSound
<1>2. St'.live = live' /\ St'.out = out' /\ St'.topic = topic' BY DEF St
<1>3. St' \in StreamIn(Line, Ends) BY <1>1 DEF StreamIn, St
<1> DEFINE t == St'
           K == fate.skipped
           at == offset
           cur == live.readAt
<1>4. t \in StreamIn(Line, Ends) /\ K \subseteq K /\ Whole(St, at, cur, K, a)
  BY <1>3 DEF WholeNow
<1>5. /\ t.topic = St.topic /\ t.out.done = St.out.done /\ t.live.waiting = St.live.waiting
      /\ t.live.open = St.live.open /\ t.live.committed = St.live.committed
      /\ t.live.call = St.live.call
  BY <1>1, <1>2
<1> HIDE DEF t, K, at, cur
<1>6. Whole(t, at, cur, K, b) BY <1>1, <1>4, <1>5, SameWhole
<1>. QED BY <1>6 DEF WholeNext, t, K, at, cur

(* The stream that takes a read.                                           *)
LEMMA ReadingWhole ==
  ASSUME StreamInv, live.rewind => Stuck(live), NEW a, WholeNow(fate.skipped, a),
         NEW t, t = [St EXCEPT !.live = Reading]
  PROVE  Whole(t, offset, Reading.readAt, fate.skipped, a)
<1> DEFINE K == fate.skipped
           at == offset
           cur == live.readAt
<1>1. /\ Sound(St, Line, Ends) /\ St \in StreamIn(Line, Ends)
      /\ St.live = live /\ St.out = out /\ St.topic = topic
  BY StIsSound
<1>2. t.live = Reading /\ t.out = out /\ t.topic = topic /\ t \in StreamIn(Line, Ends)
  BY ReadingGood
<1>3. Whole(St, at, cur, K, a) BY DEF WholeNow
<1>4. at \in [to : Nat, call : BOOLEAN] /\ live \in LiveIn(Line, Ends)
  BY InvTypes DEF PlaceIn
<1>5. CASE live.rewind
  <2>1. Reading = Rewound(live) /\ Stuck(live) BY <1>5 DEF Reading
  <2>2. /\ Reading.waiting = <<>> /\ Reading.open = live.committed
        /\ Reading.committed = live.committed /\ Reading.readAt = at.to
    BY <1>1, <1>4, <2>1, RewoundIs DEF StreamInv, RewoundSet
  <2>3. Reading.call = at.call BY <2>1 DEF Rewound, NewLive
  <2>4. t.out.done = {} BY <1>1, <1>2, <2>1, StuckIs DEF StreamInv
  <2> HIDE DEF at, cur, K
  <2>5. Whole(t, at, at.to, K, a) BY <1>1, <1>2, <1>3, <2>2, <2>3, <2>4, EmptyWhole
  <2>. QED BY <2>2, <2>5 DEF at, K
<1>6. CASE ~live.rewind
  <2> DEFINE lw == [live EXCEPT !.reading = 0]
  <2>1. Reading = lw BY <1>6 DEF Reading
  <2>2. /\ lw \in LiveIn(Line, Ends) /\ SameWaiting(live, lw)
        /\ lw.readAt = live.readAt /\ lw.call = live.call
    BY <1>4 DEF LiveIn, SameWaiting
  <2> HIDE DEF lw, at, cur, K
  <2>3. t = [St EXCEPT !.live = lw] BY <2>1
  <2>4. Whole(t, at, cur, K, a) BY <1>1, <1>3, <2>2, <2>3, QuietWhole
  <2>. QED BY <2>1, <2>2, <2>4 DEF at, cur, K
<1>. QED BY <1>5, <1>6

(* The read's lines are taken.                                             *)
LEMMA ChunkLinesWhole ==
  ASSUME StreamInv, NEW to \in 0 .. Len(Script), NEW more \in BOOLEAN, NEW status \in BOOLEAN,
         ChunkAround(to), left = "no", live.rewind => Stuck(live),
         Reading.readAt = Head(asks).from, status => Absorbable,
         NEW st, st = LinesTaken(Reading, Head(asks).from, to, more, status),
         Moved(st.live), out' = st.out, topic' = st.topic,
         WholeNow(fate.skipped, left = "no")
  PROVE  WholeNext(fate.skipped, left = "no")
<1> DEFINE t == [St EXCEPT !.live = Reading]
           from == Head(asks).from
           W == written'
           a == left = "no"
           K == fate.skipped
           at == offset
<1>1. /\ Good(t, Line, Ends, Came, Given, a, written) /\ t \in StreamIn(Line, Ends)
      /\ t.live = Reading /\ t.out = out /\ t.topic = topic
      /\ live.rewind => out.queue = <<>>
  BY ReadingGood
<1>2. t = [live |-> Reading, out |-> out, topic |-> topic] BY <1>1 DEF StreamIn
<1>3. W \in Nat /\ written \in Nat /\ written <= W /\ from \in Nat /\ to \in Nat /\ from <= to
      /\ to <= W
  BY DEF ChunkAround
<1>4. plan \in Plans BY InvTypes
<1>5. AreLines(from + 1 .. to, Line, Ends) /\ from + 1 .. to \subseteq Line
  BY <1>4, Transcript, <1>3 DEF AreLines
<1>6. status => NoneQueued(t, Ends) BY <1>1, StatusIs, StIs DEF NoneQueued
<1>7. Whole(t, at, from, K, a) BY ReadingWhole
<1>8. a OBVIOUS
<1> HIDE DEF t, from, W, Reading, a, K, at
<1>9. Good(t, Line, Ends, Came, Given, a, W) BY <1>1, <1>3, GoodLater
<1>10. st = LinesTaken(Reading, from, to, more, status) BY DEF from
<1>11. Good(st, Line, Ends, Came, Given, a, W)
  BY <1>2, <1>3, <1>5, <1>6, <1>9, <1>10, LinesTakenGood DEF LinesWent
<1>12. Whole(st, at, st.live.readAt, K, a)
  <2> DEFINE p == LinesTaken(Reading, from, to, more, status)
  <2>1. Whole(p, at, p.live.readAt, K, a)
    BY <1>2, <1>3, <1>4, <1>5, <1>6, <1>7, <1>8, <1>9, LinesTakenWhole
  <2> HIDE DEF p
  <2>2. st = p BY <1>10 DEF p
  <2>. QED BY <2>1, <2>2
<1>13. offset \in PlaceIn(W) BY <1>3 DEF StreamInv, Around, PlaceIn
<1>14. live'.readAt = st.live.readAt BY <1>11, <1>13, MovedGood
<1> DEFINE cur == st.live.readAt
<1> HIDE DEF cur
<1>15. Whole(st, offset, cur, K, a) BY <1>12 DEF cur, at
<1>16. Whole(St', offset', cur, K, a) BY <1>11, <1>15, MovedWhole
<1>. QED BY <1>14, <1>16 DEF WholeNext, K, a, cur

LEMMA ChunkWhole ==
  ASSUME StreamInv, Chunk, WholeNow(fate.skipped, left = "no")
  PROVE  WholeNext(fate.skipped, left = "no")
<1>1. PICK to \in 0 .. Len(Script), more \in BOOLEAN, status \in BOOLEAN : OnChunk(to, more, status)
  BY DEF Chunk
<1>2. ChunkAround(to) BY <1>1, OnChunkAround
<1>3. \/ live' = live /\ offset' = offset /\ out' = out /\ topic' = topic
      \/ /\ live.rewind /\ live' = [live EXCEPT !.reading = 0]
         /\ offset' = offset /\ out' = out /\ topic' = topic
      \/ /\ live.rewind => Stuck(live)
         /\ live' = Reading /\ offset' = offset /\ out' = out /\ topic' = topic
      \/ /\ live.rewind => Stuck(live)
         /\ left = "no" /\ Reading.readAt = Head(asks).from /\ (status => Absorbable)
         /\ \E st : /\ st = LinesTaken(Reading, Head(asks).from, to, more, status)
                    /\ Moved(st.live) /\ out' = st.out /\ topic' = st.topic
  BY <1>1 DEF OnChunk, Reading
<1>4. live \in LiveIn(Line, Ends) BY InvTypes
<1>5. CASE live' = live /\ offset' = offset /\ out' = out /\ topic' = topic
  BY <1>4, <1>5, LiveWhole
<1>6. CASE /\ live.rewind /\ live' = [live EXCEPT !.reading = 0]
           /\ offset' = offset /\ out' = out /\ topic' = topic
  BY <1>4, <1>6, LiveWhole DEF LiveIn
<1>7. CASE /\ live.rewind => Stuck(live)
           /\ live' = Reading /\ offset' = offset /\ out' = out /\ topic' = topic
  <2> DEFINE t == [St EXCEPT !.live = Reading]
  <2>1. Whole(t, offset, Reading.readAt, fate.skipped, left = "no") BY <1>7, ReadingWhole
  <2>2. St' = t BY <1>7 DEF St
  <2> HIDE DEF t, Reading
  <2>. QED BY <1>7, <2>1, <2>2 DEF WholeNext
<1>8. CASE /\ live.rewind => Stuck(live)
           /\ left = "no" /\ Reading.readAt = Head(asks).from /\ (status => Absorbable)
           /\ \E st : /\ st = LinesTaken(Reading, Head(asks).from, to, more, status)
                      /\ Moved(st.live) /\ out' = st.out /\ topic' = st.topic
  BY <1>2, <1>8, ChunkLinesWhole
<1>. QED BY <1>3, <1>5, <1>6, <1>7, <1>8

(* The stream may become `t`.                                              *)
Reaches(t, a) ==
  /\ t \in StreamIn(Line, Ends) /\ t.live.readAt = live.readAt
  /\ Whole(t, offset, live.readAt, fate.skipped, a)

LEMMA BecomesWhole ==
  ASSUME NEW a, NEW t, Reaches(t, a), Becomes(t), offset' = offset
  PROVE  WholeNext(fate.skipped, a)
<1>1. St' = t /\ live' = t.live BY StreamRecord DEF Reaches
<1> DEFINE K == fate.skipped
           at == offset
           cur == live.readAt
<1>2. Whole(t, at, cur, K, a) /\ live'.readAt = cur /\ offset' = at BY <1>1 DEF Reaches
<1> HIDE DEF K, at, cur
<1>. QED BY <1>1, <1>2 DEF WholeNext, K

(* What the stream keeps besides its writes changes.                       *)
LEMMA QuietReaches ==
  ASSUME StreamInv, NEW a, WholeNow(fate.skipped, a),
         NEW lw \in LiveIn(Line, Ends), SameWaiting(live, lw), lw.call = live.call,
         lw.readAt = live.readAt, NEW t, t = [St EXCEPT !.live = lw]
  PROVE  Reaches(t, a) /\ Sound(t, Line, Ends)
<1> DEFINE K == fate.skipped
           at == offset
           cur == live.readAt
<1>1. Sound(St, Line, Ends) /\ St.live = live /\ Whole(St, at, cur, K, a)
  BY StIsSound DEF WholeNow
<1>2. t.live = lw BY DEF St
<1> HIDE DEF K, at, cur
<1>3. Sound(t, Line, Ends) /\ Whole(t, at, cur, K, a) BY <1>1, QuietWhole
<1>4. t \in StreamIn(Line, Ends) BY <1>3 DEF Sound
<1>. QED BY <1>2, <1>3, <1>4 DEF Reaches, K, at, cur

LEMMA AnswerGoesReads ==
  ASSUME NEW L, NEW E, E \subseteq L, NEW s, Sound(s, L, E), NEW an \in AnswerIn(E)
  PROVE  AnswerGoes(s, an).live.readAt = s.live.readAt
<1> DEFINE t == [s EXCEPT !.live = CloseOpen(s.live)]
           p == Push(t, <<an>>, <<an.answer>>, 0, FALSE, FALSE)
<1>1. Sound(t, L, E) /\ t.live = CloseOpen(s.live) BY SoundClosed
<1>2. AnswerGoes(s, an) = p BY DEF AnswerGoes
<1>3. t.live.readAt = s.live.readAt
  <2>1. s.live \in LiveIn(L, E) BY InStreamType DEF Sound
  <2>. QED BY <1>1, <2>1, CloseOpenIs DEF SameReads
<1> HIDE DEF t
<1>4. <<an>> \in Seq(AnswerIn(E)) /\ <<an.answer>> \in Seq(L) BY DEF AnswerIn
<1>5. t \in StreamIn(L, E) /\ 0 \in Nat /\ FALSE \in BOOLEAN BY <1>1 DEF Sound
<1>6. Pushes(t, p, NewEntry(t.live, <<an>>, <<an.answer>>, 0, FALSE, FALSE))
  BY <1>4, <1>5, PushIs
<1> HIDE DEF p
<1>. QED BY <1>2, <1>3, <1>6 DEF Pushes, SameReads

(* An answer goes, into the stream or apart from it.                       *)
LEMMA ReleasedWhole ==
  ASSUME StreamInv, NEW a, WholeNow(fate.skipped, a),
         NEW lw \in LiveIn(Line, Ends), SameWaiting(live, lw), lw.call = live.call,
         lw.readAt = live.readAt, NEW an \in AnswerIn(Ends)
  PROVE  Reaches(Released(lw, an), a)
<1> DEFINE t == [St EXCEPT !.live = lw]
           K == fate.skipped
           at == offset
           cur == live.readAt
<1>1. Reaches(t, a) /\ Sound(t, Line, Ends) /\ t.live = lw BY QuietReaches DEF St
<1>2. Whole(t, at, cur, K, a) /\ t.live.readAt = cur BY <1>1 DEF Reaches
<1>3. Ends \subseteq Line BY DEF StreamInv, Good
<1>4. CASE Streamed
  <2>1. Released(lw, an) = AnswerGoes(t, an) BY <1>4 DEF Released
  <2> HIDE DEF t, K, at, cur
  <2> DEFINE p == AnswerGoes(t, an)
  <2>2. Sound(p, Line, Ends) /\ Whole(p, at, cur, K, a)
    BY <1>1, <1>2, <1>3, AnswerGoesWhole
  <2>3. p.live.readAt = cur BY <1>1, <1>2, <1>3, AnswerGoesReads
  <2> HIDE DEF p
  <2>4. Reaches(p, a) BY <2>2, <2>3 DEF Reaches, Sound, K, at, cur
  <2>. QED BY <2>1, <2>4 DEF p
<1>5. CASE ~Streamed
  <2> DEFINE p == [t EXCEPT !.live = CloseOpen(t.live)]
  <2>1. Released(lw, an) = p BY <1>5 DEF Released, St
  <2> HIDE DEF t, K, at, cur
  <2>2. /\ Sound(p, Line, Ends) /\ p.live = CloseOpen(t.live) /\ p.out = t.out
        /\ p.topic = t.topic
    BY <1>1, SoundClosed
  <2> HIDE DEF p
  <2>3. t \in StreamIn(Line, Ends) /\ p \in StreamIn(Line, Ends) BY <1>1, <2>2 DEF Sound
  <2>4. Whole(p, at, cur, K, a) BY <1>2, <2>2, <2>3, ClosedWhole
  <2>5. p.live.readAt = cur BY <1>1, <1>2, <2>2, CloseOpenIs DEF SameReads
  <2>6. Reaches(p, a) BY <2>3, <2>4, <2>5 DEF Reaches, K, at, cur
  <2>. QED BY <2>1, <2>6
<1>. QED BY <1>4, <1>5

LEMMA EarlyCall ==
  ASSUME NEW L, NEW E, NEW lv \in LiveIn(L, E), NEW an
  PROVE  AnsweredEarly(lv, an).live.call = lv.call
BY DEF AnsweredEarly, LiveIn

LEMMA StopWhole ==
  ASSUME StreamInv, Stop, WholeNow(fate.skipped, left = "no")
  PROVE  WholeNext(fate.skipped, left = "no") /\ left' = left /\ fate'.skipped = fate.skipped
<1>1. PICK e, ends :
        /\ e = Min({x \in Ends \cup {Len(Script) + 1} : x > stopped})
        /\ ends \in {live.ends, <<>>} /\ e <= Len(Script)
        /\ stopped' = e /\ written' = Max({written, e}) /\ StopDoes(e, ends)
        /\ plan' = plan /\ agent' = agent /\ asks' = asks /\ offset' = offset
        /\ left' = left /\ resends' = resends /\ used' = used
  BY StopIs
<1> DEFINE a == left = "no"
<1>2. /\ live \in LiveIn(Line, Ends) /\ IsFate(fate) /\ live.held \in Seq(AnswerIn(Ends))
      /\ plan \in Plans
  BY InvTypes
<1>3. stopped \in 0 .. Len(Script) /\ Len(Script) \in Nat
  BY Transcript DEF StreamInv, Around
<1>4. e \in Ends BY <1>1, <1>2, <1>3, CameNext
<1>5. ends \in Seq(Ends)
  <2>1. live.ends \in Seq(Ends) /\ <<>> \in Seq(Ends) BY <1>2 DEF LiveIn
  <2>. QED BY <1>1, <2>1
<1>6. fate'.skipped = fate.skipped BY <1>1, <1>2 DEF StopDoes, IsFate
<1>7. Answer(e) \in AnswerIn(Ends) BY <1>4 DEF Answer, AnswerIn
<1>8. /\ Claimed(ends) \in LiveIn(Line, Ends) /\ SameWaiting(live, Claimed(ends))
      /\ Claimed(ends).held = live.held /\ Claimed(ends).readAt = live.readAt
      /\ Claimed(ends).call = live.call
  BY <1>2, <1>5, ClaimedIs DEF Claimed, LiveIn
<1>9. CASE ~Streamed
  <2>1. CASE left = "no"
    <3> DEFINE t == [St EXCEPT !.live = CloseOpen(live)]
               K == fate.skipped
               at == offset
               cur == live.readAt
    <3>1. live' = CloseOpen(live) /\ out' = out /\ topic' = topic
      BY <1>1, <1>9, <2>1 DEF StopDoes
    <3>2. Becomes(t) BY <3>1 DEF Becomes, St
    <3>3. Whole(St, at, cur, K, a) /\ Sound(St, Line, Ends) /\ St.live = live
      BY StIsSound DEF WholeNow
    <3>4. t = [St EXCEPT !.live = CloseOpen(St.live)] BY <3>3
    <3> HIDE DEF t, K, at, cur, a
    <3>5. /\ Sound(t, Line, Ends) /\ t.live = CloseOpen(St.live) /\ t.out = St.out
          /\ t.topic = St.topic
      BY <3>3, <3>4, SoundClosed
    <3>6. t \in StreamIn(Line, Ends) /\ St \in StreamIn(Line, Ends)
      BY <3>3, <3>5 DEF Sound
    <3>7. Whole(t, at, cur, K, a) BY <3>3, <3>5, <3>6, ClosedWhole
    <3>8. t.live.readAt = cur BY <1>2, <3>3, <3>5, CloseOpenIs DEF SameReads, cur
    <3>9. Reaches(t, a) BY <3>6, <3>7, <3>8 DEF Reaches, K, at, cur
    <3>10. WholeNext(fate.skipped, a) BY <1>1, <3>2, <3>9, BecomesWhole
    <3>. QED BY <1>1, <1>6, <3>10 DEF a
  <2>2. CASE left # "no"
    <3>1. live' = live /\ out' = out /\ topic' = topic BY <1>1, <1>9, <2>2 DEF StopDoes
    <3> HIDE DEF a
    <3>2. WholeNext(fate.skipped, a) BY <1>1, <1>2, <3>1, LiveWhole DEF a
    <3>. QED BY <1>1, <1>6, <3>2 DEF a
  <2>. QED BY <2>1, <2>2
<1>10. CASE Streamed
  <2>1. /\ IF ends # <<>>
           THEN Becomes(Released(Claimed(ends), [Answer(e) EXCEPT !.end = Head(ends)]))
           ELSE IF Len(live.held) >= MaxHeld
           THEN Becomes(Released([HeldFull(ends).live EXCEPT
                                    !.held = Append(HeldFull(ends).live.held, Answer(e))],
                                 HeldFull(ends).answer))
           ELSE Becomes(HeldIs(ends, e))
    BY <1>1, <1>10 DEF StopDoes
  <2>2. WholeNow(fate.skipped, a) OBVIOUS
  <2> HIDE DEF a
  <2>3. \E t : Reaches(t, a) /\ Becomes(t)
    <3>1. CASE ends # <<>>
      <4> DEFINE an == [Answer(e) EXCEPT !.end = Head(ends)]
      <4>1. Head(ends) \in Ends BY <1>5, <3>1
      <4>2. an \in AnswerIn(Ends) BY <1>7, <4>1 DEF AnswerIn
      <4> HIDE DEF an
      <4>3. Reaches(Released(Claimed(ends), an), a) BY <1>8, <2>2, <4>2, ReleasedWhole
      <4>4. Becomes(Released(Claimed(ends), an)) BY <2>1, <3>1 DEF an
      <4>. QED BY <4>3, <4>4
    <3>2. CASE ends = <<>> /\ Len(live.held) >= MaxHeld
      <4> DEFINE lt == [Claimed(ends) EXCEPT !.held = Tail(live.held)]
                 h == Head(live.held)
                 r == AnsweredEarly(lt, h)
                 lw == [r.live EXCEPT !.held = Append(r.live.held, Answer(e))]
      <4>1. live.held # <<>> BY StreamAssumption, <3>2
      <4>2. Tail(live.held) \in Seq(AnswerIn(Ends)) /\ h \in AnswerIn(Ends) BY <1>2, <4>1
      <4>3. /\ lt \in LiveIn(Line, Ends) /\ SameWaiting(live, lt)
            /\ lt.readAt = live.readAt /\ lt.call = live.call
        BY <1>8, <4>2 DEF LiveIn, SameWaiting
      <4>4. HeldFull(ends) = r BY DEF HeldFull
      <4> HIDE DEF lt, h
      <4>5. EarlyWent(lt, h, r, Line, Ends) /\ r.live.call = lt.call
        BY <4>2, <4>3, EarlyIs, EarlyCall
      <4> HIDE DEF r
      <4>6. /\ r.live \in LiveIn(Line, Ends) /\ SameWaiting(live, r.live)
            /\ r.live.readAt = live.readAt /\ r.live.call = live.call
            /\ r.answer \in AnswerIn(Ends)
        BY <4>3, <4>5 DEF EarlyWent, SameWaiting
      <4>7. r.live.held \in Seq(AnswerIn(Ends)) BY <4>6 DEF LiveIn
      <4>8. Append(r.live.held, Answer(e)) \in Seq(AnswerIn(Ends)) BY <1>7, <4>7
      <4>9. /\ lw \in LiveIn(Line, Ends) /\ SameWaiting(live, lw)
            /\ lw.readAt = live.readAt /\ lw.call = live.call
        BY <4>6, <4>8 DEF LiveIn, SameWaiting
      <4>10. Becomes(Released(lw, r.answer)) BY <2>1, <3>2, <4>4
      <4> HIDE DEF lw
      <4>11. Reaches(Released(lw, r.answer), a) BY <2>2, <4>6, <4>9, ReleasedWhole
      <4>. QED BY <4>10, <4>11
    <3>3. CASE ends = <<>> /\ ~(Len(live.held) >= MaxHeld)
      <4> DEFINE lw == [Claimed(ends) EXCEPT !.held = Append(Claimed(ends).held, Answer(e))]
                 t == [St EXCEPT !.live = lw]
      <4>1. Append(Claimed(ends).held, Answer(e)) \in Seq(AnswerIn(Ends))
        BY <1>2, <1>7, <1>8
      <4>2. /\ lw \in LiveIn(Line, Ends) /\ SameWaiting(live, lw)
            /\ lw.readAt = live.readAt /\ lw.call = live.call
        BY <1>8, <4>1 DEF LiveIn, SameWaiting
      <4>3. Becomes(t) BY <2>1, <3>3 DEF HeldIs
      <4> HIDE DEF lw
      <4>4. Reaches(t, a) BY <2>2, <4>2, QuietReaches
      <4> HIDE DEF t
      <4>. QED BY <4>3, <4>4
    <3>. QED BY <3>1, <3>2, <3>3
  <2>4. PICK t : Reaches(t, a) /\ Becomes(t) BY <2>3
  <2>5. WholeNext(fate.skipped, a) BY <1>1, <2>4, BecomesWhole
  <2>. QED BY <1>1, <1>6, <2>5 DEF a
<1>. QED BY <1>9, <1>10

LEMMA HoldOverWhole ==
  ASSUME StreamInv, HoldOver, WholeNow(fate.skipped, left = "no")
  PROVE  WholeNext(fate.skipped, left = "no") /\ left' = left /\ fate'.skipped = fate.skipped
<1> DEFINE a == left = "no"
           h == Head(live.held)
           lt == [live EXCEPT !.held = Tail(live.held)]
           r == AnsweredEarly(lt, h)
<1>1. /\ live.held # <<>> /\ Becomes(Released(r.live, r.answer))
      /\ \E c : fate' = [fate EXCEPT !.early = c, !.apart = fate.apart \cup Apart(r.answer)]
      /\ offset' = offset /\ left' = left
  <2>1. /\ live.held # <<>> /\ Becomes(Released(r.live, r.answer))
        /\ fate' = [Fated({r.answer.answer}) EXCEPT !.apart = @ \cup Apart(r.answer)]
        /\ offset' = offset /\ left' = left
    BY DEF HoldOver
  <2> HIDE DEF r
  <2>. QED BY <2>1 DEF Fated
<1>2. live \in LiveIn(Line, Ends) /\ IsFate(fate) /\ live.held \in Seq(AnswerIn(Ends))
  BY InvTypes
<1>3. fate'.skipped = fate.skipped
  <2> HIDE DEF r
  <2>. QED BY <1>1, <1>2 DEF IsFate
<1>4. Tail(live.held) \in Seq(AnswerIn(Ends)) /\ h \in AnswerIn(Ends) BY <1>1, <1>2
<1>5. /\ lt \in LiveIn(Line, Ends) /\ SameWaiting(live, lt)
      /\ lt.readAt = live.readAt /\ lt.call = live.call
  BY <1>2, <1>4 DEF LiveIn, SameWaiting
<1>6. WholeNow(fate.skipped, a) OBVIOUS
<1> HIDE DEF lt, h, a
<1>7. EarlyWent(lt, h, r, Line, Ends) /\ r.live.call = lt.call
  BY <1>4, <1>5, EarlyIs, EarlyCall
<1> HIDE DEF r
<1> DEFINE lw == r.live
<1>8. /\ lw \in LiveIn(Line, Ends) /\ SameWaiting(live, lw)
      /\ lw.readAt = live.readAt /\ lw.call = live.call
      /\ r.answer \in AnswerIn(Ends)
  BY <1>5, <1>7 DEF EarlyWent, SameWaiting
<1> HIDE DEF lw
<1>9. Reaches(Released(lw, r.answer), a) BY <1>6, <1>8, ReleasedWhole
<1>10. WholeNext(fate.skipped, a) BY <1>1, <1>9, BecomesWhole DEF lw
<1>. QED BY <1>1, <1>3, <1>10 DEF a

LEMMA LeaveWhole ==
  ASSUME StreamInv, Leave, WholeNow(fate.skipped, left = "no")
  PROVE  WholeNext(fate.skipped, left = "no") /\ left' # "no" /\ fate'.skipped = fate.skipped
<1> DEFINE a == left = "no"
           lw == [live EXCEPT !.reading = 0, !.held = <<>>]
           t == [St EXCEPT !.live = lw]
           p == AnswersGo(t, live.held)
           K == fate.skipped
           at == offset
           cur == live.readAt
<1>1. /\ left' = "draining" /\ Becomes(p) /\ offset' = offset
      /\ \E c : fate' = [fate EXCEPT !.early = c]
  BY DEF Leave, Fated
<1>2. /\ live \in LiveIn(Line, Ends) /\ IsFate(fate) /\ live.held \in Seq(AnswerIn(Ends))
      /\ St.live = live
  BY InvTypes, StIs
<1>3. fate'.skipped = fate.skipped BY <1>1, <1>2 DEF IsFate
<1>4. /\ lw \in LiveIn(Line, Ends) /\ SameWaiting(live, lw)
      /\ lw.readAt = live.readAt /\ lw.call = live.call
  <2>1. <<>> \in Seq(AnswerIn(Ends)) /\ 0 \in Nat OBVIOUS
  <2>. QED BY <1>2, <2>1 DEF LiveIn, SameWaiting
<1>5. WholeNow(fate.skipped, a) /\ Ends \subseteq Line BY DEF StreamInv, Good
<1> HIDE DEF lw, a
<1>6. Reaches(t, a) /\ Sound(t, Line, Ends) BY <1>4, <1>5, QuietReaches
<1>7. Whole(t, at, cur, K, a) BY <1>6 DEF Reaches
<1>8. p.live.readAt = live.readAt
  <2>1. Good(St, Line, Ends, Came, Given, a, written) BY DEF StreamInv, a
  <2>2. Distinct(live.held) BY <2>1, <1>2, HeldInB DEF Good, HeldAnswers, AnswersOf
  <2>3. HeldParts(St.live.held, live.held, <<>>, Ends)
    BY <1>2, <2>2 DEF Distinct, AnswersOf, HeldParts
  <2>4. lw.held = <<>> BY <1>2 DEF lw
  <2>5. HeldWent(St, lw, p, live.held, Line, Ends, Came, Given, a, written)
    BY <1>2, <1>4, <2>1, <2>3, <2>4, HeldGo
  <2>. QED BY <1>4, <2>5 DEF HeldWent, SameReads
<1> HIDE DEF t, K, at, cur
<1>9. Sound(p, Line, Ends) /\ Whole(p, at, cur, K, a)
  BY <1>2, <1>5, <1>6, <1>7, AnswersGoWhole
<1> HIDE DEF p
<1>10. Reaches(p, a) BY <1>8, <1>9 DEF Reaches, Sound, K, at, cur
<1>11. WholeNext(fate.skipped, a) BY <1>1, <1>10, BecomesWhole
<1>. QED BY <1>1, <1>3, <1>11 DEF a

(* The steps that only say who reads, and whether.                         *)
LEMMA ReaderWhole ==
  ASSUME StreamInv, WholeNow(fate.skipped, left = "no"),
         AgentGoes \/ AgentComes \/ ReadForgotten \/ AskRead
  PROVE  WholeNext(fate.skipped, left = "no") /\ left' = left /\ fate'.skipped = fate.skipped
<1> DEFINE a == left = "no"
<1>1. live \in LiveIn(Line, Ends) /\ agent \in Nat BY InvTypes
<1>2. live.unpaired \in Seq(Ends) /\ ToSet(live.unpaired) \in SUBSET Ends
  BY <1>1 DEF LiveIn, ToSet
<1>3. /\ \/ live' = live
         \/ live' = [live EXCEPT !.reading = 0]
         \/ live' = [live EXCEPT !.reading = agent, !.debts = ToSet(live.unpaired)]
      /\ out' = out /\ topic' = topic /\ offset' = offset /\ left' = left /\ fate' = fate
  BY DEF AgentGoes, AgentComes, ReadForgotten, AskRead
<1>4. /\ live' \in LiveIn(Line, Ends)
      /\ live'.waiting = live.waiting /\ live'.open = live.open
      /\ live'.committed = live.committed /\ live'.call = live.call /\ live'.readAt = live.readAt
  <2>1. CASE live' = live BY <1>1, <2>1
  <2>2. CASE live' = [live EXCEPT !.reading = 0] BY <1>1, <2>2 DEF LiveIn
  <2>3. CASE live' = [live EXCEPT !.reading = agent, !.debts = ToSet(live.unpaired)]
    <3> DEFINE debts == ToSet(live.unpaired)
    <3>1. debts \in SUBSET Ends /\ live' = [live EXCEPT !.reading = agent, !.debts = debts]
      BY <1>2, <2>3
    <3> HIDE DEF debts
    <3>. QED BY <1>1, <3>1 DEF LiveIn
  <2>. QED BY <1>3, <2>1, <2>2, <2>3
<1>5. WholeNow(fate.skipped, a) OBVIOUS
<1> HIDE DEF a
<1>6. WholeNext(fate.skipped, a) BY <1>3, <1>4, <1>5, LiveWhole
<1>. QED BY <1>3, <1>6 DEF a

LEMMA OtherPostWhole ==
  ASSUME StreamInv, OtherPost, WholeNow(fate.skipped, left = "no")
  PROVE  WholeNext(fate.skipped, left = "no") /\ left' = left /\ fate'.skipped = fate.skipped
<1> DEFINE a == left = "no"
           t == [St EXCEPT !.live = CloseOpen(live)]
           K == fate.skipped
           at == offset
           cur == live.readAt
<1>1. /\ live' = CloseOpen(live) /\ out' = out /\ topic' = topic /\ offset' = offset
      /\ left' = left /\ fate' = fate
  BY DEF OtherPost
<1>2. Becomes(t) BY <1>1 DEF Becomes, St
<1>3. Whole(St, at, cur, K, a) /\ Sound(St, Line, Ends) /\ St.live = live
      /\ live \in LiveIn(Line, Ends)
  BY StIsSound, InvTypes DEF WholeNow
<1>4. t = [St EXCEPT !.live = CloseOpen(St.live)] BY <1>3
<1> HIDE DEF t, K, at, cur, a
<1>5. /\ Sound(t, Line, Ends) /\ t.live = CloseOpen(St.live) /\ t.out = St.out
      /\ t.topic = St.topic
  BY <1>3, <1>4, SoundClosed
<1>6. t \in StreamIn(Line, Ends) /\ St \in StreamIn(Line, Ends) BY <1>3, <1>5 DEF Sound
<1>7. Whole(t, at, cur, K, a) BY <1>3, <1>5, <1>6, ClosedWhole
<1>8. t.live.readAt = cur BY <1>3, <1>5, CloseOpenIs DEF SameReads, cur
<1>9. Reaches(t, a) BY <1>6, <1>7, <1>8 DEF Reaches, K, at, cur
<1>10. WholeNext(fate.skipped, a) BY <1>1, <1>2, <1>9, BecomesWhole
<1>. QED BY <1>1, <1>10 DEF a

LEMMA HubRestartWhole ==
  ASSUME StreamInv, HubRestart, WholeNow(fate.skipped, left = "no")
  PROVE  WholeNext(fate.skipped, left = "no") /\ left' = left /\ fate'.skipped = fate.skipped
<1> DEFINE a == left = "no"
           t == St'
           K == fate.skipped
           at == offset
           cur == live.readAt
<1>1. /\ live' = NewLive(offset)
      /\ out' = [queue |-> <<>>, broken |-> FALSE, done |-> {}]
      /\ offset' = offset /\ topic' = topic /\ left' = left
      /\ \E c, l : fate' = [fate EXCEPT !.apart = c, !.lapsed = l]
  BY DEF HubRestart
<1>2. /\ IsFate(fate) /\ offset \in PlaceIn(written)
      /\ topic \in Seq(Seq(Line \cup {0}))
  BY InvTypes
<1>3. fate'.skipped = fate.skipped BY <1>1, <1>2 DEF IsFate
<1>4. /\ live' \in LiveIn(Line, Ends) /\ live'.waiting = <<>> /\ live'.open = NoOpen
      /\ live'.committed = NoOpen /\ live'.readAt = at.to
  BY <1>1, <1>2, NewLiveIs DEF PlaceIn
<1>5. live'.call = at.call BY <1>1 DEF NewLive
<1>6. out' \in OutIn(Line) /\ out'.done = {} BY <1>1 DEF OutIn
<1>7. t.live = live' /\ t.out = out' /\ t.topic = topic /\ t \in StreamIn(Line, Ends)
  BY <1>1, <1>2, <1>4, <1>6 DEF St, StreamIn
<1>8. Whole(St, at, cur, K, a) /\ St \in StreamIn(Line, Ends) /\ St.topic = topic
  BY StIsSound DEF WholeNow
<1>9. /\ t.live.waiting = <<>> /\ t.out.done = {} /\ t.topic = St.topic /\ t.live.call = at.call
      /\ t.live.open = NoOpen /\ t.live.committed = NoOpen
  BY <1>4, <1>5, <1>6, <1>7, <1>8
<1> HIDE DEF t, K, at, cur, a
<1>10. Whole(t, at, at.to, K, a) BY <1>7, <1>8, <1>9, EmptyWhole
<1>11. WholeNext(fate.skipped, a) BY <1>1, <1>4, <1>10 DEF WholeNext, t, K, at
<1>. QED BY <1>1, <1>3, <1>11 DEF a

(* The message that was answered now has its state.                        *)
LEMMA NotedState ==
  ASSUME NEW L, NEW E, NEW lv \in LiveIn(L, E), Numbered(lv),
         NEW r \in ReplyIn, NEW entry \in Messages(lv), entry.number = r.number,
         r.what \notin {"sent", "merged", "skipped"}
  PROVE  \E n \in Messages(Noted(lv, r, entry)) :
           n.op = entry.op /\ n.absorb = entry.absorb /\ n.state = "refused"
<1> DEFINE lw == Noted(lv, r, entry)
           state == IF r.what \in {"sent", "merged", "skipped"} THEN "accepted" ELSE "refused"
<1>1. state = "refused" /\ lv.waiting \in WaitingIn(L, E) BY DEF LiveIn
<1>2. PICK k \in DOMAIN lv.waiting : ~IsBarrier(lv.waiting[k]) /\ entry = lv.waiting[k]
  BY <1>1, MessageOf
<1>3. entry \in MessageIn(L, E) BY <1>1, MessageOf
<1>4. /\ DOMAIN lw.waiting = DOMAIN lv.waiting /\ ~IsBarrier(lw.waiting[k])
      /\ lw.waiting[k] = [entry EXCEPT !.state = state]
  BY <1>2, NotedShape
<1> HIDE DEF lw, state
<1>5. lw.waiting[k] \in Messages(lw) BY <1>2, <1>4 DEF Messages, ToSet
<1>6. /\ lw.waiting[k].op = entry.op /\ lw.waiting[k].absorb = entry.absorb
      /\ lw.waiting[k].state = "refused"
  BY <1>1, <1>3, <1>4 DEF MessageIn
<1>. QED BY <1>5, <1>6 DEF lw

(* The status message a lost write was to turn into content is given up.   *)
LEMMA GivenUpWhole ==
  ASSUME NEW L, NEW E, NEW s, Sound(s, L, E), NEW t \in StreamIn(L, E), NEW into,
         t.live = s.live, t.out.done = s.out.done, t.topic = [s.topic EXCEPT ![into] = Gone],
         \E n \in Messages(s.live) : n.op.into = into /\ n.absorb /\ n.state = "refused",
         NEW K, NEW a, NEW at, NEW cur, Whole(s, at, cur, K, a)
  PROVE  Whole(t, at, cur, K, a)
<1>1. s \in StreamIn(L, E) /\ s.topic \in Seq(Seq(L \cup {0})) BY InStreamType DEF Sound
<1>2. PICK n \in Messages(s.live) : n.op.into = into /\ n.absorb /\ n.state = "refused"
  OBVIOUS
<1>3. ~Took(s, n) BY <1>2, OneOfThree DEF Lost
<1>4. 0 \notin DOMAIN s.topic /\ DOMAIN t.topic = DOMAIN s.topic BY <1>1
<1>5. \A m \in DOMAIN s.topic : m # into => t.topic[m] = s.topic[m] OBVIOUS
<1>6. TopicStays(s, t, K) BY <1>2, <1>3, <1>4, <1>5 DEF TopicStays
<1>. QED BY <1>1, <1>6, TopicWhole

LEMMA OnStreamSentWhole ==
  ASSUME StreamInv, NEW r \in out.done, OnStreamSent(r), NEW b, WholeNow(fate.skipped, b)
  PROVE  WholeNext(fate.skipped, b)
<1> DEFINE a == left = "no"
           K == fate.skipped
           at == offset
           cur == live.readAt
           entry == CHOOSE m \in Messages(live) : m.number = r.number
           accepted == r.what \in {"sent", "merged", "skipped"}
           o == [out EXCEPT !.done = out.done \ {r}]
           t1 == [St EXCEPT !.live = Noted(live, r, entry), !.out = o]
           closed == IF r.what = "gone" THEN CloseOpen(t1.live) ELSE t1.live
           t2 == [t1 EXCEPT !.live = closed]
           stuck == Stuck(closed) /\ ~live.rewind
           lw == IF stuck THEN [closed EXCEPT !.rewind = TRUE, !.reading = 0] ELSE closed
           t3 == [t2 EXCEPT !.live = lw]
           t4 == [t3 EXCEPT !.topic = topic']
<1>1. /\ Good(St, Line, Ends, Came, Given, a, written) /\ offset \in PlaceIn(written)
      /\ Ends \subseteq Line /\ 0 \notin Ends
  BY DEF StreamInv, Around, Good
<1>2. /\ St.live = live /\ St.out = out /\ St.topic = topic
      /\ Sound(St, Line, Ends) /\ Whole(St, at, cur, K, b)
  BY StIs, StIsSound DEF WholeNow
<1> USE <1>2
<1>3. entry \in Messages(live) /\ entry.number = r.number /\ r \in St.out.done /\ r \in ReplyIn
  BY <1>1, EntryIs
<1>4. /\ t1.live = Noted(live, r, entry) /\ t1.out = o /\ t1.topic = topic
      /\ t1 = [St EXCEPT !.live = Noted(St.live, r, entry),
                         !.out = [St.out EXCEPT !.done = St.out.done \ {r}]]
  BY DEF St
<1>5. /\ Moved(lw) /\ out' = o
      /\ topic' = IF entry.absorb /\ ~accepted THEN [topic EXCEPT ![entry.op.into] = Gone]
                  ELSE topic
  <2> DEFINE w == live.waiting
             answered == [live EXCEPT !.waiting = [k \in DOMAIN w |->
                            IF w[k].number # r.number THEN w[k]
                            ELSE [w[k] EXCEPT !.state = IF accepted THEN "accepted" ELSE "refused"]]]
             opened == IF entry.op.into = 0 THEN Opened(answered, r.number, r.key) ELSE answered
             closing == IF r.what = "gone" THEN CloseOpen(opened) ELSE opened
             last == Stuck(closing) /\ ~live.rewind
  <2>1. /\ Moved(IF last THEN [closing EXCEPT !.rewind = TRUE, !.reading = 0] ELSE closing)
        /\ out' = o
        /\ topic' = IF entry.absorb /\ ~accepted THEN [topic EXCEPT ![entry.op.into] = Gone]
                    ELSE topic
    BY DEF OnStreamSent
  <2>2. Noted(live, r, entry) = opened BY DEF Noted, Stated
  <2>3. t1.live = Noted(live, r, entry) BY <1>4
  <2> HIDE DEF opened, t1, entry
  <2>4. closed = closing BY <2>2, <2>3
  <2>. QED BY <2>1, <2>4
<1>6. Given \subseteq Given /\ out.done \ {r} = o.done BY InvTypes DEF OutIn
<1> HIDE DEF a, at, cur, K, o
<1>7. /\ Good(t1, Line, Ends, Came, Given, a, written) /\ Sound(t1, Line, Ends)
      /\ t1 \in StreamIn(Line, Ends) /\ t1.live.readAt = live.readAt
  <2> HIDE DEF entry, t1
  <2>1. NotedWent(St, t1, Line, Ends, Came, Given, a, written)
    BY <1>1, <1>3, <1>4, NotedGood
  <2>. QED BY <2>1, GoodIsSound DEF NotedWent
<1>8. Whole(t1, at, cur, K, b)
  <2> HIDE DEF entry, t1
  <2>1. /\ entry \in Messages(St.live) /\ t1.topic = St.topic
        /\ t1.out.done = St.out.done \ {r} /\ t1.live = Noted(St.live, r, entry)
    BY <1>3, <1>4, <1>6
  <2> HIDE <1>2
  <2>. QED BY <1>2, <1>3, <1>7, <2>1, NotedWhole
<1>9. ~accepted => \E n \in Messages(t1.live) :
                     n.op = entry.op /\ n.absorb = entry.absorb /\ n.state = "refused"
  <2>1. live \in LiveIn(Line, Ends) /\ Numbered(live) BY InStreamType DEF Sound
  <2> HIDE DEF entry, t1
  <2>. QED BY <1>3, <1>4, <2>1, NotedState
<1> HIDE DEF t1
<1>10. /\ Good(t2, Line, Ends, Came, Given, a, written) /\ t2.live = closed /\ t2.out = o
       /\ t2.topic = topic /\ t2.live.readAt = live.readAt
       /\ Whole(t2, at, cur, K, b) /\ Messages(t2.live) = Messages(t1.live)
  <2>1. t1.live \in LiveIn(Line, Ends) BY <1>7, InStreamType
  <2>2. t2.live = closed /\ t2.out = o /\ t2.topic = topic BY <1>4, <1>7 DEF StreamIn
  <2>3. CASE r.what = "gone"
    <3>1. t2 = [t1 EXCEPT !.live = CloseOpen(t1.live)] /\ closed = CloseOpen(t1.live)
      BY <2>3
    <3>2. closed.readAt = t1.live.readAt /\ Messages(closed) = Messages(t1.live)
      BY <2>1, <3>1, CloseOpenIs DEF SameReads
    <3> HIDE DEF t2, closed
    <3>3. Good(t2, Line, Ends, Came, Given, a, written) BY <1>7, <3>1, ClosedGood
    <3>4. t2 \in StreamIn(Line, Ends) BY <3>3 DEF Good
    <3>5. Whole(t2, at, cur, K, b)
      <4>1. /\ t2.topic = t1.topic /\ t2.out.done = t1.out.done
            /\ t2.live = CloseOpen(t1.live)
        BY <1>4, <2>2, <3>1
      <4> HIDE <1>2
      <4>. QED BY <1>7, <1>8, <3>4, <4>1, ClosedWhole
    <3>. QED BY <1>7, <2>2, <3>2, <3>3, <3>5
  <2>4. CASE r.what # "gone"
    <3>1. t2 = t1 BY <1>7, <2>4 DEF StreamIn
    <3> HIDE DEF t2
    <3>. QED BY <1>7, <1>8, <2>2, <3>1
  <2>. QED BY <2>3, <2>4
<1> HIDE DEF t2, closed
<1>11. t2 \in StreamIn(Line, Ends) /\ closed \in LiveIn(Line, Ends)
  BY <1>10, InStreamType DEF Good
<1>12. /\ lw \in LiveIn(Line, Ends) /\ SameWaiting(closed, lw) /\ lw.held = closed.held
       /\ lw.readAt = closed.readAt /\ lw.call = closed.call
  BY <1>11 DEF LiveIn, SameWaiting
<1> HIDE DEF lw, stuck
<1>13. Good(t3, Line, Ends, Came, Given, a, written) /\ t3.live = lw /\ t3.out = o
       /\ t3.topic = topic /\ t3.live.readAt = live.readAt
  BY <1>10, <1>12, QuietGood
<1> HIDE DEF t3
<1>14. t3 \in StreamIn(Line, Ends) /\ Sound(t3, Line, Ends) /\ topic \in Seq(Seq(Line \cup {0}))
  BY <1>13, InStreamType, GoodIsSound, ZenonT(40) DEF Good
<1>15. Whole(t3, at, cur, K, b) /\ Messages(t3.live) = Messages(t1.live)
  BY <1>10, <1>12, <1>13, <1>11, <1>14, SameWhole DEF SameWaiting, Messages
<1>16. t4.live = lw /\ t4.out = o /\ t4.topic = topic' BY <1>13, <1>14 DEF StreamIn
<1>17. Good(t4, Line, Ends, Came, Given, a, written) /\ Whole(t4, at, cur, K, b)
  <2> DEFINE into == entry.op.into
  <2>1. CASE entry.absorb /\ ~accepted /\ into \in DOMAIN topic
    <3>1. topic' = [topic EXCEPT ![into] = Gone] BY <1>5, <2>1
    <3>2. NoEnds(topic[into], Ends)
      BY <1>14, <2>1, <1>1, <1>3 DEF Good, Placed, PlacedMessage, Free
    <3>3. NoEnds(Gone, Ends) BY <1>1 DEF NoEnds, Gone, ToSet
    <3>4. \E n \in Messages(t3.live) : n.op.into = into /\ n.absorb /\ n.state = "refused"
      BY <1>9, <1>15, <2>1
    <3> HIDE DEF into, entry
    <3>5. Gone \in Seq(Line \cup {0}) BY DEF Gone
    <3>6. topic' \in Seq(Seq(Line \cup {0})) BY <1>14, <2>1, <3>1, <3>5
    <3>7. t4 \in StreamIn(Line, Ends) BY <1>14, <3>6 DEF StreamIn
    <3>8. DOMAIN topic' = DOMAIN topic /\ topic'[into] = Gone
          /\ \A m \in DOMAIN topic : m # into => topic'[m] = topic[m]
      BY <2>1, <3>1
    <3> HIDE DEF t4
    <3>9. /\ \A m \in DOMAIN t3.topic :
               /\ m \in DOMAIN t4.topic
               /\ t4.topic[m] = t3.topic[m]
                    \/ (NoEnds(t3.topic[m], Ends) /\ NoEnds(t4.topic[m], Ends))
          /\ \A m \in DOMAIN t4.topic : m \in DOMAIN t3.topic \/ NoEnds(t4.topic[m], Ends)
          /\ t4.live = t3.live /\ t4.out = t3.out
      BY <1>13, <1>16, <3>2, <3>3, <3>8
    <3>10. Came \subseteq Ends BY DEF Came
    <3>11. Good(t4, Line, Ends, Came, Given, a, written)
      BY <1>13, <3>7, <3>9, <3>10, TopicEdited
    <3>12. t4.topic = [t3.topic EXCEPT ![into] = Gone] /\ t4.out.done = t3.out.done
      BY <1>13, <1>16, <3>1, <3>9
    <3>13. Whole(t4, at, cur, K, b)
      BY <1>14, <1>15, <3>4, <3>7, <3>9, <3>12, GivenUpWhole
    <3>. QED BY <3>11, <3>13
  <2>2. CASE ~(entry.absorb /\ ~accepted /\ into \in DOMAIN topic)
    <3>1. topic' = topic BY <1>5, <1>14, <2>2
    <3>2. t4 = t3 BY <1>13, <1>14, <3>1 DEF StreamIn
    <3>. QED BY <1>13, <1>15, <3>2
  <2>. QED BY <2>1, <2>2
<1> HIDE DEF t4, entry
<1>18. Moved(t4.live) /\ out' = t4.out /\ topic' = t4.topic BY <1>5, <1>16
<1>19. live'.readAt = cur BY <1>1, <1>13, <1>16, <1>17, <1>18, MovedGood DEF cur
<1>20. Whole(St', offset', cur, K, b) BY <1>17, <1>18, MovedWhole DEF at
<1>. QED BY <1>19, <1>20 DEF WholeNext, K

-----------------------------------------------------------------------------
(* What Telegram and its readers do.                                       *)

(* The message of a queued write.                                          *)
LEMMA MessageOfWrite ==
  ASSUME NEW L, NEW E, NEW s, Sound(s, L, E), NEW k \in DOMAIN s.out.queue
  PROVE  /\ \E m \in Messages(s.live) : m.number = s.out.queue[k].number
         /\ \A m \in Messages(s.live) : m.number = s.out.queue[k].number =>
              m.state = "waiting" /\ SameWrite(m.op, s.out.queue[k])
<1>1. s \in StreamIn(L, E) /\ Numbered(s.live) /\ Queued(s) /\ s.live \in LiveIn(L, E)
  BY InStreamType DEF Sound
<1>2. PICK m \in Messages(s.live) : m.state = "waiting" /\ SameWrite(m.op, s.out.queue[k])
  BY <1>1 DEF Queued
<1>3. m.number = s.out.queue[k].number BY <1>1, <1>2 DEF Numbered, SameWrite
<1>4. \A n \in Messages(s.live) : n.number = m.number => n = m BY <1>1, SameMessage
<1>. QED BY <1>2, <1>3, <1>4

LEMMA StNext ==
  ASSUME StreamInv', plan' = plan
  PROVE  St' \in StreamIn(Line, Ends) /\ Sound(St', Line, Ends)
<1> DEFINE t == St'
           B == Came'
           G == Given'
           a == left' = "no"
           W == written'
<1>1. Good(t, Line', Ends', B, G, a, W) BY DEF StreamInv
<1>2. Line' = Line /\ Ends' = Ends BY SameScript
<1> HIDE DEF t, B, G, a, W
<1>3. Sound(t, Line, Ends) BY <1>1, <1>2, GoodIsSound
<1>. QED BY <1>3 DEF Sound, t

(* Writes are answered, none by a line that gets into the topic.           *)
LEMMA RepliesWhole ==
  ASSUME StreamInv, StreamInv', plan' = plan, live' = live, topic' = topic, offset' = offset,
         NEW H, fate.skipped \subseteq H, out.done \subseteq out'.done,
         \A r \in out'.done : r \in out.done \/
           /\ r.key = 0
           /\ r.what \in {"sent", "merged", "skipped"} =>
                \A m \in Messages(live) : m.number = r.number => ToSet(m.op.text) \subseteq H,
         NEW b, WholeNow(fate.skipped, b)
  PROVE  WholeNext(H, b)
<1> DEFINE t == St'
           K == fate.skipped
           at == offset
           cur == live.readAt
<1>1. t \in StreamIn(Line, Ends) BY StNext
<1>2. t.live = live /\ t.out = out' /\ t.topic = topic BY DEF St
<1>3. /\ St \in StreamIn(Line, Ends) /\ St.live = live /\ St.out = out /\ St.topic = topic
      /\ Whole(St, at, cur, K, b)
  BY StIsSound DEF WholeNow
<1> HIDE DEF t, K, at, cur
<1>4. /\ t.live = St.live /\ t.topic = St.topic /\ St.out.done \subseteq t.out.done
      /\ \A r \in t.out.done : r \in St.out.done \/
           /\ r.key = 0
           /\ r.what \in {"sent", "merged", "skipped"} =>
                \A m \in Messages(St.live) : m.number = r.number => ToSet(m.op.text) \subseteq H
  BY <1>2, <1>3
<1>5. Whole(t, at, cur, H, b) BY <1>1, <1>3, <1>4, AnsweredWhole DEF K
<1>. QED BY <1>5 DEF WholeNext, t, at, cur

LEMMA EditGoneWhole ==
  ASSUME StreamInv, NEW k \in DOMAIN out.queue, NEW joined \in {{}, Joins(k)}, EditGone(k, joined),
         NEW b, WholeNow(fate.skipped, b)
  PROVE  WholeNext(fate.skipped, b)
<1>1. /\ Replied(k, joined, "gone", 0, "unsent")
      /\ live' = live /\ topic' = topic /\ offset' = offset /\ plan' = plan
  BY DEF EditGone
<1>2. StreamInv' BY EditGoneKeeps
<1>3. out \in OutIn(Line) BY InvTypes
<1>4. /\ out.done \subseteq out'.done
      /\ \A r \in out'.done : r \in out.done \/ (r.key = 0 /\ r.what \in {"gone", "unsent"})
  BY <1>1, <1>3 DEF Replied, OutIn
<1>5. \A r \in out'.done : r \in out.done \/
           /\ r.key = 0
           /\ r.what \in {"sent", "merged", "skipped"} =>
                \A m \in Messages(live) : m.number = r.number => ToSet(m.op.text) \subseteq fate.skipped
  BY <1>4
<1>. QED BY <1>1, <1>2, <1>4, <1>5, RepliesWhole

LEMMA FailedWhole ==
  ASSUME StreamInv, NEW k \in DOMAIN out.queue, NEW joined \in {{}, Joins(k)}, Failed(k, joined),
         NEW b, WholeNow(fate.skipped, b)
  PROVE  WholeNext(fate.skipped, b)
<1>1. /\ live' = live /\ topic' = topic /\ offset' = offset /\ plan' = plan
      /\ \E S : out'.done = out.done \cup Unsent(S)
  BY DEF Failed
<1>2. StreamInv' BY FailedKeeps
<1>3. \A S : \A r \in Unsent(S) : r.key = 0 /\ r.what = "unsent" BY DEF Unsent
<1>4. /\ out.done \subseteq out'.done
      /\ \A r \in out'.done : r \in out.done \/ (r.key = 0 /\ r.what = "unsent")
  BY <1>1, <1>3
<1>5. \A r \in out'.done : r \in out.done \/
           /\ r.key = 0
           /\ r.what \in {"sent", "merged", "skipped"} =>
                \A m \in Messages(live) : m.number = r.number => ToSet(m.op.text) \subseteq fate.skipped
  BY <1>4
<1>. QED BY <1>1, <1>2, <1>4, <1>5, RepliesWhole

LEMMA RefusedWhole ==
  ASSUME StreamInv, NEW k \in DOMAIN out.queue, NEW joined \in {{}, Joins(k)}, Refused(k, joined),
         NEW b, WholeNow(fate.skipped, b)
  PROVE  WholeNext(fate'.skipped, b)
<1> DEFINE H == fate.skipped \cup ToSet(out.queue[k].text)
           x == [number |-> out.queue[k].number, what |-> "skipped", key |-> 0]
<1>1. /\ Replied(k, joined, "skipped", 0, "unsent")
      /\ live' = live /\ topic' = topic /\ offset' = offset /\ plan' = plan
      /\ fate' = [fate EXCEPT !.skipped = H]
  BY DEF Refused
<1>2. StreamInv' BY RefusedKeeps
<1>3. out \in OutIn(Line) /\ IsFate(fate) BY InvTypes
<1>4. fate'.skipped = H BY <1>1, <1>3 DEF IsFate
<1>5. /\ out.done \subseteq out'.done
      /\ \A r \in out'.done : r \in out.done \/ r = x \/ (r.key = 0 /\ r.what = "unsent")
  BY <1>1, <1>3 DEF Replied, OutIn
<1>6. \A m \in Messages(live) : m.number = x.number => m.op.text = out.queue[k].text
  BY StIsSound, MessageOfWrite DEF SameWrite
<1>7. \A m \in Messages(live) : m.number = x.number => ToSet(m.op.text) \subseteq H
  BY <1>6
<1>8. x.key = 0 OBVIOUS
<1> HIDE DEF x, H
<1>9. \A r \in out'.done : r \in out.done \/
           /\ r.key = 0
           /\ r.what \in {"sent", "merged", "skipped"} =>
                \A m \in Messages(live) : m.number = r.number => ToSet(m.op.text) \subseteq H
  BY <1>5, <1>7, <1>8
<1>10. fate.skipped \subseteq H BY DEF H
<1>11. WholeNext(H, b) BY <1>1, <1>2, <1>5, <1>9, <1>10, RepliesWhole
<1>. QED BY <1>4, <1>11

LEMMA DeleteMessageWhole ==
  ASSUME StreamInv, DeleteMessage, NEW b, WholeNow(fate.skipped, b)
  PROVE  WholeNext(fate'.skipped, b)
<1>1. PICK m \in DOMAIN topic :
        /\ topic' = [topic EXCEPT ![m] = Gone]
        /\ fate' = [fate EXCEPT !.skipped = fate.skipped \cup ToSet(topic[m])]
        /\ live' = live /\ out' = out /\ offset' = offset /\ plan' = plan
  BY DEF DeleteMessage
<1> DEFINE t == St'
           K == fate.skipped
           H == K \cup ToSet(topic[m])
           at == offset
           cur == live.readAt
<1>2. StreamInv' /\ IsFate(fate) /\ topic \in Seq(Seq(Line \cup {0}))
  BY DeleteMessageKeeps, InvTypes
<1>3. fate'.skipped = H BY <1>1, <1>2 DEF IsFate
<1>4. t \in StreamIn(Line, Ends) BY <1>1, <1>2, StNext
<1>5. t.live = live /\ t.out = out /\ t.topic = topic' BY <1>1 DEF St
<1>6. /\ St \in StreamIn(Line, Ends) /\ St.live = live /\ St.out = out /\ St.topic = topic
      /\ Whole(St, at, cur, K, b)
  BY StIsSound DEF WholeNow
<1>7. 0 \notin DOMAIN topic /\ DOMAIN topic' = DOMAIN topic
      /\ \A n \in DOMAIN topic : n # m => topic'[n] = topic[n]
  BY <1>1, <1>2
<1> HIDE DEF t, at, cur
<1>8. TopicStays(St, t, H) BY <1>5, <1>6, <1>7 DEF TopicStays
<1>9. K \subseteq H /\ t.live = St.live /\ t.out.done = St.out.done BY <1>5, <1>6
<1> HIDE DEF K, H
<1>10. Whole(t, at, cur, H, b) BY <1>4, <1>6, <1>8, <1>9, TopicWhole
<1>. QED BY <1>1, <1>3, <1>10 DEF WholeNext, t, at, cur

-----------------------------------------------------------------------------
(* Telegram takes writes: those at places `J` of the queue go as one.      *)
Among(s, J, m) == \E j \in J : s.out.queue[j].number = m.number

TakenReply(q, k, key, j) ==
  IF j = k THEN [number |-> q[k].number, what |-> "sent", key |-> key]
  ELSE [number |-> q[j].number, what |-> "merged", key |-> 0]

GoesOut(s, t, k, J, key) ==
  /\ t.live = s.live /\ k \in J /\ J \subseteq DOMAIN s.out.queue
  /\ \A j \in J : j >= k /\ s.out.queue[j].into = s.out.queue[k].into
  /\ t.out.done = s.out.done \cup {TakenReply(s.out.queue, k, key, j) : j \in J}

LEMMA TakenState ==
  ASSUME NEW s, NEW t, NEW k, NEW J, NEW key, GoesOut(s, t, k, J, key), NEW m
  PROVE  /\ Took(t, m) <=> Took(s, m) \/ Among(s, J, m)
         /\ Lost(t, m) <=> Lost(s, m)
<1>1. \A r : r \in t.out.done <=> r \in s.out.done \/ \E j \in J : r = TakenReply(s.out.queue, k, key, j)
  BY DEF GoesOut
<1>2. \A j \in J : /\ TakenReply(s.out.queue, k, key, j).number = s.out.queue[j].number
                   /\ TakenReply(s.out.queue, k, key, j).what \in {"sent", "merged"}
  BY DEF TakenReply
<1>3. Took(t, m) <=> Took(s, m) \/ Among(s, J, m) BY <1>1, <1>2 DEF Took, Done, Among
<1>4. Lost(t, m) <=> Lost(s, m) BY <1>1, <1>2 DEF Lost
<1>. QED BY <1>3, <1>4

(* Message M of the topic is new or has a new text.                        *)
Puts(s, t, M, J, a) ==
  /\ t.live = s.live /\ M \in DOMAIN t.topic /\ 0 \notin DOMAIN s.topic
  /\ \A m \in DOMAIN s.topic : m \in DOMAIN t.topic /\ (m # M => t.topic[m] = s.topic[m])
  /\ \A r \in t.out.done : r \in s.out.done \/ r.key \notin DOMAIN s.topic
  /\ \A m \in Messages(s.live) :
       (Took(t, m) <=> Took(s, m) \/ Among(s, J, m)) /\ (Lost(t, m) <=> Lost(s, m))
  /\ Fresh(t, a)
  /\ M \in DOMAIN s.topic => \A i \in ToSet(s.topic[M]) :
       (\A n \in Messages(s.live) : n.op.into = M /\ ~Took(s, n) => i \in ToSet(n.op.text))
         => i \in ToSet(t.topic[M])

(* The lines that were taken stay in it, unless it is torn.                *)
NowFirm(s, t, M, J, a) ==
  \A p \in Places(t) : \A m \in Before(t, p) : Among(s, J, m) =>
    \A i \in ToSet(m.op.text) : (\E n \in Before(t, p) : Torn(t, n)) \/ FirmIn(t, i, p, M, a)

LEMMA PutWhole ==
  ASSUME NEW L, NEW E, NEW s \in StreamIn(L, E), NEW t, NEW M, NEW J, NEW a,
         Puts(s, t, M, J, a), NowFirm(s, t, M, J, a),
         NEW at, NEW cur, NEW K, Whole(s, at, cur, K, a)
  PROVE  Whole(t, at, cur, K, a)
<1>1. t.live = s.live BY DEF Puts
<1>2. /\ Places(t) = Places(s) /\ \A p : Before(t, p) = Before(s, p) /\ OpenAt(t, p) = OpenAt(s, p)
      /\ \A p : ToAt(t, p, at.to, cur) = ToAt(s, p, at.to, cur)
  BY <1>1 DEF Places, Before, OpenAt, ToAt
<1>3. \A p \in Places(s) : Before(s, p) \subseteq Messages(s.live) BY BeforeIs
<1>4. \A m \in Messages(s.live) : Torn(s, m) => Torn(t, m) BY <1>1 DEF Torn, Puts
<1>5. ASSUME NEW m \in DOMAIN s.topic, NEW i, NEW p \in Places(s), FirmIn(s, i, p, m, a)
      PROVE  FirmIn(t, i, p, m, a)
  BY <1>5, <1>1, <1>2 DEF Puts, FirmIn, Aims
<1>6. AllCovered(t, at.to, cur, K, a)
  <2> SUFFICES ASSUME NEW p \in Places(t), NEW i \in Pieces, i <= ToAt(t, p, at.to, cur)
               PROVE  (\E m \in Before(t, p) : Torn(t, m)) \/ Covered(t, i, p, K, a)
    BY DEF AllCovered
  <2>1. (\E m \in Before(s, p) : Torn(s, m)) \/ Covered(s, i, p, K, a)
    BY <1>2 DEF AllCovered, Whole
  <2>2. CASE \E m \in Before(s, p) : Torn(s, m) BY <1>2, <1>3, <1>4, <2>2
  <2>3. CASE i \in K BY <2>3 DEF Covered
  <2>4. CASE \E m \in Before(s, p) : ~Took(s, m) /\ i \in ToSet(m.op.text)
    <3>1. PICK m \in Before(s, p) : ~Took(s, m) /\ i \in ToSet(m.op.text) BY <2>4
    <3>2. CASE Among(s, J, m) BY <1>2, <3>1, <3>2 DEF NowFirm, Covered, Puts
    <3>3. CASE ~Among(s, J, m) BY <1>2, <1>3, <3>1, <3>3 DEF Puts, Covered
    <3>. QED BY <3>2, <3>3
  <2>5. CASE \E m \in DOMAIN s.topic : FirmIn(s, i, p, m, a)
    <3>1. PICK m \in DOMAIN s.topic : FirmIn(s, i, p, m, a) BY <2>5
    <3>2. FirmIn(t, i, p, m, a) /\ m \in DOMAIN t.topic BY <1>2, <1>5, <3>1 DEF Puts
    <3>. QED BY <3>2 DEF Covered
  <2>. QED BY <2>1, <2>2, <2>3, <2>4, <2>5 DEF Covered
<1>7. TextsGrow(t) /\ AbsorbsInto(t) /\ CallsRight(t, at, cur)
  BY <1>1 DEF Whole, TextsGrow, AbsorbsInto, CallsRight
<1>8. a => \A p \in Places(t) : OpenGrows(t, p) BY <1>2 DEF Whole, OpenGrows
<1>9. Fresh(t, a) BY DEF Puts
<1>. QED BY <1>6, <1>7, <1>8, <1>9 DEF Whole

(* The places of messages and of queued writes.                            *)
LEMMA EarlierBefore ==
  ASSUME NEW L, NEW E, NEW s, Sound(s, L, E), NEW p \in Places(s), NEW m \in Before(s, p),
         NEW n \in Messages(s.live), n.number < m.number
  PROVE  n \in Before(s, p)
<1>1. s \in StreamIn(L, E) /\ Numbered(s.live) /\ s.live.waiting \in WaitingIn(L, E)
  BY InStreamType DEF Sound, LiveIn
<1>2. PICK j \in DOMAIN s.live.waiting : ~IsBarrier(s.live.waiting[j]) /\ n = s.live.waiting[j]
  BY <1>1, MessageOf
<1>3. PICK h \in DOMAIN s.live.waiting :
        h < p /\ ~IsBarrier(s.live.waiting[h]) /\ m = s.live.waiting[h]
  BY DEF Before
<1>4. /\ DOMAIN s.live.waiting \subseteq Nat /\ p \in Nat
      /\ m.number \in Nat /\ n.number \in Nat
  BY <1>1, BeforeIs, MessageOf DEF MessageIn
<1>5. ~(h < j) BY <1>1, <1>2, <1>3, <1>4 DEF Numbered
<1>6. j # h BY <1>2, <1>3, <1>4
<1>7. j < p BY <1>3, <1>4, <1>5, <1>6
<1>. QED BY <1>2, <1>7 DEF Before

LEMMA QueueOrder ==
  ASSUME NEW L, NEW E, NEW s, Sound(s, L, E), NEW j \in DOMAIN s.out.queue,
         NEW k \in DOMAIN s.out.queue
  PROVE  /\ s.out.queue[j].number < s.out.queue[k].number <=> j < k
         /\ s.out.queue[j].number = s.out.queue[k].number => j = k
         /\ s.out.queue[j].number \in Nat /\ s.out.queue[j].text \in Seq(L) /\ j \in Nat
         /\ s.out.queue[j].into \in Nat
<1>1. s.out.queue \in Seq(OpIn(L)) /\ Queued(s) BY InStreamType DEF Sound, OutIn
<1>2. j \in Nat /\ k \in Nat /\ s.out.queue[j] \in OpIn(L) /\ s.out.queue[k] \in OpIn(L)
  BY <1>1
<1>3. /\ j < k => s.out.queue[j].number < s.out.queue[k].number
      /\ k < j => s.out.queue[k].number < s.out.queue[j].number
  BY <1>1 DEF Queued
<1>4. s.out.queue[j].number \in Nat /\ s.out.queue[k].number \in Nat BY <1>2 DEF OpIn
<1>. QED BY <1>2, <1>3, <1>4 DEF OpIn

LEMMA OpenAtIs ==
  ASSUME NEW s, NEW p \in Places(s)
  PROVE  OpenAt(s, p) \in Opens(s.live)
BY DEF OpenAt, Opens, Places

NewMessage(s, t, k, J, M, text) ==
  /\ M = Len(s.topic) + 1 /\ t.topic = Append(s.topic, text) /\ s.out.queue[k].into = 0
  /\ \A j \in J : ToSet(s.out.queue[j].text) \subseteq ToSet(text)

(* A message of its own: only the first of them may be what a place has    *)
(* open.                                                                   *)
LEMMA NewTakenWhole ==
  ASSUME NEW L, NEW E, NEW s, Sound(s, L, E), NEW t \in StreamIn(L, E), NEW k, NEW J, NEW M,
         GoesOut(s, t, k, J, M), NEW text \in Seq(L), NewMessage(s, t, k, J, M, text),
         NEW a, NEW at, NEW cur, NEW K, Whole(s, at, cur, K, a)
  PROVE  Whole(t, at, cur, K, a)
<1> DEFINE q == s.out.queue
<1>1. s \in StreamIn(L, E) /\ s.topic \in Seq(Seq(L \cup {0})) BY InStreamType DEF Sound
<1>2. /\ DOMAIN s.topic = 1 .. Len(s.topic) /\ Len(s.topic) \in Nat /\ M = Len(s.topic) + 1
      /\ DOMAIN t.topic = 1 .. M /\ t.topic[M] = text
      /\ \A m \in DOMAIN s.topic : t.topic[m] = s.topic[m]
  BY <1>1, AppendTopic DEF NewMessage
<1>3. M \in DOMAIN t.topic /\ M \notin DOMAIN s.topic /\ 0 \notin DOMAIN s.topic
      /\ DOMAIN s.topic \subseteq DOMAIN t.topic /\ M # 0
  BY <1>2
<1>4. /\ t.live = s.live /\ k \in J /\ J \subseteq DOMAIN q
      /\ \A j \in J : j >= k /\ q[j].into = 0
      /\ \A r : r \in t.out.done <=> r \in s.out.done \/ \E j \in J : r = TakenReply(q, k, M, j)
  BY DEF GoesOut, NewMessage
<1>5. \A j : /\ TakenReply(q, k, M, j).key = IF j = k THEN M ELSE 0
             /\ j # k => TakenReply(q, k, M, j).key = 0
             /\ TakenReply(q, k, M, j).number = q[j].number
  BY DEF TakenReply
<1>6. \A m \in Messages(s.live) : (Took(t, m) <=> Took(s, m) \/ Among(s, J, m)) /\ (Lost(t, m) <=> Lost(s, m))
  BY TakenState
<1>7. /\ \A m \in Messages(s.live) : m.op.into # M
      /\ \A p \in Places(s) : OpenAt(s, p).key # M
      /\ \A r \in s.out.done : r.key # M
  BY <1>3, OpenAtIs DEF Sound
<1>8. \A r \in t.out.done : r \in s.out.done \/ r = TakenReply(q, k, M, k) \/ r.key = 0
  BY <1>4, <1>5
<1>9. Places(t) = Places(s) /\ \A p : OpenAt(t, p) = OpenAt(s, p) /\ Before(t, p) = Before(s, p)
  BY <1>4 DEF Places, OpenAt, Before
<1>10. Fresh(t, a)
  <2>1. Fresh(s, a) BY DEF Whole
  <2> SUFFICES ASSUME NEW r \in t.out.done, r.key # 0
               PROVE  /\ \A m \in Messages(t.live) : m.op.into # r.key
                      /\ a => \A p \in Places(t) : OpenAt(t, p).key # r.key
                      /\ \A x \in t.out.done : x.key = r.key => x = r
    BY DEF Fresh
  <2>2. CASE r \in s.out.done
    BY <2>2, <1>3, <1>5, <1>8, <1>4, <1>9, <2>1 DEF Sound, Fresh
  <2>3. CASE r \notin s.out.done BY <1>5, <1>8, <2>3, <1>3, <1>7, <1>4, <1>9
  <2>. QED BY <2>2, <2>3
<1>11. \A r \in t.out.done : r \in s.out.done \/ r.key \notin DOMAIN s.topic
  BY <1>3, <1>5, <1>8
<1>12. Puts(s, t, M, J, a) BY <1>2, <1>3, <1>4, <1>6, <1>10, <1>11 DEF Puts
<1>13. ASSUME NEW p \in Places(t), NEW m \in Before(t, p), Among(s, J, m), NEW i \in ToSet(m.op.text)
       PROVE  FirmIn(t, i, p, M, a)
  <2>1. p \in Places(s) /\ m \in Before(s, p) /\ m \in Messages(s.live)
    BY <1>1, <1>9, <1>13, BeforeIs
  <2>2. PICK j \in J : q[j].number = m.number BY <1>13 DEF Among
  <2>3. j \in DOMAIN s.out.queue /\ k \in DOMAIN s.out.queue BY <1>4, <2>2
  <2>4. m.op.text = q[j].text BY <2>1, <2>2, <2>3, MessageOfWrite DEF SameWrite
  <2>5. i \in ToSet(text) /\ M \in DOMAIN t.topic /\ i \in ToSet(t.topic[M])
    BY <1>2, <1>3, <1>13, <2>2, <2>4 DEF NewMessage
  <2>6. ASSUME a, NEW h \in Places(t), h >= p, Aims(t, OpenAt(t, h), M)
        PROVE  i \in ToSet(OpenAt(t, h).text)
    <3> DEFINE o == OpenAt(s, h)
    <3>1. h \in Places(s) /\ Aims(t, o, M) /\ o.key # M /\ OpenGrows(s, h)
      BY <1>7, <1>9, <2>6 DEF Whole
    <3>2. PICK r \in t.out.done : o.key = 0 /\ o.number # 0 /\ r.number = o.number /\ r.key = M
      BY <3>1 DEF Aims
    <3>3. r = TakenReply(q, k, M, k) /\ o.number = q[k].number
      BY <1>3, <1>5, <1>7, <1>8, <3>2
    <3>4. m \in Before(s, h) BY <1>1, BeforeIs, <2>1, <2>6, <3>1 DEF Before
    <3>5. PICK n \in Before(s, h) : n.number = o.number /\ ToSet(n.op.text) \subseteq ToSet(o.text)
      BY <3>1, <3>2 DEF OpenGrows
    <3>6. m.number <= o.number BY <3>1, <3>2, <3>4 DEF OpenGrows
    <3>7. j = k BY <1>4, <2>2, <3>3, <3>6, <2>3, QueueOrder
    <3>8. n \in Messages(s.live) /\ n.op.text = q[k].text
      BY <1>1, <3>1, <3>5, BeforeIs, <2>3, <3>3, MessageOfWrite DEF SameWrite
    <3>. QED BY <1>9, <1>13, <2>4, <3>5, <3>7, <3>8
  <2>7. \A n \in Messages(t.live) : n.op.into # M BY <1>4, <1>7
  <2>. QED BY <2>5, <2>6, <2>7 DEF FirmIn
<1>14. NowFirm(s, t, M, J, a) BY <1>13 DEF NowFirm
<1>. QED BY <1>1, <1>12, <1>14, PutWhole

(* A write into a message above: the newest text of those that join it.    *)
LEMMA EditTakenWhole ==
  ASSUME NEW L, NEW E, NEW s, Sound(s, L, E), NEW t \in StreamIn(L, E), NEW k, NEW J, NEW M,
         GoesOut(s, t, k, J, 0), M = s.out.queue[k].into, M # 0,
         NEW l \in J, \A j \in J : j <= l,
         t.topic = [s.topic EXCEPT ![M] = s.out.queue[l].text],
         \A h \in DOMAIN s.out.queue : h <= l /\ s.out.queue[h].into = M => h \in J,
         NEW a, NEW at, NEW cur, NEW K, Whole(s, at, cur, K, a)
  PROVE  Whole(t, at, cur, K, a)
<1> DEFINE q == s.out.queue
<1>1. s \in StreamIn(L, E) /\ s.topic \in Seq(Seq(L \cup {0})) /\ Numbered(s.live)
      /\ s.live \in LiveIn(L, E)
  BY InStreamType DEF Sound
<1>2. /\ t.live = s.live /\ k \in J /\ J \subseteq DOMAIN q
      /\ \A j \in J : j >= k /\ q[j].into = M
      /\ \A r : r \in t.out.done <=> r \in s.out.done \/ \E j \in J : r = TakenReply(q, k, 0, j)
  BY DEF GoesOut
<1>3. \A r \in t.out.done : r \in s.out.done \/ r.key = 0 BY <1>2 DEF TakenReply
<1>4. s.out.done \subseteq t.out.done BY <1>2
<1>5. ASSUME NEW j \in J, NEW m \in Messages(s.live), m.number = q[j].number
      PROVE  m.op.text = q[j].text /\ m.op.into = M /\ ~Took(s, m) /\ m.number \in Nat
  BY <1>2, <1>5, MessageOfWrite, OneOfThree, QueueOrder DEF SameWrite
<1>6. PICK y \in Messages(s.live) : y.number = q[l].number BY <1>2, MessageOfWrite
<1>7. y.op.text = q[l].text /\ y.op.into = M /\ ~Took(s, y) /\ y.number \in Nat
  BY <1>5, <1>6
<1>8. M \in DOMAIN s.topic BY <1>6, <1>7 DEF Sound
<1>9. /\ DOMAIN t.topic = DOMAIN s.topic /\ t.topic[M] = q[l].text /\ 0 \notin DOMAIN s.topic
      /\ \A m \in DOMAIN s.topic : m # M => t.topic[m] = s.topic[m]
  BY <1>1, <1>8
<1>10. \A m \in Messages(s.live) : (Took(t, m) <=> Took(s, m) \/ Among(s, J, m)) /\ (Lost(t, m) <=> Lost(s, m))
  BY TakenState
<1>11. Places(t) = Places(s) /\ \A p : OpenAt(t, p) = OpenAt(s, p) /\ Before(t, p) = Before(s, p)
  BY <1>2 DEF Places, OpenAt, Before
<1>12. TextsGrow(s) /\ Fresh(s, a) BY DEF Whole
<1>13. Fresh(t, a) BY <1>2, <1>3, <1>11, <1>12 DEF Fresh
<1>14. Puts(s, t, M, J, a) BY <1>6, <1>7, <1>9, <1>3, <1>2, <1>8, <1>10, <1>13 DEF Puts
<1>15. ASSUME NEW p \in Places(t), NEW m \in Before(t, p), Among(s, J, m), NEW i \in ToSet(m.op.text),
              \A n \in Before(t, p) : ~Torn(t, n)
       PROVE  FirmIn(t, i, p, M, a)
  <2>1. p \in Places(s) /\ m \in Before(s, p) /\ m \in Messages(s.live)
    BY <1>1, <1>11, <1>15, BeforeIs
  <2>2. PICK j \in J : q[j].number = m.number BY <1>15 DEF Among
  <2>3. m.op.text = q[j].text /\ m.op.into = M /\ ~Took(s, m) /\ m.number \in Nat
    BY <2>1, <2>2, <1>5
  <2>4. j \in DOMAIN s.out.queue /\ l \in DOMAIN s.out.queue /\ k \in DOMAIN s.out.queue
    BY <1>2
  <2>5. i \in ToSet(t.topic[M])
    <3>1. CASE j = l BY <1>9, <1>15, <2>3, <3>1
    <3>2. CASE j # l
      <4>1. m.number < y.number BY <2>4, <3>2, QueueOrder, <1>6, <2>2
      <4>2. ToSet(m.op.text) \subseteq ToSet(y.op.text)
        BY <1>6, <1>7, <1>12, <2>1, <2>3, <4>1 DEF TextsGrow
      <4>. QED BY <1>7, <1>9, <1>15, <4>2
    <3>. QED BY <3>1, <3>2
  <2>6. ASSUME NEW n \in Messages(t.live), n.op.into = M, ~Took(t, n)
        PROVE  i \in ToSet(n.op.text) /\ ~n.absorb
    <3>1. n \in Messages(s.live) /\ ~Took(s, n) /\ ~Among(s, J, n) /\ n \in MessageIn(L, E)
      BY <1>1, MessageOf, <1>2, <1>10, <2>6 DEF LiveIn
    <3>2. n.number \in Nat BY <3>1 DEF MessageIn
    <3>3. CASE m.number < n.number
      <4>1. ToSet(m.op.text) \subseteq ToSet(n.op.text)
        BY <1>12, <2>1, <2>3, <2>6, <3>1, <3>3 DEF TextsGrow
      <4>2. n.absorb => n.number <= m.number
        BY <1>12, <2>1, <2>3, <2>6, <3>1 DEF TextsGrow
      <4>. QED BY <1>15, <2>3, <3>2, <3>3, <4>1, <4>2
    <3>4. CASE n.number = m.number BY <2>2, <3>1, <3>4 DEF Among
    <3>5. CASE n.number < m.number
      <4>1. CASE Lost(s, n)
        BY <1>11, <2>1, <3>1, <3>5, EarlierBefore, <1>2, <1>10, <1>15, <4>1, <2>3, <2>6 DEF Torn
      <4>2. CASE ~Lost(s, n)
        <5>1. PICK h \in DOMAIN s.out.queue : q[h].number = n.number
          BY <3>1, <4>2, OneOfThree
        <5>2. q[h].into = M BY <2>6, <3>1, <5>1, MessageOfWrite DEF SameWrite
        <5>3. h < j BY <2>2, <2>4, <3>5, <5>1, QueueOrder
        <5>4. h <= l BY <2>2, <2>4, <5>1, QueueOrder, <5>3
        <5>5. h \in J BY <5>1, <5>2, <5>4
        <5>. QED BY <3>1, <5>1, <5>5 DEF Among
      <4>. QED BY <4>1, <4>2
    <3>. QED BY <2>3, <3>2, <3>3, <3>4, <3>5
  <2>7. ASSUME a, NEW h \in Places(t), h >= p, Aims(t, OpenAt(t, h), M)
        PROVE  i \in ToSet(OpenAt(t, h).text)
    <3> DEFINE o == OpenAt(s, h)
    <3>1. h \in Places(s) /\ Aims(t, o, M) /\ OpenGrows(s, h) BY <1>11, <2>7 DEF Whole
    <3>2. \A r \in t.out.done : r.key # M BY <1>3, <1>12, <2>1, <2>3 DEF Fresh
    <3>3. o.key = M BY <3>1, <3>2 DEF Aims
    <3>4. m \in Before(s, h) BY <1>1, BeforeIs, <2>1, <2>7, <3>1 DEF Before
    <3>5. ToSet(m.op.text) \subseteq ToSet(o.text)
      BY <2>3, <3>1, <3>3, <3>4 DEF OpenGrows
    <3>. QED BY <1>11, <1>15, <3>5
  <2>. QED BY <1>8, <1>9, <2>5, <2>6, <2>7 DEF FirmIn
<1>16. NowFirm(s, t, M, J, a) BY <1>15 DEF NowFirm
<1>. QED BY <1>1, <1>14, <1>16, PutWhole

(* The last of the picked.                                                 *)
LEMMA LastPicked ==
  ASSUME NEW S, NEW q \in Seq(S), NEW ks \in SUBSET DOMAIN q, ks # {}
  PROVE  \E l \in ks : Last(Picked(q, ks)) = q[l] /\ \A j \in ks : j <= l
<1> DEFINE P == Picked(q, ks)
<1>1. P \in Seq(S) /\ \E g : PicksOf(q, ks, P, g) BY PickedIs
<1> HIDE DEF P
<1>2. PICK g : PicksOf(q, ks, P, g) BY <1>1
<1>3. /\ g \in [DOMAIN P -> ks] /\ \A n \in DOMAIN P : P[n] = q[g[n]]
      /\ \A j, n \in DOMAIN P : j < n => g[j] < g[n]
      /\ \A i \in ks : \E n \in DOMAIN P : g[n] = i
  BY <1>2 DEF PicksOf
<1>4. DOMAIN P = 1 .. Len(P) /\ Len(P) \in Nat /\ DOMAIN q \subseteq Nat BY <1>1
<1>5. Len(P) \in DOMAIN P BY <1>3, <1>4
<1>6. Last(P) = P[Len(P)] BY DEF Last
<1>7. ASSUME NEW j \in ks PROVE j <= g[Len(P)]
  <2>1. PICK n \in DOMAIN P : g[n] = j BY <1>3
  <2>2. n = Len(P) \/ n < Len(P) BY <1>4, <2>1
  <2>3. g[Len(P)] \in Nat /\ j \in Nat BY <1>3, <1>4, <1>5
  <2>. QED BY <1>3, <1>5, <2>1, <2>2, <2>3
<1>8. g[Len(P)] \in ks /\ P[Len(P)] = q[g[Len(P)]] BY <1>3, <1>5
<1>. QED BY <1>6, <1>7, <1>8 DEF P

(* What goes together is of one queue and, into a message, all up to the   *)
(* last of it.                                                             *)
LEMMA JoinedIs ==
  ASSUME out.queue \in Seq(OpIn(Line)), NEW k \in DOMAIN out.queue, NEW joined \in {{}, Joins(k)},
         Sending(k, joined)
  PROVE  /\ {k} \cup joined \in SUBSET DOMAIN out.queue
         /\ \A j \in {k} \cup joined : j >= k /\ out.queue[j].into = out.queue[k].into
         /\ out.queue[k].into # 0 =>
              \A l \in {k} \cup joined : \A h \in DOMAIN out.queue :
                h <= l /\ out.queue[h].into = out.queue[k].into => h \in {k} \cup joined
<1> DEFINE q == out.queue
<1>1. DOMAIN q = 1 .. Len(q) /\ Len(q) \in Nat OBVIOUS
<1>2. \A j \in Joins(k) : j \in After(k) BY DEF Joins
<1>3. \A j : \A i : j \in After(i) <=> j \in i + 1 .. Len(q) /\ q[j].into = q[i].into
  BY DEF After
<1>4. \A j \in joined : j \in k + 1 .. Len(q) /\ q[j].into = q[k].into BY <1>2, <1>3
<1>5. ASSUME q[k].into # 0, NEW l \in {k} \cup joined, NEW h \in DOMAIN q, h <= l, q[h].into = q[k].into
      PROVE  h \in {k} \cup joined
  <2>1. ~(h < k) BY <1>1, <1>3, <1>5 DEF Sending
  <2>2. CASE h = k BY <2>2
  <2>3. CASE h # k
    <3>1. h \in k + 1 .. Len(q) BY <1>1, <2>1, <2>3
    <3>2. h \in After(k) BY <1>3, <1>5, <3>1
    <3>3. l # k BY <1>1, <1>5, <2>1, <2>3
    <3>4. l \in Joins(k) /\ joined = Joins(k) BY <3>3
    <3>5. q[k].merge /\ \A i \in After(k) : i <= l => q[i].merge BY <3>4 DEF Joins
    <3>6. \A i \in After(k) : i <= h => q[i].merge BY <1>1, <1>3, <1>4, <1>5, <3>5
    <3>7. h \in Joins(k) BY <1>5, <3>2, <3>5, <3>6 DEF Joins
    <3>. QED BY <3>4, <3>7
  <2>. QED BY <2>2, <2>3
<1>6. {k} \cup joined \in SUBSET DOMAIN q /\ \A j \in {k} \cup joined : j >= k /\ q[j].into = q[k].into
  BY <1>1, <1>4
<1>. QED BY <1>5, <1>6

LEMMA TakenWhole ==
  ASSUME StreamInv, NEW k \in DOMAIN out.queue, NEW joined \in {{}, Joins(k)}, Taken(k, joined),
         NEW b, WholeNow(fate.skipped, b)
  PROVE  WholeNext(fate.skipped, b)
<1> DEFINE q == out.queue
           J == {k} \cup joined
           into == q[k].into
           text == SentText(q, J, into)
           key == IF into = 0 THEN Len(topic) + 1 ELSE 0
           t == St'
           K == fate.skipped
           at == offset
           cur == live.readAt
<1>1. /\ Sending(k, joined) /\ topic' = LinesPut(topic, into, text) /\ live' = live
      /\ Replied(k, joined, "sent", key, "merged") /\ offset' = offset /\ plan' = plan
  BY DEF Taken, LinesPut, SentText
<1>2. StreamInv' BY TakenKeeps
<1>3. t \in StreamIn(Line, Ends) /\ t.live = live /\ t.out = out' /\ t.topic = topic'
  BY <1>1, <1>2, StNext DEF St
<1>4. /\ Sound(St, Line, Ends) /\ St.live = live /\ St.out = out /\ St.topic = topic
      /\ Whole(St, at, cur, K, b)
  BY StIsSound DEF WholeNow
<1>5. q \in Seq(OpIn(Line)) /\ out \in OutIn(Line) BY InvTypes DEF OutIn
<1>6. /\ J \in SUBSET DOMAIN q /\ J # {}
      /\ \A j \in J : j >= k /\ q[j].into = into
      /\ into # 0 => \A l \in J : \A h \in DOMAIN q : h <= l /\ q[h].into = into => h \in J
  <2>1. J # {} OBVIOUS
  <2>2. /\ {k} \cup joined \in SUBSET DOMAIN out.queue
        /\ \A j \in {k} \cup joined : j >= k /\ out.queue[j].into = out.queue[k].into
        /\ out.queue[k].into # 0 =>
             \A l \in {k} \cup joined : \A h \in DOMAIN out.queue :
               h <= l /\ out.queue[h].into = out.queue[k].into => h \in {k} \cup joined
    BY <1>1, <1>5, JoinedIs, ZenonT(40)
  <2>. QED BY <2>1, <2>2
<1>7. text \in Seq(Line) /\ (into = 0 => \A j \in J : \A x \in ToSet(q[j].text) : x \in ToSet(text))
  BY <1>5, <1>6, SentTextIs
<1>8. k \notin joined BY <1>1, SendingIs DEF SendFacts
<1>9. out'.done = out.done \cup {TakenReply(q, k, key, j) : j \in J}
  BY <1>1, <1>5, <1>8 DEF Replied, OutIn, TakenReply
<1> HIDE DEF t, K, at, cur
<1>10. CASE into = 0
  <2>1. key = Len(topic) + 1 /\ t.topic = Append(topic, text)
    BY <1>1, <1>3, <1>10 DEF LinesPut
  <2> HIDE DEF text, key, J
  <2>2. GoesOut(St, t, k, J, key) BY <1>3, <1>4, <1>6, <1>9 DEF J, GoesOut
  <2>3. NewMessage(St, t, k, J, key, text) BY <1>4, <1>7, <1>10, <2>1 DEF NewMessage
  <2> HIDE DEF into
  <2>4. text \in Seq(Line) BY <1>7
  <2>5. Whole(t, at, cur, K, b) BY <1>3, <1>4, <2>2, <2>3, <2>4, NewTakenWhole
  <2>. QED BY <1>1, <2>5 DEF WholeNext, t, at, cur, K
<1>11. CASE into # 0
  <2>1. key = 0 /\ text = Last(Picked(q, J)).text /\ t.topic = [topic EXCEPT ![into] = text]
    BY <1>1, <1>3, <1>11 DEF LinesPut, SentText
  <2>2. PICK l \in J : Last(Picked(q, J)) = q[l] /\ \A j \in J : j <= l
    BY <1>5, <1>6, LastPicked
  <2> HIDE DEF text, key, J
  <2>3. GoesOut(St, t, k, J, 0) BY <1>3, <1>4, <1>6, <1>9, <2>1 DEF J, GoesOut
  <2> DEFINE M == into
  <2>4. M = St.out.queue[k].into /\ M # 0 BY <1>4, <1>11
  <2>5. t.topic = [St.topic EXCEPT ![M] = St.out.queue[l].text] BY <1>4, <2>1, <2>2
  <2>6. \A h \in DOMAIN St.out.queue : h <= l /\ St.out.queue[h].into = M => h \in J
    BY <1>4, <1>6, <1>11
  <2> HIDE DEF M
  <2>7. Whole(t, at, cur, K, b)
    BY <1>3, <1>4, <2>2, <2>3, <2>4, <2>5, <2>6, EditTakenWhole
  <2>. QED BY <1>1, <2>7 DEF WholeNext, t, at, cur, K
<1>. QED BY <1>10, <1>11

LEMMA SendWhole ==
  ASSUME StreamInv, Send, NEW b, WholeNow(fate.skipped, b)
  PROVE  WholeNext(fate'.skipped, b) /\ left' = left /\ fate'.stale = fate.stale
<1>1. PICK k \in DOMAIN out.queue : \E joined \in {{}, Joins(k)} :
        Taken(k, joined) \/ EditGone(k, joined) \/ Refused(k, joined) \/ Failed(k, joined)
  BY DEF Send
<1>2. PICK joined \in {{}, Joins(k)} :
        Taken(k, joined) \/ EditGone(k, joined) \/ Refused(k, joined) \/ Failed(k, joined)
  BY <1>1
<1>3. IsFate(fate) BY InvTypes
<1>4. CASE Taken(k, joined) BY <1>4, <1>3, TakenWhole DEF Taken, IsFate
<1>5. CASE EditGone(k, joined) BY <1>5, EditGoneWhole DEF EditGone
<1>6. CASE Refused(k, joined) BY <1>6, <1>3, RefusedWhole DEF Refused, IsFate
<1>7. CASE Failed(k, joined) BY <1>7, <1>3, FailedWhole DEF Failed, IsFate
<1>. QED BY <1>2, <1>4, <1>5, <1>6, <1>7

-----------------------------------------------------------------------------
(* A session that left its slot sends again what was refused.              *)
LostWrites(w) ==
  {k \in DOMAIN w : ~IsBarrier(w[k]) /\ w[k].state = "refused" /\ w[k].op.into # 0}

LostAfter(w, k) == {j \in LostWrites(w) : w[j].op.into = w[k].op.into /\ j >= k}

FoldedTo(w, k, x) ==
  \/ x = w[k] /\ (k \in LostWrites(w) => ~w[k].absorb)
  \/ /\ k \in LostWrites(w) /\ x = [w[k] EXCEPT !.state = "accepted"]
     /\ \E h \in LostWrites(w) : w[h].absorb /\ k # h /\ k \in LostAfter(w, h)
  \/ /\ k \in LostWrites(w) /\ w[k].absorb
     /\ \E j \in LostAfter(w, k) :
          /\ \A i \in LostAfter(w, k) : i <= j
          /\ x = [w[k] EXCEPT !.absorb = FALSE,
                              !.op = [w[k].op EXCEPT !.into = 0, !.text = w[j].op.text]]

LEMMA FoldedExactly ==
  ASSUME NEW L, NEW E, NEW lv \in LiveIn(L, E), NEW k \in DOMAIN lv.waiting
  PROVE  FoldedTo(lv.waiting, k, Folded(lv).waiting[k])
<1> DEFINE w == lv.waiting
           refused == LostWrites(w)
           absorb == {h \in refused : w[h].absorb}
           into(h) == LostAfter(w, h)
           folded == UNION {into(h) \ {h} : h \in absorb}
           v == [h \in DOMAIN w |->
                  IF h \in folded THEN [w[h] EXCEPT !.state = "accepted"]
                  ELSE IF h \in absorb
                  THEN [w[h] EXCEPT !.absorb = FALSE, !.op.into = 0,
                                    !.op.text = w[Max(into(h))].op.text]
                  ELSE w[h]]
<1>1. w \in WaitingIn(L, E) BY DEF LiveIn
<1>2. Len(w) \in Nat /\ DOMAIN w = 1 .. Len(w) BY <1>1 DEF WaitingIn
<1>3. Folded(lv) = [lv EXCEPT !.waiting = v] BY DEF Folded, LostWrites, LostAfter
<1>4. Folded(lv).waiting = v
  <2> HIDE DEF v
  <2>. QED BY <1>3 DEF LiveIn
<1>5. CASE k \in folded
  <2>1. v[k] = [w[k] EXCEPT !.state = "accepted"] BY <1>5
  <2>2. PICK h \in absorb : k \in LostAfter(w, h) \ {h} BY <1>5
  <2>3. k \in LostWrites(w) BY <2>2 DEF LostAfter
  <2> HIDE DEF v, w
  <2>. QED BY <1>4, <2>1, <2>2, <2>3 DEF FoldedTo, w
<1>6. CASE k \notin folded /\ k \in absorb
  <2> DEFINE S == LostAfter(w, k)
             j == Max(S)
  <2>1. k \in S /\ S \subseteq 0 .. Len(w) BY <1>2, <1>6 DEF LostAfter, LostWrites
  <2>2. v[k] = [w[k] EXCEPT !.absorb = FALSE, !.op.into = 0, !.op.text = w[j].op.text]
    BY <1>6
  <2>3. w[k] \in MessageIn(L, E) BY <1>1, <1>6, WaitingType DEF LostWrites
  <2> HIDE DEF S
  <2>4. j \in S /\ \A i \in S : i <= j BY <1>2, <2>1, MaxIs
  <2> HIDE DEF j, v
  <2>5. v[k] = [w[k] EXCEPT !.absorb = FALSE,
                            !.op = [w[k].op EXCEPT !.into = 0, !.text = w[j].op.text]]
    BY <2>2, <2>3 DEF MessageIn, OpIn
  <2>. QED BY <1>4, <1>6, <2>4, <2>5 DEF FoldedTo, S
<1>7. CASE k \notin folded /\ k \notin absorb
  <2>1. v[k] = w[k] BY <1>7
  <2> HIDE DEF v
  <2>. QED BY <1>4, <1>7, <2>1 DEF FoldedTo
<1>. QED BY <1>5, <1>6, <1>7

(* What becomes of a message.                                              *)
GoesAgain(w, k, x) ==
  /\ ~IsBarrier(x) /\ x.number = w[k].number
  /\ \/ /\ w[k].state = "accepted" /\ x.state = "accepted"
        /\ x.op = w[k].op /\ x.absorb = w[k].absorb
     \/ /\ w[k].state = "refused" /\ x.state = "waiting"
        /\ x.op = w[k].op /\ x.absorb = w[k].absorb /\ (w[k].op.into # 0 => ~w[k].absorb)
     \/ /\ k \in LostWrites(w) /\ x.state = "accepted" /\ x.op = w[k].op /\ x.absorb = w[k].absorb
        /\ \E h \in LostWrites(w) : w[h].absorb /\ k # h /\ k \in LostAfter(w, h)
     \/ /\ k \in LostWrites(w) /\ w[k].absorb /\ x.state = "waiting" /\ x.op.into = 0 /\ ~x.absorb
        /\ \E j \in LostAfter(w, k) :
             (\A i \in LostAfter(w, k) : i <= j) /\ x.op.text = w[j].op.text

WaitsAgain(y, x) ==
  x = IF ~IsBarrier(y) /\ y.state = "refused" THEN [y EXCEPT !.state = "waiting"] ELSE y

LEMMA GoesAgainIs ==
  ASSUME NEW L, NEW E, NEW w \in WaitingIn(L, E), NEW k \in DOMAIN w, ~IsBarrier(w[k]),
         w[k].state \in {"accepted", "refused"}, NEW y, FoldedTo(w, k, y), NEW x, WaitsAgain(y, x)
  PROVE  GoesAgain(w, k, x)
<1>1. w[k] \in MessageIn(L, E) BY WaitingType
<1>2. \A z \in MessageIn(L, E) : ~IsBarrier(z) BY DEF MessageIn, IsBarrier
<1>3. CASE y = w[k] /\ (k \in LostWrites(w) => ~w[k].absorb)
  BY <1>3, <1>1, <1>2 DEF LostWrites, WaitsAgain, MessageIn, GoesAgain
<1>4. CASE /\ k \in LostWrites(w) /\ y = [w[k] EXCEPT !.state = "accepted"]
           /\ \E h \in LostWrites(w) : w[h].absorb /\ k # h /\ k \in LostAfter(w, h)
  BY <1>1, <1>4, <1>2 DEF MessageIn, WaitsAgain, GoesAgain
<1>5. ASSUME k \in LostWrites(w), w[k].absorb, NEW j \in LostAfter(w, k),
             \A i \in LostAfter(w, k) : i <= j,
             y = [w[k] EXCEPT !.absorb = FALSE,
                              !.op = [w[k].op EXCEPT !.into = 0, !.text = w[j].op.text]]
      PROVE  GoesAgain(w, k, x)
  <2> DEFINE text == w[j].op.text
             op == [w[k].op EXCEPT !.into = 0, !.text = text]
  <2>1. op.into = 0 /\ op.text = text BY <1>1 DEF MessageIn, OpIn
  <2>2. y = [w[k] EXCEPT !.absorb = FALSE, !.op = op] BY <1>5
  <2> HIDE DEF op
  <2>3. y.number = w[k].number /\ y.state = w[k].state /\ y.op = op /\ ~y.absorb
        /\ w[k].number # 0
    BY <1>1, <2>2 DEF MessageIn
  <2>4. w[k].state = "refused" BY <1>5 DEF LostWrites
  <2>5. x = [y EXCEPT !.state = "waiting"] BY <2>3, <2>4 DEF IsBarrier, WaitsAgain
  <2>6. x.number = w[k].number /\ x.state = "waiting" /\ x.op = op /\ ~x.absorb
    BY <1>1, <2>2, <2>5 DEF MessageIn
  <2>7. ~IsBarrier(x) BY <2>3, <2>6 DEF IsBarrier
  <2>. QED BY <1>5, <2>1, <2>6, <2>7 DEF GoesAgain
<1>. QED BY <1>3, <1>4, <1>5 DEF FoldedTo

LEMMA ResentExactly ==
  ASSUME NEW L, NEW E, NEW s \in StreamIn(L, E), s.out.queue = <<>>, s.out.done = {},
         \A m \in Messages(s.live) : m.state # "waiting"
  PROVE  LET t == Resent(s)
             w == s.live.waiting
         IN /\ t \in StreamIn(L, E) /\ t.topic = s.topic /\ t.out.done = {}
            /\ t.live.open = s.live.open /\ t.live.committed = s.live.committed
            /\ t.live.call = s.live.call /\ DOMAIN t.live.waiting = DOMAIN w
            /\ \A k \in DOMAIN w :
                 /\ IsBarrier(w[k]) => t.live.waiting[k] = w[k]
                 /\ ~IsBarrier(w[k]) => GoesAgain(w, k, t.live.waiting[k])
<1> DEFINE t == Resent(s)
           w == s.live.waiting
           lv == Folded(s.live)
           refused == {k \in DOMAIN lv.waiting : /\ ~IsBarrier(lv.waiting[k])
                                                 /\ lv.waiting[k].state = "refused"}
           v == [k \in DOMAIN lv.waiting |->
                   IF k \in refused THEN [lv.waiting[k] EXCEPT !.state = "waiting"]
                   ELSE lv.waiting[k]]
           lw == [lv EXCEPT !.rewind = FALSE, !.waiting = v]
<1>1. s.live \in LiveIn(L, E) /\ w \in WaitingIn(L, E) BY InStreamType DEF LiveIn
<1>2. ResentSet(s, t, L, E) /\ FoldedSet(s.live, lv, L, E) BY <1>1, FoldedIs, ResentIs
<1>3. \E o : t = [s EXCEPT !.live = lw, !.out = o] BY DEF Resent
<1>4. \A k \in DOMAIN w : FoldedTo(w, k, lv.waiting[k]) BY <1>1, FoldedExactly
<1> HIDE DEF lv, t
<1>5. lv \in LiveIn(L, E) /\ lv.call = s.live.call /\ DOMAIN lv.waiting = DOMAIN w
  BY <1>1, <1>2 DEF FoldedSet, LiveIn
<1>6. \A k \in DOMAIN w :
        v[k] = IF ~IsBarrier(lv.waiting[k]) /\ lv.waiting[k].state = "refused"
               THEN [lv.waiting[k] EXCEPT !.state = "waiting"] ELSE lv.waiting[k]
  BY <1>5
<1> HIDE DEF v
<1>7. lw.waiting = v /\ lw.call = s.live.call BY <1>5 DEF LiveIn
<1> HIDE DEF lw
<1>8. t.live = lw BY <1>3 DEF StreamIn
<1>9. ASSUME NEW k \in DOMAIN w, ~IsBarrier(w[k]) PROVE GoesAgain(w, k, v[k])
  <2>1. w[k] \in MessageIn(L, E) /\ w[k] \in Messages(s.live)
    BY <1>1, <1>9, WaitingType, MessageOf
  <2>2. w[k].state \in {"accepted", "refused"} BY <2>1 DEF MessageIn
  <2>3. FoldedTo(w, k, lv.waiting[k]) BY <1>4
  <2> DEFINE y == lv.waiting[k]
             x == v[k]
  <2>4. WaitsAgain(y, x) BY <1>6 DEF WaitsAgain
  <2>5. FoldedTo(w, k, y) BY <2>3
  <2> HIDE DEF x, y, w
  <2>6. GoesAgain(w, k, x) BY <1>1, <1>9, <2>2, <2>4, <2>5, GoesAgainIs
  <2>. QED BY <2>6 DEF x
<1>10. ASSUME NEW k \in DOMAIN w, IsBarrier(w[k]) PROVE v[k] = w[k]
  BY <1>10, <1>4, <1>6 DEF LostWrites, FoldedTo
<1> HIDE DEF w
<1>11. /\ t \in StreamIn(L, E) /\ t.topic = s.topic /\ t.out.done = {}
       /\ t.live.open = s.live.open /\ t.live.committed = s.live.committed
       /\ DOMAIN t.live.waiting = DOMAIN w
  BY <1>2 DEF ResentSet, w
<1>. QED BY <1>7, <1>8, <1>9, <1>10, <1>11 DEF t, w

LEMMA ResentWhole ==
  ASSUME NEW L, NEW E, NEW s, Sound(s, L, E), s.out.queue = <<>>, s.out.done = {},
         \A m \in Messages(s.live) : m.state # "waiting", ~Overtaken(s.live),
         NEW at, NEW cur, NEW K, NEW a, Whole(s, at, cur, K, a)
  PROVE  Whole(Resent(s), at, cur, K, FALSE)
<1> DEFINE t == Resent(s)
           w == s.live.waiting
           v == t.live.waiting
<1>1. /\ s \in StreamIn(L, E) /\ Numbered(s.live) /\ w \in WaitingIn(L, E)
      /\ s.topic \in Seq(Seq(L \cup {0})) /\ s.live \in LiveIn(L, E)
  BY InStreamType DEF Sound, LiveIn
<1>2. /\ t \in StreamIn(L, E) /\ t.topic = s.topic /\ t.out.done = {}
      /\ t.live.open = s.live.open /\ t.live.committed = s.live.committed
      /\ t.live.call = s.live.call /\ DOMAIN v = DOMAIN w
      /\ \A k \in DOMAIN w :
           /\ IsBarrier(w[k]) => v[k] = w[k]
           /\ ~IsBarrier(w[k]) => GoesAgain(w, k, v[k])
  BY <1>1, ResentExactly
<1> HIDE DEF t
<1>3. \A k \in DOMAIN w : IsBarrier(v[k]) <=> IsBarrier(w[k]) BY <1>2 DEF GoesAgain
<1>4. DOMAIN w = 1 .. Len(w) /\ Len(w) \in Nat /\ Len(v) = Len(w) /\ DOMAIN v = 1 .. Len(v)
  BY <1>2, InStreamType, <1>1 DEF LiveIn, WaitingIn
<1>5. Places(t) = Places(s) BY <1>2, <1>3, <1>4 DEF Places
<1>6. \A p \in Places(s) : ToAt(t, p, at.to, cur) = ToAt(s, p, at.to, cur)
  BY <1>2, <1>3, <1>4 DEF Places, ToAt
<1>7. \A k \in DOMAIN w : ~IsBarrier(w[k]) => w[k] \in Messages(s.live) /\ w[k] \in MessageIn(L, E)
  BY <1>1, MessageOf
<1>8. \A m : m \in Messages(t.live) =>
        \E k \in DOMAIN w : ~IsBarrier(w[k]) /\ m = v[k] /\ GoesAgain(w, k, m)
  <2>1. t.live \in LiveIn(L, E) /\ v \in WaitingIn(L, E) BY <1>2, InStreamType DEF LiveIn
  <2>. QED BY <1>2, <1>3, <2>1, MessageOf
<1>9. \A k \in DOMAIN w : \A p : ~IsBarrier(w[k]) /\ k < p => v[k] \in Before(t, p)
  BY <1>2, <1>3 DEF Before
<1>10. /\ \A m : Took(s, m) <=> m.state = "accepted"
       /\ \A m : Took(t, m) <=> m.state = "accepted"
       /\ \A m : Lost(s, m) <=> m.state = "refused"
  BY <1>2 DEF Took, Lost, Done
<1>11. TextsGrow(s) /\ AbsorbsInto(s) /\ CallsRight(s, at, cur) BY DEF Whole
<1>12. \A j, k \in DOMAIN w : j < k /\ ~IsBarrier(w[j]) /\ ~IsBarrier(w[k]) => w[j].number < w[k].number
  BY <1>1 DEF Numbered
<1>13. \A j, k \in LostWrites(w) : j <= k /\ w[j].op.into = w[k].op.into =>
         ToSet(w[j].op.text) \subseteq ToSet(w[k].op.text)
  <2> SUFFICES ASSUME NEW j \in LostWrites(w), NEW k \in LostWrites(w), j <= k,
                      w[j].op.into = w[k].op.into
               PROVE  ToSet(w[j].op.text) \subseteq ToSet(w[k].op.text)
    OBVIOUS
  <2>1. j \in DOMAIN w /\ k \in DOMAIN w /\ ~IsBarrier(w[j]) /\ ~IsBarrier(w[k]) /\ w[j].op.into # 0
    BY DEF LostWrites
  <2>2. CASE j = k BY <2>2
  <2>3. CASE j < k
    <3> DEFINE m == w[j]
               n == w[k]
    <3>1. m \in Messages(s.live) /\ n \in Messages(s.live) /\ m.op.into = n.op.into /\ m.op.into # 0
          /\ m.number < n.number
      BY <1>7, <1>12, <2>1, <2>3
    <3> HIDE DEF m, n
    <3>2. ToSet(m.op.text) \subseteq ToSet(n.op.text) BY <1>11, <3>1 DEF TextsGrow
    <3>. QED BY <3>2 DEF m, n
  <2>. QED BY <1>4, <2>1, <2>2, <2>3
<1>14. \A h, k \in LostWrites(w) : w[h].absorb /\ h # k /\ k \in LostAfter(w, h) => ~w[k].absorb
  <2> SUFFICES ASSUME NEW h \in LostWrites(w), NEW k \in LostWrites(w), h # k,
                      k \in LostAfter(w, h), w[k].absorb
               PROVE  FALSE
    OBVIOUS
  <2>1. h \in DOMAIN w /\ k \in DOMAIN w /\ ~IsBarrier(w[h]) /\ ~IsBarrier(w[k]) /\ w[h].op.into # 0
        /\ w[h].op.into = w[k].op.into /\ k >= h
    BY DEF LostWrites, LostAfter
  <2>2. h < k BY <1>4, <2>1
  <2>3. w[h].number < w[k].number BY <1>12, <2>1, <2>2
  <2>4. w[k].number <= w[h].number BY <1>7, <1>11, <2>1 DEF TextsGrow
  <2>5. w[h].number \in Nat /\ w[k].number \in Nat BY <1>7, <2>1 DEF MessageIn
  <2>. QED BY <2>3, <2>4, <2>5
<1>15. \A m \in Messages(s.live) : ~Torn(s, m)
  <2> SUFFICES ASSUME NEW m \in Messages(s.live), Torn(s, m) PROVE FALSE
    OBVIOUS
  <2>1. PICK n \in Messages(s.live) : n.number > m.number /\ n.op.into = m.op.into /\ Took(s, n)
    BY DEF Torn
  <2>2. m.op.into # 0 /\ m.state = "refused" /\ n.state = "accepted" /\ m.number < n.number
    BY <1>10, <2>1 DEF Torn
  <2>. QED BY <2>1, <2>2 DEF Overtaken
<1>16. ASSUME NEW p \in Places(s), NEW k \in DOMAIN w, k < p, ~IsBarrier(w[k]), w[k].state = "refused",
              NEW i \in ToSet(w[k].op.text)
       PROVE  \E m \in Before(t, p) : ~Took(t, m) /\ i \in ToSet(m.op.text)
  <2>1. GoesAgain(w, k, v[k]) /\ w[k].state # "accepted" BY <1>2, <1>16
  <2>2. CASE v[k].state = "waiting" /\ v[k].op = w[k].op BY <1>9, <1>10, <1>16, <2>2
  <2>3. ASSUME NEW h \in LostWrites(w), w[h].absorb, k \in LostAfter(w, h)
        PROVE  \E m \in Before(t, p) : ~Took(t, m) /\ i \in ToSet(m.op.text)
    <3>1. h \in DOMAIN w /\ ~IsBarrier(w[h]) /\ w[h].state = "refused" /\ w[h].op.into # 0
      BY DEF LostWrites
    <3>2. GoesAgain(w, h, v[h]) BY <1>2, <3>1
    <3>3. ~(\E g \in LostWrites(w) : w[g].absorb /\ h # g /\ h \in LostAfter(w, g))
      BY <1>14, <2>3
    <3>4. PICK j \in LostAfter(w, h) :
            (\A g \in LostAfter(w, h) : g <= j) /\ v[h].op.text = w[j].op.text /\ v[h].state = "waiting"
      BY <2>3, <3>1, <3>2, <3>3 DEF GoesAgain
    <3>5. k <= j /\ k \in LostWrites(w) /\ j \in LostWrites(w) /\ w[k].op.into = w[j].op.into /\ k >= h
      BY <2>3, <3>4 DEF LostAfter
    <3>6. i \in ToSet(v[h].op.text) BY <1>13, <1>16, <3>4, <3>5
    <3>7. h < p BY <1>4, <3>1, <1>16, <3>5 DEF Places
    <3>. QED BY <1>9, <1>10, <3>1, <3>4, <3>6, <3>7
  <2>4. CASE k \in LostWrites(w) /\ w[k].absorb BY <1>4, <2>4, <2>3 DEF LostAfter
  <2>. QED BY <2>1, <2>2, <2>3, <2>4 DEF GoesAgain
<1>17. ASSUME NEW n \in Messages(t.live)
       PROVE  \E k \in DOMAIN w :
                /\ ~IsBarrier(w[k]) /\ w[k] \in Messages(s.live) /\ n.number = w[k].number
                /\ n.op.into # 0 => n.op = w[k].op /\ n.absorb = w[k].absorb
                /\ n.op.into # 0 /\ n.state # "accepted" => w[k].state # "accepted"
                /\ n.absorb => w[k].absorb /\ n.op = w[k].op
  <2>1. PICK k \in DOMAIN w : ~IsBarrier(w[k]) /\ GoesAgain(w, k, n) BY <1>8, <1>17
  <2>. QED BY <1>7, <2>1 DEF GoesAgain
<1>18. ASSUME NEW p \in Places(s), NEW i, NEW m \in DOMAIN s.topic, FirmIn(s, i, p, m, a)
       PROVE  FirmIn(t, i, p, m, FALSE)
  <2>1. m # 0 BY <1>1
  <2>2. ASSUME NEW n \in Messages(t.live), n.op.into = m, ~Took(t, n)
        PROVE  i \in ToSet(n.op.text) /\ ~n.absorb
    <3>1. PICK x \in Messages(s.live) :
            n.op = x.op /\ n.absorb = x.absorb /\ x.state # "accepted"
      BY <1>10, <1>17, <2>1, <2>2
    <3>. QED BY <1>10, <1>18, <2>2, <3>1 DEF FirmIn
  <2>. QED BY <1>2, <1>18, <2>2 DEF FirmIn
<1>19. AllCovered(t, at.to, cur, K, FALSE)
  <2> SUFFICES ASSUME NEW p \in Places(t), NEW i \in Pieces, i <= ToAt(t, p, at.to, cur)
               PROVE  Covered(t, i, p, K, FALSE)
    BY DEF AllCovered
  <2>1. p \in Places(s) /\ Before(s, p) \subseteq Messages(s.live)
    BY <1>1, <1>5, BeforeIs
  <2>2. Covered(s, i, p, K, a) BY <1>6, <1>15, <2>1 DEF AllCovered, Whole
  <2>3. CASE i \in K BY <2>3 DEF Covered
  <2>4. ASSUME NEW m \in Before(s, p), ~Took(s, m), i \in ToSet(m.op.text)
        PROVE  Covered(t, i, p, K, FALSE)
    <3>1. PICK k \in DOMAIN w : k < p /\ ~IsBarrier(w[k]) /\ m = w[k] BY <2>4 DEF Before
    <3>2. m.state = "refused" BY <1>7, <3>1, <1>10, <2>4 DEF MessageIn
    <3>3. \E x \in Before(t, p) : ~Took(t, x) /\ i \in ToSet(x.op.text)
      BY <1>16, <2>1, <2>4, <3>1, <3>2
    <3>. QED BY <3>3 DEF Covered
  <2>5. CASE \E m \in DOMAIN s.topic : FirmIn(s, i, p, m, a)
    BY <1>2, <1>18, <2>1, <2>5 DEF Covered
  <2>. QED BY <2>2, <2>3, <2>4, <2>5 DEF Covered
<1>20. TextsGrow(t)
  <2> SUFFICES ASSUME NEW m \in Messages(t.live), NEW n \in Messages(t.live),
                      m.op.into # 0, m.op.into = n.op.into
               PROVE  /\ m.number < n.number => ToSet(m.op.text) \subseteq ToSet(n.op.text)
                      /\ n.absorb => n.number <= m.number
    BY DEF TextsGrow
  <2>1. PICK x \in Messages(s.live) :
          m.op = x.op /\ m.absorb = x.absorb /\ m.number = x.number
    BY <1>17
  <2>2. PICK y \in Messages(s.live) :
          n.op = y.op /\ n.absorb = y.absorb /\ n.number = y.number
    BY <1>17
  <2>. QED BY <1>11, <2>1, <2>2 DEF TextsGrow
<1>21. AbsorbsInto(t) BY <1>11, <1>17 DEF AbsorbsInto
<1>22. Fresh(t, FALSE) /\ CallsRight(t, at, cur)
  BY <1>2, <1>3, <1>11 DEF Fresh, CallsRight
<1>. QED BY <1>19, <1>20, <1>21, <1>22 DEF Whole, t

(* drain_stream.                                                           *)
LEMMA DrainWhole ==
  ASSUME StreamInv, Drain, WholeNow(fate.skipped, FALSE), ~fate'.stale
  PROVE  WholeNext(fate'.skipped, FALSE) /\ left' # "no"
<1> DEFINE K == fate.skipped
           at == offset
           cur == live.readAt
           a == left = "no"
           t == Resent(St)
<1>1. left = "draining" /\ offset' = offset /\ IsFate(fate) /\ live \in LiveIn(Line, Ends)
  BY InvTypes DEF Drain
<1>2. CASE /\ live' = live /\ out' = out /\ topic' = topic /\ fate' = fate
           /\ left' \in {"settled", "givenUp"}
  BY <1>1, <1>2, LiveWhole
<1>3. CASE /\ Stuck(live) /\ Becomes(t) /\ left' = left
           /\ \E o : fate' = [fate EXCEPT !.stale = o] /\ (Overtaken(live) => o)
  <2>1. PICK o : fate' = [fate EXCEPT !.stale = o] /\ (Overtaken(live) => o) BY <1>3
  <2>2. fate'.skipped = K /\ ~Overtaken(live) BY <1>1, <2>1 DEF IsFate
  <2>3. /\ Good(St, Line, Ends, Came, Given, a, written) /\ ~a
        /\ Sound(St, Line, Ends) /\ St.live = live /\ Whole(St, at, cur, K, FALSE)
    BY <1>1, StIsSound DEF StreamInv, WholeNow
  <2> HIDE DEF t, K, at, cur, a
  <2>4. /\ St.out.queue = <<>> /\ St.out.done = {} /\ ~Overtaken(St.live)
        /\ \A m \in Messages(St.live) : m.state # "waiting"
    BY <1>3, <2>2, <2>3, StuckIs
  <2>5. Whole(t, at, cur, K, FALSE) BY <2>3, <2>4, ResentWhole DEF t
  <2>6. t.live.readAt = live.readAt /\ t \in StreamIn(Line, Ends)
    BY <1>3, <2>3, ResentGood DEF t
  <2>7. Reaches(t, FALSE) BY <2>5, <2>6 DEF Reaches, K, at, cur
  <2>8. WholeNext(fate.skipped, FALSE) BY <1>1, <1>3, <2>7, BecomesWhole
  <2>. QED BY <1>1, <1>3, <2>2, <2>8 DEF K
<1>4. \/ /\ live' = live /\ out' = out /\ topic' = topic /\ fate' = fate
         /\ left' \in {"settled", "givenUp"}
      \/ /\ Stuck(live) /\ Becomes(t) /\ left' = left
         /\ \E o : fate' = [fate EXCEPT !.stale = o] /\ (Overtaken(live) => o)
  BY DEF Drain
<1>. QED BY <1>2, <1>3, <1>4
-----------------------------------------------------------------------------
(* The stream lies whole before and after each step, while no session that *)
(* left sent an older write again over a newer one.                        *)
WholeInv == fate.stale \/ WholeNow(fate.skipped, left = "no")

LEMMA WholeAfter ==
  ASSUME plan' = plan, WholeNext(fate'.skipped, left' = "no")
  PROVE  WholeInv'
BY SameScript DEF Pieces, WholeNext, Whole, AllCovered, CallsRight, CallAt, WholeInv, WholeNow

(* A stream that is whole for a session in its slot is whole for any.      *)
LEMMA LeftWhole ==
  ASSUME StreamInv, NEW a, WholeNow(fate.skipped, a)
  PROVE  WholeNow(fate.skipped, FALSE)
<1> DEFINE K == fate.skipped
           at == offset
           cur == live.readAt
           s == St
<1>1. s \in StreamIn(Line, Ends) /\ Whole(s, at, cur, K, a) BY StIsSound DEF WholeNow
<1> HIDE DEF K, at, cur, s
<1>2. Whole(s, at, cur, K, FALSE) BY <1>1, SameWhole
<1>. QED BY <1>2 DEF WholeNow, K, at, cur, s

LEMMA LeftNext ==
  ASSUME StreamInv', plan' = plan, NEW K, NEW a, WholeNext(K, a)
  PROVE  WholeNext(K, FALSE)
<1> DEFINE at == offset'
           cur == live'.readAt
           s == St'
<1>1. s \in StreamIn(Line, Ends) /\ Whole(s, at, cur, K, a) BY StNext DEF WholeNext
<1> HIDE DEF at, cur, s
<1>2. Whole(s, at, cur, K, FALSE) BY <1>1, SameWhole
<1>. QED BY <1>2 DEF WholeNext, at, cur, s

(* The facts a step keeps, or loses for good.                              *)
LEMMA FateIs ==
  ASSUME IsFate(fate), NEW S
  PROVE  /\ Fated(S).skipped = fate.skipped /\ Fated(S).stale = fate.stale
BY DEF IsFate, Fated

StepIsWhole == plan' = plan /\ (~fate'.stale => ~fate.stale /\ WholeNext(fate'.skipped, left' = "no"))

LEMMA StreamSteps ==
  ASSUME StreamInv, ~fate.stale => WholeNow(fate.skipped, left = "no"),
         Stop \/ HoldOver \/ AgentGoes \/ AgentComes \/ ReadForgotten \/ AskRead
           \/ OtherPost \/ HubRestart
  PROVE  StepIsWhole
<1>1. IsFate(fate) BY InvTypes
<1>2. plan' = plan /\ fate'.stale = fate.stale
  <2>1. CASE AgentGoes \/ AgentComes \/ ReadForgotten \/ AskRead \/ OtherPost
    BY <2>1 DEF AgentGoes, AgentComes, ReadForgotten, AskRead, OtherPost
  <2>2. CASE Stop
    <3>1. plan' = plan /\ (\/ fate' = [fate EXCEPT !.apart = fate'.apart]
                          \/ \E S, l : fate' = [Fated(S) EXCEPT !.lapsed = l])
      <4>1. PICK e \in {Min({x \in Ends \cup {Len(Script) + 1} : x > stopped})},
                 lapsed \in {FALSE, live.lapsing} :
              /\ plan' = plan
              /\ \/ \E S : fate' = [fate EXCEPT !.apart = S]
                 \/ \E S : fate' = [Fated(S) EXCEPT !.lapsed = @ \/ lapsed]
        BY <2>2, ZenonT(40) DEF Stop
      <4>. QED BY <1>1, <4>1 DEF IsFate
    <3>. QED BY <1>1, <3>1 DEF IsFate, Fated
  <2>3. CASE HoldOver BY <2>3, <1>1 DEF HoldOver, IsFate, Fated
  <2>4. CASE HubRestart BY <2>4, <1>1 DEF HubRestart, IsFate
  <2>. QED BY <2>1, <2>2, <2>3, <2>4
<1>3. ASSUME ~fate.stale PROVE WholeNext(fate'.skipped, left' = "no")
  BY <1>3, StopWhole, HoldOverWhole, ReaderWhole, OtherPostWhole, HubRestartWhole
<1>. QED BY <1>2, <1>3 DEF StepIsWhole

LEMMA SchedulerSteps ==
  ASSUME StreamInv, ~fate.stale => WholeNow(fate.skipped, left = "no"),
         Chunk \/ Results \/ Send \/ DeleteMessage
  PROVE  StepIsWhole
<1>1. IsFate(fate) BY InvTypes
<1>2. CASE Chunk BY <1>2, <1>1, FateIs, ChunkWhole DEF Chunk, OnChunk, StepIsWhole
<1>3. CASE Results
  <2>1. PICK r \in out.done : OnStreamSent(r) BY <1>3 DEF Results
  <2>2. plan' = plan /\ left' = left /\ fate' = Fated({}) BY <2>1 DEF OnStreamSent
  <2>3. fate'.stale = fate.stale /\ fate'.skipped = fate.skipped BY <1>1, <2>2, FateIs
  <2>4. ASSUME ~fate.stale PROVE WholeNext(fate.skipped, left = "no")
    <3> DEFINE b == left = "no"
    <3>1. WholeNow(fate.skipped, b) BY <2>4
    <3> HIDE DEF b
    <3>2. WholeNext(fate.skipped, b) BY <2>1, <3>1, OnStreamSentWhole
    <3>. QED BY <3>2 DEF b
  <2>. QED BY <2>2, <2>3, <2>4 DEF StepIsWhole
<1>4. CASE Send
  <2>1. plan' = plan /\ left' = left /\ fate'.stale = fate.stale
    <3>1. PICK k \in DOMAIN out.queue : \E joined \in {{}, Joins(k)} :
            Taken(k, joined) \/ EditGone(k, joined) \/ Refused(k, joined) \/ Failed(k, joined)
      BY <1>4 DEF Send
    <3>2. /\ plan' = plan /\ left' = left
          /\ \/ fate' = fate
             \/ \E S : fate' = [fate EXCEPT !.ahead = S]
             \/ \E S : fate' = [fate EXCEPT !.skipped = S]
             \/ \E S : fate' = [fate EXCEPT !.mended = S]
      BY <3>1 DEF Taken, EditGone, Refused, Failed
    <3>. QED BY <1>1, <3>2 DEF IsFate
  <2>2. ASSUME ~fate.stale PROVE WholeNext(fate'.skipped, left = "no")
    <3> DEFINE b == left = "no"
    <3>1. WholeNow(fate.skipped, b) BY <2>2
    <3> HIDE DEF b
    <3>2. WholeNext(fate'.skipped, b) BY <1>4, <3>1, SendWhole
    <3>. QED BY <3>2 DEF b
  <2>. QED BY <2>1, <2>2 DEF StepIsWhole
<1>5. CASE DeleteMessage
  <2>1. plan' = plan /\ left' = left /\ \E S : fate' = [fate EXCEPT !.skipped = S]
    BY <1>5 DEF DeleteMessage
  <2>2. fate'.stale = fate.stale BY <1>1, <2>1 DEF IsFate
  <2>3. ASSUME ~fate.stale PROVE WholeNext(fate'.skipped, left = "no")
    <3> DEFINE b == left = "no"
    <3>1. WholeNow(fate.skipped, b) BY <2>3
    <3> HIDE DEF b
    <3>2. WholeNext(fate'.skipped, b) BY <1>5, <3>1, DeleteMessageWhole
    <3>. QED BY <3>2 DEF b
  <2>. QED BY <2>1, <2>2, <2>3 DEF StepIsWhole
<1>. QED BY <1>2, <1>3, <1>4, <1>5

LEMMA LeavingSteps ==
  ASSUME StreamInv, StreamInv', ~fate.stale => WholeNow(fate.skipped, left = "no"), Leave \/ Drain
  PROVE  StepIsWhole
<1>1. IsFate(fate) BY InvTypes
<1>2. CASE Leave
  <2>1. plan' = plan /\ \E S : fate' = Fated(S) BY <1>2 DEF Leave
  <2>2. fate'.stale = fate.stale /\ fate'.skipped = fate.skipped BY <1>1, <2>1, FateIs
  <2>3. ASSUME ~fate.stale PROVE WholeNext(fate'.skipped, left' = "no")
    <3>1. WholeNext(fate.skipped, left = "no") /\ left' # "no" BY <1>2, <2>3, LeaveWhole
    <3> DEFINE a == left = "no"
               K == fate.skipped
    <3>2. WholeNext(K, a) BY <3>1
    <3> HIDE DEF a, K
    <3>3. WholeNext(K, FALSE) BY <2>1, <3>2, LeftNext
    <3>. QED BY <2>2, <3>1, <3>3 DEF K
  <2>. QED BY <2>1, <2>2, <2>3 DEF StepIsWhole
<1>3. CASE Drain
  <2>1. /\ plan' = plan
        /\ fate' = fate \/ \E o : fate' = [fate EXCEPT !.stale = @ \/ o]
    BY <1>3 DEF Drain
  <2>2. ~fate'.stale => ~fate.stale BY <1>1, <2>1 DEF IsFate
  <2>3. ASSUME ~fate'.stale PROVE WholeNext(fate'.skipped, left' = "no")
    <3> DEFINE a == left = "no"
    <3>1. WholeNow(fate.skipped, a) BY <2>2, <2>3
    <3> HIDE DEF a
    <3>2. WholeNow(fate.skipped, FALSE) BY <3>1, LeftWhole
    <3>3. WholeNext(fate'.skipped, FALSE) /\ left' # "no" BY <1>3, <2>3, <3>2, DrainWhole
    <3>. QED BY <3>3
  <2>. QED BY <2>1, <2>2, <2>3 DEF StepIsWhole
<1>. QED BY <1>2, <1>3
LEMMA StutterWhole ==
  ASSUME UNCHANGED streamVars, ~fate.stale => WholeNow(fate.skipped, left = "no")
  PROVE  StepIsWhole
<1>1. /\ plan' = plan /\ live' = live /\ offset' = offset /\ out' = out /\ topic' = topic
      /\ left' = left /\ fate' = fate
  BY DEF streamVars
<1>2. St' = St BY <1>1 DEF St
<1>3. ASSUME ~fate.stale PROVE WholeNext(fate'.skipped, left' = "no")
  <2> DEFINE a == left = "no"
             K == fate.skipped
  <2>1. WholeNow(K, a) BY <1>3
  <2>2. Whole(St, offset, live.readAt, K, a) BY <2>1 DEF WholeNow
  <2> HIDE DEF a, K
  <2>3. WholeNext(K, a) BY <1>1, <1>2, <2>2 DEF WholeNext
  <2>. QED BY <1>1, <2>3 DEF a, K
<1>. QED BY <1>1, <1>3 DEF StepIsWhole

LEMMA NextWhole ==
  ASSUME StreamInv, StreamInv', WholeInv, [Next]_streamVars
  PROVE  WholeInv'
BY StutterWhole, StreamSteps, SchedulerSteps, LeavingSteps, WholeAfter DEF WholeInv, Next,
   StepIsWhole

(* Nothing was read yet: every place is at the start of the transcript.    *)
LEMMA InitWhole ==
  ASSUME Init
  PROVE  WholeInv
<1> DEFINE s == St
           K == fate.skipped
           a == left = "no"
<1>1. /\ plan \in Plans /\ offset = [to |-> 0, call |-> FALSE] /\ live = NewLive(offset)
      /\ out = [queue |-> <<>>, broken |-> FALSE, done |-> {}] /\ topic = <<>>
  BY DEF Init
<1>2. Line = 1 .. Len(Script) /\ Len(Script) \in Nat BY <1>1, Transcript
<1>3. offset \in [to : Nat, call : BOOLEAN] /\ offset.to = 0 /\ offset.call = FALSE
  BY <1>1
<1>4. /\ live.waiting = <<>> /\ live.open = NoOpen /\ live.committed = NoOpen
      /\ live.readAt = 0 /\ live.call = FALSE
  BY <1>1, <1>3 DEF NewLive
<1>5. s.live = live /\ s.out.done = {} BY <1>1 DEF St
<1> HIDE DEF s, K, a
<1>6. DOMAIN s.live.waiting = {} /\ Places(s) = {0, 1} /\ Messages(s.live) = {}
  BY <1>4, <1>5 DEF Places, Messages, ToSet
<1>7. ToAt(s, 0, 0, 0) = 0 /\ ToAt(s, 1, 0, 0) = 0 BY <1>6 DEF ToAt
<1>8. AllCovered(s, 0, 0, K, a) BY <1>2, <1>6, <1>7 DEF Pieces, AllCovered
<1>9. OpenAt(s, 0) = NoOpen /\ OpenAt(s, 1) = NoOpen BY <1>4, <1>5, <1>6 DEF OpenAt
<1>10. \A k \in Places(s) : OpenGrows(s, k) BY <1>6, <1>9 DEF OpenGrows, NoOpen
<1>11. TextsGrow(s) /\ AbsorbsInto(s) /\ Fresh(s, a)
  BY <1>5, <1>6 DEF TextsGrow, AbsorbsInto, Fresh
<1>12. CallsRight(s, offset, 0) BY <1>2, <1>3, <1>4, <1>5, <1>6 DEF CallsRight, CallAt
<1>13. Whole(s, offset, live.readAt, K, a)
  BY <1>3, <1>4, <1>8, <1>10, <1>11, <1>12 DEF Whole
<1>. QED BY <1>13 DEF WholeInv, WholeNow, s, K, a

LEMMA WholeSkipsNothing ==
  ASSUME StreamInv, WholeInv
  PROVE  NothingSkipped
<1> DEFINE s == St
           K == fate.skipped
           a == left = "no"
<1>1. s \in StreamIn(Line, Ends) /\ s.topic = topic BY StIsSound
<1>2. CASE fate.stale BY <1>2 DEF NothingSkipped
<1>3. ASSUME ~fate.stale, NEW i \in Pieces, i <= offset.to
      PROVE  InTopic(i) \/ i \in K
  <2>1. AllCovered(s, offset.to, live.readAt, K, a) BY <1>3 DEF WholeInv, WholeNow, Whole
  <2> HIDE DEF s, K, a
  <2>2. 0 \in Places(s) /\ Before(s, 0) = {} BY <1>1, BeforeIs
  <2>3. ToAt(s, 0, offset.to, live.readAt) = offset.to BY DEF ToAt
  <2>4. Covered(s, i, 0, K, a) BY <1>3, <2>1, <2>2, <2>3 DEF AllCovered
  <2>5. i \in K \/ \E m \in DOMAIN s.topic : i \in ToSet(s.topic[m])
    BY <2>2, <2>4 DEF Covered, FirmIn
  <2>. QED BY <1>1, <2>5 DEF InTopic
<1>. QED BY <1>2, <1>3 DEF NothingSkipped

(* No line is skipped: what lies before the offset that a restart or a     *)
(* rewind reads from is in the topic, or was refused or deleted for good,  *)
(* whatever is refused, merged, broken off, rewound or folded in between,  *)
(* unless a session that left sent an older write again over a newer one.  *)
THEOREM NoLineSkipped == Spec => []NothingSkipped
<1>1. Init => WholeInv BY InitWhole
<1>2. StreamInv /\ StreamInv' /\ WholeInv /\ [Next]_streamVars => WholeInv' BY NextWhole
<1>3. StreamInv /\ WholeInv => NothingSkipped BY WholeSkipsNothing
<1>. QED BY <1>1, <1>2, <1>3, StreamInvariant, PTL DEF Spec
=============================================================================
