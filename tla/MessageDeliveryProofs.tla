----------------------- MODULE MessageDeliveryProofs -----------------------
(* Proofs about MessageDelivery, for every number of messages, links and   *)
(* sessions, every plan and every limit: the messages go in their order    *)
(* and once, no Resume button is forgotten, no kept message is stuck, and  *)
(* the hub keeps what it took, which is KeptMessages.                      *)
EXTENDS MessageDelivery, SequenceTheorems, WellFoundedInduction, TLAPS

----------------------------------------------------------------------------
(* Repeated tries.                                                         *)

LEMMA LeastNat ==
  ASSUME NEW S \in SUBSET Nat, S # {}
  PROVE  \E n \in S : \A m \in S : n <= m
<1> DEFINE R == OpToRel(<, Nat)
<1>1. PICK n \in S : \A m \in S : ~(<<m, n>> \in R)
  <2>1. IsWellFoundedOn(R, Nat) BY NatLessThanWellFounded
  <2> HIDE DEF R
  <2>. QED BY <2>1, WFMin
<1> HIDE DEF R
<1>2. \A m \in S : n <= m
  <2> SUFFICES ASSUME NEW m \in S, m < n PROVE FALSE
    BY <1>1
  <2>1. <<m, n>> \in R BY DEF R, OpToRel
  <2>. QED BY <1>1, <2>1
<1>. QED BY <1>2

(* The tries as a function.                                                *)
TriedUpTo(x, n, f) == f = [i \in 0 .. n |-> IF i = 0 THEN x ELSE Tried(f[i - 1])]

LEMMA TriesExist ==
  ASSUME NEW x, NEW n \in Nat
  PROVE  \E f : TriedUpTo(x, n, f)
<1> DEFINE Bad == { m \in Nat : ~\E f : TriedUpTo(x, m, f) }
<1>1. SUFFICES ASSUME Bad # {} PROVE FALSE
  OBVIOUS
<1>2. PICK m \in Bad : \A k \in Bad : m <= k BY <1>1, LeastNat
<1>3. CASE m = 0
  <2> DEFINE f == [i \in 0 .. 0 |-> x]
  <2>1. f = [i \in 0 .. 0 |-> IF i = 0 THEN x ELSE Tried(f[i - 1])] OBVIOUS
  <2>. QED BY <1>2, <1>3, <2>1 DEF TriedUpTo
<1>4. CASE m # 0
  <2>1. m - 1 \in Nat /\ m - 1 \notin Bad BY <1>2, <1>4
  <2>2. PICK g : TriedUpTo(x, m - 1, g) BY <2>1
  <2> DEFINE f == [i \in 0 .. m |-> IF i = m THEN Tried(g[m - 1]) ELSE g[i]]
  <2>3. ASSUME NEW i \in 0 .. m PROVE f[i] = IF i = 0 THEN x ELSE Tried(f[i - 1])
    <3>1. CASE i = m
      <4>1. f[m - 1] = g[m - 1] /\ f[m] = Tried(g[m - 1]) BY <1>4, <2>1
      <4> HIDE DEF f
      <4>. QED BY <1>4, <3>1, <4>1
    <3>2. CASE i # m
      <4>1. i \in 0 .. m - 1 /\ f[i] = g[i] /\ (i # 0 => f[i - 1] = g[i - 1])
        BY <1>4, <2>1, <3>2
      <4>2. g[i] = IF i = 0 THEN x ELSE Tried(g[i - 1]) BY <2>2, <4>1 DEF TriedUpTo
      <4> HIDE DEF f
      <4>. QED BY <4>1, <4>2
    <3>. QED BY <3>1, <3>2
  <2>4. f = [i \in 0 .. m |-> f[i]] OBVIOUS
  <2> HIDE DEF f
  <2>5. TriedUpTo(x, m, f) BY <2>3, <2>4 DEF TriedUpTo
  <2>. QED BY <1>2, <2>5
<1>. QED BY <1>3, <1>4

LEMMA TriesUnfold ==
  ASSUME NEW x, NEW n \in Nat
  PROVE  \E f : TriedUpTo(x, n, f) /\ Tries(x, n) = f[n]
<1> DEFINE f == CHOOSE f : f = [i \in 0 .. n |-> IF i = 0 THEN x ELSE Tried(f[i - 1])]
<1>1. f = [i \in 0 .. n |-> IF i = 0 THEN x ELSE Tried(f[i - 1])]
  BY TriesExist DEF TriedUpTo
<1>2. Tries(x, n) = f[n] BY DEF Tries
<1> HIDE DEF f
<1>. QED BY <1>1, <1>2 DEF TriedUpTo

(* What the tries keep: whatever every try of it keeps.                    *)
LEMMA TriesKeep ==
  ASSUME NEW S, NEW x \in S, NEW n \in Nat, \A y \in S : Tried(y) \in S
  PROVE  Tries(x, n) \in S
<1>1. PICK f : TriedUpTo(x, n, f) /\ Tries(x, n) = f[n] BY TriesUnfold
<1> DEFINE Bad == { i \in 0 .. n : f[i] \notin S }
<1>2. SUFFICES ASSUME Bad # {} PROVE FALSE
  BY <1>1
<1>3. PICK i \in Bad : \A j \in Bad : i <= j
  <2>1. Bad \in SUBSET Nat OBVIOUS
  <2> HIDE DEF Bad
  <2>. QED BY <1>2, <2>1, LeastNat
<1>4. CASE i = 0 BY <1>1, <1>3, <1>4 DEF TriedUpTo
<1>5. CASE i # 0
  <2>1. i - 1 \in 0 .. n /\ i - 1 \notin Bad BY <1>3, <1>5
  <2>2. f[i - 1] \in S /\ f[i] = Tried(f[i - 1]) BY <1>1, <1>3, <1>5, <2>1 DEF TriedUpTo
  <2>. QED BY <1>3, <2>2
<1>. QED BY <1>4, <1>5

----------------------------------------------------------------------------
(* What a step keeps of what it changes.                                   *)

Item == [id : Message, file : BOOLEAN, voice : {"none", "pending", "heard", "unheard"},
         history : {"none", "pending", "ready"}]

Flight == [number : Nat \ {0}, run : Nat, id : Nat \ {0}]

Note == [number : Nat, run : Nat, message : {NoPost} \cup Flight]

Buttons == [sent : Nat, shown : SUBSET Flight, edits : SUBSET Flight, lost : SUBSET Flight]

Buffer == [messages : Seq(Item), overflow_told : BOOLEAN, queued_told : BOOLEAN, resume : Note]

Gather == [start : 0 .. Count, due : BOOLEAN]

Actor == [hearing : SUBSET Message, showing : SUBSET Message, compressing : 0 .. Count,
          gather : Gather, losses : (0 .. Count) \X Nat, resume_sends : Nat]

Outcome == {"none", "running", "failed", "closed", "handed"}

Fetch == [msg : 0 .. Count, conn : 0 .. MaxConns, outcome : Outcome]

LinkState == [conn : 0 .. MaxConns, open : BOOLEAN, files : BOOLEAN, queued : 0 .. QueueMax,
              out : Seq(Message)]

State == [slot : Buffer, actor : Actor, fetch : Fetch, link : LinkState, flight : SUBSET Flight,
          buttons : Buttons, handed : SUBSET Message, told : SUBSET Message,
          blocked : BOOLEAN]

Session == [run : 1 .. MaxRuns, alive : BOOLEAN, conn : 0 .. MaxConns]

Increasing(s) == \A i, j \in DOMAIN s : i < j => s[i] < s[j]

Ordered(ms) == \A i, j \in DOMAIN ms : i < j => ms[i].id < ms[j].id

(* The message of a Resume note names its session.                         *)
NoteOK(r) == r.message = NoPost \/ r.message.run = r.run

BufferOK(b) ==
  b \in Buffer /\ Len(b.messages) <= MaxBuffered /\ Ordered(b.messages) /\ NoteOK(b.resume)

(* A file on its way stays at the front of the slot.                       *)
FrontOK(ms, f) ==
  f # NoFetch => f.outcome # "none" /\ ms # <<>> /\ ms[1].id = f.msg /\ ms[1].file

(* What is kept comes after what went; a file that is in the queue may be  *)
(* the front of what is kept.                                              *)
Frontier(ms, f, l) ==
  \A i \in DOMAIN l.out, j \in DOMAIN ms :
    \/ l.out[i] < ms[j].id
    \/ f.outcome = "handed" /\ f.conn = l.conn /\ l.out[i] = f.msg /\ ms[j].id = f.msg

(* A file on its way to this link comes after what went there.             *)
RunningOK(f, l) ==
  f.outcome = "running" /\ f.conn = l.conn => \A i \in DOMAIN l.out : l.out[i] < f.msg

(* The answers and edits that are out, and the buttons that show.          *)
ResumeOK(note, sends, fl, bs) ==
  /\ \A f \in fl : /\ f.number <= sends /\ f.id <= bs.sent
                   /\ f.number = note.number => f.run = note.run
  /\ note.message.id <= bs.sent /\ \A e \in bs.edits : e.id <= bs.sent
  /\ note.message \notin fl \cup bs.edits /\ fl \cap bs.edits = {}
  /\ bs.shown \subseteq {note.message} \cup bs.edits \cup bs.lost

Fine(s, x) ==
  /\ x \in State
  /\ BufferOK(x.slot)
  /\ FrontOK(x.slot.messages, x.fetch)
  /\ Live(s) => Frontier(x.slot.messages, x.fetch, x.link)
  /\ RunningOK(x.fetch, x.link) /\ Increasing(x.link.out) /\ x.fetch.conn <= x.link.conn
  /\ ResumeOK(x.slot.resume, x.actor.resume_sends, x.flight, x.buttons)
  /\ disk.resume.message.id \in 0 .. x.buttons.sent

(* Messages leave what waits for the handed or the told ones only.         *)
Flows(k, h, t, k2, h2, t2) ==
  /\ k2 \subseteq k /\ k \subseteq k2 \cup h2 \cup t2
  /\ h \subseteq h2 /\ h2 \subseteq h \cup k
  /\ t \subseteq t2 /\ t2 \subseteq t \cup k

IdsOf(ms) == { ms[i].id : i \in DOMAIN ms }

Follows(x, y) ==
  /\ Flows(IdsOf(x.slot.messages), x.handed, x.told, IdsOf(y.slot.messages), y.handed, y.told)
  /\ ToSet(y.link.out) \subseteq ToSet(x.link.out) \cup IdsOf(x.slot.messages)
  /\ y.link.conn = x.link.conn

LEMMA FollowsTransitive ==
  ASSUME NEW x, NEW y, NEW z, Follows(x, y), Follows(y, z)
  PROVE  Follows(x, z)
BY DEF Follows, Flows

LEMMA FollowsItself ==
  ASSUME NEW x, NEW y, y.slot.messages = x.slot.messages, y.handed = x.handed, y.told = x.told,
         y.link = x.link
  PROVE  Follows(x, y)
BY DEF Follows, Flows

LEMMA IdsAre ==
  ASSUME NEW ms \in Seq(Item)
  PROVE  /\ Ids(ms) \in Seq(Message) /\ Len(Ids(ms)) = Len(ms) /\ ToSet(Ids(ms)) = IdsOf(ms)
         /\ \A i \in DOMAIN ms : ms[i].id \in Message /\ ms[i].id \in Nat /\ Ids(ms)[i] = ms[i].id
<1>1. DOMAIN ms = 1 .. Len(ms) /\ Len(ms) \in Nat OBVIOUS
<1>2. \A i \in DOMAIN ms : ms[i] \in Item OBVIOUS
<1>3. \A i \in DOMAIN ms : ms[i].id \in Message BY <1>2 DEF Item
<1>4. Message \subseteq Nat BY DEF Message
<1>5. Ids(ms) = [i \in 1 .. Len(ms) |-> ms[i].id] BY <1>1 DEF Ids
<1>6. Ids(ms) \in Seq(Message) /\ Len(Ids(ms)) = Len(ms) BY <1>1, <1>3, <1>5
<1>7. ToSet(Ids(ms)) = IdsOf(ms) BY <1>1, <1>5 DEF ToSet, IdsOf
<1>. QED BY <1>1, <1>3, <1>4, <1>5, <1>6, <1>7

LEMMA BlockedOK ==
  ASSUME NEW s, NEW x, Fine(s, x)
  PROVE  Fine(s, Blocked(x)) /\ Follows(x, Blocked(x))
<1> DEFINE y == Blocked(x)
<1>1. /\ y \in State /\ y.slot = x.slot /\ y.actor = x.actor /\ y.fetch = x.fetch
      /\ y.link = x.link /\ y.flight = x.flight /\ y.buttons = x.buttons
      /\ y.handed = x.handed /\ y.told = x.told
  BY DEF Fine, State, Blocked
<1> HIDE DEF y
<1>2. Fine(s, y) /\ Follows(x, y) BY <1>1, FollowsItself DEF Fine
<1>. QED BY <1>2 DEF y

(* A step of the actor's own notes.                                        *)
LEMMA NotedOK ==
  ASSUME NEW s, NEW x, Fine(s, x), NEW y \in State,
         y.slot = x.slot, y.fetch = x.fetch, y.link = x.link, y.flight = x.flight,
         y.buttons = x.buttons, y.handed = x.handed, y.told = x.told,
         y.actor.resume_sends = x.actor.resume_sends
  PROVE  Fine(s, y) /\ Follows(x, y)
BY FollowsItself DEF Fine

LEMMA SeqChanged ==
  ASSUME NEW S, NEW a \in Seq(S), NEW b, b = [i \in DOMAIN a |-> b[i]],
         \A i \in DOMAIN a : b[i] \in S
  PROVE  b \in Seq(S) /\ Len(b) = Len(a) /\ DOMAIN b = DOMAIN a
OBVIOUS

(* The kept messages change, and stay who they are.                        *)
LEMMA SameMessages ==
  ASSUME NEW s, NEW x, Fine(s, x), NEW ms \in Seq(Item), Len(ms) = Len(x.slot.messages),
         \A i \in 1 .. Len(ms) : ms[i].id = x.slot.messages[i].id,
         x.fetch # NoFetch => ms[1].file
  PROVE  LET y == [x EXCEPT !.slot.messages = ms]
         IN  /\ Fine(s, y) /\ Follows(x, y) /\ y.slot.messages = ms
             /\ y.fetch = x.fetch /\ y.link = x.link /\ y.actor = x.actor
<1> DEFINE y == [x EXCEPT !.slot.messages = ms]
           old == x.slot.messages
<1>1. x \in State /\ x.slot \in Buffer /\ old \in Seq(Item) /\ Len(old) \in Nat
      /\ DOMAIN old = 1 .. Len(old) /\ DOMAIN ms = 1 .. Len(ms)
  BY DEF Fine, State, Buffer
<1>2. /\ [x.slot EXCEPT !.messages = ms] \in Buffer
      /\ [x.slot EXCEPT !.messages = ms].messages = ms
      /\ [x.slot EXCEPT !.messages = ms].resume = x.slot.resume
  BY <1>1 DEF Buffer
<1>3. /\ y \in State /\ y.slot = [x.slot EXCEPT !.messages = ms] /\ y.actor = x.actor
      /\ y.fetch = x.fetch /\ y.link = x.link /\ y.flight = x.flight /\ y.buttons = x.buttons
      /\ y.handed = x.handed /\ y.told = x.told
  BY <1>1, <1>2 DEF State
<1>4. y.slot \in Buffer /\ y.slot.messages = ms /\ y.slot.resume = x.slot.resume
  BY <1>2, <1>3
<1> HIDE DEF y
<1>5. BufferOK(y.slot) BY <1>1, <1>4 DEF Fine, BufferOK, Ordered
<1>6. FrontOK(y.slot.messages, y.fetch)
  <2> SUFFICES ASSUME x.fetch # NoFetch
               PROVE  x.fetch.outcome # "none" /\ ms # <<>> /\ ms[1].id = x.fetch.msg /\ ms[1].file
    BY <1>3, <1>4 DEF FrontOK
  <2>1. x.fetch.outcome # "none" /\ old # <<>> /\ old[1].id = x.fetch.msg
    BY DEF Fine, FrontOK
  <2>2. Len(ms) # 0 BY <1>1, <2>1
  <2>. QED BY <1>1, <2>1, <2>2
<1>7. Live(s) => Frontier(y.slot.messages, y.fetch, y.link)
  BY <1>1, <1>3, <1>4 DEF Fine, Frontier
<1>8. Fine(s, y) BY <1>3, <1>4, <1>5, <1>6, <1>7 DEF Fine
<1>9. IdsOf(y.slot.messages) = IdsOf(old) BY <1>1, <1>4 DEF IdsOf
<1>10. Follows(x, y) BY <1>3, <1>9 DEF Follows, Flows
<1>. QED BY <1>3, <1>4, <1>8, <1>10 DEF y

LEMMA SetVoiceOK ==
  ASSUME NEW s, NEW x, Fine(s, x), NEW m, NEW state \in {"heard", "unheard"}
  PROVE  LET y == SetVoice(x, m, state)
         IN  Fine(s, y) /\ Follows(x, y) /\ y.fetch = x.fetch /\ y.link = x.link
             /\ y.actor = x.actor
<1> DEFINE old == x.slot.messages
           ms == [i \in DOMAIN old |-> IF old[i].id = m /\ old[i].voice = "pending"
                                       THEN [old[i] EXCEPT !.voice = state] ELSE old[i]]
<1>1. old \in Seq(Item) /\ (x.fetch # NoFetch => 1 \in DOMAIN old /\ old[1].file)
  <2>1. old \in Seq(Item) BY DEF Fine, State, Buffer
  <2>2. x.fetch # NoFetch => old # <<>> /\ old[1].file BY DEF Fine, FrontOK
  <2> HIDE DEF old
  <2>. QED BY <2>1, <2>2
<1>2. SetVoice(x, m, state) = [x EXCEPT !.slot.messages = ms] BY DEF SetVoice
<1> HIDE DEF old
<1>3. ASSUME NEW i \in DOMAIN old
      PROVE  ms[i] \in Item /\ ms[i].id = old[i].id /\ ms[i].file = old[i].file
  <2>1. old[i] \in Item /\ ms[i] \in {old[i], [old[i] EXCEPT !.voice = state]}
    BY <1>1, <1>3
  <2> HIDE DEF ms
  <2>. QED BY <2>1 DEF Item
<1>4. ms = [i \in DOMAIN old |-> ms[i]] OBVIOUS
<1> HIDE DEF ms
<1>5. ms \in Seq(Item) /\ Len(ms) = Len(old) /\ DOMAIN ms = DOMAIN old
  BY <1>1, <1>3, <1>4, SeqChanged
<1>6. /\ \A i \in 1 .. Len(ms) : ms[i].id = old[i].id
      /\ x.fetch # NoFetch => ms[1].file
  BY <1>1, <1>3, <1>5
<1> DEFINE y == [x EXCEPT !.slot.messages = ms]
<1>7. /\ Fine(s, y) /\ Follows(x, y) /\ y.fetch = x.fetch /\ y.link = x.link
      /\ y.actor = x.actor
  <2>1. /\ Len(ms) = Len(x.slot.messages)
        /\ \A i \in 1 .. Len(ms) : ms[i].id = x.slot.messages[i].id
    BY <1>5, <1>6 DEF old
  <2>. QED BY <1>5, <1>6, <2>1, SameMessages, ZenonT(60)
<1>. QED BY <1>2, <1>7

LEMMA Joined ==
  ASSUME NEW S, NEW a \in Seq(S), NEW b \in Seq(S)
  PROVE  /\ a \o b \in Seq(S) /\ Len(a \o b) = Len(a) + Len(b)
         /\ \A i \in DOMAIN (a \o b) :
              \/ i \in DOMAIN a /\ (a \o b)[i] = a[i]
              \/ i > Len(a) /\ i - Len(a) \in DOMAIN b /\ (a \o b)[i] = b[i - Len(a)]
BY ConcatProperties

LEMMA JoinedIncreasing ==
  ASSUME NEW a \in Seq(Message), NEW b \in Seq(Message), Increasing(a), Increasing(b),
         \A i \in DOMAIN a, j \in DOMAIN b : a[i] < b[j]
  PROVE  Increasing(a \o b)
<1> DEFINE c == a \o b
<1>1. /\ c \in Seq(Message) /\ Len(c) = Len(a) + Len(b)
      /\ \A i \in DOMAIN c : \/ i \in DOMAIN a /\ c[i] = a[i]
                             \/ i > Len(a) /\ i - Len(a) \in DOMAIN b /\ c[i] = b[i - Len(a)]
  BY Joined
<1>2. DOMAIN a = 1 .. Len(a) /\ Len(a) \in Nat /\ DOMAIN c = 1 .. Len(c) /\ Len(c) \in Nat
  BY <1>1
<1> HIDE DEF c
<1>3. ASSUME NEW i \in DOMAIN c, NEW j \in DOMAIN c, i < j PROVE c[i] < c[j]
  <2>1. CASE j \in DOMAIN a /\ c[j] = a[j] BY <1>2, <1>3, <2>1, <1>1 DEF Increasing
  <2>2. CASE j > Len(a) /\ j - Len(a) \in DOMAIN b /\ c[j] = b[j - Len(a)]
    BY <2>2, <1>2, <1>3, <1>1 DEF Increasing
  <2>. QED BY <1>1, <2>1, <2>2
<1>. QED BY <1>3 DEF Increasing, c

LEMMA RestLength ==
  ASSUME NEW l \in Nat, NEW n \in Nat, n <= l
  PROVE  (IF n + 1 <= l THEN l - (n + 1) + 1 ELSE 0) = l - n
OBVIOUS

(* The messages that go, and what stays.                                   *)
LEMMA Parted ==
  ASSUME NEW ms \in Seq(Item), NEW n \in 1 .. Len(ms)
  PROVE  LET rest == SubSeq(ms, n + 1, Len(ms))
             gone == Ids(SubSeq(ms, 1, n))
         IN  /\ rest \in Seq(Item) /\ Len(rest) = Len(ms) - n
             /\ \A i \in DOMAIN rest : i + n \in DOMAIN ms /\ i + n > n /\ rest[i] = ms[i + n]
             /\ gone \in Seq(Message) /\ Len(gone) = n
             /\ \A i \in DOMAIN gone : i \in DOMAIN ms /\ i <= n /\ gone[i] = ms[i].id
             /\ ToSet(gone) = { ms[i].id : i \in 1 .. n }
             /\ IdsOf(ms) = ToSet(gone) \cup IdsOf(rest)
<1> DEFINE rest == SubSeq(ms, n + 1, Len(ms))
           part == SubSeq(ms, 1, n)
           gone == Ids(part)
<1>1. Len(ms) \in Nat /\ DOMAIN ms = 1 .. Len(ms) /\ n \in Nat /\ n <= Len(ms) OBVIOUS
<1>2. /\ rest \in Seq(Item) /\ Len(rest) = Len(ms) - n
      /\ \A i \in 1 .. Len(ms) - n : rest[i] = ms[i + n]
  <2>1. n + 1 \in Int /\ Len(ms) \in Int /\ \A i \in n + 1 .. Len(ms) : ms[i] \in Item
    BY <1>1
  <2>2. /\ rest \in Seq(Item)
        /\ Len(rest) = IF n + 1 <= Len(ms) THEN Len(ms) - (n + 1) + 1 ELSE 0
        /\ \A i \in 1 .. Len(ms) - (n + 1) + 1 : rest[i] = ms[(n + 1) + i - 1]
    BY <2>1, SubSeqProperties
  <2> HIDE DEF rest
  <2>3. Len(rest) = Len(ms) - n BY <2>2, <1>1, RestLength
  <2>4. ASSUME NEW i \in 1 .. Len(ms) - n PROVE rest[i] = ms[i + n]
    <3>1. i \in 1 .. Len(ms) - (n + 1) + 1 /\ (n + 1) + i - 1 = i + n BY <1>1
    <3>2. rest[i] = ms[(n + 1) + i - 1] BY <2>2, <3>1
    <3>. QED BY <3>1, <3>2
  <2>. QED BY <2>2, <2>3, <2>4
<1>3. /\ part \in Seq(Item) /\ Len(part) = n /\ \A i \in 1 .. n : part[i] = ms[i]
  BY <1>1, SubSeqProperties
<1> HIDE DEF rest, part
<1>4. /\ gone \in Seq(Message) /\ Len(gone) = n /\ ToSet(gone) = IdsOf(part)
      /\ \A i \in DOMAIN part : gone[i] = part[i].id
  BY <1>3, IdsAre
<1>5. DOMAIN part = 1 .. n /\ DOMAIN gone = 1 .. n /\ DOMAIN rest = 1 .. Len(ms) - n
  BY <1>1, <1>2, <1>3, <1>4
<1> HIDE DEF gone
<1>6. ToSet(gone) = { ms[i].id : i \in 1 .. n } BY <1>3, <1>4, <1>5 DEF IdsOf
<1>7. \A i \in DOMAIN rest : i + n \in DOMAIN ms /\ i + n > n /\ rest[i] = ms[i + n]
  BY <1>1, <1>2, <1>5
<1>8. IdsOf(ms) = ToSet(gone) \cup IdsOf(rest)
  <2>1. ASSUME NEW i \in DOMAIN ms, i > n PROVE ms[i].id \in IdsOf(rest)
    <3>1. i - n \in DOMAIN rest /\ rest[i - n] = ms[i] BY <1>1, <1>2, <1>5, <2>1
    <3>. QED BY <3>1 DEF IdsOf
  <2>2. IdsOf(rest) \subseteq IdsOf(ms) BY <1>7 DEF IdsOf
  <2>3. ToSet(gone) \subseteq IdsOf(ms) BY <1>1, <1>6 DEF IdsOf
  <2>4. ASSUME NEW i \in DOMAIN ms PROVE ms[i].id \in ToSet(gone) \cup IdsOf(rest)
    BY <1>1, <1>6, <2>1
  <2>. QED BY <2>2, <2>3, <2>4 DEF IdsOf
<1>9. \A i \in DOMAIN gone : i \in DOMAIN ms /\ i <= n /\ gone[i] = ms[i].id
  BY <1>1, <1>3, <1>4, <1>5
<1>. QED BY <1>2, <1>4, <1>6, <1>7, <1>8, <1>9 DEF rest, gone, part

(* Whatever an actor makes of the first n messages: they went to the link, *)
(* or their authors were told.                                             *)
LEMMA DrainOK ==
  ASSUME DeliveryAssumption, NEW s, NEW x, Fine(s, x), Live(s), x.fetch = NoFetch,
         NEW n \in 1 .. Len(x.slot.messages), NEW y \in State,
         y.slot = x.slot, y.actor = x.actor, y.fetch = x.fetch, y.flight = x.flight,
         y.buttons = x.buttons,
         LET gone == Ids(SubSeq(x.slot.messages, 1, n))
         IN  /\ \/ y.link = x.link /\ y.handed = x.handed
                \/ /\ y.link = [x.link EXCEPT !.queued = @ + 1, !.out = @ \o gone]
                   /\ y.handed = x.handed \cup ToSet(gone)
             /\ x.told \subseteq y.told /\ y.told \subseteq x.told \cup ToSet(gone)
             /\ ToSet(gone) \subseteq y.handed \cup y.told
  PROVE  Fine(s, Drained(y, n)) /\ Follows(x, Drained(y, n))
<1> DEFINE ms == x.slot.messages
           rest == SubSeq(ms, n + 1, Len(ms))
           gone == Ids(SubSeq(ms, 1, n))
           z == Drained(y, n)
           g == IF rest = <<>> \/ Head(rest).file THEN NoGather ELSE x.actor.gather
<1>1. /\ x \in State /\ x.slot \in Buffer /\ ms \in Seq(Item) /\ x.actor \in Actor
      /\ x.link \in LinkState /\ y.link \in LinkState
  BY DEF Fine, State, Buffer
<1>2. /\ rest \in Seq(Item) /\ Len(rest) = Len(ms) - n
      /\ \A i \in DOMAIN rest : i + n \in DOMAIN ms /\ i + n > n /\ rest[i] = ms[i + n]
      /\ gone \in Seq(Message) /\ Len(gone) = n
      /\ \A i \in DOMAIN gone : i \in DOMAIN ms /\ i <= n /\ gone[i] = ms[i].id
      /\ ToSet(gone) = { ms[i].id : i \in 1 .. n }
      /\ IdsOf(ms) = ToSet(gone) \cup IdsOf(rest)
  <2> HIDE DEF ms
  <2>1. n \in 1 .. Len(ms) BY DEF ms
  <2>. QED BY <1>1, <2>1, Parted
<1>3. z = [y EXCEPT !.slot.messages = rest, !.actor.gather = g] BY DEF Drained
<1>4. g \in Gather BY <1>1, SMTT(30) DEF Actor, Gather, NoGather, NoMessage, DeliveryAssumption
<1> HIDE DEF rest, gone, g, z
<1>5. /\ [x.slot EXCEPT !.messages = rest] \in Buffer
      /\ [x.slot EXCEPT !.messages = rest].messages = rest
      /\ [x.slot EXCEPT !.messages = rest].resume = x.slot.resume
      /\ [x.actor EXCEPT !.gather = g] \in Actor
      /\ [x.actor EXCEPT !.gather = g].resume_sends = x.actor.resume_sends
  BY <1>1, <1>2, <1>4 DEF Buffer, Actor
<1>6. z = [y EXCEPT !.slot = [x.slot EXCEPT !.messages = rest],
                    !.actor = [x.actor EXCEPT !.gather = g]]
  BY <1>3
<1>7. /\ z \in State /\ z.slot = [x.slot EXCEPT !.messages = rest]
      /\ z.actor = [x.actor EXCEPT !.gather = g] /\ z.fetch = NoFetch
      /\ z.flight = x.flight /\ z.buttons = x.buttons
      /\ z.handed = y.handed /\ z.told = y.told /\ z.link = y.link
  BY <1>5, <1>6 DEF State
<1>8. /\ \/ y.link = x.link /\ y.handed = x.handed
         \/ /\ y.link = [x.link EXCEPT !.queued = @ + 1, !.out = @ \o gone]
            /\ y.handed = x.handed \cup ToSet(gone)
      /\ x.told \subseteq y.told /\ y.told \subseteq x.told \cup ToSet(gone)
      /\ ToSet(gone) \subseteq y.handed \cup y.told
  BY DEF gone, ms
<1>9. z.slot \in Buffer /\ z.slot.messages = rest /\ z.slot.resume = x.slot.resume
  BY <1>5, <1>7
<1>10. Ordered(ms) /\ Len(ms) <= MaxBuffered /\ Len(ms) \in Nat /\ MaxBuffered \in Nat
       /\ DOMAIN ms = 1 .. Len(ms) /\ n \in Nat
  BY <1>1 DEF Fine, BufferOK, DeliveryAssumption
<1>11. Ordered(rest) /\ Len(rest) <= MaxBuffered /\ Len(rest) \in Nat
  <2>1. ASSUME NEW i \in DOMAIN rest, NEW j \in DOMAIN rest, i < j
        PROVE  rest[i].id < rest[j].id
    <3>1. i + n \in DOMAIN ms /\ j + n \in DOMAIN ms /\ i + n < j + n
      BY <1>2, <1>10, <2>1, SMTT(30)
    <3>. QED BY <1>2, <1>10, <3>1 DEF Ordered
  <2>. QED BY <1>2, <1>10, <2>1, SMTT(30) DEF Ordered
<1>12. BufferOK(z.slot) BY <1>9, <1>11 DEF Fine, BufferOK
<1>13. \A i \in DOMAIN x.link.out, j \in DOMAIN ms : x.link.out[i] < ms[j].id
  BY DEF Fine, Frontier, NoFetch
<1>14. \A i \in DOMAIN gone, j \in DOMAIN rest : gone[i] < rest[j].id
  <2> SUFFICES ASSUME NEW i \in DOMAIN gone, NEW j \in DOMAIN rest PROVE gone[i] < rest[j].id
    OBVIOUS
  <2>1. i \in DOMAIN ms /\ j + n \in DOMAIN ms /\ i < j + n BY <1>2, <1>10, SMTT(30)
  <2>. QED BY <1>2, <1>10, <2>1 DEF Ordered
<1>15. Increasing(gone)
  <2> SUFFICES ASSUME NEW i \in DOMAIN gone, NEW j \in DOMAIN gone, i < j PROVE gone[i] < gone[j]
    BY DEF Increasing
  <2>1. i \in DOMAIN ms /\ j \in DOMAIN ms /\ gone[i] = ms[i].id /\ gone[j] = ms[j].id
    BY <1>2
  <2>2. ms[i].id < ms[j].id BY <1>10, <2>1 DEF Ordered
  <2>. QED BY <2>1, <2>2
<1>16. x.link.out \in Seq(Message) /\ Increasing(x.link.out) BY <1>1 DEF Fine, LinkState
<1>17. /\ Increasing(z.link.out) /\ z.link.conn = x.link.conn /\ z.link.open = x.link.open
       /\ Frontier(rest, NoFetch, z.link)
       /\ ToSet(z.link.out) \subseteq ToSet(x.link.out) \cup ToSet(gone)
  <2>1. CASE y.link = x.link
    <3>1. \A i \in DOMAIN x.link.out, j \in DOMAIN rest : x.link.out[i] < rest[j].id
      BY <1>2, <1>13
    <3>. QED BY <1>7, <1>16, <2>1, <3>1 DEF Frontier
  <2>2. CASE y.link = [x.link EXCEPT !.queued = @ + 1, !.out = @ \o gone]
    <3> DEFINE out == x.link.out
    <3>1. z.link.out = out \o gone /\ z.link.conn = x.link.conn /\ z.link.open = x.link.open
      BY <1>1, <1>7, <2>2 DEF LinkState
    <3> HIDE DEF out
    <3>2. \A i \in DOMAIN out, j \in DOMAIN gone : out[i] < gone[j]
      BY <1>2, <1>13 DEF out
    <3>3. out \in Seq(Message) /\ Increasing(out) BY <1>16 DEF out
    <3>4. Increasing(out \o gone) BY <1>2, <1>15, <3>2, <3>3, JoinedIncreasing
    <3>5. ASSUME NEW i \in DOMAIN (out \o gone), NEW j \in DOMAIN rest
          PROVE  (out \o gone)[i] < rest[j].id
      <4>1. \/ i \in DOMAIN out /\ (out \o gone)[i] = out[i]
            \/ /\ i > Len(out) /\ i - Len(out) \in DOMAIN gone
               /\ (out \o gone)[i] = gone[i - Len(out)]
        <5>1. gone \in Seq(Message) /\ out \in Seq(Message) BY <1>2, <3>3
        <5>2. \A k \in DOMAIN (out \o gone) :
                \/ k \in DOMAIN out /\ (out \o gone)[k] = out[k]
                \/ /\ k > Len(out) /\ k - Len(out) \in DOMAIN gone
                   /\ (out \o gone)[k] = gone[k - Len(out)]
          BY <5>1, Joined, SMTT(30)
        <5>. QED BY <5>2
      <4>2. \A k \in DOMAIN out : out[k] < rest[j].id BY <1>2, <1>13 DEF out
      <4>. QED BY <1>14, <4>1, <4>2
    <3>6. ToSet(out \o gone) \subseteq ToSet(out) \cup ToSet(gone)
      <4>1. \A k \in DOMAIN (out \o gone) :
              \/ k \in DOMAIN out /\ (out \o gone)[k] = out[k]
              \/ /\ k > Len(out) /\ k - Len(out) \in DOMAIN gone
                 /\ (out \o gone)[k] = gone[k - Len(out)]
        BY <1>2, <3>3, Joined, SMTT(30)
      <4>. QED BY <4>1 DEF ToSet
    <3>. QED BY <3>1, <3>4, <3>5, <3>6 DEF Frontier, out
  <2>. QED BY <1>8, <2>1, <2>2
<1>18. Fine(s, z) BY <1>7, <1>17, <1>5, <1>9, <1>12 DEF FrontOK, RunningOK, NoFetch, Fine
<1>19. Follows(x, z) BY <1>2, <1>9, <1>8, <1>17, <1>7 DEF Flows, Follows, ms
<1>. QED BY <1>18, <1>19 DEF z

LEMMA MostNat ==
  ASSUME NEW l \in Nat, NEW S \in SUBSET (0 .. l), S # {}
  PROVE  \E n \in S : \A m \in S : n >= m
<1> DEFINE D == { k \in 0 .. l : l - k \in S }
<1>1. D \in SUBSET Nat OBVIOUS
<1>2. PICK s \in S : TRUE OBVIOUS
<1>3. l - s \in 0 .. l /\ l - (l - s) = s BY <1>2
<1>4. D # {} BY <1>2, <1>3
<1>5. PICK k \in D : \A j \in D : k <= j
  <2> HIDE DEF D
  <2>. QED BY <1>1, <1>4, LeastNat
<1>6. l - k \in S BY <1>5
<1>7. ASSUME NEW m \in S PROVE l - k >= m
  <2>1. l - m \in 0 .. l /\ l - (l - m) = m BY <1>7
  <2>2. l - m \in D BY <1>7, <2>1
  <2>3. k <= l - m /\ k \in 0 .. l /\ m \in 0 .. l BY <1>5, <2>2
  <2> HIDE DEF D
  <2>. QED BY <2>3
<1>. QED BY <1>6, <1>7

LEMMA BurstOK ==
  ASSUME DeliveryAssumption, NEW ms \in Seq(Item), Len(ms) > 0, ~ms[1].file
  PROVE  Burst(ms) \in 1 .. Len(ms)
<1> DEFINE fits(n) == \A i \in 1 .. n : ~ms[i].file /\ (i > 1 => ms[i].history # "pending")
           top == Min({Len(ms), MaxBurst})
           S == { n \in 1 .. top : fits(n) }
<1>1. Len(ms) \in Nat \ {0} /\ MaxBurst \in Nat \ {0} BY DEF DeliveryAssumption
<1>2. top \in {Len(ms), MaxBurst} /\ top <= Len(ms) /\ top <= MaxBurst
  <2>1. \E a \in {Len(ms), MaxBurst} : \A b \in {Len(ms), MaxBurst} : b >= a BY <1>1
  <2>2. top \in {Len(ms), MaxBurst} /\ \A b \in {Len(ms), MaxBurst} : b >= top
    BY <1>1, <2>1 DEF Min
  <2> HIDE DEF top
  <2>. QED BY <1>1, <2>2
<1>3. Burst(ms) = Max(S) BY DEF Burst
<1> HIDE DEF top
<1>4. 1 \in S /\ S \in SUBSET (0 .. Len(ms)) BY <1>1, <1>2
<1>5. \E n \in S : \A m \in S : n >= m
  <2> HIDE DEF S
  <2>. QED BY <1>1, <1>4, MostNat
<1>6. Max(S) \in S
  <2> HIDE DEF S
  <2>. QED BY <1>5 DEF Max
<1>7. S \subseteq 1 .. Len(ms) BY <1>1, <1>2
<1>. QED BY <1>3, <1>6, <1>7

LEMMA HandedOK ==
  ASSUME DeliveryAssumption, NEW x \in State, Fits(x), NEW ids \in Seq(Message)
  PROVE  LET y == Handed(x, ids)
         IN  /\ y \in State /\ y.slot = x.slot /\ y.actor = x.actor /\ y.fetch = x.fetch
             /\ y.flight = x.flight /\ y.buttons = x.buttons /\ y.told = x.told
             /\ y.link = [x.link EXCEPT !.queued = @ + 1, !.out = @ \o ids]
             /\ y.handed = x.handed \cup ToSet(ids)
<1> DEFINE l == [x.link EXCEPT !.queued = @ + 1, !.out = @ \o ids]
           h == x.handed \cup ToSet(ids)
           y == Handed(x, ids)
<1>1. x.link \in LinkState /\ x.link.queued + 1 \in 0 .. QueueMax
  BY DEF State, LinkState, Fits, DeliveryAssumption
<1>2. x.link.out \o ids \in Seq(Message) BY <1>1, Joined DEF LinkState
<1>3. l \in LinkState BY <1>1, <1>2 DEF LinkState
<1>4. h \in SUBSET Message BY DEF ToSet, State
<1>5. y = [x EXCEPT !.link = l, !.handed = h] BY DEF Handed
<1> HIDE DEF l, h, y
<1>6. /\ y \in State /\ y.slot = x.slot /\ y.actor = x.actor /\ y.fetch = x.fetch
      /\ y.flight = x.flight /\ y.buttons = x.buttons /\ y.told = x.told
      /\ y.link = l /\ y.handed = h
  BY <1>3, <1>4, <1>5 DEF State
<1>. QED BY <1>6 DEF y, l, h

LEMMA TextStepOK ==
  ASSUME DeliveryAssumption, NEW s, NEW x, Fine(s, x), Live(s), x.fetch = NoFetch,
         x.slot.messages # <<>>, ~x.slot.messages[1].file
  PROVE  Fine(s, TextStep(x)) /\ Follows(x, TextStep(x))
<1> DEFINE ms == x.slot.messages
           n == IF x.actor.gather = NoGather \/ BeforeBurst(x) THEN 1 ELSE Burst(ms)
           waits == x.actor.gather # NoGather /\ ~BeforeBurst(x) /\ ~x.actor.gather.due
           ids == Ids(SubSeq(ms, 1, n))
           y == Handed(x, ids)
<1>1. TextStep(x) = IF waits \/ ~Fits(x) THEN Blocked(x) ELSE Drained(y, n)
  BY DEF TextStep
<1>2. x \in State /\ ms \in Seq(Item) BY DEF Fine, State, Buffer
<1>3. Len(ms) \in Nat /\ Len(ms) > 0 /\ ~ms[1].file
  <2>1. ms # <<>> /\ ~ms[1].file OBVIOUS
  <2> HIDE DEF ms
  <2>. QED BY <1>2, <2>1
<1>4. n \in 1 .. Len(ms)
  <2>1. Burst(ms) \in 1 .. Len(ms)
    <3> HIDE DEF ms
    <3>. QED BY <1>2, <1>3, BurstOK
  <2>. QED BY <1>3, <2>1
<1> HIDE DEF n, waits
<1>5. ids \in Seq(Message)
  <2> HIDE DEF ms
  <2>. QED BY <1>2, <1>4, Parted
<1>6. CASE waits \/ ~Fits(x) BY <1>1, <1>6, BlockedOK
<1>7. CASE ~(waits \/ ~Fits(x))
  <2>1. /\ y \in State /\ y.slot = x.slot /\ y.actor = x.actor /\ y.fetch = x.fetch
        /\ y.flight = x.flight /\ y.buttons = x.buttons /\ y.told = x.told
        /\ y.link = [x.link EXCEPT !.queued = @ + 1, !.out = @ \o ids]
        /\ y.handed = x.handed \cup ToSet(ids)
    <3> HIDE DEF ids
    <3>. QED BY <1>2, <1>5, <1>7, HandedOK
  <2> HIDE DEF y
  <2>2. Fine(s, Drained(y, n)) /\ Follows(x, Drained(y, n)) BY <1>4, <2>1, DrainOK
  <2>. QED BY <1>1, <1>7, <2>2 DEF y
<1>. QED BY <1>6, <1>7

(* A file goes to the download, or its words go, or it goes with a notice. *)
LEMMA FileStepOK ==
  ASSUME DeliveryAssumption, NEW s, NEW x, Fine(s, x), Live(s),
         x.slot.messages # <<>>, x.slot.messages[1].file
  PROVE  Fine(s, FileStep(x)) /\ Follows(x, FileStep(x))
<1> DEFINE ms == x.slot.messages
           p == Head(ms)
           f == [msg |-> p.id, conn |-> x.link.conn, outcome |-> "running"]
           z == [x EXCEPT !.fetch = f]
           h == IF HasWords(p) THEN Handed(x, <<p.id>>) ELSE x
           y == Told(h, p.id)
<1>1. FileStep(x) =
        IF x.fetch # NoFetch \/ (~x.link.files /\ HasWords(p) /\ ~Fits(x)) THEN Blocked(x)
        ELSE IF ~x.link.files THEN Drained(y, 1)
        ELSE IF ~x.link.open THEN Blocked(x) ELSE Blocked(z)
  BY DEF FileStep
<1>2. x \in State /\ x.slot \in Buffer /\ ms \in Seq(Item) /\ x.link \in LinkState
  BY DEF Fine, State, Buffer
<1>3. ms # <<>> /\ ms[1].file /\ p = ms[1] OBVIOUS
<1>4. 1 \in 1 .. Len(ms) /\ 1 \in DOMAIN ms
  <2> HIDE DEF ms
  <2>. QED BY <1>2, <1>3
<1>5. p.id \in Message /\ p.id \in Nat /\ p.id = ms[1].id
  <2> HIDE DEF ms
  <2>. QED BY <1>2, <1>3, <1>4, IdsAre
<1>6. CASE x.fetch # NoFetch \/ (~x.link.files /\ HasWords(p) /\ ~Fits(x))
  BY <1>1, <1>6, BlockedOK
<1>7. CASE x.fetch = NoFetch /\ ~(~x.link.files /\ HasWords(p) /\ ~Fits(x)) /\ ~x.link.files
  <2> DEFINE gone == Ids(SubSeq(ms, 1, 1))
  <2>1. gone \in Seq(Message) /\ gone = <<p.id>> /\ ToSet(gone) = {p.id}
    <3>1. /\ gone \in Seq(Message) /\ Len(gone) = 1
          /\ \A i \in DOMAIN gone : gone[i] = ms[i].id
      <4> HIDE DEF ms
      <4>. QED BY <1>2, <1>4, Parted
    <3> HIDE DEF gone, p, ms
    <3>2. gone[1] = p.id /\ DOMAIN gone = 1 .. 1 BY <1>5, <3>1
    <3>3. gone = <<p.id>> BY <3>1, <3>2
    <3>4. ToSet(gone) = {p.id} BY <3>2 DEF ToSet
    <3>. QED BY <3>1, <3>3, <3>4
  <2>2. /\ h \in State /\ h.slot = x.slot /\ h.actor = x.actor /\ h.fetch = x.fetch
        /\ h.flight = x.flight /\ h.buttons = x.buttons /\ h.told = x.told
        /\ \/ h.link = x.link /\ h.handed = x.handed
           \/ /\ h.link = [x.link EXCEPT !.queued = @ + 1, !.out = @ \o gone]
              /\ h.handed = x.handed \cup ToSet(gone)
    <3>1. CASE ~HasWords(p) BY <1>2, <3>1
    <3>2. CASE HasWords(p)
      <4>1. Fits(x) /\ h = Handed(x, gone) BY <1>7, <2>1, <3>2
      <4> HIDE DEF h, gone
      <4>. QED BY <1>2, <2>1, <4>1, HandedOK
    <3>. QED BY <3>1, <3>2
  <2>3. /\ y \in State /\ y.slot = h.slot /\ y.actor = h.actor /\ y.fetch = h.fetch
        /\ y.flight = h.flight /\ y.buttons = h.buttons /\ y.link = h.link
        /\ y.handed = h.handed /\ y.told = h.told \cup {p.id}
    <3> HIDE DEF h, p
    <3>. QED BY <1>5, <2>2 DEF State, Told
  <2> HIDE DEF y, h
  <2>4. Fine(s, Drained(y, 1)) /\ Follows(x, Drained(y, 1))
    BY <2>1, <2>2, <2>3, <1>4, <1>7, DrainOK
  <2>. QED BY <1>1, <1>7, <2>4
<1>8. CASE x.fetch = NoFetch /\ x.link.files /\ x.link.open
  <2>1. f \in Fetch /\ f # NoFetch
    <3> HIDE DEF p
    <3>. QED BY <1>2, <1>5, SMTT(30) DEF Fetch, Message, Outcome, LinkState, NoFetch
  <2>2. /\ z \in State /\ z.slot = x.slot /\ z.actor = x.actor /\ z.fetch = f
        /\ z.link = x.link /\ z.flight = x.flight /\ z.buttons = x.buttons
        /\ z.handed = x.handed /\ z.told = x.told
    <3> HIDE DEF f
    <3>. QED BY <1>2, <2>1 DEF State
  <2>3. \A i \in DOMAIN x.link.out, j \in DOMAIN ms : x.link.out[i] < ms[j].id
    BY <1>8 DEF Fine, Frontier, NoFetch
  <2>4. f.outcome = "running" /\ f.msg = ms[1].id /\ f.conn = x.link.conn BY <1>5
  <2> HIDE DEF f, z
  <2>5. FrontOK(z.slot.messages, z.fetch) BY <1>3, <2>2, <2>4 DEF FrontOK
  <2>6. Frontier(z.slot.messages, z.fetch, z.link) /\ RunningOK(z.fetch, z.link)
    BY <1>4, <2>2, <2>3, <2>4 DEF Frontier, RunningOK
  <2>7. z.fetch.conn <= z.link.conn BY <1>2, <2>2, <2>4 DEF LinkState
  <2>8. Fine(s, z) /\ Follows(x, z) BY <2>2, <2>5, <2>6, <2>7, FollowsItself DEF Fine
  <2>9. Fine(s, Blocked(z)) /\ Follows(x, Blocked(z))
    BY <2>8, BlockedOK, FollowsTransitive
  <2>10. FileStep(x) = Blocked(z) BY <1>1, <1>8 DEF z, f
  <2>. QED BY <2>9, <2>10
<1>9. CASE x.fetch = NoFetch /\ x.link.files /\ ~x.link.open BY <1>1, <1>9, BlockedOK
<1>. QED BY <1>6, <1>7, <1>8, <1>9

LEMMA TriedOK ==
  ASSUME DeliveryAssumption, NEW s, NEW x, Fine(s, x), Live(s)
  PROVE  Fine(s, Tried(x)) /\ Follows(x, Tried(x))
<1> DEFINE p == Head(x.slot.messages)
           a == [x.actor EXCEPT !.compressing = IF @ = NoMessage THEN p.id ELSE @]
           z == [x EXCEPT !.actor = a]
<1>1. Tried(x) =
        IF x.blocked \/ x.slot.messages = <<>> THEN x
        ELSE IF p.history = "pending" THEN Blocked(z)
        ELSE IF p.voice = "pending" THEN VoiceStep(x, p.id)
        ELSE IF p.id \in x.actor.showing THEN Blocked(x)
        ELSE IF p.file THEN FileStep(x) ELSE TextStep(x)
  BY DEF Tried
<1>2. x \in State /\ x.slot \in Buffer /\ x.slot.messages \in Seq(Item) /\ x.actor \in Actor
  BY DEF Fine, State, Buffer
<1>3. Fine(s, x) /\ Follows(x, x) BY FollowsItself
<1>4. CASE x.blocked \/ x.slot.messages = <<>> BY <1>1, <1>3, <1>4
<1>5. ASSUME ~(x.blocked \/ x.slot.messages = <<>>)
      PROVE  p = x.slot.messages[1] /\ p.id \in Message
  <2> DEFINE ms == x.slot.messages
  <2>1. ms \in Seq(Item) /\ ms # <<>> BY <1>2, <1>5
  <2> HIDE DEF ms
  <2>2. 1 \in DOMAIN ms /\ Head(ms) = ms[1] BY <2>1
  <2>3. ms[1].id \in Message BY <2>1, <2>2, IdsAre
  <2>. QED BY <2>2, <2>3 DEF ms
<1>6. CASE ~(x.blocked \/ x.slot.messages = <<>>) /\ p.history = "pending"
  <2>1. p.id \in 0 .. Count BY <1>5, <1>6, SMTT(30) DEF Message
  <2>2. a \in Actor /\ a.resume_sends = x.actor.resume_sends
    <3> HIDE DEF p
    <3>. QED BY <1>2, <2>1 DEF Actor
  <2> HIDE DEF a
  <2>3. /\ z \in State /\ z.slot = x.slot /\ z.fetch = x.fetch /\ z.link = x.link
        /\ z.flight = x.flight /\ z.buttons = x.buttons /\ z.handed = x.handed
        /\ z.told = x.told /\ z.actor = a
    BY <1>2, <2>2 DEF State
  <2> HIDE DEF z
  <2>4. Fine(s, z) /\ Follows(x, z) BY <2>2, <2>3, NotedOK
  <2>5. Fine(s, Blocked(z)) /\ Follows(z, Blocked(z)) BY <2>4, BlockedOK
  <2>. QED BY <1>1, <1>6, <2>4, <2>5, FollowsTransitive
<1>7. CASE ~(x.blocked \/ x.slot.messages = <<>>) /\ p.history # "pending"
           /\ p.voice = "pending"
  BY <1>1, <1>7, BlockedOK, SetVoiceOK DEF VoiceStep
<1>8. CASE ~(x.blocked \/ x.slot.messages = <<>>) /\ p.history # "pending"
           /\ p.voice # "pending" /\ p.id \in x.actor.showing
  BY <1>1, <1>8, BlockedOK
<1>9. CASE ~(x.blocked \/ x.slot.messages = <<>>) /\ p.history # "pending"
           /\ p.voice # "pending" /\ p.id \notin x.actor.showing
  BY <1>1, <1>5, <1>9, FileStepOK, TextStepOK, SMTT(30) DEF Fine, FrontOK
<1>. QED BY <1>4, <1>6, <1>7, <1>8, <1>9

LEMMA NoPostIs ==
  NoPost \notin Flight /\ NoPost.id = 0 /\ NoNote.message = NoPost /\ NoNote.number = 0
BY DEF NoPost, Flight, NoNote

LEMMA ClosedOK ==
  ASSUME DeliveryAssumption, NEW s, NEW x, Fine(s, x), x.slot.messages = <<>>
  PROVE  Fine(s, Closed(x)) /\ Follows(x, Closed(x))
<1> DEFINE y == Closed(x)
           p == x.slot.resume.message
           es == x.buttons.edits \cup ({p} \ {NoPost})
           bs == [x.buttons EXCEPT !.edits = @ \cup ({p} \ {NoPost})]
<1>1. /\ EmptyBuffer \in Buffer /\ EmptyBuffer.messages = <<>> /\ EmptyBuffer.resume = NoNote
      /\ NoNote.message = NoPost
  BY DEF EmptyBuffer, Buffer, Note, NoNote
<1>2. x \in State /\ x.buttons \in Buttons /\ x.flight \in SUBSET Flight
      /\ p \in {NoPost} \cup Flight
  BY DEF Fine, State, Buffer, Note
<1>3. /\ bs \in Buttons /\ bs.sent = x.buttons.sent /\ bs.shown = x.buttons.shown
      /\ bs.edits = es /\ bs.lost = x.buttons.lost
  <2>1. bs = [x.buttons EXCEPT !.edits = es] OBVIOUS
  <2> HIDE DEF bs, p
  <2>2. es \in SUBSET Flight BY <1>2 DEF Buttons
  <2> HIDE DEF es
  <2>. QED BY <1>2, <2>1, <2>2 DEF Buttons
<1>4. y = [x EXCEPT !.slot = EmptyBuffer, !.buttons = bs]
  BY <1>2 DEF Closed, ButtonDropped, State
<1>5. ResumeOK(x.slot.resume, x.actor.resume_sends, x.flight, x.buttons) BY DEF Fine
<1> HIDE DEF y, bs
<1>6. /\ y \in State /\ y.slot = EmptyBuffer /\ y.actor = x.actor /\ y.fetch = x.fetch
      /\ y.link = x.link /\ y.flight = x.flight /\ y.handed = x.handed /\ y.told = x.told
      /\ y.buttons = bs
  BY <1>1, <1>2, <1>3, <1>4 DEF State
<1>7. Len(<<>>) = 0 /\ DOMAIN <<>> = {} OBVIOUS
<1>8. BufferOK(y.slot)
  BY <1>7, <1>1, <1>6 DEF NoteOK, DeliveryAssumption, Ordered, BufferOK
<1>9. FrontOK(y.slot.messages, y.fetch) BY <1>1, <1>6 DEF Fine, FrontOK
<1>10. Frontier(y.slot.messages, y.fetch, y.link) BY <1>1, <1>6, <1>7 DEF Frontier
<1>11. ResumeOK(NoNote, x.actor.resume_sends, x.flight, bs)
  <2>1. bs.sent \in Nat /\ \A f \in x.flight : f.number \in Nat \ {0} BY <1>2, <1>3 DEF Buttons, Flight
  <2>2. x.buttons.edits \subseteq Flight BY <1>2 DEF Buttons
  <2> HIDE DEF p
  <2>3. p.id <= bs.sent /\ p \notin x.flight BY <1>3, <1>5 DEF ResumeOK, p
  <2>4. NoPost \notin x.flight \cup es BY <1>2, <2>2, NoPostIs
  <2>5. x.flight \cap es = {} BY <1>5, <2>3 DEF ResumeOK
  <2>6. bs.shown \subseteq {NoPost} \cup es \cup bs.lost BY <1>3, <1>5 DEF ResumeOK, p
  <2>7. \A e \in es : e.id <= bs.sent BY <1>3, <1>5, <2>3 DEF ResumeOK
  <2>8. \A f \in x.flight : /\ f.number <= x.actor.resume_sends /\ f.id <= bs.sent
                           /\ f.number # 0
    BY <1>3, <1>5, <2>1 DEF ResumeOK
  <2> HIDE DEF es
  <2>. QED BY <1>3, <2>1, <2>4, <2>5, <2>6, <2>7, <2>8, NoPostIs DEF ResumeOK
<1>12. Fine(s, y) BY <1>1, <1>3, <1>6, <1>8, <1>9, <1>10, <1>11 DEF Fine
<1>13. Follows(x, y) BY <1>1, <1>6 DEF Follows, Flows
<1>. QED BY <1>12, <1>13 DEF y

LEMMA NewGather ==
  ASSUME DeliveryAssumption, NEW s, NEW x, Fine(s, x), NEW g \in Gather
  PROVE  LET y == [x EXCEPT !.actor.gather = g]
         IN  /\ Fine(s, y) /\ Follows(x, y) /\ y.slot = x.slot /\ y.fetch = x.fetch
             /\ y.link = x.link /\ y.actor.hearing = x.actor.hearing
<1> DEFINE a == [x.actor EXCEPT !.gather = g]
           y == [x EXCEPT !.actor.gather = g]
<1>1. x \in State /\ x.actor \in Actor BY DEF Fine, State
<1>2. a \in Actor /\ a.resume_sends = x.actor.resume_sends /\ a.hearing = x.actor.hearing
  BY <1>1 DEF Actor
<1>3. y = [x EXCEPT !.actor = a] OBVIOUS
<1> HIDE DEF a, y
<1>4. /\ y \in State /\ y.slot = x.slot /\ y.fetch = x.fetch /\ y.link = x.link
      /\ y.flight = x.flight /\ y.buttons = x.buttons /\ y.handed = x.handed
      /\ y.told = x.told /\ y.actor = a
  BY <1>1, <1>2, <1>3 DEF State
<1>5. Fine(s, y) /\ Follows(x, y) BY <1>2, <1>4, NotedOK
<1>. QED BY <1>2, <1>4, <1>5 DEF y

LEMMA NoneGathered ==
  ASSUME DeliveryAssumption
  PROVE  NoGather \in Gather
BY DEF NoGather, Gather, NoMessage, DeliveryAssumption

LEMMA FlushedOK ==
  ASSUME DeliveryAssumption, NEW s, NEW x, Fine(s, x)
  PROVE  Fine(s, Flushed(s, x)) /\ Follows(x, Flushed(s, x))
<1>1. CASE ~Live(s)
  <2>1. Flushed(s, x) = [x EXCEPT !.actor.gather = NoGather] BY <1>1 DEF Flushed
  <2>2. NoGather \in Gather BY NoneGathered
  <2> DEFINE y == [x EXCEPT !.actor.gather = NoGather]
  <2>3. Fine(s, y) /\ Follows(x, y) BY <2>2, NewGather
  <2>. QED BY <2>1, <2>3
<1>2. CASE Live(s)
  <2> DEFINE n == 2 * Len(x.slot.messages)
             x0 == [x EXCEPT !.blocked = FALSE]
             y == Tries(x0, n)
             S == { z \in State : Fine(s, z) /\ Follows(x0, z) }
  <2>1. x \in State /\ x.slot.messages \in Seq(Item) BY DEF Fine, State, Buffer
  <2>2. n \in Nat
    <3>1. Len(x.slot.messages) \in Nat
      <4> DEFINE ms == x.slot.messages
      <4>1. ms \in Seq(Item) BY <2>1
      <4> HIDE DEF ms
      <4>2. Len(ms) \in Nat BY <4>1
      <4>. QED BY <4>2 DEF ms
    <3>. QED BY <3>1
  <2>3. Flushed(s, x) = IF y.slot.messages = <<>> THEN Closed(y) ELSE y
    BY <1>2 DEF Flushed
  <2>4. /\ x0 \in State /\ x0.slot = x.slot /\ x0.actor = x.actor /\ x0.fetch = x.fetch
        /\ x0.link = x.link /\ x0.flight = x.flight /\ x0.buttons = x.buttons
        /\ x0.handed = x.handed /\ x0.told = x.told
    BY <2>1 DEF State
  <2> HIDE DEF n, x0
  <2>5. Fine(s, x0) /\ Follows(x, x0) BY <2>4, NotedOK
  <2>6. x0 \in S BY <2>4, <2>5, FollowsItself
  <2>7. \A z \in S : Tried(z) \in S
    <3> SUFFICES ASSUME NEW z \in S PROVE Tried(z) \in S
      OBVIOUS
    <3>1. Fine(s, Tried(z)) /\ Follows(z, Tried(z)) BY <1>2, TriedOK
    <3>2. Follows(x0, Tried(z)) BY <3>1, FollowsTransitive
    <3>3. Tried(z) \in State BY <3>1 DEF Fine
    <3>. QED BY <3>1, <3>2, <3>3
  <2>8. y \in S
    <3> HIDE DEF S
    <3>. QED BY <2>2, <2>6, <2>7, TriesKeep
  <2> HIDE DEF y
  <2>9. Fine(s, y) /\ Follows(x, y) BY <2>5, <2>8, FollowsTransitive
  <2>10. y.slot.messages = <<>> => Fine(s, Closed(y)) /\ Follows(y, Closed(y))
    BY <2>9, ClosedOK
  <2>. QED BY <2>3, <2>9, <2>10, FollowsTransitive
<1>. QED BY <1>1, <1>2

LEMMA NextNumber ==
  ASSUME NEW k \in Nat
  PROVE  k + 1 \in Nat \ {0} /\ k + 1 > k
OBVIOUS

LEMMA BelowNext ==
  ASSUME NEW j \in Nat, NEW k \in Nat, NEW n \in Nat, j <= k, n > k
  PROVE  j <= n /\ j # n
OBVIOUS

LEMMA OfferedOK ==
  ASSUME DeliveryAssumption, NEW s \in Session, NEW x, Fine(s, x)
  PROVE  Fine(s, Offered(s, x)) /\ Follows(x, Offered(s, x))
<1> DEFINE n == x.actor.resume_sends + 1
           id == x.buttons.sent + 1
           a == [x.actor EXCEPT !.resume_sends = n]
           r == [NoNote EXCEPT !.number = n, !.run = s.run]
           b == [x.slot EXCEPT !.resume = r]
           bs == [x.buttons EXCEPT !.sent = id]
           q == [number |-> n, run |-> s.run, id |-> id]
           fl == x.flight \cup {q}
           y == [x EXCEPT !.actor.resume_sends = n, !.slot.resume = r, !.buttons.sent = id,
                          !.flight = fl]
<1>1. x \in State /\ x.actor \in Actor /\ x.slot \in Buffer /\ s.run \in Nat
      /\ x.buttons \in Buttons /\ x.flight \in SUBSET Flight
  BY DEF Fine, State, Session, DeliveryAssumption
<1>2. CASE x.slot.messages = <<>> \/ x.slot.resume # NoNote \/ s.alive
  BY <1>2, FollowsItself DEF Offered
<1>3. CASE ~(x.slot.messages = <<>> \/ x.slot.resume # NoNote \/ s.alive)
  <2>1. Offered(s, x) = y BY <1>3 DEF Offered
  <2>2. /\ n \in Nat \ {0} /\ n > x.actor.resume_sends /\ x.actor.resume_sends \in Nat
        /\ id \in Nat \ {0} /\ id > x.buttons.sent /\ x.buttons.sent \in Nat
    <3>1. x.actor.resume_sends \in Nat BY <1>1 DEF Actor
    <3>2. x.buttons.sent \in Nat BY <1>1 DEF Buttons
    <3>. QED BY <3>1, <3>2, NextNumber
  <2>3. y = [x EXCEPT !.actor = a, !.slot = b, !.buttons = bs, !.flight = fl] OBVIOUS
  <2> HIDE DEF n, id
  <2>4. r \in Note /\ r.message = NoPost /\ r.number = n /\ r.run = s.run
    BY <1>1, <2>2 DEF Note, NoNote
  <2>5. q \in Flight /\ q.number = n /\ q.run = s.run /\ q.id = id BY <1>1, <2>2 DEF Flight
  <2>6. /\ bs \in Buttons /\ bs.sent = id /\ bs.shown = x.buttons.shown
        /\ bs.edits = x.buttons.edits /\ bs.lost = x.buttons.lost
    BY <1>1, <2>2 DEF Buttons
  <2> HIDE DEF r, q, bs
  <2>7. /\ a \in Actor /\ a.resume_sends = n
        /\ b \in Buffer /\ b.messages = x.slot.messages /\ b.resume = r
        /\ fl \in SUBSET Flight
    BY <1>1, <2>2, <2>4, <2>5 DEF Actor, Buffer
  <2> HIDE DEF a, b, y
  <2>8. /\ y \in State /\ y.slot = b /\ y.actor = a /\ y.fetch = x.fetch
        /\ y.link = x.link /\ y.flight = fl /\ y.buttons = bs
        /\ y.handed = x.handed /\ y.told = x.told
    <3> HIDE DEF fl
    <3>. QED BY <1>1, <2>3, <2>6, <2>7 DEF State
  <2>9. BufferOK(y.slot) BY <2>4, <2>7, <2>8 DEF Fine, BufferOK, NoteOK
  <2>10. ResumeOK(r, n, fl, bs)
    <3>1. ResumeOK(NoNote, x.actor.resume_sends, x.flight, x.buttons) BY <1>3 DEF Fine
    <3>2. \A f \in x.flight : /\ f.number <= x.actor.resume_sends /\ f.number \in Nat
                             /\ f.id <= x.buttons.sent /\ f.id \in Nat
      BY <1>1, <3>1 DEF ResumeOK, Flight
    <3>3. \A f \in fl : f.number <= n /\ f.id <= id /\ (f.number = n => f.run = s.run)
      <4> SUFFICES ASSUME NEW f \in fl
                   PROVE  f.number <= n /\ f.id <= id /\ (f.number = n => f.run = s.run)
        OBVIOUS
      <4>1. CASE f \in x.flight
        <5>1. /\ f.number <= x.actor.resume_sends /\ f.number \in Nat
              /\ f.id <= x.buttons.sent /\ f.id \in Nat
          BY <3>2, <4>1
        <5>2. f.number <= n /\ f.number # n /\ f.id <= id BY <2>2, <5>1, BelowNext
        <5>. QED BY <5>2
      <4>2. CASE f = q
        <5>1. f.number = n /\ f.id = id /\ f.run = s.run BY <2>5, <4>2
        <5>. QED BY <2>2, <5>1
      <4>. QED BY <4>1, <4>2
    <3>4. \A e \in x.buttons.edits : e.id <= x.buttons.sent /\ e.id \in Nat
      BY <1>1, <3>1 DEF ResumeOK, Flight, Buttons
    <3>5. q \notin x.buttons.edits BY <2>2, <2>5, <3>4
    <3>6. x.flight \cap x.buttons.edits = {} /\ NoPost \notin x.flight \cup x.buttons.edits
          /\ x.buttons.shown \subseteq {NoPost} \cup x.buttons.edits \cup x.buttons.lost
      BY <3>1, NoPostIs DEF ResumeOK
    <3>7. q # NoPost BY <2>5, NoPostIs
    <3>8. fl \cap x.buttons.edits = {} /\ NoPost \notin fl \cup x.buttons.edits
      BY <3>5, <3>6, <3>7
    <3>9. \A e \in x.buttons.edits : e.id <= id BY <2>2, <3>4
    <3>10. NoPost.id <= id BY <2>2, NoPostIs
    <3> HIDE DEF fl
    <3>. QED BY <2>4, <2>6, <3>3, <3>6, <3>8, <3>9, <3>10 DEF ResumeOK
  <2>11. disk.resume.message.id \in 0 .. bs.sent
    <3>1. disk.resume.message.id \in 0 .. x.buttons.sent BY DEF Fine
    <3>. QED BY <2>2, <2>6, <3>1
  <2>12. Fine(s, y) /\ Follows(x, y)
    BY <2>7, <2>8, <2>9, <2>10, <2>11 DEF Fine, Follows, Flows
  <2>. QED BY <2>1, <2>12
<1>. QED BY <1>2, <1>3

LEMMA PumpedOK ==
  ASSUME DeliveryAssumption, NEW s \in Session, NEW x, Fine(s, x)
  PROVE  Fine(s, Pumped(s, x)) /\ Follows(x, Pumped(s, x))
<1> DEFINE y == IF x.slot.messages = <<>> THEN x ELSE Flushed(s, x)
<1>1. Fine(s, y) /\ Follows(x, y) BY FlushedOK, FollowsItself
<1>2. Pumped(s, x) = Offered(s, y) BY DEF Pumped
<1> HIDE DEF y
<1>. QED BY <1>1, <1>2, OfferedOK, FollowsTransitive

----------------------------------------------------------------------------
(* What a pump leaves: a front that waits for something that was asked     *)
(* for.                                                                    *)

(* The tries as steps through the sets of a family.                        *)
LEMMA TriesInduct ==
  ASSUME NEW n \in Nat, NEW S, NEW x \in S[0],
         \A i \in 1 .. n : \A y \in S[i - 1] : Tried(y) \in S[i]
  PROVE  Tries(x, n) \in S[n]
<1>1. PICK f : TriedUpTo(x, n, f) /\ Tries(x, n) = f[n] BY TriesUnfold
<1> DEFINE Bad == { i \in 0 .. n : f[i] \notin S[i] }
<1>2. SUFFICES ASSUME Bad # {} PROVE FALSE
  BY <1>1
<1>3. PICK i \in Bad : \A j \in Bad : i <= j
  <2>1. Bad \in SUBSET Nat OBVIOUS
  <2> HIDE DEF Bad
  <2>. QED BY <1>2, <2>1, LeastNat
<1>4. CASE i = 0 BY <1>1, <1>3, <1>4 DEF TriedUpTo
<1>5. CASE i # 0 BY <1>3, <1>5, <1>1 DEF TriedUpTo
<1>. QED BY <1>4, <1>5

(* How many tries may still move the front.                                *)
Rank(ms) == 2 * Len(ms) - (IF ms # <<>> /\ Head(ms).voice # "pending" THEN 1 ELSE 0)

(* A front message that has to be compressed or fetched first is.          *)
FrontMoved(x) ==
  LET p == Head(x.slot.messages)
  IN  /\ p.history = "pending" => x.actor.compressing # NoMessage
      /\ /\ p.history # "pending" /\ p.voice # "pending" /\ p.id \notin x.actor.showing
         /\ p.file /\ x.link.files /\ x.link.open
         => x.fetch # NoFetch

Moved(s, x) == Live(s) /\ x.slot.messages # <<>> => FrontMoved(x)

LEMMA RankIs ==
  ASSUME NEW ms \in Seq(Item)
  PROVE  /\ Rank(ms) \in Nat /\ Rank(ms) <= 2 * Len(ms) /\ Len(ms) \in Nat
         /\ ms # <<>> => Rank(ms) >= 2 * Len(ms) - 1 /\ Len(ms) >= 1
         /\ ms # <<>> /\ Head(ms).voice = "pending" => Rank(ms) = 2 * Len(ms)
         /\ ms # <<>> /\ Head(ms).voice # "pending" => Rank(ms) = 2 * Len(ms) - 1
         /\ ms = <<>> => Rank(ms) = 0
<1>1. Len(ms) \in Nat /\ (ms # <<>> => Len(ms) >= 1) /\ (ms = <<>> => Len(ms) = 0)
  OBVIOUS
<1> HIDE DEF Rank
<1>2. Rank(ms) = 2 * Len(ms) - (IF ms # <<>> /\ Head(ms).voice # "pending" THEN 1 ELSE 0)
  BY DEF Rank
<1>. QED BY <1>1, <1>2

LEMMA DrainRank ==
  ASSUME NEW y \in State, NEW n \in 1 .. Len(y.slot.messages), y.slot.messages # <<>>
  PROVE  LET z == Drained(y, n)
         IN  z.blocked = y.blocked /\ Rank(z.slot.messages) < Rank(y.slot.messages)
<1> DEFINE ms == y.slot.messages
           rest == SubSeq(ms, n + 1, Len(ms))
           z == Drained(y, n)
<1>1. y.slot \in Buffer /\ ms \in Seq(Item) BY DEF State, Buffer
<1>2. z.blocked = y.blocked /\ z.slot.messages = rest
  <2> DEFINE g == IF rest = <<>> \/ Head(rest).file THEN NoGather ELSE y.actor.gather
  <2>1. z = [y EXCEPT !.slot.messages = rest, !.actor.gather = g] BY DEF Drained
  <2> HIDE DEF g, rest, z
  <2>. QED BY <1>1, <2>1 DEF State, Buffer
<1> HIDE DEF z
<1>3. rest \in Seq(Item) /\ Len(rest) = Len(ms) - n /\ Len(ms) \in Nat
  <2>1. n \in 1 .. Len(ms) OBVIOUS
  <2> HIDE DEF ms
  <2>. QED BY <1>1, <2>1
<1> HIDE DEF rest
<1>4. Rank(rest) <= 2 * Len(rest) /\ Rank(rest) \in Nat BY <1>3, RankIs
<1>5. Rank(ms) >= 2 * Len(ms) - 1 /\ Rank(ms) \in Nat
  <2>1. ms # <<>> OBVIOUS
  <2> HIDE DEF ms
  <2>. QED BY <1>1, <2>1, RankIs
<1>6. n >= 1 /\ n \in Nat
  <2>1. n \in 1 .. Len(ms) OBVIOUS
  <2> HIDE DEF ms
  <2>. QED BY <1>3, <2>1
<1>7. Rank(rest) < Rank(ms)
  <2> HIDE DEF ms
  <2>. QED BY <1>3, <1>4, <1>5, <1>6
<1>. QED BY <1>2, <1>7 DEF z

LEMMA VoiceRank ==
  ASSUME NEW x \in State, x.slot.messages # <<>>,
         Head(x.slot.messages).voice = "pending"
  PROVE  LET z == SetVoice(x, Head(x.slot.messages).id, "unheard")
         IN  z.blocked = x.blocked /\ Rank(z.slot.messages) < Rank(x.slot.messages)
<1> DEFINE old == x.slot.messages
           m == Head(old).id
           ms == [i \in DOMAIN old |-> IF old[i].id = m /\ old[i].voice = "pending"
                                       THEN [old[i] EXCEPT !.voice = "unheard"] ELSE old[i]]
           z == SetVoice(x, m, "unheard")
<1>1. x.slot \in Buffer /\ old \in Seq(Item) /\ old # <<>> /\ Head(old).voice = "pending"
  BY DEF State, Buffer
<1>2. z.blocked = x.blocked /\ z.slot.messages = ms
  <2>1. z = [x EXCEPT !.slot.messages = ms] BY DEF SetVoice
  <2> HIDE DEF ms, z
  <2>. QED BY <1>1, <2>1 DEF State, Buffer
<1> HIDE DEF z
<1>3. 1 \in DOMAIN old /\ Head(old) = old[1]
  <2> HIDE DEF old
  <2>. QED BY <1>1
<1>4. ms[1] = [old[1] EXCEPT !.voice = "unheard"] /\ ms = [i \in DOMAIN old |-> ms[i]]
  <2> HIDE DEF old
  <2>. QED BY <1>1, <1>3
<1>5. ASSUME NEW i \in DOMAIN old PROVE ms[i] \in Item
  <2>1. old[i] \in Item /\ ms[i] \in {old[i], [old[i] EXCEPT !.voice = "unheard"]}
    BY <1>1, <1>5
  <2> HIDE DEF ms
  <2>. QED BY <2>1 DEF Item
<1> HIDE DEF ms, old, m
<1>6. ms \in Seq(Item) /\ Len(ms) = Len(old) /\ DOMAIN ms = DOMAIN old
  BY <1>1, <1>4, <1>5, SeqChanged
<1>7. ms # <<>> /\ Head(ms) = ms[1] /\ ms[1].voice = "unheard"
  BY <1>1, <1>3, <1>4, <1>6 DEF Item
<1>8. Rank(old) = 2 * Len(old) /\ Rank(ms) = 2 * Len(old) - 1 /\ Len(old) \in Nat
  BY <1>1, <1>6, <1>7, RankIs
<1>9. Rank(ms) < Rank(old) BY <1>8
<1>. QED BY <1>2, <1>9 DEF z, m, old

LEMMA BlockedIs ==
  ASSUME NEW x \in State
  PROVE  LET y == Blocked(x)
         IN  y.blocked /\ y.slot = x.slot /\ y.actor = x.actor /\ y.fetch = x.fetch
             /\ y.link = x.link
BY DEF Blocked, State

(* A text moves, or waits for its burst or for its link.                   *)
LEMMA TextMoves ==
  ASSUME DeliveryAssumption, NEW x \in State, x.slot.messages # <<>>, ~x.blocked,
         ~Head(x.slot.messages).file
  PROVE  LET y == TextStep(x)
         IN  \/ /\ y.blocked /\ y.slot = x.slot /\ ~Head(y.slot.messages).file
                /\ \/ ~Fits(x) \/ (x.actor.gather # NoGather /\ ~x.actor.gather.due)
             \/ ~y.blocked /\ Rank(y.slot.messages) < Rank(x.slot.messages)
<1> DEFINE ms == x.slot.messages
           n == IF x.actor.gather = NoGather \/ BeforeBurst(x) THEN 1 ELSE Burst(ms)
           waits == x.actor.gather # NoGather /\ ~BeforeBurst(x) /\ ~x.actor.gather.due
           ids == Ids(SubSeq(ms, 1, n))
           y == Handed(x, ids)
<1>1. TextStep(x) = IF waits \/ ~Fits(x) THEN Blocked(x) ELSE Drained(y, n)
  BY DEF TextStep
<1>2. x \in State /\ ms \in Seq(Item) BY DEF State, Buffer
<1>3. Len(ms) \in Nat /\ Len(ms) > 0 /\ ~ms[1].file
  <2>1. ms # <<>> /\ ~Head(ms).file OBVIOUS
  <2> HIDE DEF ms
  <2>. QED BY <1>2, <2>1
<1>4. n \in 1 .. Len(ms)
  <2>1. Burst(ms) \in 1 .. Len(ms)
    <3> HIDE DEF ms
    <3>. QED BY <1>2, <1>3, BurstOK
  <2>. QED BY <1>3, <2>1
<1>5. CASE waits \/ ~Fits(x) BY <1>1, <1>5, BlockedIs
<1>6. CASE ~(waits \/ ~Fits(x))
  <2> HIDE DEF n, waits
  <2>1. ids \in Seq(Message)
    <3> HIDE DEF ms
    <3>. QED BY <1>2, <1>4, Parted
  <2>2. y \in State /\ y.slot = x.slot
    <3> HIDE DEF ids
    <3>. QED BY <1>2, <1>6, <2>1, HandedOK
  <2>3. y.blocked = x.blocked BY DEF Handed, State
  <2> HIDE DEF y
  <2>4. Drained(y, n).blocked = y.blocked
        /\ Rank(Drained(y, n).slot.messages) < Rank(y.slot.messages)
    BY <1>4, <2>2, DrainRank
  <2>5. TextStep(x) = Drained(y, n) BY <1>1, <1>6
  <2>. QED BY <2>2, <2>3, <2>4, <2>5
<1>. QED BY <1>5, <1>6

(* A file is fetched or waits for room, or leaves the slot.                *)
LEMMA FileMoves ==
  ASSUME DeliveryAssumption, NEW x \in State, x.slot.messages # <<>>, ~x.blocked
  PROVE  LET y == FileStep(x)
         IN  \/ /\ y.blocked /\ y.slot = x.slot /\ y.actor = x.actor /\ y.link = x.link
                /\ y.link.files /\ y.link.open => y.fetch # NoFetch
                /\ \/ x.fetch # NoFetch \/ ~Fits(x) \/ x.link.files
             \/ ~y.blocked /\ Rank(y.slot.messages) < Rank(x.slot.messages)
<1> DEFINE ms == x.slot.messages
           p == Head(ms)
           f == [msg |-> p.id, conn |-> x.link.conn, outcome |-> "running"]
           z == [x EXCEPT !.fetch = f]
           h == IF HasWords(p) THEN Handed(x, <<p.id>>) ELSE x
           y == Told(h, p.id)
<1>1. FileStep(x) =
        IF x.fetch # NoFetch \/ (~x.link.files /\ HasWords(p) /\ ~Fits(x)) THEN Blocked(x)
        ELSE IF ~x.link.files THEN Drained(y, 1)
        ELSE IF ~x.link.open THEN Blocked(x) ELSE Blocked(z)
  BY DEF FileStep
<1>2. x \in State /\ ms \in Seq(Item) /\ x.link \in LinkState /\ ms # <<>>
  BY DEF State, Buffer
<1>3. p.id \in Message /\ p.id \in Nat /\ 1 \in 1 .. Len(ms)
  <2>1. 1 \in DOMAIN ms /\ p = ms[1] /\ 1 \in 1 .. Len(ms)
    <3> HIDE DEF ms
    <3>. QED BY <1>2
  <2> HIDE DEF ms, p
  <2>. QED BY <1>2, <2>1, IdsAre
<1>4. CASE x.fetch # NoFetch \/ (~x.link.files /\ HasWords(p) /\ ~Fits(x))
  <2>1. FileStep(x) = Blocked(x) BY <1>1, <1>4
  <2>2. x.fetch # NoFetch \/ (~x.link.files /\ ~Fits(x)) BY <1>4
  <2>. QED BY <2>1, <2>2, BlockedIs
<1>5. CASE x.fetch = NoFetch /\ x.link.files /\ ~x.link.open BY <1>1, <1>5, BlockedIs
<1>6. CASE x.fetch = NoFetch /\ x.link.files /\ x.link.open
  <2>1. FileStep(x) = Blocked(z) BY <1>1, <1>6
  <2>2. f \in Fetch /\ f # NoFetch
    <3> HIDE DEF p
    <3>. QED BY <1>2, <1>3 DEF Fetch, Message, Outcome, LinkState, NoFetch
  <2> HIDE DEF f
  <2>3. z \in State /\ z.slot = x.slot /\ z.actor = x.actor /\ z.link = x.link /\ z.fetch = f
    BY <1>2, <2>2 DEF State
  <2> HIDE DEF z
  <2>. QED BY <1>6, <2>1, <2>2, <2>3, BlockedIs
<1>7. CASE x.fetch = NoFetch /\ ~(HasWords(p) /\ ~Fits(x)) /\ ~x.link.files
  <2>1. FileStep(x) = Drained(y, 1) BY <1>1, <1>7
  <2>2. h \in State /\ h.slot = x.slot /\ h.blocked = x.blocked
    <3>1. CASE ~HasWords(p) BY <3>1
    <3>2. CASE HasWords(p)
      <4> DEFINE ids == <<p.id>>
      <4>1. ids \in Seq(Message)
        <5> HIDE DEF p
        <5>. QED BY <1>3
      <4>2. Fits(x) /\ h = Handed(x, ids) BY <1>7, <3>2
      <4> HIDE DEF ids, h
      <4>3. Handed(x, ids) \in State /\ Handed(x, ids).slot = x.slot
        BY <1>2, <4>1, <4>2, HandedOK
      <4>4. Handed(x, ids).blocked = x.blocked BY DEF Handed, State
      <4>. QED BY <4>2, <4>3, <4>4
    <3>. QED BY <3>1, <3>2
  <2> HIDE DEF h
  <2>3. y \in State /\ y.slot = h.slot /\ y.blocked = h.blocked
    <3> HIDE DEF p
    <3>. QED BY <1>3, <2>2 DEF State, Told
  <2> HIDE DEF y
  <2>4. 1 \in 1 .. Len(y.slot.messages) /\ y.slot.messages # <<>> BY <1>3, <2>2, <2>3
  <2>5. Drained(y, 1).blocked = y.blocked
        /\ Rank(Drained(y, 1).slot.messages) < Rank(y.slot.messages)
    BY <2>3, <2>4, DrainRank
  <2>. QED BY <2>1, <2>2, <2>3, <2>5
<1>. QED BY <1>4, <1>5, <1>6, <1>7

(* A try moves the front, or the front waits for something that was asked  *)
(* for.                                                                    *)
LEMMA TriedMoves ==
  ASSUME DeliveryAssumption, NEW x \in State, x.slot.messages # <<>>, ~x.blocked
  PROVE  LET y == Tried(x)
         IN  \/ y.blocked /\ y.slot = x.slot /\ FrontMoved(y)
             \/ ~y.blocked /\ Rank(y.slot.messages) < Rank(x.slot.messages)
<1> DEFINE p == Head(x.slot.messages)
           a == [x.actor EXCEPT !.compressing = IF @ = NoMessage THEN p.id ELSE @]
           z == [x EXCEPT !.actor = a]
<1>1. Tried(x) =
        IF p.history = "pending" THEN Blocked(z)
        ELSE IF p.voice = "pending" THEN VoiceStep(x, p.id)
        ELSE IF p.id \in x.actor.showing THEN Blocked(x)
        ELSE IF p.file THEN FileStep(x) ELSE TextStep(x)
  BY DEF Tried
<1>2. x.slot \in Buffer /\ x.slot.messages \in Seq(Item) /\ x.actor \in Actor
  BY DEF State, Buffer
<1>3. p.id \in Message
  <2> DEFINE ms == x.slot.messages
  <2>1. ms \in Seq(Item) /\ ms # <<>> BY <1>2
  <2> HIDE DEF ms
  <2>2. 1 \in DOMAIN ms /\ Head(ms) = ms[1] BY <2>1
  <2>3. ms[1].id \in Message BY <2>1, <2>2, IdsAre
  <2>. QED BY <2>2, <2>3 DEF ms
<1>4. CASE p.history = "pending"
  <2>1. Tried(x) = Blocked(z) BY <1>1, <1>4
  <2>2. a \in Actor /\ a.compressing # NoMessage
    <3>1. p.id \in 0 .. Count /\ p.id # NoMessage BY <1>3 DEF Message, NoMessage
    <3> HIDE DEF p
    <3>. QED BY <1>2, <3>1 DEF Actor
  <2> HIDE DEF a
  <2>3. z \in State /\ z.slot = x.slot /\ z.actor = a BY <2>2 DEF State
  <2> HIDE DEF z
  <2>4. Blocked(z).blocked /\ Blocked(z).slot = x.slot /\ Blocked(z).actor = a
    BY <2>3, BlockedIs
  <2>5. FrontMoved(Blocked(z)) BY <1>4, <2>2, <2>4 DEF FrontMoved
  <2>. QED BY <2>1, <2>4, <2>5
<1>5. CASE p.history # "pending" /\ p.voice = "pending"
  <2>1. Tried(x) = VoiceStep(x, p.id) BY <1>1, <1>5
  <2>2. CASE p.id \in x.actor.hearing
    BY <2>1, <2>2, <1>5, BlockedIs DEF VoiceStep, FrontMoved
  <2>3. CASE p.id \notin x.actor.hearing BY <2>1, <2>3, <1>5, VoiceRank DEF VoiceStep
  <2>. QED BY <2>2, <2>3
<1>6. CASE p.history # "pending" /\ p.voice # "pending" /\ p.id \in x.actor.showing
  BY <1>1, <1>6, BlockedIs DEF FrontMoved
<1>7. CASE p.history # "pending" /\ p.voice # "pending" /\ p.id \notin x.actor.showing /\ p.file
  <2>1. Tried(x) = FileStep(x) BY <1>1, <1>7
  <2> DEFINE y == FileStep(x)
  <2>2. \/ /\ y.blocked /\ y.slot = x.slot /\ y.actor = x.actor /\ y.link = x.link
           /\ y.link.files /\ y.link.open => y.fetch # NoFetch
        \/ ~y.blocked /\ Rank(y.slot.messages) < Rank(x.slot.messages)
    BY FileMoves
  <2> HIDE DEF y
  <2>3. y.blocked /\ y.slot = x.slot /\ (y.link.files /\ y.link.open => y.fetch # NoFetch)
          => FrontMoved(y)
    BY <1>7 DEF FrontMoved
  <2>. QED BY <2>1, <2>2, <2>3 DEF y
<1>8. CASE p.history # "pending" /\ p.voice # "pending" /\ p.id \notin x.actor.showing /\ ~p.file
  <2>1. Tried(x) = TextStep(x) BY <1>1, <1>8
  <2> DEFINE y == TextStep(x)
  <2>2. \/ y.blocked /\ y.slot = x.slot /\ ~Head(y.slot.messages).file
        \/ ~y.blocked /\ Rank(y.slot.messages) < Rank(x.slot.messages)
    BY <1>8, TextMoves
  <2> HIDE DEF y
  <2>3. y.slot = x.slot => (~Head(y.slot.messages).file /\ y.blocked => FrontMoved(y))
    BY <1>8 DEF FrontMoved
  <2>. QED BY <2>1, <2>2, <2>3 DEF y
<1>. QED BY <1>4, <1>5, <1>6, <1>7, <1>8

(* The tries end at a front that waits, or with an empty slot, and go past *)
(* the first one if that moves.                                            *)
LEMMA TriesMove ==
  ASSUME DeliveryAssumption, NEW s, NEW x, Fine(s, x), Live(s), ~x.blocked,
         x.slot.messages # <<>>
  PROVE  LET y == Tries(x, 2 * Len(x.slot.messages))
         IN  /\ y.slot.messages # <<>> => FrontMoved(y)
             /\ ~Tried(x).blocked => Rank(y.slot.messages) < Rank(x.slot.messages)
<1> DEFINE ms == x.slot.messages
           n == 2 * Len(ms)
           good(i, z) ==
             /\ Fine(s, z)
             /\ i = 0 => z = x
             /\ Rank(z.slot.messages) <= Rank(ms)
             /\ z.blocked /\ z.slot.messages # <<>> => FrontMoved(z)
             /\ ~z.blocked /\ z.slot.messages # <<>> => Rank(z.slot.messages) + i <= Rank(ms)
             /\ i >= 1 /\ ~Tried(x).blocked => Rank(z.slot.messages) < Rank(ms)
           S == [i \in 0 .. n |-> { z \in State : good(i, z) }]
           y == Tries(x, n)
<1>1. x \in State /\ ms \in Seq(Item) /\ ms # <<>> BY DEF Fine, State, Buffer
<1>2. /\ Len(ms) \in Nat /\ Len(ms) >= 1 /\ n \in Nat /\ n >= 1
      /\ Rank(ms) \in Nat /\ Rank(ms) <= n
  <2>1. Len(ms) \in Nat /\ Rank(ms) \in Nat /\ Len(ms) >= 1 /\ Rank(ms) <= 2 * Len(ms)
    <3> HIDE DEF ms
    <3>. QED BY <1>1, RankIs
  <2> HIDE DEF ms
  <2>. QED BY <2>1
<1>3. \A z \in State : Fine(s, z) =>
        /\ z.slot.messages \in Seq(Item) /\ Rank(z.slot.messages) \in Nat
        /\ z.slot.messages # <<>> => Rank(z.slot.messages) >= 1
        /\ z.slot.messages = <<>> => Rank(z.slot.messages) = 0
  <2> SUFFICES ASSUME NEW z \in State, Fine(s, z)
               PROVE  /\ z.slot.messages \in Seq(Item) /\ Rank(z.slot.messages) \in Nat
                      /\ z.slot.messages # <<>> => Rank(z.slot.messages) >= 1
                      /\ z.slot.messages = <<>> => Rank(z.slot.messages) = 0
    OBVIOUS
  <2> DEFINE zs == z.slot.messages
  <2>1. zs \in Seq(Item) BY DEF State, Buffer
  <2> HIDE DEF zs
  <2>2. /\ Rank(zs) \in Nat /\ Len(zs) \in Nat
        /\ zs # <<>> => Rank(zs) >= 2 * Len(zs) - 1 /\ Len(zs) >= 1
        /\ zs = <<>> => Rank(zs) = 0
    BY <2>1, RankIs
  <2>3. zs # <<>> => Rank(zs) >= 1 BY <2>2
  <2>. QED BY <2>1, <2>2, <2>3 DEF zs
<1> HIDE DEF n, ms
<1>4. good(0, x) BY <1>2 DEF ms
<1>5. ASSUME NEW i \in 1 .. n, NEW z \in State, good(i - 1, z)
      PROVE  Tried(z) \in State /\ good(i, Tried(z))
  <2> DEFINE w == Tried(z)
  <2>1. Fine(s, w) BY <1>5, TriedOK
  <2>2. w \in State BY <2>1 DEF Fine
  <2> SUFFICES good(i, w)
    BY <2>2
  <2>3. i \in Nat /\ i >= 1 /\ i # 0 BY <1>2
  <2>4. /\ Rank(z.slot.messages) \in Nat /\ Rank(w.slot.messages) \in Nat
        /\ w.slot.messages # <<>> => Rank(w.slot.messages) >= 1
    BY <1>3, <1>5, <2>1, <2>2
  <2>5. CASE z.blocked \/ z.slot.messages = <<>>
    <3>1. w = z BY <2>5 DEF Tried
    <3> HIDE DEF w
    <3>2. i - 1 >= 1 \/ i - 1 = 0 BY <2>3
    <3>3. CASE i - 1 >= 1 BY <1>5, <2>1, <2>2, <2>3, <2>5, <3>1, <3>3
    <3>4. CASE i - 1 = 0 BY <1>5, <3>4, <1>1, <2>5 DEF ms
    <3>. QED BY <3>2, <3>3, <3>4
  <2>6. CASE ~z.blocked /\ z.slot.messages # <<>>
    <3>1. \/ w.blocked /\ w.slot = z.slot /\ FrontMoved(w)
          \/ ~w.blocked /\ Rank(w.slot.messages) < Rank(z.slot.messages)
      BY <2>6, TriedMoves
    <3>2. Rank(z.slot.messages) + (i - 1) <= Rank(ms) /\ Rank(z.slot.messages) <= Rank(ms)
      BY <1>5, <2>6
    <3>3. Rank(w.slot.messages) <= Rank(ms) BY <1>2, <2>4, <3>1, <3>2
    <3>4. ~w.blocked => Rank(w.slot.messages) + i <= Rank(ms)
      BY <1>2, <2>3, <2>4, <3>1, <3>2, SMTT(30)
    <3>5. ~Tried(x).blocked => Rank(w.slot.messages) < Rank(ms)
      BY <1>5, <3>1, <2>3, <2>4, <1>2 DEF ms
    <3> HIDE DEF w
    <3>. QED BY <2>1, <2>2, <2>3, <3>1, <3>3, <3>4, <3>5
  <2>. QED BY <2>5, <2>6
<1> HIDE DEF good
<1>6. x \in S[0] BY <1>2, <1>1, <1>4
<1>7. ASSUME NEW i \in 1 .. n, NEW z \in S[i - 1] PROVE Tried(z) \in S[i] BY <1>2, <1>5
<1>8. S[n] = { z \in State : good(n, z) } BY <1>2
<1> HIDE DEF S
<1>9. y \in S[n] BY <1>2, <1>6, <1>7, TriesInduct
<1>10. y \in State /\ good(n, y) BY <1>8, <1>9
<1> HIDE DEF y
<1>11. y.slot.messages # <<>> => FrontMoved(y)
  <2> SUFFICES ASSUME y.slot.messages # <<>> PROVE FrontMoved(y)
    OBVIOUS
  <2>1. Rank(y.slot.messages) >= 1 /\ Rank(y.slot.messages) \in Nat
    BY <1>3, <1>10 DEF good
  <2>2. y.blocked BY <1>2, <2>1, <1>10 DEF good
  <2>. QED BY <1>10, <2>2 DEF good
<1>12. ~Tried(x).blocked => Rank(y.slot.messages) < Rank(ms) BY <1>2, <1>10 DEF good
<1>. QED BY <1>11, <1>12 DEF y, n, ms

(* After a flush the front waits for something, and no longer as it was if *)
(* the first try moved it.                                                 *)
LEMMA FlushedMoves ==
  ASSUME DeliveryAssumption, NEW s, NEW x, Fine(s, x), Live(s), x.slot.messages # <<>>
  PROVE  /\ Moved(s, Flushed(s, x))
         /\ ~Tried([x EXCEPT !.blocked = FALSE]).blocked => Flushed(s, x).slot # x.slot
<1> DEFINE n == 2 * Len(x.slot.messages)
           x0 == [x EXCEPT !.blocked = FALSE]
           y == Tries(x0, n)
<1>1. x \in State /\ x.slot.messages \in Seq(Item) BY DEF Fine, State, Buffer
<1>2. Flushed(s, x) = IF y.slot.messages = <<>> THEN Closed(y) ELSE y BY DEF Flushed
<1>3. /\ x0 \in State /\ x0.slot = x.slot /\ x0.actor = x.actor /\ x0.fetch = x.fetch
      /\ x0.link = x.link /\ x0.flight = x.flight /\ x0.buttons = x.buttons
      /\ x0.handed = x.handed /\ x0.told = x.told /\ ~x0.blocked
  BY <1>1 DEF State
<1> HIDE DEF x0
<1>4. Fine(s, x0) BY <1>3, NotedOK
<1>5. /\ y.slot.messages # <<>> => FrontMoved(y)
      /\ ~Tried(x0).blocked => Rank(y.slot.messages) < Rank(x0.slot.messages)
  BY <1>3, <1>4, TriesMove
<1>6. Rank(x.slot.messages) \in Nat
  <2> DEFINE ms == x.slot.messages
  <2> HIDE DEF ms
  <2>1. Rank(ms) \in Nat BY <1>1, RankIs DEF ms
  <2>. QED BY <2>1 DEF ms
<1> HIDE DEF y, n
<1>7. CASE y.slot.messages # <<>> BY <1>2, <1>7, <1>3, <1>5, <1>6 DEF Moved, x0
<1>8. CASE y.slot.messages = <<>>
  <2>1. Flushed(s, x) = Closed(y) BY <1>2, <1>8
  <2>2. y \in State
    <3>1. Fine(s, Flushed(s, x)) BY FlushedOK
    <3> DEFINE S == { z \in State : Fine(s, z) }
    <3>2. x0 \in S BY <1>3, <1>4
    <3>3. ASSUME NEW z \in S PROVE Tried(z) \in S BY TriedOK DEF Fine
    <3>4. n \in Nat
      <4> DEFINE ms == x.slot.messages
      <4> HIDE DEF ms
      <4>1. Len(ms) \in Nat BY <1>1, RankIs DEF ms
      <4>. QED BY <4>1 DEF n, ms
    <3> HIDE DEF S
    <3>5. y \in S BY <3>2, <3>3, <3>4, TriesKeep DEF y
    <3>. QED BY <3>5 DEF S
  <2>3. Closed(y).slot = EmptyBuffer BY <2>2 DEF State, Closed, ButtonDropped
  <2>4. EmptyBuffer.messages = <<>> BY DEF EmptyBuffer
  <2>. QED BY <2>1, <2>3, <2>4 DEF Moved
<1>. QED BY <1>7, <1>8

(* The pump leaves no front that nothing was asked for.                    *)
LEMMA PumpedMoves ==
  ASSUME DeliveryAssumption, NEW s \in Session, NEW x, Fine(s, x)
  PROVE  /\ Moved(s, Pumped(s, x))
         /\ Live(s) /\ x.slot.messages # <<>> /\ ~Tried([x EXCEPT !.blocked = FALSE]).blocked
              => Pumped(s, x).slot # x.slot
BY FlushedMoves DEF Moved, Pumped, Offered, Live

----------------------------------------------------------------------------
(* The invariant.                                                          *)

PolledInv ==
  /\ plan \in Plans
  /\ offset \in 1 .. Count + 1 /\ savedOffset = offset
  /\ inbox \in Seq(Message) /\ Increasing(inbox)
  /\ \A i \in DOMAIN inbox : inbox[i] < offset

(* What came to the slot came before what waits for the actor.             *)
CameInv ==
  \A m \in IdsOf(slot.messages) \cup ToSet(link.out) :
    m < offset /\ \A i \in DOMAIN inbox : m < inbox[i]

DiskInv == BufferOK(disk) /\ \A m \in IdsOf(disk.messages) : m < offset

SessionInv == session \in Session /\ session.conn \in {0, link.conn}

FineInv == Fine(session, Now)

MovedInv == Moved(session, Now)

TakenInv ==
  /\ taken \in [Message -> Nat]
  /\ \A m \in Message : taken[m] <= 1 /\ (m >= offset \/ m \in ToSet(inbox) => taken[m] = 0)

IInv == PolledInv /\ CameInv /\ DiskInv /\ SessionInv /\ FineInv /\ MovedInv /\ TakenInv

Waiting == ToSet(inbox) \cup IdsOf(slot.messages)

Works ==
  /\ Flows(Waiting, handed, told, Waiting', handed', told')
  /\ UNCHANGED <<offset, disk>>

LEMMA NowIs ==
  /\ Now.slot = slot /\ Now.actor = actor /\ Now.fetch = fetch /\ Now.link = link
  /\ Now.flight = flight /\ Now.buttons = buttons /\ Now.handed = handed /\ Now.told = told
BY DEF Now

LEMMA NowTypes ==
  ASSUME FineInv
  PROVE  /\ slot \in Buffer /\ slot.messages \in Seq(Item) /\ actor \in Actor /\ fetch \in Fetch
         /\ link \in LinkState /\ flight \in SUBSET Flight /\ buttons \in Buttons
         /\ handed \in SUBSET Message /\ told \in SUBSET Message /\ Now \in State
BY NowIs DEF FineInv, Fine, State, Buffer

LEMMA EmptyIs ==
  <<>> \in Seq(Message) /\ <<>> \in Seq(Item) /\ DOMAIN <<>> = {} /\ Len(<<>>) = 0
OBVIOUS

LEMMA InitInv ==
  ASSUME DeliveryAssumption, Init PROVE IInv
<1>1. PolledInv BY EmptyIs DEF Init, PolledInv, Increasing, DeliveryAssumption
<1>2. slot.messages = <<>> /\ disk.messages = <<>> /\ link.out = <<>>
  BY DEF Init, EmptyBuffer, NoLink
<1>3. CameInv /\ IdsOf(disk.messages) = {} BY <1>2, EmptyIs DEF CameInv, IdsOf, ToSet
<1>4. EmptyBuffer \in Buffer /\ EmptyBuffer.messages = <<>> /\ EmptyBuffer.resume = NoNote
  BY DEF EmptyBuffer, Buffer, Note, NoNote
<1>5. BufferOK(EmptyBuffer) /\ NoButtons \in Buttons
      /\ ResumeOK(NoNote, 0, {}, NoButtons) /\ EmptyBuffer.resume.message.id \in 0 .. NoButtons.sent
  BY EmptyIs, NoPostIs, <1>4
     DEF NoteOK, Ordered, BufferOK, DeliveryAssumption, NoButtons, Buttons, ResumeOK
<1>6. DiskInv BY <1>3, <1>5 DEF DiskInv, Init
<1>7. SessionInv BY DEF SessionInv, Session, Init, NoLink, DeliveryAssumption
<1>8. NewActor \in Actor /\ NoFetch \in Fetch /\ NoLink \in LinkState
  BY DEF NewActor, Actor, NoGather, Gather, NoMessage, NoFetch, Fetch, Outcome, NoLink, LinkState,
         DeliveryAssumption
<1>9. Now \in State BY <1>4, <1>5, <1>8 DEF Init, Now, State
<1>10. FineInv
  <2>1. NewActor.resume_sends = 0 BY DEF NewActor
  <2>. QED BY NowIs, EmptyIs, <1>4, <1>5, <1>9, <2>1
       DEF Init, NoLink, NoFetch, FrontOK, RunningOK, Frontier, Increasing, FineInv, Fine
<1>11. TakenInv BY DEF TakenInv, Init
<1>12. MovedInv BY DEF MovedInv, Moved, Live, Init
<1>. QED BY <1>1, <1>3, <1>6, <1>7, <1>10, <1>11, <1>12 DEF IInv

LEMMA BecomesFine ==
  ASSUME NEW s, NEW y, Fine(s, y), Becomes(y), session' = s, disk' = disk
  PROVE  FineInv'
BY DEF Becomes, Now, State, Fine, FineInv

LEMMA BecomesMoved ==
  ASSUME NEW s, NEW y, Moved(s, y), Becomes(y), session' = s
  PROVE  MovedInv'
BY DEF Becomes, Now, Moved, FrontMoved, MovedInv

(* A step of the actor that takes no message in.                           *)
LEMMA ActorStep ==
  ASSUME IInv, NEW s \in Session, NEW x, s.conn \in {0, x.link.conn},
         Flows(IdsOf(slot.messages), handed, told, IdsOf(x.slot.messages), x.handed, x.told),
         ToSet(x.link.out) \subseteq ToSet(link.out) \cup IdsOf(slot.messages),
         NEW y, Fine(s, y), Moved(s, y), Follows(x, y), Becomes(y), session' = s,
         UNCHANGED Elsewhere
  PROVE  IInv' /\ Works
<1>1. UNCHANGED <<plan, offset, savedOffset, inbox, disk, taken>> BY DEF Elsewhere
<1>2. PolledInv' /\ DiskInv' /\ TakenInv' BY <1>1 DEF IInv, PolledInv, DiskInv, TakenInv
<1>3. slot' = y.slot /\ link' = y.link /\ handed' = y.handed /\ told' = y.told
  BY DEF Becomes
<1>4. Flows(IdsOf(x.slot.messages), x.handed, x.told, IdsOf(slot'.messages), handed', told')
      /\ ToSet(link'.out) \subseteq ToSet(x.link.out) \cup IdsOf(x.slot.messages)
      /\ link'.conn = x.link.conn
  BY <1>3 DEF Follows
<1>5. Flows(IdsOf(slot.messages), handed, told, IdsOf(slot'.messages), handed', told')
  BY <1>4 DEF Flows
<1>6. IdsOf(slot'.messages) \cup ToSet(link'.out)
        \subseteq IdsOf(slot.messages) \cup ToSet(link.out)
  BY <1>4 DEF Flows
<1>7. CameInv' BY <1>1, <1>6 DEF IInv, CameInv
<1>8. SessionInv' BY <1>4 DEF SessionInv
<1>9. FineInv' /\ MovedInv' BY <1>1, BecomesFine, BecomesMoved
<1>10. Works BY <1>1, <1>5 DEF Waiting, Works, Flows
<1>. QED BY <1>2, <1>7, <1>8, <1>9, <1>10 DEF IInv

LEMMA FromNow ==
  ASSUME DeliveryAssumption, IInv, NEW s \in Session, s.conn \in {0, link.conn},
         NEW x, Fine(s, x), Follows(Now, x), NEW y,
         y = Pumped(s, x) \/ y = Pumped(s, Flushed(s, x)),
         Becomes(y), session' = s, UNCHANGED Elsewhere
  PROVE  IInv' /\ Works
<1>1. x.link.conn = link.conn /\ ToSet(x.link.out) \subseteq ToSet(link.out) \cup IdsOf(slot.messages)
      /\ Flows(IdsOf(slot.messages), handed, told, IdsOf(x.slot.messages), x.handed, x.told)
  BY NowIs DEF Follows
<1>2. Fine(s, Flushed(s, x)) /\ Follows(x, Flushed(s, x)) BY FlushedOK
<1>3. Fine(s, y) /\ Moved(s, y) /\ Follows(x, y)
  <2>1. CASE y = Pumped(s, x) BY <2>1, PumpedOK, PumpedMoves
  <2>2. CASE y = Pumped(s, Flushed(s, x))
    BY <1>2, <2>2, PumpedOK, PumpedMoves, FollowsTransitive
  <2>. QED BY <2>1, <2>2
<1>. QED BY <1>1, <1>3, ActorStep

LEMMA ActorNoted ==
  ASSUME NEW s, NEW x, Fine(s, x), NEW a \in Actor, a.resume_sends = x.actor.resume_sends
  PROVE  LET y == [x EXCEPT !.actor = a]
         IN  /\ Fine(s, y) /\ Follows(x, y) /\ y.actor = a /\ y.slot = x.slot
             /\ y.fetch = x.fetch /\ y.link = x.link
<1> DEFINE y == [x EXCEPT !.actor = a]
<1>1. x \in State BY DEF Fine
<1>2. /\ y \in State /\ y.slot = x.slot /\ y.fetch = x.fetch /\ y.link = x.link
      /\ y.flight = x.flight /\ y.buttons = x.buttons /\ y.handed = x.handed
      /\ y.told = x.told /\ y.actor = a
  BY <1>1 DEF State
<1> HIDE DEF y
<1>3. Fine(s, y) /\ Follows(x, y) BY <1>2, NotedOK
<1>. QED BY <1>2, <1>3 DEF y

LEMMA OthersKept ==
  ASSUME IInv, UNCHANGED others
  PROVE  /\ UNCHANGED Elsewhere /\ session' = session /\ session \in Session
         /\ session.conn \in {0, link.conn} /\ Fine(session, Now) /\ Follows(Now, Now)
BY FollowsItself DEF others, Elsewhere, IInv, SessionInv, FineInv

LEMMA OnVoiceInv ==
  ASSUME DeliveryAssumption, IInv, NEW m \in Message, NEW words \in BOOLEAN, OnVoice(m, words)
  PROVE  IInv' /\ Works
<1> DEFINE a == [actor EXCEPT !.hearing = @ \ {m}]
           x == [Now EXCEPT !.actor = a]
           v == SetVoice(x, m, "heard")
           b == [v.actor EXCEPT !.showing = @ \cup {m}]
           y == IF words THEN [v EXCEPT !.actor = b] ELSE SetVoice(x, m, "unheard")
<1>1. Becomes(Pumped(session, Flushed(session, y))) /\ UNCHANGED others
  <2>1. x = [Now EXCEPT !.actor.hearing = @ \ {m}] BY NowIs
  <2>2. [v EXCEPT !.actor = b] = [v EXCEPT !.actor.showing = @ \cup {m}] OBVIOUS
  <2> HIDE DEF x
  <2>. QED BY <2>1, <2>2 DEF OnVoice
<1>2. actor \in Actor /\ Now.actor = actor BY NowTypes, NowIs DEF IInv
<1>3. a \in Actor /\ a.resume_sends = Now.actor.resume_sends BY <1>2 DEF Actor
<1> HIDE DEF a
<1>4. Fine(session, x) /\ Follows(Now, x) BY <1>1, <1>3, OthersKept, ActorNoted
<1> HIDE DEF x
<1>5. Fine(session, y) /\ Follows(x, y)
  <2>1. CASE ~words BY <1>4, SetVoiceOK, <2>1
  <2>2. CASE words
    <3>1. Fine(session, v) /\ Follows(x, v) BY <1>4, SetVoiceOK
    <3> HIDE DEF v
    <3>2. v.actor \in Actor BY <3>1 DEF Fine, State
    <3>3. b \in Actor /\ b.resume_sends = v.actor.resume_sends BY <3>2 DEF Actor
    <3> HIDE DEF b
    <3> DEFINE z == [v EXCEPT !.actor = b]
    <3>4. Fine(session, z) /\ Follows(v, z) BY <3>1, <3>3, ActorNoted
    <3>5. y = z BY <2>2
    <3> HIDE DEF y, z
    <3>. QED BY <3>1, <3>4, <3>5, FollowsTransitive
  <2>. QED BY <2>1, <2>2
<1> HIDE DEF y
<1>6. Follows(Now, y) BY <1>4, <1>5, FollowsTransitive
<1>. QED BY <1>1, <1>5, <1>6, OthersKept, FromNow

LEMMA OnHeardInv ==
  ASSUME DeliveryAssumption, IInv, NEW m \in Message, OnHeard(m)
  PROVE  IInv' /\ Works
<1> DEFINE a == [actor EXCEPT !.showing = @ \ {m}]
           x == [Now EXCEPT !.actor = a]
<1>1. Becomes(Pumped(session, Flushed(session, x))) /\ UNCHANGED others
  BY NowIs DEF OnHeard
<1>2. actor \in Actor /\ Now.actor = actor BY NowTypes, NowIs DEF IInv
<1>3. a \in Actor /\ a.resume_sends = Now.actor.resume_sends BY <1>2 DEF Actor
<1> HIDE DEF a
<1>4. Fine(session, x) /\ Follows(Now, x) BY <1>1, <1>3, OthersKept, ActorNoted
<1> HIDE DEF x
<1>. QED BY <1>1, <1>4, OthersKept, FromNow

LEMMA HistoryReadyInv ==
  ASSUME DeliveryAssumption, IInv, HistoryReady
  PROVE  IInv' /\ Works
<1> DEFINE a == [actor EXCEPT !.compressing = NoMessage]
           x == [Now EXCEPT !.actor = a]
           old == slot.messages
           ms == [i \in DOMAIN old |-> IF old[i].id = actor.compressing
                                       THEN [old[i] EXCEPT !.history = "ready"] ELSE old[i]]
           y == [x EXCEPT !.slot.messages = ms]
<1>1. Becomes(Pumped(session, y)) /\ UNCHANGED others BY NowIs DEF HistoryReady
<1>2. actor \in Actor /\ Now.actor = actor /\ old \in Seq(Item) /\ Now.slot = slot
      /\ Now.fetch = fetch
  BY NowTypes, NowIs DEF IInv
<1>3. a \in Actor /\ a.resume_sends = Now.actor.resume_sends
  <2>1. NoMessage \in 0 .. Count BY DEF NoMessage, DeliveryAssumption
  <2>. QED BY <1>2, <2>1 DEF Actor
<1> HIDE DEF a
<1>4. Fine(session, x) /\ Follows(Now, x) /\ x.slot = slot /\ x.fetch = fetch
  BY <1>1, <1>3, OthersKept, ActorNoted, <1>2
<1> HIDE DEF x, old
<1>5. ASSUME NEW i \in DOMAIN old
      PROVE  ms[i] \in Item /\ ms[i].id = old[i].id /\ ms[i].file = old[i].file
  <2>1. old[i] \in Item /\ ms[i] \in {old[i], [old[i] EXCEPT !.history = "ready"]}
    BY <1>2, <1>5
  <2> HIDE DEF ms
  <2>. QED BY <2>1 DEF Item
<1>6. ms = [i \in DOMAIN old |-> ms[i]] OBVIOUS
<1> HIDE DEF ms
<1>7. ms \in Seq(Item) /\ Len(ms) = Len(old) /\ DOMAIN ms = DOMAIN old
  BY <1>2, <1>5, <1>6, SeqChanged
<1>8. fetch # NoFetch => 1 \in DOMAIN old /\ old[1].file
  BY <1>2 DEF IInv, FineInv, Fine, FrontOK, old
<1>9. /\ Len(ms) = Len(x.slot.messages)
      /\ \A i \in 1 .. Len(ms) : ms[i].id = x.slot.messages[i].id
      /\ x.fetch # NoFetch => ms[1].file
  BY <1>2, <1>4, <1>5, <1>7, <1>8 DEF old
<1>10. Fine(session, y) /\ Follows(x, y) BY <1>4, <1>7, <1>9, SameMessages
<1> HIDE DEF y
<1>11. Follows(Now, y) BY <1>4, <1>10, FollowsTransitive
<1>. QED BY <1>1, <1>10, <1>11, OthersKept, FromNow

LEMMA GatherDueInv ==
  ASSUME DeliveryAssumption, IInv, GatherDue
  PROVE  IInv' /\ Works
<1> DEFINE g == [actor.gather EXCEPT !.due = TRUE]
           x == [Now EXCEPT !.actor.gather = g]
<1>1. Becomes(Pumped(session, x)) /\ UNCHANGED others BY NowIs DEF GatherDue
<1>2. g \in Gather BY NowTypes DEF IInv, Actor, Gather
<1> HIDE DEF g
<1>3. Fine(session, x) /\ Follows(Now, x) BY <1>1, <1>2, OthersKept, NewGather
<1> HIDE DEF x
<1>. QED BY <1>1, <1>3, OthersKept, FromNow

LEMMA TickInv ==
  ASSUME DeliveryAssumption, IInv, Tick
  PROVE  IInv' /\ Works
BY OthersKept, FromNow DEF Tick

(* The messages after the first.                                           *)
LEMMA TailParts ==
  ASSUME NEW ms \in Seq(Item), ms # <<>>
  PROVE  /\ Tail(ms) \in Seq(Item) /\ Len(Tail(ms)) = Len(ms) - 1 /\ 1 \in DOMAIN ms
         /\ \A i \in DOMAIN Tail(ms) : i + 1 \in DOMAIN ms /\ 1 < i + 1 /\ Tail(ms)[i] = ms[i + 1]
         /\ IdsOf(ms) = {ms[1].id} \cup IdsOf(Tail(ms))
<1> DEFINE rest == Tail(ms)
<1>1. /\ rest \in Seq(Item) /\ Len(rest) = Len(ms) - 1 /\ 1 \in DOMAIN ms
      /\ Len(ms) \in Nat /\ DOMAIN ms = 1 .. Len(ms) /\ DOMAIN rest = 1 .. Len(ms) - 1
  OBVIOUS
<1>2. \A i \in 1 .. Len(ms) - 1 : rest[i] = ms[i + 1] OBVIOUS
<1> HIDE DEF rest
<1>3. \A i \in DOMAIN rest : i + 1 \in DOMAIN ms /\ 1 < i + 1 /\ rest[i] = ms[i + 1]
  BY <1>1, <1>2
<1>4. IdsOf(ms) = {ms[1].id} \cup IdsOf(rest)
  <2>1. \A i \in DOMAIN ms : i = 1 \/ (i - 1 \in DOMAIN rest /\ rest[i - 1] = ms[i])
    BY <1>1, <1>2
  <2>. QED BY <1>1, <1>3, <2>1 DEF IdsOf
<1>. QED BY <1>1, <1>3, <1>4 DEF rest

(* The download has answered.                                              *)
LEMMA FetchOver ==
  ASSUME NEW s, NEW x, Fine(s, x), x.fetch # NoFetch,
         Live(s) => ~(x.fetch.outcome = "handed" /\ x.fetch.conn = x.link.conn),
         NEW a \in Actor, a.resume_sends = x.actor.resume_sends,
         NEW y \in State, y.slot = x.slot, y.actor = a, y.fetch = NoFetch, y.link = x.link,
         y.flight = x.flight, y.buttons = x.buttons, y.handed = x.handed, y.told = x.told
  PROVE  Fine(s, y) /\ Follows(x, y)
<1>1. x \in State BY DEF Fine
<1>2. /\ y \in State /\ y.slot = x.slot /\ y.fetch = NoFetch /\ y.link = x.link
      /\ y.flight = x.flight /\ y.buttons = x.buttons /\ y.handed = x.handed
      /\ y.told = x.told /\ y.actor = a
  OBVIOUS
<1>3. Live(s) => Frontier(y.slot.messages, y.fetch, y.link) BY <1>2 DEF Fine, Frontier
<1>4. FrontOK(y.slot.messages, y.fetch) /\ RunningOK(y.fetch, y.link)
  BY <1>2 DEF FrontOK, RunningOK, NoFetch
<1>5. y.fetch.conn <= y.link.conn BY <1>1, <1>2 DEF State, LinkState, NoFetch
<1>6. Fine(s, y) BY <1>2, <1>3, <1>4, <1>5 DEF Fine
<1>7. Follows(x, y) BY <1>2, FollowsItself
<1>. QED BY <1>6, <1>7

(* Its file goes, with h and t the handed and the told ones after it.      *)
LEMMA FrontGoes ==
  ASSUME DeliveryAssumption, NEW s, NEW x, Fine(s, x), x.fetch # NoFetch,
         NEW a \in Actor, a.resume_sends = x.actor.resume_sends, NoFetch \in Fetch,
         NEW h \in SUBSET Message, NEW t \in SUBSET Message,
         x.handed \subseteq h, h \subseteq x.handed \cup {x.fetch.msg},
         x.told \subseteq t, t \subseteq x.told \cup {x.fetch.msg},
         x.fetch.msg \in h \cup t, NEW y \in State,
         y.slot = [x.slot EXCEPT !.messages = Tail(@)], y.actor = a, y.fetch = NoFetch,
         y.link = x.link, y.flight = x.flight, y.buttons = x.buttons, y.handed = h, y.told = t
  PROVE  Fine(s, y) /\ Follows(x, y)
<1> DEFINE old == x.slot.messages
           rest == Tail(old)
           b == [x.slot EXCEPT !.messages = rest]
<1>1. x \in State /\ x.slot \in Buffer /\ old \in Seq(Item) /\ Ordered(old)
      /\ Len(old) <= MaxBuffered
  BY DEF Fine, State, Buffer, BufferOK
<1>2. old # <<>> /\ old[1].id = x.fetch.msg BY DEF Fine, FrontOK
<1>3. /\ rest \in Seq(Item) /\ Len(rest) = Len(old) - 1 /\ 1 \in DOMAIN old
      /\ \A i \in DOMAIN rest : i + 1 \in DOMAIN old /\ 1 < i + 1 /\ rest[i] = old[i + 1]
      /\ IdsOf(old) = {old[1].id} \cup IdsOf(rest)
  <2> HIDE DEF old
  <2>. QED BY <1>1, <1>2, TailParts
<1> HIDE DEF rest
<1>4. b \in Buffer /\ b.messages = rest /\ b.resume = x.slot.resume
  BY <1>1, <1>3 DEF Buffer
<1> HIDE DEF b
<1>5. /\ y \in State /\ y.slot = b /\ y.fetch = NoFetch /\ y.link = x.link
      /\ y.flight = x.flight /\ y.buttons = x.buttons /\ y.handed = h
      /\ y.told = t /\ y.actor = a
  BY DEF b, rest, old
<1>6. Ordered(rest) /\ Len(rest) <= MaxBuffered
  <2>1. ASSUME NEW i \in DOMAIN rest, NEW j \in DOMAIN rest, i < j
        PROVE  rest[i].id < rest[j].id
    <3>1. i \in Int /\ j \in Int
      <4>1. rest \in Seq(Item) BY <1>3
      <4>. QED BY <4>1
    <3>2. i + 1 \in DOMAIN old /\ j + 1 \in DOMAIN old /\ i + 1 < j + 1
      BY <1>3, <2>1, <3>1
    <3>. QED BY <1>1, <1>3, <3>2 DEF Ordered
  <2>2. Len(old) \in Nat /\ MaxBuffered \in Nat BY <1>1 DEF DeliveryAssumption
  <2>. QED BY <1>1, <1>3, <2>1, <2>2 DEF Ordered
<1>7. BufferOK(y.slot) BY <1>4, <1>5, <1>6 DEF Fine, BufferOK
<1>8. FrontOK(y.slot.messages, y.fetch) /\ RunningOK(y.fetch, y.link)
  BY <1>5 DEF FrontOK, RunningOK, NoFetch
<1>9. Live(s) => Frontier(y.slot.messages, y.fetch, y.link)
  <2> SUFFICES ASSUME Live(s), NEW i \in DOMAIN x.link.out, NEW j \in DOMAIN rest
               PROVE  x.link.out[i] < rest[j].id
    BY <1>4, <1>5 DEF Frontier
  <2>1. j + 1 \in DOMAIN old /\ 1 < j + 1 /\ rest[j] = old[j + 1] BY <1>3
  <2>2. old[1].id < old[j + 1].id BY <1>1, <1>3, <2>1 DEF Ordered
  <2>3. \/ x.link.out[i] < old[j + 1].id
        \/ old[j + 1].id = x.fetch.msg
    BY <2>1 DEF Fine, Frontier
  <2>4. old[1].id \in Nat /\ old[j + 1].id \in Nat
    <3> HIDE DEF old
    <3>. QED BY <1>1, <1>3, <2>1, IdsAre
  <2>. QED BY <1>2, <2>1, <2>2, <2>3, <2>4
<1>10. y.fetch.conn <= y.link.conn BY <1>1, <1>5 DEF State, LinkState, NoFetch
<1>11. Fine(s, y) BY <1>4, <1>5, <1>7, <1>8, <1>9, <1>10 DEF Fine
<1>12. Follows(x, y) BY <1>2, <1>3, <1>4, <1>5 DEF Flows, Follows
<1>. QED BY <1>11, <1>12

LEMMA FrontLess ==
  ASSUME NEW b \in Buffer, b.messages # <<>>
  PROVE  [b EXCEPT !.messages = Tail(@)] \in Buffer
<1> DEFINE ms == b.messages
<1>1. ms \in Seq(Item) /\ ms # <<>> BY DEF Buffer
<1> HIDE DEF ms
<1>2. Tail(ms) \in Seq(Item) BY <1>1
<1>. QED BY <1>2 DEF Buffer, ms

LEMMA OnFetchedInv ==
  ASSUME DeliveryAssumption, IInv, OnFetched
  PROVE  IInv' /\ Works
<1> DEFINE m == fetch.msg
           losses == IF actor.losses[1] = m THEN actor.losses[2] + 1 ELSE 1
           old == slot.messages
           p == Head(old)
           a1 == [actor EXCEPT !.losses = IF fetch.outcome = "closed" THEN <<m, losses>> ELSE @]
           a2 == [actor EXCEPT !.losses = <<NoMessage, 0>>]
           x1 == [Now EXCEPT !.fetch = NoFetch, !.actor = a1]
           x2 == [Now EXCEPT !.fetch = NoFetch, !.actor = a2]
           Own == IF session.conn = fetch.conn THEN {m} ELSE {}
           z == IF fetch.outcome = "handed"
                THEN [x2 EXCEPT !.slot.messages = Tail(@), !.handed = @ \cup Own]
                ELSE IF HasWords(p) THEN [x2 EXCEPT !.slot.messages[1].file = FALSE]
                ELSE [Told(x2, m) EXCEPT !.slot.messages = Tail(@)]
<1>1. /\ UNCHANGED others /\ fetch.outcome \notin {"none", "running"}
      /\ IF Stays(losses) THEN Becomes(Pumped(session, Flushed(session, x1)))
         ELSE IF old = <<>> \/ p.id # m THEN Becomes(Pumped(session, x2))
         ELSE Becomes(Pumped(session, Flushed(session, z)))
  BY NowIs DEF Now, OnFetched
<1>2. /\ Fine(session, Now) /\ session \in Session /\ session.conn \in {0, link.conn}
      /\ Follows(Now, Now) /\ session' = session /\ UNCHANGED Elsewhere
  BY <1>1, OthersKept
<1>3. /\ actor \in Actor /\ fetch \in Fetch /\ old \in Seq(Item) /\ handed \in SUBSET Message
      /\ told \in SUBSET Message /\ slot \in Buffer
  BY NowTypes DEF IInv
<1>4. fetch # NoFetch /\ NoFetch \in Fetch /\ fetch.outcome \in {"failed", "closed", "handed"}
  BY <1>1, <1>3 DEF NoFetch, Fetch, NoMessage, Outcome, DeliveryAssumption
<1>5. old # <<>> /\ old[1].id = m /\ 1 \in DOMAIN old /\ p = old[1]
  <2>1. old # <<>> /\ old[1].id = m BY <1>2, <1>4, NowIs DEF Fine, FrontOK
  <2> HIDE DEF old, m
  <2>. QED BY <1>3, <2>1
<1>6. m \in Message
  <2> HIDE DEF old, m
  <2>. QED BY <1>3, <1>5, IdsAre
<1>7. a1 \in Actor /\ a2 \in Actor /\ a1.resume_sends = actor.resume_sends
      /\ a2.resume_sends = actor.resume_sends
  <2>1. m \in 0 .. Count /\ NoMessage \in 0 .. Count
    BY <1>6 DEF Message, NoMessage, DeliveryAssumption
  <2>2. losses \in Nat BY <1>3 DEF Actor
  <2> HIDE DEF m, losses
  <2>. QED BY <1>3, <2>1, <2>2 DEF Actor
<1>8. Live(session) => session.conn = link.conn BY <1>2 DEF Live
<1> HIDE DEF a1, a2
<1>9. /\ x1 \in State /\ x1.slot = slot /\ x1.actor = a1 /\ x1.fetch = NoFetch /\ x1.link = link
      /\ x1.flight = flight /\ x1.buttons = buttons /\ x1.handed = handed /\ x1.told = told
      /\ x2 \in State /\ x2.slot = slot /\ x2.actor = a2 /\ x2.fetch = NoFetch /\ x2.link = link
      /\ x2.flight = flight /\ x2.buttons = buttons /\ x2.handed = handed /\ x2.told = told
  BY NowTypes, <1>4, <1>7, NowIs DEF IInv, State
<1> HIDE DEF x1, x2
<1>10. CASE Stays(losses)
  BY <1>8, <1>10, <1>2, <1>4, <1>7, <1>9, NowIs, FetchOver, <1>1, FromNow DEF Stays
<1>11. CASE ~Stays(losses) /\ fetch.outcome = "handed"
  <2> DEFINE h == handed \cup {m}
             b == [slot EXCEPT !.messages = Tail(@)]
             y == [x2 EXCEPT !.slot.messages = Tail(@), !.handed = @ \cup Own]
  <2>1. Own = {m} /\ h \in SUBSET Message BY <1>3, <1>6, <1>11 DEF Stays
  <2>2. y = [x2 EXCEPT !.slot = b, !.handed = h] /\ b \in Buffer
    BY <1>9, <2>1, FrontLess, <1>3, <1>5
  <2> HIDE DEF h, b, y
  <2>3. /\ y \in State /\ y.slot = b /\ y.actor = a2 /\ y.fetch = NoFetch /\ y.link = link
        /\ y.flight = flight /\ y.buttons = buttons /\ y.handed = h /\ y.told = told
    BY <1>9, <2>1, <2>2 DEF State
  <2>4. /\ Now.handed \subseteq h /\ h \subseteq Now.handed \cup {Now.fetch.msg}
        /\ Now.told \subseteq told /\ told \subseteq Now.told \cup {Now.fetch.msg}
        /\ Now.fetch.msg \in h \cup told
    BY NowIs DEF h, m
  <2>5. Fine(session, y) /\ Follows(Now, y)
    BY <2>3, NowIs, <1>2, <1>3, <1>4, <1>7, <2>1, <2>4, FrontGoes DEF b
  <2>6. Becomes(Pumped(session, Flushed(session, y))) BY <1>11, <1>1, <1>5 DEF y
  <2>. QED BY <1>2, <2>5, <2>6, FromNow
<1>12. CASE ~Stays(losses) /\ fetch.outcome # "handed" /\ HasWords(p)
  <2>1. Fine(session, x2) /\ Follows(Now, x2)
    BY <1>2, <1>4, <1>7, <1>9, <1>12, NowIs, FetchOver
  <2> DEFINE q == [old[1] EXCEPT !.file = FALSE]
             ms == [old EXCEPT ![1] = q]
             y == [x2 EXCEPT !.slot.messages = ms]
  <2>2. z = [x2 EXCEPT !.slot.messages[1].file = FALSE] BY <1>12
  <2>3. z = y
    <3>1. x2.slot.messages = old BY <1>9
    <3> HIDE DEF z, old
    <3>. QED BY <2>2, <3>1
  <2>4. q \in Item /\ q.id = old[1].id
    <3>1. old[1] \in Item BY <1>3, <1>5
    <3>. QED BY <3>1 DEF Item
  <2> HIDE DEF q
  <2>5. ms \in Seq(Item) /\ Len(ms) = Len(old) /\ \A i \in 1 .. Len(ms) : ms[i].id = old[i].id
    <3> HIDE DEF old
    <3>1. ms \in Seq(Item) /\ Len(ms) = Len(old)
          /\ \A i \in 1 .. Len(old) : ms[i] = IF i = 1 THEN q ELSE old[i]
      BY <1>3, <1>5, <2>4, ExceptSeq
    <3>. QED BY <2>4, <3>1
  <2> HIDE DEF ms
  <2>6. Fine(session, y) /\ Follows(x2, y)
    <3>1. /\ Len(ms) = Len(x2.slot.messages)
          /\ \A i \in 1 .. Len(ms) : ms[i].id = x2.slot.messages[i].id
      BY <1>9, <2>5
    <3>. QED BY <1>9, <2>1, <2>5, <3>1, SameMessages
  <2>7. Becomes(Pumped(session, Flushed(session, y))) BY <1>1, <1>5, <1>12, <2>3
  <2> HIDE DEF y
  <2>8. Follows(Now, y) BY <2>1, <2>6, FollowsTransitive
  <2>. QED BY <1>2, <2>6, <2>7, <2>8, FromNow
<1>13. CASE ~Stays(losses) /\ fetch.outcome # "handed" /\ ~HasWords(p)
  <2> DEFINE t == told \cup {m}
             b == [slot EXCEPT !.messages = Tail(@)]
             y == [Told(x2, m) EXCEPT !.slot.messages = Tail(@)]
  <2>1. t \in SUBSET Message BY <1>3, <1>6
  <2>2. b \in Buffer BY <1>3, <1>5, FrontLess
  <2>3. /\ y \in State /\ y.slot = b /\ y.actor = a2 /\ y.fetch = NoFetch /\ y.link = link
        /\ y.flight = flight /\ y.buttons = buttons /\ y.handed = handed /\ y.told = t
    <3> DEFINE v == Told(x2, m)
    <3>1. /\ v \in State /\ v.slot = slot /\ v.actor = a2 /\ v.fetch = NoFetch /\ v.link = link
          /\ v.flight = flight /\ v.buttons = buttons /\ v.handed = handed /\ v.told = t
      <4> HIDE DEF m
      <4>. QED BY <1>6, <1>9 DEF State, Told
    <3> HIDE DEF v, t
    <3>2. y = [v EXCEPT !.slot = b] BY <3>1 DEF v
    <3> HIDE DEF y, b
    <3>. QED BY <2>2, <3>1, <3>2 DEF State
  <2>4. /\ Now.handed \subseteq handed /\ handed \subseteq Now.handed \cup {Now.fetch.msg}
        /\ Now.told \subseteq t /\ t \subseteq Now.told \cup {Now.fetch.msg}
        /\ Now.fetch.msg \in handed \cup t
    BY NowIs
  <2>5. Fine(session, y) /\ Follows(Now, y)
    <3>1. y.slot = [Now.slot EXCEPT !.messages = Tail(@)] BY <2>3, NowIs
    <3> HIDE DEF y, t
    <3>. QED BY <1>2, <1>3, <1>4, <1>7, <2>1, <2>3, <2>4, <3>1, NowIs, FrontGoes
  <2>6. Becomes(Pumped(session, Flushed(session, y)))
    <3>1. z = y BY <1>13
    <3> HIDE DEF y, z
    <3>. QED BY <1>1, <1>5, <1>13, <3>1
  <2> HIDE DEF y
  <2>. QED BY <1>2, <2>5, <2>6, FromNow
<1>. QED BY <1>10, <1>11, <1>12, <1>13

(* w is the state of now with another buffer, other answers that are out   *)
(* and other buttons.                                                      *)
With(w, b, fl, bs) ==
  /\ w \in State /\ w.slot = b /\ w.actor = actor /\ w.fetch = fetch /\ w.link = link
  /\ w.flight = fl /\ w.buttons = bs /\ w.handed = handed /\ w.told = told

(* The note, the answers that are out and the buttons change.              *)
LEMMA Resumed ==
  ASSUME IInv, NEW r \in Note, NoteOK(r), NEW fl \in SUBSET Flight, NEW bs \in Buttons,
         ResumeOK(r, actor.resume_sends, fl, bs), bs.sent = buttons.sent,
         NEW w, With(w, [slot EXCEPT !.resume = r], fl, bs)
  PROVE  /\ Fine(session, w) /\ Follows(Now, w)
         /\ w.slot.messages = slot.messages /\ w.actor = actor /\ w.fetch = fetch /\ w.link = link
<1> DEFINE b == [slot EXCEPT !.resume = r]
<1>1. slot \in Buffer BY NowTypes DEF IInv
<1>2. b \in Buffer /\ b.messages = slot.messages /\ b.resume = r BY <1>1 DEF Buffer
<1> HIDE DEF b
<1>3. /\ w \in State /\ w.slot = b /\ w.actor = actor /\ w.fetch = fetch /\ w.link = link
      /\ w.flight = fl /\ w.buttons = bs /\ w.handed = handed /\ w.told = told
  BY DEF b, With
<1>4. Fine(session, Now) BY DEF IInv, FineInv
<1>5. BufferOK(w.slot) BY <1>2, <1>3, <1>4, NowIs DEF Fine, BufferOK
<1>6. Fine(session, w) BY <1>2, <1>3, <1>4, <1>5, NowIs DEF Fine
<1>7. Follows(Now, w) BY <1>2, <1>3, NowIs, FollowsItself
<1>. QED BY <1>2, <1>3, <1>6, <1>7

LEMMA OnResumeDoneInv ==
  ASSUME DeliveryAssumption, IInv, NEW f \in flight, NEW answer, OnResumeDone(f, answer)
  PROVE  IInv' /\ Works
<1> DEFINE n == slot.resume
           fl == flight \ {f}
           shown == [buttons EXCEPT !.shown = @ \cup {f}]
           lost == [shown EXCEPT !.lost = @ \cup {f}]
           asked == [shown EXCEPT !.edits = @ \cup ({f} \ {NoPost})]
           x == [Now EXCEPT !.flight = @ \ {f}]
           y == [x EXCEPT !.buttons.shown = @ \cup {f}]
           z1 == [y EXCEPT !.buttons.lost = @ \cup {f}]
           z2 == [y EXCEPT !.slot.resume.message = f]
           z3 == ButtonDropped(y, f)
<1>1. /\ Fine(session, Now) /\ session \in Session /\ session.conn \in {0, link.conn}
      /\ session' = session /\ UNCHANGED Elsewhere
  BY OthersKept DEF OnResumeDone
<1>2. /\ slot \in Buffer /\ n \in Note /\ flight \in SUBSET Flight /\ buttons \in Buttons
      /\ fl \in SUBSET Flight /\ f \in Flight /\ Now \in State /\ NoteOK(n)
  BY <1>1, NowTypes, NowIs DEF IInv, Buffer, Fine, BufferOK
<1>3. ResumeOK(n, actor.resume_sends, flight, buttons) BY <1>1, NowIs DEF Fine
<1>4. /\ shown \in Buttons /\ shown.sent = buttons.sent /\ shown.shown = buttons.shown \cup {f}
      /\ shown.edits = buttons.edits /\ shown.lost = buttons.lost
  BY <1>2 DEF Buttons
<1>5. \/ Becomes(Pumped(session, x)) \/ Becomes(Pumped(session, z1)) \/ Becomes(Pumped(session, z3))
      \/ n.number = f.number /\ n.message = NoPost /\ Becomes(Pumped(session, z2))
  <2> HIDE DEF z1, z2, z3
  <2>. QED BY DEF OnResumeDone, Answers, z1, z2, z3
<1>6. /\ \A g \in fl : /\ g.number <= actor.resume_sends /\ g.id <= buttons.sent
                       /\ g.number = n.number => g.run = n.run
      /\ f.number = n.number => f.run = n.run
      /\ n.message.id <= buttons.sent /\ \A e \in buttons.edits \cup {f} : e.id <= buttons.sent
      /\ n.message \notin fl \cup buttons.edits /\ n.message # f
      /\ f \notin buttons.edits /\ fl \cap (buttons.edits \cup {f}) = {}
      /\ buttons.shown \subseteq {n.message} \cup buttons.edits \cup buttons.lost
  BY <1>3 DEF ResumeOK
<1>7. With(x, slot, fl, buttons)
  <2>1. x = [Now EXCEPT !.flight = fl] BY NowIs
  <2> HIDE DEF x, fl
  <2>. QED BY <1>2, <2>1, NowIs DEF State, With
<1>8. With(y, slot, fl, shown)
  <2>1. y = [x EXCEPT !.buttons = shown] BY <1>7 DEF With
  <2> HIDE DEF x, y, fl, shown
  <2>. QED BY <1>4, <1>7, <2>1 DEF State, With
<1>9. slot = [slot EXCEPT !.resume = n] BY <1>2 DEF Buffer
<1>10. ASSUME NEW z, NEW bs \in Buttons, With(z, slot, fl, bs), bs.sent = buttons.sent,
              \/ bs.shown = buttons.shown /\ bs.edits = buttons.edits /\ bs.lost = buttons.lost
              \/ /\ bs.shown = buttons.shown \cup {f}
                 /\ \/ bs.edits = buttons.edits /\ bs.lost = buttons.lost \cup {f}
                    \/ bs.edits = buttons.edits \cup {f} /\ bs.lost = buttons.lost
       PROVE  Fine(session, z) /\ Follows(Now, z)
  <2> HIDE DEF fl, n
  <2>1. ResumeOK(n, actor.resume_sends, fl, bs) BY <1>6, <1>10 DEF ResumeOK
  <2>. QED BY <1>2, <1>9, <1>10, <2>1, Resumed
<1>11. Fine(session, x) /\ Follows(Now, x)
  <2> HIDE DEF x, fl
  <2>. QED BY <1>2, <1>7, <1>10
<1>12. Fine(session, z1) /\ Follows(Now, z1)
  <2>1. /\ lost \in Buttons /\ lost.sent = buttons.sent /\ lost.shown = buttons.shown \cup {f}
        /\ lost.edits = buttons.edits /\ lost.lost = buttons.lost \cup {f}
    <3> HIDE DEF shown
    <3>. QED BY <1>2, <1>4 DEF Buttons
  <2>2. z1 = [y EXCEPT !.buttons = lost] BY <1>8 DEF With
  <2> HIDE DEF fl, y, z1, lost, shown
  <2>3. With(z1, slot, fl, lost) BY <1>8, <2>1, <2>2 DEF With, State
  <2>. QED BY <1>10, <2>1, <2>3
<1>13. Fine(session, z3) /\ Follows(Now, z3)
  <2> DEFINE es == shown.edits \cup ({f} \ {NoPost})
  <2>1. asked = [shown EXCEPT !.edits = es] OBVIOUS
  <2>2. z3 = [y EXCEPT !.buttons = asked] BY <1>8 DEF With, ButtonDropped
  <2> HIDE DEF fl, y, z3, asked, shown
  <2>3. es = buttons.edits \cup {f} /\ es \in SUBSET Flight BY <1>2, <1>4, NoPostIs DEF Buttons
  <2> HIDE DEF es
  <2>4. /\ asked \in Buttons /\ asked.sent = buttons.sent /\ asked.shown = buttons.shown \cup {f}
        /\ asked.edits = buttons.edits \cup {f} /\ asked.lost = buttons.lost
    BY <1>4, <2>1, <2>3 DEF Buttons
  <2>5. With(z3, slot, fl, asked) BY <1>8, <2>2, <2>4 DEF With, State
  <2>. QED BY <1>10, <2>4, <2>5
<1>14. n.number = f.number /\ n.message = NoPost => Fine(session, z2) /\ Follows(Now, z2)
  <2> SUFFICES ASSUME n.number = f.number, n.message = NoPost
               PROVE  Fine(session, z2) /\ Follows(Now, z2)
    OBVIOUS
  <2> DEFINE r == [n EXCEPT !.message = f]
             b == [slot EXCEPT !.resume = r]
  <2>1. r \in Note /\ r.message = f /\ r.number = n.number /\ r.run = n.run BY <1>2 DEF Note
  <2>2. z2 = [y EXCEPT !.slot = b] BY <1>8 DEF With
  <2> HIDE DEF r
  <2>3. b \in Buffer BY <1>2, <2>1 DEF Buffer
  <2>4. NoteOK(r) BY <1>6, <2>1 DEF NoteOK
  <2>5. f \notin fl OBVIOUS
  <2> HIDE DEF fl, shown, y, z2
  <2>6. shown.shown \subseteq {f} \cup shown.edits \cup shown.lost
    BY <1>2, <1>4, <1>6, NoPostIs DEF Buttons
  <2>7. With(z2, b, fl, shown)
    <3> HIDE DEF b
    <3>. QED BY <1>8, <2>2, <2>3 DEF With, State
  <2>8. ResumeOK(r, actor.resume_sends, fl, shown)
    BY <1>4, <1>6, <2>1, <2>5, <2>6 DEF ResumeOK
  <2>. QED BY <1>2, <1>4, <2>1, <2>4, <2>7, <2>8, Resumed
<1> HIDE DEF x, z1, z2, z3
<1>. QED BY <1>1, <1>5, <1>11, <1>12, <1>13, <1>14, FromNow

LEMMA ButtonEditedInv ==
  ASSUME IInv, NEW p \in buttons.edits, ButtonEdited(p)
  PROVE  IInv' /\ Works
<1> DEFINE bs == [buttons EXCEPT !.shown = @ \ {p}, !.edits = @ \ {p}]
           n == slot.resume
           w == [Now EXCEPT !.buttons = bs]
<1>1. slot \in Buffer /\ n \in Note /\ buttons \in Buttons /\ flight \in SUBSET Flight
  BY NowTypes DEF IInv, Buffer
<1>2. /\ Fine(session, Now) /\ session \in Session /\ session.conn \in {0, link.conn}
      /\ session' = session /\ UNCHANGED Elsewhere
  BY OthersKept DEF ButtonEdited
<1>3. NoteOK(n) /\ ResumeOK(n, actor.resume_sends, flight, buttons)
  BY <1>2, NowIs DEF Fine, BufferOK
<1>4. /\ bs \in Buttons /\ bs.sent = buttons.sent /\ bs.shown = buttons.shown \ {p}
      /\ bs.edits = buttons.edits \ {p} /\ bs.lost = buttons.lost
  BY <1>1 DEF Buttons
<1>5. buttons' = bs /\ UNCHANGED <<slot, actor, fetch, link, flight, handed, told>>
  BY DEF ButtonEdited
<1>6. [slot EXCEPT !.resume = n] = slot BY <1>1 DEF Buffer
<1> HIDE DEF bs
<1>7. With(w, slot, flight, bs)
  <2>1. Now \in State BY NowTypes DEF IInv
  <2>. QED BY <1>4, <2>1, NowIs DEF State, With
<1>8. ResumeOK(n, actor.resume_sends, flight, bs) BY <1>3, <1>4 DEF ResumeOK
<1>9. Becomes(w) BY <1>5, <1>7 DEF Becomes, With
<1>10. /\ Fine(session, w) /\ Follows(Now, w)
       /\ w.slot.messages = slot.messages /\ w.actor = actor /\ w.fetch = fetch /\ w.link = link
  <2> HIDE DEF w
  <2>. QED BY <1>1, <1>3, <1>4, <1>6, <1>7, <1>8, Resumed
<1>11. Moved(session, w)
  <2>1. w.slot = slot BY <1>7 DEF With
  <2> HIDE DEF w
  <2>. QED BY <1>10, <2>1, NowIs DEF IInv, MovedInv, Moved, FrontMoved
<1> HIDE DEF w
<1>12. Flows(IdsOf(slot.messages), handed, told, IdsOf(Now.slot.messages), Now.handed, Now.told)
  BY NowIs DEF Flows
<1>. QED BY <1>2, <1>9, <1>10, <1>11, <1>12, NowIs, ActorStep

(* A step of the download or of the link, which the actor does not take.   *)
LEMMA OutsideStep ==
  ASSUME IInv, UNCHANGED <<plan, offset, savedOffset, inbox, slot, disk, session, actor, flight,
                           buttons, handed, told, taken>>,
         fetch' \in Fetch, link' \in LinkState, FrontOK(slot.messages, fetch'),
         Live(session) => Frontier(slot.messages, fetch', link'), RunningOK(fetch', link'),
         Increasing(link'.out), fetch'.conn <= link'.conn, link'.conn = link.conn,
         fetch' # NoFetch \/ fetch' = fetch, link'.open => link.open, link'.files = link.files,
         ToSet(link'.out) \subseteq ToSet(link.out) \cup IdsOf(slot.messages)
  PROVE  IInv' /\ Works
<1>1. PolledInv' /\ DiskInv' /\ TakenInv' /\ SessionInv'
  BY DEF IInv, PolledInv, DiskInv, TakenInv, SessionInv
<1>2. CameInv' BY DEF IInv, CameInv
<1>3. /\ Now'.slot = slot /\ Now'.actor = actor /\ Now'.fetch = fetch' /\ Now'.link = link'
      /\ Now'.flight = flight /\ Now'.buttons = buttons
      /\ Now'.handed = handed /\ Now'.told = told
  BY DEF Now
<1>4. Now' \in State BY NowTypes DEF IInv, Now, State
<1>5. FineInv' BY NowIs, <1>3, <1>4 DEF IInv, FineInv, Fine
<1>6. MovedInv' BY <1>3, NowIs DEF IInv, MovedInv, Moved, FrontMoved
<1>7. Works BY DEF Works, Waiting, Flows
<1>. QED BY <1>1, <1>2, <1>5, <1>6, <1>7 DEF IInv

LEMMA LinkStep ==
  ASSUME IInv, UNCHANGED <<plan, offset, savedOffset, inbox, slot, disk, session, actor, fetch,
                           flight, buttons, handed, told, taken>>,
         link' \in LinkState, link'.out = link.out, link'.conn = link.conn,
         link'.open => link.open, link'.files = link.files
  PROVE  IInv' /\ Works
BY NowIs, NowTypes, OutsideStep DEF IInv, FineInv, Fine, RunningOK, Frontier

LEMMA SendInv ==
  ASSUME DeliveryAssumption, IInv, Send
  PROVE  IInv' /\ Works
<1>1. link \in LinkState BY NowTypes DEF IInv
<1>2. /\ link' \in LinkState /\ link'.out = link.out /\ link'.conn = link.conn
      /\ (link'.open => link.open) /\ link'.files = link.files
  BY <1>1, SMTT(30) DEF Send, LinkState, DeliveryAssumption
<1>. QED BY <1>2, LinkStep DEF Send, others

LEMMA LoseInv ==
  ASSUME DeliveryAssumption, IInv, Lose
  PROVE  IInv' /\ Works
<1>1. link \in LinkState BY NowTypes DEF IInv
<1>2. /\ link' \in LinkState /\ link'.out = link.out /\ link'.conn = link.conn
      /\ (link'.open => link.open) /\ link'.files = link.files
  <2>1. 0 \in 0 .. QueueMax BY DEF DeliveryAssumption
  <2>2. link' = [link EXCEPT !.open = FALSE, !.queued = 0] BY DEF Lose
  <2>. QED BY <1>1, <2>1, <2>2 DEF LinkState
<1>. QED BY <1>2, LinkStep DEF Lose, Elsewhere

LEMMA DownloadInv ==
  ASSUME DeliveryAssumption, IInv, Download
  PROVE  IInv' /\ Works
<1> DEFINE ms == slot.messages
<1>1. /\ UNCHANGED <<plan, offset, savedOffset, inbox, slot, disk, session, actor, flight,
                     buttons, handed, told, taken>>
      /\ fetch.outcome = "running"
  BY DEF Download, others
<1>2. /\ FrontOK(ms, fetch) /\ (Live(session) => Frontier(ms, fetch, link))
      /\ RunningOK(fetch, link) /\ Increasing(link.out) /\ fetch.conn <= link.conn
      /\ Ordered(ms)
  BY NowIs DEF IInv, FineInv, Fine, BufferOK
<1>3. fetch \in Fetch /\ link \in LinkState /\ ms \in Seq(Item) BY NowTypes DEF IInv
<1>4. ms # <<>> /\ ms[1].id = fetch.msg /\ ms[1].file BY <1>1, <1>2 DEF FrontOK, NoFetch
<1> HIDE DEF ms
<1>5. 1 \in DOMAIN ms /\ fetch.msg \in Message /\ fetch.msg \in IdsOf(ms)
  BY <1>3, <1>4, IdsAre DEF IdsOf
<1>6. Live(session) => \A i \in DOMAIN link.out, j \in DOMAIN ms : link.out[i] < ms[j].id
  BY <1>1, <1>2 DEF Frontier
<1>7. ASSUME NEW o \in {"failed", "closed", "handed"}, fetch' = [fetch EXCEPT !.outcome = o]
      PROVE  /\ fetch' \in Fetch /\ fetch'.conn = fetch.conn /\ fetch'.msg = fetch.msg
             /\ fetch'.outcome = o /\ FrontOK(ms, fetch') /\ fetch' # NoFetch
  BY <1>3, <1>7, <1>4 DEF Fetch, Outcome, NoFetch, FrontOK
<1>8. CASE /\ UNCHANGED link
           /\ \E o \in {"failed", "closed", "handed"} : fetch' = [fetch EXCEPT !.outcome = o]
  <2>1. PICK o \in {"failed", "closed", "handed"} : fetch' = [fetch EXCEPT !.outcome = o]
    BY <1>8
  <2>2. /\ fetch' \in Fetch /\ fetch'.conn = fetch.conn /\ fetch'.outcome = o /\ FrontOK(ms, fetch')
        /\ fetch' # NoFetch
    BY <1>7, <2>1
  <2>3. RunningOK(fetch', link') /\ (Live(session) => Frontier(ms, fetch', link'))
    BY <1>6, <1>8, <2>2 DEF RunningOK, Frontier
  <2>. QED BY <1>1, <1>2, <1>3, <1>8, <2>2, <2>3, OutsideStep DEF ms
<1>9. CASE /\ fetch' = [fetch EXCEPT !.outcome = "handed"] /\ fetch.conn = link.conn
           /\ Fits(Now) /\ link' = Handed(Now, <<fetch.msg>>).link
  <2> DEFINE out == link.out
             ids == <<fetch.msg>>
  <2>1. ids \in Seq(Message) /\ DOMAIN ids = {1} /\ ids[1] = fetch.msg BY <1>5
  <2>2. link' = [link EXCEPT !.queued = @ + 1, !.out = @ \o ids] /\ link' \in LinkState
    <3>1. Now \in State BY NowTypes DEF IInv
    <3> HIDE DEF ids
    <3>2. Handed(Now, ids) \in State
          /\ Handed(Now, ids).link = [Now.link EXCEPT !.queued = @ + 1, !.out = @ \o ids]
      BY <1>9, <2>1, <3>1, HandedOK
    <3>. QED BY <1>9, <3>2, NowIs DEF State, ids
  <2>3. link'.out = out \o ids /\ link'.conn = link.conn /\ out \in Seq(Message)
    BY <1>3, <2>2 DEF LinkState
  <2>13. link'.open = link.open /\ link'.files = link.files BY <1>3, <2>2 DEF LinkState
  <2> HIDE DEF ids, out
  <2>4. \A i \in DOMAIN out : out[i] < fetch.msg BY <1>1, <1>2, <1>9 DEF RunningOK, out
  <2>5. Increasing(out) /\ Increasing(ids) BY <1>2, <2>1 DEF Increasing, out
  <2>6. Increasing(out \o ids) BY <2>1, <2>3, <2>4, <2>5, JoinedIncreasing
  <2>7. \A k \in DOMAIN (out \o ids) :
          \/ k \in DOMAIN out /\ (out \o ids)[k] = out[k]
          \/ k > Len(out) /\ k - Len(out) \in DOMAIN ids /\ (out \o ids)[k] = ids[k - Len(out)]
    BY <2>1, <2>3, Joined
  <2>8. \A k \in DOMAIN (out \o ids) :
          \/ k \in DOMAIN out /\ (out \o ids)[k] = out[k]
          \/ (out \o ids)[k] = fetch.msg
    BY <2>1, <2>7
  <2>9. /\ fetch' \in Fetch /\ fetch'.conn = fetch.conn /\ fetch'.msg = fetch.msg
        /\ fetch'.outcome = "handed" /\ FrontOK(ms, fetch')
    BY <1>7, <1>9
  <2>14. fetch' # NoFetch BY <1>7, <1>9
  <2>10. ToSet(out \o ids) \subseteq ToSet(out) \cup IdsOf(ms) BY <1>5, <2>8 DEF ToSet
  <2>11. RunningOK(fetch', link') BY <2>9 DEF RunningOK
  <2>12. Live(session) => Frontier(ms, fetch', link')
    <3> SUFFICES ASSUME Live(session), NEW k \in DOMAIN (out \o ids), NEW j \in DOMAIN ms,
                        (out \o ids)[k] = fetch.msg, ms[j].id # fetch.msg
                 PROVE  fetch.msg < ms[j].id
      BY <1>6, <1>9, <2>3, <2>8, <2>9, ZenonT(60) DEF Frontier, out
    <3>1. 1 < j BY <1>3, <1>4
    <3>. QED BY <1>2, <1>4, <1>5, <3>1 DEF Ordered
  <2>. QED
    BY <1>1, <1>2, <2>2, <2>3, <2>6, <2>9, <2>10, <2>11, <2>12, <2>13, <2>14, OutsideStep
       DEF ms, out
<1>10. \/ UNCHANGED link /\ \E o \in {"failed", "closed", "handed"} : fetch' = [fetch EXCEPT !.outcome = o]
       \/ /\ fetch' = [fetch EXCEPT !.outcome = "handed"] /\ fetch.conn = link.conn
          /\ Fits(Now) /\ link' = Handed(Now, <<fetch.msg>>).link
  BY DEF Download
<1>. QED BY <1>8, <1>9, <1>10

(* Another link, or another session, or none.                              *)
LEMMA BoundStep ==
  ASSUME DeliveryAssumption, IInv, NEW s \in Session, NEW x, Fine(s, x),
         s.conn \in {0, x.link.conn}, x.slot = slot, x.handed = handed, x.told = told,
         ToSet(x.link.out) \subseteq ToSet(link.out), Bound(s, x)
  PROVE  IInv' /\ Works
<1> DEFINE y == Pumped(s, x)
<1>1. Becomes(y) /\ session' = s /\ UNCHANGED Elsewhere BY DEF Bound
<1>2. Fine(s, y) /\ Moved(s, y) /\ Follows(x, y) BY PumpedOK, PumpedMoves
<1>3. Flows(IdsOf(slot.messages), handed, told, IdsOf(x.slot.messages), x.handed, x.told)
  BY DEF Flows
<1> HIDE DEF y
<1>. QED BY <1>1, <1>2, <1>3, ActorStep

LEMMA NewLink ==
  ASSUME IInv, NEW s, NEW l \in LinkState, l.out = <<>>, link.conn <= l.conn
  PROVE  LET x == [Now EXCEPT !.link = l]
         IN  /\ Fine(s, x) /\ x.slot = slot /\ x.handed = handed /\ x.told = told /\ x.link = l
             /\ ToSet(x.link.out) \subseteq ToSet(link.out)
<1> DEFINE x == [Now EXCEPT !.link = l]
<1>1. Now \in State BY NowTypes DEF IInv
<1>2. /\ x \in State /\ x.slot = slot /\ x.actor = actor /\ x.fetch = fetch /\ x.link = l
      /\ x.flight = flight /\ x.buttons = buttons /\ x.handed = handed /\ x.told = told
  BY <1>1, NowIs DEF State
<1> HIDE DEF x
<1>3. /\ BufferOK(slot) /\ FrontOK(slot.messages, fetch) /\ fetch.conn <= link.conn
      /\ ResumeOK(slot.resume, actor.resume_sends, flight, buttons)
      /\ disk.resume.message.id \in 0 .. buttons.sent
  BY NowIs DEF IInv, FineInv, Fine
<1>4. Frontier(slot.messages, fetch, l) /\ RunningOK(fetch, l) /\ Increasing(l.out)
  BY EmptyIs DEF Frontier, RunningOK, Increasing
<1>5. fetch.conn <= l.conn BY NowTypes, <1>3 DEF IInv, Fetch, LinkState
<1>6. Fine(s, x) BY <1>2, <1>3, <1>4, <1>5 DEF Fine
<1>7. ToSet(x.link.out) \subseteq ToSet(link.out) BY <1>2, EmptyIs DEF ToSet
<1>. QED BY <1>2, <1>6, <1>7 DEF x

LEMMA ConnectInv ==
  ASSUME DeliveryAssumption, IInv, NEW files \in FileLinks, Connect(files)
  PROVE  IInv' /\ Works
<1> DEFINE l == [NoLink EXCEPT !.conn = link.conn + 1, !.open = TRUE, !.files = files]
           x == [Now EXCEPT !.link = l]
           s == [session EXCEPT !.conn = link.conn + 1]
<1>1. /\ link \in LinkState /\ session \in Session /\ link.conn < MaxConns /\ files \in BOOLEAN
      /\ MaxConns \in Nat
  BY NowTypes DEF IInv, SessionInv, Connect, DeliveryAssumption
<1>2. link.conn + 1 \in 0 .. MaxConns /\ link.conn <= link.conn + 1 BY <1>1 DEF LinkState
<1>3. l \in LinkState /\ l.out = <<>> /\ l.conn = link.conn + 1
  <2>1. <<>> \in Seq(Message) /\ 0 \in 0 .. QueueMax BY EmptyIs DEF DeliveryAssumption
  <2>. QED BY <1>1, <1>2, <2>1 DEF LinkState, NoLink
<1>4. s \in Session /\ s.conn = link.conn + 1 BY <1>1, <1>2 DEF Session
<1>5. Bound(s, x) BY DEF Connect
<1> HIDE DEF l, s
<1>6. /\ Fine(s, x) /\ x.slot = slot /\ x.handed = handed /\ x.told = told /\ x.link = l
      /\ ToSet(x.link.out) \subseteq ToSet(link.out)
  BY <1>2, <1>3, NewLink
<1> HIDE DEF x
<1>7. s.conn \in {0, x.link.conn} BY <1>3, <1>4, <1>6
<1>. QED BY <1>4, <1>5, <1>6, <1>7, BoundStep

LEMMA BeginInv ==
  ASSUME DeliveryAssumption, IInv, NEW conn \in 0 .. MaxConns, Begin(conn)
  PROVE  IInv' /\ Works
<1> DEFINE l == [link EXCEPT !.out = <<>>]
           x == [Now EXCEPT !.link = l]
           s == [run |-> session.run + 1, alive |-> TRUE, conn |-> conn]
<1>1. /\ link \in LinkState /\ session \in Session /\ session.run < MaxRuns
      /\ session.conn \in {0, link.conn} /\ conn \in {0, session.conn}
  BY NowTypes DEF IInv, SessionInv, Begin
<1>2. l \in LinkState /\ l.out = <<>> /\ l.conn = link.conn /\ link.conn <= l.conn
  <2>1. l \in LinkState /\ l.out = <<>> /\ l.conn = link.conn
    BY <1>1, EmptyIs DEF LinkState
  <2>2. link.conn <= link.conn BY <1>1 DEF LinkState
  <2>. QED BY <2>1, <2>2
<1>3. s \in Session /\ s.conn \in {0, link.conn} BY <1>1 DEF Session, DeliveryAssumption
<1>4. Bound(s, x) BY NowIs DEF Begin
<1> HIDE DEF l, s
<1>5. /\ Fine(s, x) /\ x.slot = slot /\ x.handed = handed /\ x.told = told /\ x.link = l
      /\ ToSet(x.link.out) \subseteq ToSet(link.out)
  BY <1>2, NewLink
<1> HIDE DEF x
<1>6. s.conn \in {0, x.link.conn} BY <1>2, <1>3, <1>5
<1>. QED BY <1>3, <1>4, <1>5, <1>6, BoundStep

(* The session has no agent, or is over.                                   *)
LEMMA GoneStep ==
  ASSUME DeliveryAssumption, IInv, NEW s \in Session, ~Live(s), s.conn \in {0, link.conn},
         Bound(s, Now)
  PROVE  IInv' /\ Works
BY NowIs, BoundStep DEF IInv, FineInv, Fine

LEMMA DisconnectedInv ==
  ASSUME DeliveryAssumption, IInv, Disconnected
  PROVE  IInv' /\ Works
<1> DEFINE s == [session EXCEPT !.conn = 0]
<1>1. session \in Session /\ 0 \in 0 .. MaxConns
  BY DEF IInv, SessionInv, DeliveryAssumption
<1>2. s \in Session /\ s.conn = 0 /\ Bound(s, Now) BY <1>1 DEF Session, Disconnected
<1> HIDE DEF s
<1>3. ~Live(s) BY <1>2 DEF Live
<1>. QED BY <1>2, <1>3, GoneStep

LEMMA EndInv ==
  ASSUME DeliveryAssumption, IInv, End
  PROVE  IInv' /\ Works
<1> DEFINE s == [session EXCEPT !.alive = FALSE]
<1>1. session \in Session /\ session.conn \in {0, link.conn} BY DEF IInv, SessionInv
<1>2. s \in Session /\ s.conn = session.conn /\ ~s.alive /\ Bound(s, Now)
  BY <1>1 DEF Session, End
<1> HIDE DEF s
<1>3. ~Live(s) BY <1>2 DEF Live
<1>. QED BY <1>1, <1>2, <1>3, GoneStep

LEMMA SaveInv ==
  ASSUME IInv, Save
  PROVE  IInv'
<1>1. disk' = slot /\ UNCHANGED <<plan, offset, savedOffset, inbox, slot, actor, fetch, session,
                                  link, flight, buttons, handed, told, taken>>
  BY DEF Save
<1>2. DiskInv' BY NowIs, <1>1 DEF IInv, FineInv, Fine, CameInv, DiskInv
<1>3. PolledInv' /\ CameInv' /\ TakenInv' /\ SessionInv'
  BY <1>1 DEF IInv, PolledInv, CameInv, TakenInv, SessionInv
<1>4. FineInv'
  <2>1. slot.resume.message.id \in 0 .. buttons.sent
    <3>1. slot.resume.message \in {NoPost} \cup Flight /\ buttons \in Buttons
      BY NowTypes DEF IInv, Buffer, Note
    <3>2. slot.resume.message.id <= buttons.sent BY NowIs DEF IInv, FineInv, Fine, ResumeOK
    <3>3. slot.resume.message.id \in Nat BY <3>1, NoPostIs DEF Flight
    <3>. QED BY <3>1, <3>2, <3>3 DEF Buttons
  <2>2. Now' = Now /\ session' = session BY <1>1 DEF Now
  <2>. QED BY <1>1, <2>1, <2>2, NowIs DEF IInv, FineInv, Fine
<1>5. MovedInv' BY <1>1, NowIs, BecomesMoved DEF Becomes, IInv, MovedInv
<1>. QED BY <1>2, <1>3, <1>4, <1>5 DEF IInv

LEMMA CrashInv ==
  ASSUME DeliveryAssumption, IInv, Crash
  PROVE  IInv' /\ savedOffset = offset
<1> DEFINE l == [link EXCEPT !.open = FALSE, !.queued = 0]
           s == [session EXCEPT !.conn = 0]
<1>1. /\ offset' = offset /\ savedOffset' = savedOffset /\ inbox' = <<>> /\ slot' = disk
      /\ actor' = NewActor /\ fetch' = NoFetch /\ flight' = {} /\ session' = s /\ link' = l
      /\ plan' = plan /\ disk' = disk /\ taken' = taken
      /\ handed' = handed /\ told' = told /\ savedOffset = offset
  BY DEF Crash, IInv, PolledInv
<1>2. /\ link \in LinkState /\ buttons \in Buttons /\ handed \in SUBSET Message
      /\ told \in SUBSET Message /\ session \in Session /\ flight \in SUBSET Flight
  BY NowTypes DEF IInv, SessionInv
<1>3. NewActor \in Actor /\ NoFetch \in Fetch /\ NewActor.resume_sends = 0
      /\ 0 \in 0 .. QueueMax /\ 0 \in 0 .. MaxConns
  BY DEF NewActor, Actor, NoGather, Gather, NoMessage, NoFetch, Fetch, Outcome, DeliveryAssumption
<1>4. l \in LinkState /\ l.out = link.out /\ l.conn = link.conn
  BY <1>2, <1>3 DEF LinkState
<1>5. s \in Session /\ s.conn = 0 BY <1>2, <1>3 DEF Session
<1>6. /\ buttons' \in Buttons /\ buttons'.sent = buttons.sent /\ buttons'.edits = {}
      /\ buttons'.shown \subseteq {disk.resume.message} \cup buttons'.lost
  <2>1. PICK posted \in SUBSET flight, edited \in SUBSET buttons.edits :
          LET shown == (buttons.shown \cup posted) \ edited
          IN  buttons' = [buttons EXCEPT !.shown = shown, !.edits = {},
                                         !.lost = shown \ {disk.resume.message}]
    BY DEF Crash
  <2> DEFINE shown == (buttons.shown \cup posted) \ edited
             lost == shown \ {disk.resume.message}
  <2>2. buttons' = [buttons EXCEPT !.shown = shown, !.edits = {}, !.lost = lost] BY <2>1
  <2>3. shown \in SUBSET Flight /\ lost \in SUBSET Flight /\ shown \subseteq {disk.resume.message} \cup lost
    BY <1>2 DEF Buttons
  <2> HIDE DEF shown, lost
  <2>. QED BY <1>2, <2>2, <2>3 DEF Buttons
<1> HIDE DEF l, s
<1>7. PolledInv' BY <1>1, EmptyIs DEF IInv, PolledInv, Increasing
<1>8. CameInv' BY <1>1, <1>4, EmptyIs DEF IInv, CameInv, DiskInv
<1>9. DiskInv' /\ SessionInv' BY <1>1, <1>5 DEF IInv, DiskInv, SessionInv
<1>10. TakenInv' BY <1>1, EmptyIs DEF ToSet, IInv, TakenInv
<1>11. FineInv'
  <2>1. /\ Now'.slot = disk /\ Now'.actor = NewActor /\ Now'.fetch = NoFetch /\ Now'.link = l
        /\ Now'.flight = {} /\ Now'.buttons = buttons' /\ Now'.handed = handed /\ Now'.told = told
    BY <1>1 DEF Now
  <2>2. BufferOK(disk) /\ disk \in Buffer BY DEF IInv, DiskInv, BufferOK
  <2>3. Now' \in State BY <1>1, <1>2, <1>3, <1>4, <1>6, <2>2 DEF Now, State
  <2>4. ~Live(session') BY <1>1, <1>5 DEF Live
  <2>5. FrontOK(disk.messages, NoFetch) /\ RunningOK(NoFetch, l)
    BY DEF FrontOK, RunningOK, NoFetch
  <2>6. Increasing(l.out) BY <1>4, NowIs DEF IInv, FineInv, Fine
  <2>7. NoFetch.conn <= l.conn BY <1>4 DEF LinkState, NoFetch
  <2>8. disk.resume.message.id \in 0 .. buttons.sent BY NowIs DEF IInv, FineInv, Fine
  <2>9. ResumeOK(disk.resume, NewActor.resume_sends, {}, buttons')
    <3>1. disk.resume.message.id <= buttons.sent BY <2>8
    <3>. QED BY <1>6, <3>1 DEF ResumeOK
  <2>. QED BY <1>1, <1>6, <2>1, <2>2, <2>3, <2>4, <2>5, <2>6, <2>7, <2>8, <2>9 DEF FineInv, Fine
<1>12. MovedInv' BY <1>1, <1>5 DEF Live, MovedInv, Moved
<1>. QED BY <1>1, <1>7, <1>8, <1>9, <1>10, <1>11, <1>12 DEF IInv

LEMMA InRange ==
  ASSUME NEW k \in Nat, NEW c \in Nat, NEW n \in 1 .. c, 1 <= k, k <= n
  PROVE  k \in 1 .. c
OBVIOUS

(* Messages from a to n, one after the other.                              *)
LEMMA Batch ==
  ASSUME DeliveryAssumption, NEW a \in Nat, NEW n \in Message, 0 < a, a <= n, NEW b,
         b = [i \in 1 .. (n + 1 - a) |-> a + i - 1]
  PROVE  /\ b \in Seq(Message) /\ Increasing(b) /\ Last(b) = n
         /\ \A i \in DOMAIN b : a <= b[i] /\ b[i] <= n
         /\ ToSet(b) = a .. n
<1>1. n + 1 - a \in Nat \ {0} /\ n \in Nat /\ Message = 1 .. Count BY DEF Message
<1>2. \A i \in 1 .. (n + 1 - a) : b[i] = a + i - 1 /\ a <= b[i] /\ b[i] <= n /\ b[i] \in Nat
  BY <1>1
<1>3. b \in Seq(Message) /\ Len(b) = n + 1 - a
  <2>1. ASSUME NEW i \in 1 .. (n + 1 - a) PROVE a + i - 1 \in Message
    <3>1. a + i - 1 \in Nat /\ 1 <= a + i - 1 /\ a + i - 1 <= n BY <1>1
    <3>2. n \in 1 .. Count BY DEF Message
    <3> HIDE DEF Message
    <3>3. a + i - 1 \in 1 .. Count BY <3>1, <3>2, InRange DEF DeliveryAssumption
    <3>. QED BY <1>1, <3>3
  <2>. QED BY <1>1, <2>1
<1>4. DOMAIN b = 1 .. (n + 1 - a) OBVIOUS
<1>5. Increasing(b) BY <1>2, <1>4 DEF Increasing
<1>6. Last(b) = n BY <1>1, <1>2, <1>4, <1>3 DEF Last
<1>7. ToSet(b) = a .. n
  <2>1. ASSUME NEW m \in a .. n PROVE m \in ToSet(b) BY <1>1, <1>2, <1>4 DEF ToSet
  <2>2. ToSet(b) \subseteq a .. n BY <1>2, <1>4 DEF ToSet
  <2>. QED BY <2>1, <2>2
<1>. QED BY <1>2, <1>3, <1>4, <1>5, <1>6, <1>7

LEMMA JoinedSet ==
  ASSUME NEW S, NEW a \in Seq(S), NEW b \in Seq(S)
  PROVE  ToSet(a \o b) = ToSet(a) \cup ToSet(b)
<1> DEFINE c == a \o b
<1>1. /\ Len(c) = Len(a) + Len(b) /\ c \in Seq(S)
      /\ \A k \in DOMAIN c : \/ k \in DOMAIN a /\ c[k] = a[k]
                             \/ k > Len(a) /\ k - Len(a) \in DOMAIN b /\ c[k] = b[k - Len(a)]
  BY Joined
<1>2. /\ Len(a) \in Nat /\ Len(b) \in Nat /\ DOMAIN a = 1 .. Len(a) /\ DOMAIN b = 1 .. Len(b)
      /\ DOMAIN c = 1 .. Len(c)
  BY <1>1
<1> HIDE DEF c
<1>3. \A k \in DOMAIN a : k \in DOMAIN c /\ c[k] = a[k] BY <1>1, <1>2
<1>4. \A k \in DOMAIN b : k + Len(a) \in DOMAIN c /\ c[k + Len(a)] = b[k]
  <2> SUFFICES ASSUME NEW k \in DOMAIN b
               PROVE  k + Len(a) \in DOMAIN c /\ c[k + Len(a)] = b[k]
    OBVIOUS
  <2>1. k + Len(a) \in DOMAIN c /\ k + Len(a) \notin DOMAIN a /\ (k + Len(a)) - Len(a) = k
    BY <1>1, <1>2
  <2>2. c[k + Len(a)] = b[(k + Len(a)) - Len(a)] BY <1>1, <2>1
  <2>. QED BY <2>1, <2>2
<1>5. ToSet(a) \cup ToSet(b) \subseteq ToSet(c) BY <1>3, <1>4 DEF ToSet
<1>6. ToSet(c) \subseteq ToSet(a) \cup ToSet(b) BY <1>1 DEF ToSet
<1>. QED BY <1>5, <1>6 DEF c

(* What a poll brings waits for the actor.                                 *)
Polled(n) ==
  /\ offset < offset' /\ Waiting' = Waiting \cup (offset .. n) /\ offset' = n + 1
  /\ offset \in Nat /\ UNCHANGED <<handed, told, disk>>

LEMMA PollInv ==
  ASSUME DeliveryAssumption, IInv, NEW n \in Message, Poll(n)
  PROVE  IInv' /\ Polled(n)
<1> DEFINE batch == [i \in 1 .. (n + 1 - offset) |-> offset + i - 1]
<1>1. /\ offset <= n /\ offset' = n + 1 /\ savedOffset' = OffsetOf(batch)
      /\ inbox' = inbox \o batch
      /\ UNCHANGED <<plan, slot, disk, actor, fetch, session, link, flight, buttons, taken,
                     handed, told>>
  BY DEF Poll
<1>2. /\ offset \in 1 .. Count + 1 /\ Count \in Nat /\ inbox \in Seq(Message)
      /\ Increasing(inbox) /\ \A i \in DOMAIN inbox : inbox[i] < offset
  BY DEF IInv, PolledInv, DeliveryAssumption
<1>3. offset \in Nat /\ 0 < offset /\ n \in Nat /\ n <= Count BY <1>2 DEF Message
<1>4. /\ batch \in Seq(Message) /\ Increasing(batch) /\ Last(batch) = n
      /\ \A i \in DOMAIN batch : offset <= batch[i] /\ batch[i] <= n
      /\ ToSet(batch) = offset .. n
  BY <1>1, <1>3, Batch
<1> HIDE DEF batch
<1>5. savedOffset' = offset' /\ offset' \in 1 .. Count + 1 /\ offset < offset'
  BY <1>1, <1>2, <1>3, <1>4 DEF OffsetOf
<1>6. inbox' \in Seq(Message) BY <1>1, <1>2, <1>4, Joined
<1>7. \A i \in DOMAIN inbox, j \in DOMAIN batch : inbox[i] < batch[j]
  <2> SUFFICES ASSUME NEW i \in DOMAIN inbox, NEW j \in DOMAIN batch PROVE inbox[i] < batch[j]
    OBVIOUS
  <2>1. inbox[i] \in Nat /\ batch[j] \in Nat BY <1>2, <1>4, SMTT(30) DEF Message
  <2>. QED BY <1>2, <1>3, <1>4, <2>1
<1>8. Increasing(inbox') BY <1>1, <1>2, <1>4, <1>7, JoinedIncreasing
<1>9. \A i \in DOMAIN inbox' :
        \/ i \in DOMAIN inbox /\ inbox'[i] = inbox[i]
        \/ \E j \in DOMAIN batch : inbox'[i] = batch[j]
  BY <1>2, <1>4, Joined, <1>1
<1>10. \A i \in DOMAIN inbox' : inbox'[i] < offset'
  <2>1. \A i \in DOMAIN inbox : inbox[i] < offset'
    <3> SUFFICES ASSUME NEW i \in DOMAIN inbox PROVE inbox[i] < offset'
      OBVIOUS
    <3>1. inbox[i] \in Nat BY <1>2 DEF Message
    <3>. QED BY <1>1, <1>2, <1>3, <1>5, <3>1
  <2>2. \A j \in DOMAIN batch : batch[j] < offset'
    <3> SUFFICES ASSUME NEW j \in DOMAIN batch PROVE batch[j] < offset'
      OBVIOUS
    <3>1. batch[j] \in Nat BY <1>4 DEF Message
    <3>. QED BY <1>1, <1>3, <1>4, <3>1
  <2>. QED BY <1>9, <2>1, <2>2
<1>11. PolledInv' BY <1>1, <1>5, <1>6, <1>8, <1>10 DEF IInv, PolledInv
<1>12. CameInv'
  <2> SUFFICES ASSUME NEW m \in IdsOf(slot.messages) \cup ToSet(link.out)
               PROVE  m < offset' /\ \A i \in DOMAIN inbox' : m < inbox'[i]
    BY <1>1 DEF CameInv
  <2>1. m < offset /\ \A i \in DOMAIN inbox : m < inbox[i] BY DEF IInv, CameInv
  <2>2. m \in Nat
    <3>1. IdsOf(slot.messages) \subseteq Message BY NowTypes, IdsAre DEF IInv, ToSet
    <3>2. link.out \in Seq(Message) BY NowTypes DEF IInv, LinkState
    <3>3. ToSet(link.out) \subseteq Message BY <3>2 DEF ToSet
    <3>. QED BY <3>1, <3>3 DEF Message
  <2>3. \A j \in DOMAIN batch : m < batch[j]
    <3> SUFFICES ASSUME NEW j \in DOMAIN batch PROVE m < batch[j]
      OBVIOUS
    <3>1. batch[j] \in Nat BY <1>4 DEF Message
    <3>. QED BY <1>3, <1>4, <2>1, <2>2, <3>1
  <2>4. m < offset' BY <1>1, <1>3, <1>5, <2>1, <2>2
  <2>. QED BY <1>9, <2>1, <2>3, <2>4
<1>13. DiskInv'
  <2> SUFFICES ASSUME NEW m \in IdsOf(disk.messages) PROVE m < offset'
    BY <1>1 DEF IInv, DiskInv
  <2>1. m < offset BY DEF IInv, DiskInv
  <2>2. m \in Nat BY IdsAre DEF IInv, DiskInv, BufferOK, Buffer, IdsOf
  <2>. QED BY <1>1, <1>3, <1>5, <2>1, <2>2
<1>14. SessionInv' /\ FineInv' /\ MovedInv'
  BY <1>1, NowIs, BecomesFine, BecomesMoved DEF Becomes, IInv, FineInv, MovedInv, SessionInv
<1>15. ToSet(inbox') = ToSet(inbox) \cup (offset .. n)
  <2>1. ToSet(inbox \o batch) = ToSet(inbox) \cup ToSet(batch) BY <1>2, <1>4, JoinedSet, ZenonT(60)
  <2>. QED BY <1>1, <1>4, <2>1
<1>16. TakenInv' BY <1>1, <1>3, <1>5, <1>15, SMTT(30) DEF IInv, TakenInv, Message
<1>17. Polled(n) BY <1>1, <1>3, <1>5, <1>15 DEF Polled, Waiting
<1>. QED BY <1>11, <1>12, <1>13, <1>14, <1>16, <1>17 DEF IInv

(* What the inbox keeps once its first message is taken.                   *)
LEMMA Taken ==
  ASSUME NEW s \in Seq(Message), s # <<>>, Increasing(s)
  PROVE  /\ Tail(s) \in Seq(Message) /\ Increasing(Tail(s)) /\ Head(s) \in Message
         /\ 1 \in DOMAIN s /\ Head(s) = s[1]
         /\ \A i \in DOMAIN Tail(s) : i + 1 \in DOMAIN s /\ Tail(s)[i] = s[i + 1]
                                      /\ Head(s) < Tail(s)[i]
         /\ ToSet(s) = {Head(s)} \cup ToSet(Tail(s)) /\ Head(s) \notin ToSet(Tail(s))
<1> DEFINE t == Tail(s)
<1>1. /\ t \in Seq(Message) /\ 1 \in DOMAIN s /\ Head(s) = s[1] /\ s[1] \in Message
      /\ Len(s) \in Nat /\ DOMAIN s = 1 .. Len(s) /\ DOMAIN t = 1 .. Len(s) - 1
  OBVIOUS
<1>2. \A i \in 1 .. Len(s) - 1 : t[i] = s[i + 1] OBVIOUS
<1> HIDE DEF t
<1>3. \A i \in DOMAIN t : i + 1 \in DOMAIN s /\ t[i] = s[i + 1] /\ 1 < i + 1
  BY <1>1, <1>2
<1>4. \A i \in DOMAIN t : Head(s) < t[i] BY <1>1, <1>3 DEF Increasing
<1>5. Increasing(t)
  <2> SUFFICES ASSUME NEW i \in DOMAIN t, NEW j \in DOMAIN t, i < j PROVE t[i] < t[j]
    BY DEF Increasing
  <2>1. i + 1 < j + 1 BY <1>1
  <2>. QED BY <1>3, <2>1 DEF Increasing
<1>6. ToSet(s) = {Head(s)} \cup ToSet(t)
  <2>1. \A i \in DOMAIN s : i = 1 \/ (i - 1 \in DOMAIN t /\ t[i - 1] = s[i])
    BY <1>1, <1>2
  <2>. QED BY <1>1, <1>3, <2>1 DEF ToSet
<1>7. Head(s) \notin ToSet(t) BY <1>1, <1>4 DEF ToSet, Message
<1>. QED BY <1>1, <1>3, <1>4, <1>5, <1>6, <1>7 DEF t

LEMMA KeptItem ==
  ASSUME NEW m \in Message, NEW asked \in BOOLEAN
  PROVE  Kept(m, asked) \in Item /\ Kept(m, asked).id = m
BY DEF Kept, Item

LEMMA FrontLength ==
  ASSUME NEW k \in Nat, 1 <= k
  PROVE  (IF 1 <= k - 1 THEN (k - 1) - 1 + 1 ELSE 0) = k - 1
OBVIOUS

(* The message that goes out of a full buffer.                             *)
LEMMA WithoutOne ==
  ASSUME NEW ms \in Seq(Item), NEW k \in 1 .. Len(ms), Ordered(ms)
  PROVE  LET rest == RemoveAt(ms, k)
         IN  /\ rest \in Seq(Item) /\ Len(rest) = Len(ms) - 1 /\ Ordered(rest)
             /\ IdsOf(ms) = {ms[k].id} \cup IdsOf(rest)
             /\ k > 1 => rest[1] = ms[1]
<1> DEFINE a == SubSeq(ms, 1, k - 1)
           b == SubSeq(ms, k + 1, Len(ms))
           rest == RemoveAt(ms, k)
<1>1. Len(ms) \in Nat /\ DOMAIN ms = 1 .. Len(ms) /\ k \in Nat /\ 1 <= k /\ k <= Len(ms)
  OBVIOUS
<1>2. rest = a \o b BY DEF RemoveAt
<1>3. a \in Seq(Item) /\ Len(a) = k - 1 /\ \A i \in 1 .. k - 1 : a[i] = ms[i]
  <2>1. 1 \in Int /\ k - 1 \in Int /\ \A i \in 1 .. k - 1 : ms[i] \in Item BY <1>1
  <2>2. /\ a \in Seq(Item)
        /\ Len(a) = IF 1 <= k - 1 THEN (k - 1) - 1 + 1 ELSE 0
        /\ \A i \in 1 .. (k - 1) - 1 + 1 : a[i] = ms[1 + i - 1]
    BY <2>1, SubSeqProperties
  <2> HIDE DEF a
  <2>3. Len(a) = k - 1 BY <2>2, <1>1, FrontLength
  <2>4. ASSUME NEW i \in 1 .. k - 1 PROVE a[i] = ms[i] BY <1>1, <2>2
  <2>. QED BY <2>2, <2>3, <2>4
<1>4. b \in Seq(Item) /\ Len(b) = Len(ms) - k /\ \A i \in DOMAIN b : b[i] = ms[i + k]
  BY <1>1, Parted
<1> HIDE DEF a, b, rest
<1>5. /\ rest \in Seq(Item) /\ Len(rest) = (k - 1) + (Len(ms) - k)
      /\ \A i \in DOMAIN rest :
           \/ i \in DOMAIN a /\ rest[i] = a[i]
           \/ i > Len(a) /\ i - Len(a) \in DOMAIN b /\ rest[i] = b[i - Len(a)]
  BY <1>2, <1>3, <1>4, Joined
<1>6. DOMAIN a = 1 .. k - 1 /\ DOMAIN b = 1 .. Len(ms) - k /\ DOMAIN rest = 1 .. Len(ms) - 1
      /\ Len(rest) = Len(ms) - 1
  BY <1>1, <1>3, <1>4, <1>5
<1>7. \A i \in DOMAIN rest : rest[i] = IF i < k THEN ms[i] ELSE ms[i + 1]
  <2> SUFFICES ASSUME NEW i \in DOMAIN rest PROVE rest[i] = IF i < k THEN ms[i] ELSE ms[i + 1]
    OBVIOUS
  <2>1. CASE i \in DOMAIN a /\ rest[i] = a[i] BY <1>1, <1>3, <1>6, <2>1
  <2>2. CASE i > Len(a) /\ i - Len(a) \in DOMAIN b /\ rest[i] = b[i - Len(a)]
    BY <1>1, <1>3, <1>4, <1>6, <2>2, SMTT(30)
  <2>. QED BY <1>5, <2>1, <2>2
<1>8. \A i \in DOMAIN rest : i \in 1 .. Len(ms) - 1 /\ i \in DOMAIN ms /\ i + 1 \in DOMAIN ms
  BY <1>1, <1>6
<1>9. Ordered(rest)
  <2> SUFFICES ASSUME NEW i \in DOMAIN rest, NEW j \in DOMAIN rest, i < j
               PROVE  rest[i].id < rest[j].id
    BY DEF Ordered
  <2> DEFINE o(n) == IF n < k THEN n ELSE n + 1
  <2>1. /\ o(i) \in DOMAIN ms /\ o(j) \in DOMAIN ms /\ o(i) < o(j) BY <1>1, <1>8
  <2>2. rest[i] = ms[o(i)] /\ rest[j] = ms[o(j)] BY <1>7
  <2> HIDE DEF o
  <2>. QED BY <2>1, <2>2 DEF Ordered
<1>10. IdsOf(ms) = {ms[k].id} \cup IdsOf(rest)
  <2>1. ASSUME NEW i \in DOMAIN ms, i # k PROVE ms[i].id \in IdsOf(rest)
    <3>1. CASE i < k BY <1>1, <1>6, <1>7, <3>1 DEF IdsOf
    <3>2. CASE i > k
      <4>1. i - 1 \in DOMAIN rest /\ ~(i - 1 < k) /\ (i - 1) + 1 = i BY <1>1, <1>6, <3>2
      <4>2. rest[i - 1] = ms[i] BY <1>7, <4>1
      <4>. QED BY <4>1, <4>2 DEF IdsOf
    <3>. QED BY <1>1, <2>1, <3>1, <3>2
  <2>2. IdsOf(rest) \subseteq IdsOf(ms) BY <1>7, <1>8 DEF IdsOf
  <2>3. IdsOf(ms) \subseteq {ms[k].id} \cup IdsOf(rest) BY <2>1 DEF IdsOf
  <2>4. ms[k].id \in IdsOf(ms) BY <1>1 DEF IdsOf
  <2>. QED BY <2>2, <2>3, <2>4
<1>11. k > 1 => rest[1] = ms[1] BY <1>1, <1>6, <1>7
<1>. QED BY <1>5, <1>6, <1>9, <1>10, <1>11 DEF rest

LEMMA Appended ==
  ASSUME NEW ms \in Seq(Item), NEW p \in Item, Ordered(ms),
         \A m \in IdsOf(ms) : m < p.id
  PROVE  LET all == Append(ms, p)
         IN  /\ all \in Seq(Item) /\ Len(all) = Len(ms) + 1 /\ Ordered(all)
             /\ IdsOf(all) = IdsOf(ms) \cup {p.id}
             /\ ms # <<>> => all[1] = ms[1]
<1> DEFINE all == Append(ms, p)
<1>1. /\ all \in Seq(Item) /\ Len(all) = Len(ms) + 1 /\ Len(ms) \in Nat
      /\ DOMAIN ms = 1 .. Len(ms) /\ DOMAIN all = 1 .. Len(ms) + 1
  OBVIOUS
<1>2. all[Len(ms) + 1] = p /\ \A i \in 1 .. Len(ms) : all[i] = ms[i] OBVIOUS
<1> HIDE DEF all
<1>3. ASSUME NEW i \in DOMAIN all
      PROVE  \/ i \in DOMAIN ms /\ all[i] = ms[i]
             \/ i = Len(ms) + 1 /\ all[i] = p
  BY <1>1, <1>2
<1>4. Ordered(all)
  <2> SUFFICES ASSUME NEW i \in DOMAIN all, NEW j \in DOMAIN all, i < j
               PROVE  all[i].id < all[j].id
    BY DEF Ordered
  <2>1. i \in DOMAIN ms /\ all[i] = ms[i] BY <1>1, <1>3
  <2>2. CASE j \in DOMAIN ms /\ all[j] = ms[j] BY <2>1, <2>2 DEF Ordered
  <2>3. CASE all[j] = p BY <2>1, <2>3 DEF IdsOf
  <2>. QED BY <1>3, <2>2, <2>3
<1>5. IdsOf(all) = IdsOf(ms) \cup {p.id} BY <1>1, <1>2, <1>3 DEF IdsOf
<1>6. ms # <<>> => all[1] = ms[1] BY <1>1, <1>2
<1>. QED BY <1>1, <1>4, <1>5, <1>6 DEF all

LEMMA ParkedOK ==
  ASSUME DeliveryAssumption, session \in Session, NEW s, NEW x, Fine(s, x), NEW p \in Item,
         \A m \in IdsOf(x.slot.messages) \cup ToSet(x.link.out) : m < p.id
  PROVE  LET y == Parked(x, p)
         IN  /\ Fine(s, y) /\ y.link = x.link
             /\ Flows({p.id} \cup IdsOf(x.slot.messages), x.handed, x.told,
                      IdsOf(y.slot.messages), y.handed, y.told)
<1> DEFINE ms == x.slot.messages
           gone == Dropped(x)
           ms0 == IF Full(x) THEN RemoveAt(ms, gone) ELSE ms
           t0 == IF Full(x) THEN x.told \cup {ms[gone].id} ELSE x.told
           v == IF Full(x) THEN [Told(x, ms[gone].id) EXCEPT
                                   !.slot.messages = RemoveAt(@, gone), !.slot.overflow_told = TRUE]
                ELSE x
           q == v.slot.queued_told \/ (session.alive /\ session.conn = 0)
           all == Append(ms0, p)
           y == [v EXCEPT !.slot.messages = Append(@, p),
                          !.slot.queued_told = @ \/ (session.alive /\ session.conn = 0)]
<1>1. Parked(x, p) = y BY DEF Parked
<1>2. /\ x \in State /\ x.slot \in Buffer /\ ms \in Seq(Item) /\ Ordered(ms)
      /\ Len(ms) <= MaxBuffered /\ x.told \in SUBSET Message
  BY DEF Fine, State, Buffer, BufferOK
<1>3. MaxBuffered \in Nat /\ MaxBuffered > 1 /\ gone \in {1, 2}
      /\ (x.fetch # NoFetch => gone = 2)
  BY DEF DeliveryAssumption, Dropped
<1>4. /\ ms0 \in Seq(Item) /\ Len(ms0) < MaxBuffered /\ Ordered(ms0)
      /\ t0 \in SUBSET Message /\ t0 \subseteq x.told \cup IdsOf(ms) /\ x.told \subseteq t0
      /\ IdsOf(ms0) \subseteq IdsOf(ms) /\ IdsOf(ms) \subseteq IdsOf(ms0) \cup t0
      /\ (x.fetch # NoFetch => ms0 # <<>> /\ ms0[1] = ms[1])
      /\ (Full(x) => ms[gone].id \in Message)
  <2>1. CASE ~Full(x) BY <2>1, <1>2, <1>3 DEF Full, Fine, FrontOK
  <2>2. CASE Full(x)
    <3>1. ms0 = RemoveAt(ms, gone) /\ t0 = x.told \cup {ms[gone].id} BY <2>2
    <3>2. Len(ms) >= MaxBuffered BY <2>2 DEF Full
    <3> HIDE DEF ms, gone, ms0, t0
    <3>3. Len(ms) \in Nat /\ gone \in 1 .. Len(ms) BY <1>2, <1>3, <3>2
    <3>4. /\ ms0 \in Seq(Item) /\ Len(ms0) = Len(ms) - 1 /\ Ordered(ms0)
          /\ IdsOf(ms) = {ms[gone].id} \cup IdsOf(ms0)
          /\ gone > 1 => ms0[1] = ms[1]
      BY <1>2, <3>1, <3>3, WithoutOne
    <3>5. ms[gone].id \in Message BY <1>2, <3>3, IdsAre
    <3>6. Len(ms0) < MaxBuffered /\ ms0 # <<>> BY <1>2, <1>3, <3>2, <3>3, <3>4
    <3>7. x.fetch # NoFetch => ms0[1] = ms[1] BY <1>3, <3>4
    <3>. QED BY <1>2, <3>1, <3>4, <3>5, <3>6, <3>7
  <2>. QED BY <2>1, <2>2
<1>5. /\ v \in State /\ v.slot \in Buffer /\ v.slot.messages = ms0 /\ v.slot.resume = x.slot.resume
      /\ v.actor = x.actor /\ v.fetch = x.fetch /\ v.link = x.link /\ v.flight = x.flight
      /\ v.buttons = x.buttons /\ v.handed = x.handed /\ v.told = t0
  <2>1. CASE ~Full(x) BY <1>2, <2>1
  <2>2. CASE Full(x)
    <3> DEFINE b == [x.slot EXCEPT !.messages = ms0, !.overflow_told = TRUE]
               u == Told(x, ms[gone].id)
    <3>1. ms0 = RemoveAt(ms, gone) /\ t0 = x.told \cup {ms[gone].id} BY <2>2
    <3>2. /\ u \in State /\ u.slot = x.slot /\ u.actor = x.actor /\ u.fetch = x.fetch
          /\ u.link = x.link /\ u.flight = x.flight /\ u.buttons = x.buttons
          /\ u.handed = x.handed /\ u.told = t0
      <4> HIDE DEF ms, gone, t0
      <4>. QED BY <1>2, <1>4, <3>1 DEF State, Told
    <3>3. v = [u EXCEPT !.slot.messages = RemoveAt(@, gone), !.slot.overflow_told = TRUE]
      BY <2>2
    <3> HIDE DEF u, v
    <3>4. v = [u EXCEPT !.slot = b] BY <3>1, <3>2, <3>3
    <3> HIDE DEF ms0, t0, gone
    <3>5. b \in Buffer /\ b.messages = ms0 /\ b.resume = x.slot.resume
      BY <1>2, <1>4 DEF Buffer
    <3> HIDE DEF b
    <3>. QED BY <3>2, <3>4, <3>5 DEF State
  <2>. QED BY <2>1, <2>2
<1> HIDE DEF v, ms0, t0, gone
<1>6. /\ all \in Seq(Item) /\ Len(all) = Len(ms0) + 1 /\ Ordered(all)
      /\ IdsOf(all) = IdsOf(ms0) \cup {p.id}
      /\ ms0 # <<>> => all[1] = ms0[1]
  BY <1>4, Appended
<1> HIDE DEF all
<1>7. q \in BOOLEAN BY <1>5 DEF Session, Buffer
<1> DEFINE b == [v.slot EXCEPT !.messages = all, !.queued_told = q]
<1>8. b \in Buffer /\ b.messages = all /\ b.resume = x.slot.resume
  <2> HIDE DEF q
  <2>. QED BY <1>5, <1>6, <1>7 DEF Buffer
<1>9. y = [v EXCEPT !.slot = b] BY <1>5 DEF all
<1> HIDE DEF b, y, q
<1>10. /\ y \in State /\ y.slot = b /\ y.actor = x.actor /\ y.fetch = x.fetch
       /\ y.link = x.link /\ y.flight = x.flight /\ y.buttons = x.buttons
       /\ y.handed = x.handed /\ y.told = t0
  BY <1>5, <1>8, <1>9 DEF State
<1>11. BufferOK(y.slot) BY <1>3, <1>4, <1>6, <1>8, <1>10 DEF Fine, BufferOK
<1>12. FrontOK(y.slot.messages, y.fetch)
  <2> SUFFICES ASSUME x.fetch # NoFetch
               PROVE  /\ x.fetch.outcome # "none" /\ all # <<>> /\ all[1].id = x.fetch.msg
                      /\ all[1].file
    BY <1>8, <1>10 DEF FrontOK
  <2>1. x.fetch.outcome # "none" /\ ms[1].id = x.fetch.msg /\ ms[1].file
    BY DEF Fine, FrontOK
  <2>2. all[1] = ms[1] BY <1>4, <1>6
  <2>3. all # <<>> BY <1>4, <1>6, EmptyIs
  <2>. QED BY <2>1, <2>2, <2>3
<1>13. Live(s) => Frontier(y.slot.messages, y.fetch, y.link)
  <2> SUFFICES ASSUME Live(s), NEW i \in DOMAIN x.link.out, NEW j \in DOMAIN all
               PROVE  \/ x.link.out[i] < all[j].id
                      \/ /\ x.fetch.outcome = "handed" /\ x.fetch.conn = x.link.conn
                         /\ x.link.out[i] = x.fetch.msg /\ all[j].id = x.fetch.msg
    BY <1>8, <1>10 DEF Frontier
  <2>1. all[j].id \in IdsOf(ms) \cup {p.id} BY <1>4, <1>6 DEF IdsOf
  <2>2. CASE all[j].id = p.id BY <2>2 DEF ToSet
  <2>3. CASE all[j].id \in IdsOf(ms)
    <3>1. PICK k \in DOMAIN ms : all[j].id = ms[k].id BY <2>3 DEF IdsOf
    <3>. QED BY <3>1 DEF Fine, Frontier
  <2>. QED BY <2>1, <2>2, <2>3
<1>14. Fine(s, y) BY <1>8, <1>10, <1>11, <1>12, <1>13 DEF Fine
<1>15. Flows({p.id} \cup IdsOf(ms), x.handed, x.told, IdsOf(y.slot.messages), y.handed, y.told)
  <2>1. IdsOf(y.slot.messages) = IdsOf(ms0) \cup {p.id} BY <1>6, <1>8, <1>10
  <2> HIDE DEF ms
  <2>. QED BY <1>4, <1>10, <2>1 DEF Flows
<1>. QED BY <1>1, <1>10, <1>14, <1>15

(* A message is taken from the inbox: w is what becomes of the slot.       *)
LEMMA TakenStep ==
  ASSUME IInv, inbox # <<>>, NEW w, Fine(session, w), Moved(session, w), Becomes(w),
         w.link.conn = link.conn,
         LET m == Head(inbox)
         IN  /\ Flows({m} \cup IdsOf(slot.messages), handed, told,
                      IdsOf(w.slot.messages), w.handed, w.told)
             /\ ToSet(w.link.out) \subseteq {m} \cup IdsOf(slot.messages) \cup ToSet(link.out)
             /\ taken' = [taken EXCEPT ![m] = @ + 1],
         inbox' = Tail(inbox), UNCHANGED <<plan, offset, savedOffset, disk, session, faults>>
  PROVE  IInv' /\ Works
<1> DEFINE m == Head(inbox)
<1>1. inbox \in Seq(Message) /\ Increasing(inbox) /\ \A i \in DOMAIN inbox : inbox[i] < offset
  BY DEF IInv, PolledInv
<1>2. /\ inbox' \in Seq(Message) /\ Increasing(inbox') /\ m \in Message
      /\ 1 \in DOMAIN inbox /\ m = inbox[1]
      /\ \A i \in DOMAIN inbox' : i + 1 \in DOMAIN inbox /\ inbox'[i] = inbox[i + 1]
                                  /\ m < inbox'[i]
      /\ ToSet(inbox) = {m} \cup ToSet(inbox') /\ m \notin ToSet(inbox')
  BY <1>1, Taken
<1>3. m < offset BY <1>1, <1>2
<1>4. /\ Flows({m} \cup IdsOf(slot.messages), handed, told,
               IdsOf(w.slot.messages), w.handed, w.told)
      /\ ToSet(w.link.out) \subseteq {m} \cup IdsOf(slot.messages) \cup ToSet(link.out)
      /\ taken' = [taken EXCEPT ![m] = @ + 1]
  OBVIOUS
<1> HIDE DEF m
<1>5. slot' = w.slot /\ link' = w.link /\ handed' = w.handed /\ told' = w.told
  BY DEF Becomes
<1>6. PolledInv' BY <1>1, <1>2 DEF IInv, PolledInv
<1>7. CameInv' BY <1>4, <1>5, <1>2, <1>3 DEF Flows, IInv, CameInv
<1>8. DiskInv' /\ SessionInv' BY <1>5 DEF IInv, DiskInv, SessionInv
<1>9. FineInv' /\ MovedInv' BY BecomesFine, BecomesMoved
<1>10. TakenInv' BY <1>2, <1>4, <1>3 DEF IInv, TakenInv, Message, PolledInv
<1>11. Works BY <1>2, <1>5, <1>4 DEF Waiting, Works, Flows
<1>. QED BY <1>6, <1>7, <1>8, <1>9, <1>10, <1>11 DEF IInv

LEMMA FlowsOn ==
  ASSUME NEW k, NEW h, NEW t, NEW k2, NEW h2, NEW t2, NEW k3, NEW h3, NEW t3,
         Flows(k, h, t, k2, h2, t2), Flows(k2, h2, t2, k3, h3, t3)
  PROVE  Flows(k, h, t, k3, h3, t3)
BY DEF Flows

LEMMA TakeInInv ==
  ASSUME DeliveryAssumption, IInv, NEW asked \in BOOLEAN, TakeIn(asked)
  PROVE  IInv' /\ Works
<1> DEFINE m == Head(inbox)
           p == Kept(m, asked)
           x == IF p.file \/ plan[m] = "command" THEN EndedGather(Now) ELSE Gathered(Now, m)
           y == IF p.voice = "pending" THEN [x EXCEPT !.actor.hearing = @ \cup {m}] ELSE x
           v == IF plan[m] = "command" THEN Told(Flushed(session, y), m)
                ELSE Flushed(session, Parked(y, p))
           w == Pumped(session, v)
<1>1. /\ inbox # <<>> /\ inbox' = Tail(inbox) /\ taken' = [taken EXCEPT ![m] = @ + 1]
      /\ UNCHANGED <<plan, offset, savedOffset, disk, session, faults>>
      /\ Becomes(w)
  BY DEF TakeIn
<1>2. /\ session \in Session /\ Fine(session, Now) /\ actor \in Actor /\ Now.actor = actor
  BY NowTypes, NowIs DEF IInv, SessionInv, FineInv
<1>3. m \in Message /\ p \in Item /\ p.id = m /\ 1 \in DOMAIN inbox /\ m = inbox[1]
  <2>1. inbox \in Seq(Message) /\ Increasing(inbox) BY DEF IInv, PolledInv
  <2>2. m \in Message /\ 1 \in DOMAIN inbox /\ m = inbox[1] BY <1>1, <2>1, Taken
  <2> HIDE DEF m
  <2>. QED BY <2>2, KeptItem
<1>4. Fine(session, x) /\ Follows(Now, x) /\ x.slot = slot /\ x.link = link
  <2>1. actor.gather \in Gather BY <1>2 DEF Actor
  <2>2. CASE p.file \/ plan[m] = "command"
    <3> DEFINE g == [actor.gather EXCEPT !.due = (actor.gather # NoGather)]
               e == [Now EXCEPT !.actor.gather = g]
    <3>1. x = e BY <1>2, <2>2 DEF EndedGather
    <3>2. g \in Gather BY <2>1 DEF Gather
    <3> HIDE DEF g
    <3>3. Fine(session, e) /\ Follows(Now, e) /\ e.slot = Now.slot /\ e.link = Now.link
      BY <1>2, <3>2, NewGather
    <3> HIDE DEF e, x
    <3>. QED BY <3>1, <3>3, NowIs
  <2>3. CASE ~(p.file \/ plan[m] = "command")
    <3> DEFINE g == [start |-> m, due |-> FALSE]
               e == [Now EXCEPT !.actor.gather = g]
    <3>1. x = e \/ x = Now BY <2>3 DEF Gathered
    <3>2. g \in Gather BY <1>3 DEF Gather, Message
    <3> HIDE DEF g
    <3>3. Fine(session, e) /\ Follows(Now, e) /\ e.slot = Now.slot /\ e.link = Now.link
      BY <1>2, <3>2, NewGather
    <3>4. Follows(Now, Now) BY FollowsItself
    <3> HIDE DEF e, x
    <3>. QED BY <1>2, <3>1, <3>3, <3>4, NowIs
  <2>. QED BY <2>2, <2>3
<1> HIDE DEF x
<1>5. Fine(session, y) /\ Follows(Now, y) /\ y.slot = slot /\ y.link = link
  <2> DEFINE a == [x.actor EXCEPT !.hearing = @ \cup {m}]
             e == [x EXCEPT !.actor = a]
  <2>1. y = x \/ y = e OBVIOUS
  <2>2. x.actor \in Actor BY <1>4 DEF Fine, State
  <2>3. a \in Actor /\ a.resume_sends = x.actor.resume_sends
    <3> HIDE DEF m
    <3>. QED BY <1>3, <2>2 DEF Actor
  <2> HIDE DEF a
  <2>4. Fine(session, e) /\ Follows(x, e) /\ e.slot = x.slot /\ e.link = x.link
    BY <1>4, <2>3, ActorNoted
  <2> HIDE DEF e, y
  <2>. QED BY <1>4, <2>1, <2>4, FollowsTransitive
<1> HIDE DEF y, m, p
<1>6. /\ Flows(IdsOf(slot.messages), handed, told, IdsOf(slot.messages), y.handed, y.told)
  BY <1>5, NowIs DEF Follows
<1>7. /\ Fine(session, v) /\ v.link.conn = link.conn
      /\ Flows({m} \cup IdsOf(slot.messages), handed, told, IdsOf(v.slot.messages), v.handed, v.told)
      /\ ToSet(v.link.out) \subseteq {m} \cup IdsOf(slot.messages) \cup ToSet(link.out)
  <2>1. CASE plan[m] = "command"
    <3> DEFINE f == Flushed(session, y)
    <3>1. Fine(session, f) /\ Follows(y, f) BY <1>5, FlushedOK
    <3>2. v = Told(f, m) BY <2>1
    <3> HIDE DEF f, v
    <3>3. /\ v \in State /\ v.slot = f.slot /\ v.actor = f.actor /\ v.fetch = f.fetch
          /\ v.link = f.link /\ v.flight = f.flight /\ v.buttons = f.buttons
          /\ v.handed = f.handed /\ v.told = f.told \cup {m}
      BY <1>3, <3>1, <3>2 DEF Fine, State, Told
    <3>4. Fine(session, v) BY <3>1, <3>3 DEF Fine
    <3>5. Flows(IdsOf(slot.messages), y.handed, y.told, IdsOf(v.slot.messages), f.handed, f.told)
          /\ ToSet(v.link.out) \subseteq ToSet(link.out) \cup IdsOf(slot.messages)
          /\ v.link.conn = link.conn
      BY <1>5, <3>1, <3>3 DEF Follows
    <3>6. Flows({m} \cup IdsOf(slot.messages), handed, told, IdsOf(v.slot.messages),
                v.handed, v.told)
      BY <1>6, <3>3, <3>5 DEF Flows
    <3>. QED BY <3>4, <3>5, <3>6
  <2>2. CASE plan[m] # "command"
    <3> DEFINE q == Parked(y, p)
               f == Flushed(session, q)
    <3>1. \A k \in IdsOf(y.slot.messages) \cup ToSet(y.link.out) : k < p.id
      BY <1>3, <1>5 DEF IInv, CameInv
    <3>2. /\ Fine(session, q) /\ q.link = y.link
          /\ Flows({p.id} \cup IdsOf(y.slot.messages), y.handed, y.told,
                   IdsOf(q.slot.messages), q.handed, q.told)
      BY <1>2, <1>3, <1>5, <3>1, ParkedOK
    <3> HIDE DEF q
    <3>3. Fine(session, f) /\ Follows(q, f) BY <3>2, FlushedOK
    <3>4. v = f BY <2>2 DEF q
    <3> HIDE DEF f, v
    <3>5. /\ Flows(IdsOf(q.slot.messages), q.handed, q.told, IdsOf(v.slot.messages),
                   v.handed, v.told)
          /\ ToSet(v.link.out) \subseteq ToSet(q.link.out) \cup IdsOf(q.slot.messages)
          /\ v.link.conn = q.link.conn
      BY <3>3, <3>4 DEF Follows
    <3>6. Flows({m} \cup IdsOf(slot.messages), y.handed, y.told, IdsOf(q.slot.messages),
                q.handed, q.told)
      BY <1>3, <1>5, <3>2
    <3>7. Flows({m} \cup IdsOf(slot.messages), handed, told, IdsOf(q.slot.messages),
                q.handed, q.told)
      BY <1>6, <3>6 DEF Flows
    <3>8. Flows({m} \cup IdsOf(slot.messages), handed, told, IdsOf(v.slot.messages),
                v.handed, v.told)
      BY <3>5, <3>7, FlowsOn
    <3>9. IdsOf(q.slot.messages) \subseteq {m} \cup IdsOf(slot.messages)
      BY <3>6 DEF Flows
    <3>. QED BY <1>5, <3>2, <3>3, <3>4, <3>5, <3>8, <3>9
  <2>. QED BY <2>1, <2>2
<1> HIDE DEF v
<1>8. Fine(session, w) /\ Moved(session, w) /\ Follows(v, w)
  BY <1>2, <1>7, PumpedOK, PumpedMoves
<1> HIDE DEF w
<1>9. /\ Flows(IdsOf(v.slot.messages), v.handed, v.told, IdsOf(w.slot.messages), w.handed, w.told)
      /\ ToSet(w.link.out) \subseteq ToSet(v.link.out) \cup IdsOf(v.slot.messages)
      /\ w.link.conn = v.link.conn
  BY <1>8 DEF Follows
<1>10. Flows({m} \cup IdsOf(slot.messages), handed, told, IdsOf(w.slot.messages),
             w.handed, w.told)
  BY <1>7, <1>9, FlowsOn
<1>11. IdsOf(v.slot.messages) \subseteq {m} \cup IdsOf(slot.messages) BY <1>7 DEF Flows
<1>12. /\ ToSet(w.link.out) \subseteq {m} \cup IdsOf(slot.messages) \cup ToSet(link.out)
       /\ w.link.conn = link.conn
  BY <1>7, <1>9, <1>11
<1>. QED BY <1>1, <1>8, <1>10, <1>12, TakenStep DEF m

----------------------------------------------------------------------------
(* The theorems.                                                           *)

LEMMA StepInv ==
  ASSUME DeliveryAssumption, IInv, [Next]_vars
  PROVE  /\ IInv'
         /\ \/ Works \/ (\E n \in Message : Polled(n)) \/ Save \/ Crash
<1>1. ASSUME NEW n \in Message, Poll(n) PROVE IInv' /\ Polled(n) BY <1>1, PollInv
<1>2. ASSUME NEW asked \in BOOLEAN, TakeIn(asked) PROVE IInv' /\ Works BY <1>2, TakeInInv
<1>3. ASSUME NEW m \in Message, NEW words \in BOOLEAN, OnVoice(m, words) PROVE IInv' /\ Works
  BY <1>3, OnVoiceInv
<1>4. ASSUME NEW m \in Message, OnHeard(m) PROVE IInv' /\ Works BY <1>4, OnHeardInv
<1>5. ASSUME NEW f \in flight, NEW answer \in {"id", "shown", "failed"}, OnResumeDone(f, answer)
      PROVE  IInv' /\ Works
  BY <1>5, OnResumeDoneInv
<1>6. ASSUME NEW files \in FileLinks, Connect(files) PROVE IInv' /\ Works
  BY <1>6, ConnectInv
<1>7. ASSUME NEW conn \in 0 .. MaxConns, Begin(conn) PROVE IInv' /\ Works
  BY <1>7, BeginInv
<1>8. CASE HistoryReady \/ GatherDue \/ Tick \/ Download \/ OnFetched
  BY <1>8, HistoryReadyInv, GatherDueInv, TickInv, DownloadInv, OnFetchedInv
<1>9. CASE Send \/ Lose \/ Disconnected \/ End
  BY <1>9, SendInv, LoseInv, DisconnectedInv, EndInv
<1>10. CASE Save BY <1>10, SaveInv
<1>11. CASE Crash BY <1>11, CrashInv
<1>12. ASSUME NEW p \in buttons.edits, ButtonEdited(p) PROVE IInv' /\ Works
  BY <1>12, ButtonEditedInv
<1>13. CASE UNCHANGED vars BY <1>13, NowTypes, LinkStep DEF vars, IInv
<1>. QED BY <1>1, <1>2, <1>3, <1>4, <1>5, <1>6, <1>7, <1>8, <1>9, <1>10, <1>11, <1>12, <1>13
     DEF Next

THEOREM Invariance == Spec => []IInv
<1>1. Init => IInv BY DeliveryAssumption, InitInv
<1>2. IInv /\ [Next]_vars => IInv' BY DeliveryAssumption, StepInv
<1>. QED BY <1>1, <1>2, PTL DEF Spec

LEMMA BufferTypes ==
  ASSUME NEW b, BufferOK(b)
  PROVE  /\ Len(b.messages) <= MaxBuffered
         /\ ToSet(Ids(b.messages)) \subseteq Message
         /\ {b.overflow_told, b.queued_told} \subseteq BOOLEAN
BY IdsAre DEF BufferOK, Buffer, IdsOf

(* Every part of the state has its type: the buffers keep no more than     *)
(* they may, and the session's link is none or the newest.                 *)
THEOREM TypeCorrect == Spec => []TypeOK
<1>1. IInv => TypeOK
  <2> SUFFICES ASSUME IInv PROVE TypeOK
    OBVIOUS
  <2>1. plan \in Plans /\ {offset, savedOffset} \subseteq 1 .. Count + 1
    BY DEF IInv, PolledInv
  <2>2. ToSet(inbox) \subseteq Message BY DEF IInv, PolledInv, ToSet
  <2>3. BufferOK(slot) /\ BufferOK(disk) BY NowIs DEF IInv, FineInv, Fine, DiskInv
  <2>4. \A b \in {slot, disk} : /\ Len(b.messages) <= MaxBuffered
                                /\ ToSet(Ids(b.messages)) \subseteq Message
                                /\ {b.overflow_told, b.queued_told} \subseteq BOOLEAN
    BY <2>3, BufferTypes
  <2>5. fetch \in Fetch /\ link \in LinkState /\ actor \in Actor
        /\ handed \subseteq Message /\ told \subseteq Message
    BY NowTypes DEF IInv
  <2>6. fetch.outcome \in {"none", "running", "failed", "closed", "handed"}
    BY <2>5 DEF Fetch, Outcome
  <2>7. link.conn \in 0 .. MaxConns /\ link.queued \in 0 .. QueueMax
    BY <2>5 DEF LinkState
  <2>8. actor.hearing \cup actor.showing \cup handed \cup told \subseteq Message
    BY <2>5 DEF Actor
  <2>9. session.conn \in {0, link.conn} /\ session.run \in 1 .. MaxRuns
    BY DEF IInv, SessionInv, Session
  <2>. QED BY <2>1, <2>2, <2>4, <2>6, <2>7, <2>8, <2>9 DEF TypeOK
<1>. QED BY <1>1, Invariance, PTL

(* A session gets its messages in their order and none twice, and none is  *)
(* taken from Telegram a second time.                                      *)
THEOREM DeliveredInOrderOnce == Spec => []InOrderOnce
<1>1. IInv => InOrderOnce
  <2> SUFFICES ASSUME IInv PROVE InOrderOnce
    OBVIOUS
  <2>1. Increasing(link.out) BY NowIs DEF IInv, FineInv, Fine
  <2>2. \A m \in Message : taken[m] <= 1 BY DEF IInv, TakenInv
  <2>. QED BY <2>1, <2>2 DEF InOrderOnce, Increasing
<1>. QED BY <1>1, Invariance, PTL

(* A Resume button that shows is the one the open period keeps, or its one *)
(* edit was asked for, or its id is lost to the hub; and no edit is out    *)
(* for the one that is kept, which names the session of its period.        *)
THEOREM NoButtonForgotten == Spec => []ButtonsGo
<1>1. IInv => ButtonsGo
  <2>1. IInv => NoteOK(slot.resume)
                /\ ResumeOK(slot.resume, actor.resume_sends, flight, buttons)
    BY NowIs DEF IInv, FineInv, Fine, BufferOK
  <2>. QED BY <2>1 DEF ButtonsGo, NoteOK, ResumeOK
<1>. QED BY <1>1, Invariance, PTL

----------------------------------------------------------------------------
(* No message is stuck.                                                    *)

LEMMA NotBlocked ==
  ASSUME NEW x \in State, ~x.blocked
  PROVE  [x EXCEPT !.blocked = FALSE] = x
BY DEF State

(* While nothing is asked for, the first try moves the front.              *)
LEMMA FrontGoesOn ==
  ASSUME DeliveryAssumption, IInv, Served, slot.messages # <<>>,
         LET m == Head(slot.messages).id
         IN  /\ m \notin actor.hearing \cup actor.showing
             /\ actor.compressing = NoMessage /\ fetch = NoFetch
             /\ actor.gather = NoGather \/ actor.gather.due
             /\ ~(link.queued > 0)
  PROVE  ~Tried(Now).blocked
<1> DEFINE p == Head(slot.messages)
<1>1. Now \in State /\ ~Now.blocked /\ link \in LinkState BY NowTypes DEF IInv, Now
<1>2. Fits(Now) BY <1>1, NowIs DEF Served, LinkState, Fits, DeliveryAssumption
<1>3. FrontMoved(Now) BY NowIs DEF IInv, MovedInv, Moved, Served
<1>4. p.history # "pending" BY <1>3, NowIs DEF FrontMoved
<1>5. p.file /\ p.voice # "pending" => ~link.files
  BY <1>3, <1>4, NowIs DEF FrontMoved, Served
<1>6. Tried(Now) =
        IF p.voice = "pending" THEN VoiceStep(Now, p.id)
        ELSE IF p.file THEN FileStep(Now) ELSE TextStep(Now)
  BY <1>1, <1>4, NowIs DEF Tried
<1>7. CASE p.voice = "pending" BY <1>6, <1>7, NowIs, <1>1, VoiceRank DEF VoiceStep
<1>8. CASE p.voice # "pending" /\ p.file
  BY <1>6, <1>8, <1>2, <1>5, NowIs, <1>1, FileMoves
<1>9. CASE p.voice # "pending" /\ ~p.file BY <1>6, <1>9, <1>2, NowIs, <1>1, TextMoves
<1>. QED BY <1>7, <1>8, <1>9

(* No kept message is stuck while the agent of its session is there: its   *)
(* front waits for something that ends by itself, or the next pump moves   *)
(* it.                                                                     *)
THEOREM MessagesMoveOn == Spec => []NothingStuck
<1>1. DeliveryAssumption /\ IInv => NothingStuck
  <2> DEFINE m == Head(slot.messages).id
  <2> SUFFICES ASSUME DeliveryAssumption, IInv, Served, slot.messages # <<>>,
                      m \notin actor.hearing \cup actor.showing,
                      actor.compressing = NoMessage, fetch = NoFetch,
                      actor.gather = NoGather \/ actor.gather.due, ~(link.queued > 0)
               PROVE  Pumped(session, Now).slot # slot
    BY DEF NothingStuck
  <2>1. ~Tried(Now).blocked BY FrontGoesOn
  <2>2. [Now EXCEPT !.blocked = FALSE] = Now BY NowTypes, NotBlocked DEF IInv, Now
  <2>3. Fine(session, Now) /\ session \in Session /\ Live(session)
    BY DEF IInv, FineInv, SessionInv, Served
  <2>. QED BY <2>1, <2>2, <2>3, PumpedMoves, NowIs
<1>. QED BY <1>1, DeliveryAssumption, Invariance, PTL

----------------------------------------------------------------------------
(* The hub keeps the messages it took.                                     *)

StatusIn(m, w, o, h, t) ==
  IF m \in w THEN "kept" ELSE IF m >= o THEN "new"
  ELSE IF m \in h THEN "handed" ELSE IF m \in t THEN "told" ELSE "lost"

LEMMA StatusNow ==
  ASSUME IInv, NEW m
  PROVE  StatusOf(m) = StatusIn(m, Waiting, offset, handed, told)
BY NowTypes, IdsAre DEF IInv, StatusOf, StatusIn, Held, Waiting

LEMMA StatusNext ==
  ASSUME IInv', NEW m
  PROVE  StatusOf(m)' = StatusIn(m, Waiting', offset', handed', told')
BY IdsAre DEF IInv, FineInv, Fine, Now, State, Buffer, StatusOf, StatusIn, Held, Waiting

LEMMA WaitingIs ==
  ASSUME IInv
  PROVE  /\ Waiting \subseteq Message /\ \A m \in Waiting : m < offset
         /\ offset \in Nat
BY NowTypes, IdsAre DEF IInv, PolledInv, IdsOf, ToSet, CameInv, Waiting

LEMMA WorkKeeps ==
  ASSUME IInv, IInv', Works \/ (\E n \in Message : Polled(n))
  PROVE  Keeping!Work
<1> USE DEF Keeping!Status, Keeping!Move
<1>1. \A m \in Message : StatusOf(m)' \in Keeping!Status BY StatusNext DEF StatusIn
<1>2. disk' = disk BY DEF Works, Polled
<1>3. ASSUME NEW m \in Message
      PROVE  \/ StatusOf(m)' = StatusOf(m)
             \/ <<StatusOf(m), StatusOf(m)'>> \in Keeping!Move
  <2>1. /\ StatusOf(m) = StatusIn(m, Waiting, offset, handed, told)
        /\ StatusOf(m)' = StatusIn(m, Waiting', offset', handed', told')
    BY StatusNow, StatusNext
  <2>2. m \in Waiting => m < offset BY WaitingIs
  <2>3. m \in Nat /\ offset \in Nat BY WaitingIs DEF Message
  <2> HIDE DEF Keeping!Status
  <2>4. CASE Works BY <2>4, <2>1, <2>2, <2>3 DEF Works, StatusIn, Flows
  <2>5. ASSUME NEW n \in Message, Polled(n)
        PROVE  \/ StatusOf(m)' = StatusOf(m)
               \/ <<StatusOf(m), StatusOf(m)'>> \in Keeping!Move
    BY <2>5, <2>1, <2>3 DEF Polled, Message, StatusIn
  <2>. QED BY <2>4, <2>5
<1>. QED BY <1>1, <1>2, <1>3 DEF Keeping!Work

LEMMA SaveKeeps ==
  ASSUME IInv, Save
  PROVE  Keeping!Save
BY DEF Save, StatusOf, Held, Keeping!Save

LEMMA CrashKeeps ==
  ASSUME DeliveryAssumption, IInv, Crash
  PROVE  Keeping!Crash
<1> USE DEF Keeping!Status
<1>1. /\ offset' = offset /\ inbox' = <<>> /\ slot' = disk /\ UNCHANGED <<disk, handed, told>>
  BY CrashInv DEF Crash
<1>2. ToSet(inbox') = {} BY <1>1, EmptyIs DEF ToSet
<1>3. \A m \in Message : StatusOf(m)' \in Keeping!Status BY DEF StatusOf
<1>4. ASSUME NEW m \in Message
      PROVE  StatusOf(m)' \in IF m \in ToSet(Ids(disk.messages)) THEN {"kept"}
                              ELSE IF StatusOf(m) = "kept" THEN Keeping!Status \ {"kept"}
                              ELSE {StatusOf(m), "new"}
  BY <1>1, <1>2, <1>3 DEF StatusOf, Held
<1>5. \A m \in Message : m \in { k \in Message : k \in ToSet(Ids(disk.messages)) }
                         <=> m \in ToSet(Ids(disk.messages))
  OBVIOUS
<1>. QED BY <1>1, <1>3, <1>4, <1>5 DEF Keeping!Crash

(* The hub keeps the promise of KeptMessages: a message it took waits      *)
(* until a session got it or its author was told, and a crash loses none   *)
(* that was on disk.                                                       *)
THEOREM MessagesAreKept == Spec => KeepsMessages
<1>1. Init => Keeping!Init
  <2> SUFFICES ASSUME Init PROVE Keeping!Init
    OBVIOUS
  <2>1. slot.messages = <<>> /\ disk.messages = <<>> /\ inbox = <<>> /\ offset = 1
    BY DEF Init, EmptyBuffer
  <2>2. ToSet(Ids(<<>>)) = {} /\ ToSet(<<>>) = {} BY EmptyIs DEF ToSet, Ids
  <2>3. \A m \in Message : StatusOf(m) = "new" BY <2>1, <2>2 DEF StatusOf, Held, Message
  <2>. QED BY <2>1, <2>2, <2>3 DEF Keeping!Init
<1>2. IInv /\ [Next]_vars => [Keeping!Next]_<<[m \in Message |-> StatusOf(m)],
                                { m \in Message : m \in ToSet(Ids(disk.messages)) }>>
  <2> SUFFICES ASSUME IInv, [Next]_vars PROVE Keeping!Next
    OBVIOUS
  <2>1. IInv' /\ (Works \/ (\E n \in Message : Polled(n)) \/ Save \/ Crash)
    BY DeliveryAssumption, StepInv
  <2>. QED BY <2>1, DeliveryAssumption, WorkKeeps, SaveKeeps, CrashKeeps DEF Keeping!Next
<1>. QED BY <1>1, <1>2, Invariance, PTL DEF Spec, KeepsMessages, Keeping!Spec
=============================================================================
