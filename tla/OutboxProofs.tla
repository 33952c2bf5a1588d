---------------------------- MODULE OutboxProofs ----------------------------
(* Proofs about Outbox, for every workload and every limit: what shows in  *)
(* a topic and in a message keeps its order, every sender is held once     *)
(* until it is answered, and a due new message is served in time.          *)
EXTENDS Outbox, SequenceTheorems, FiniteSetTheorems, WellFoundedInduction, TLAPS

----------------------------------------------------------------------------
(* Flattening.                                                             *)

LEMMA LeastNat ==
  ASSUME NEW S \in SUBSET Nat, S # {}
  PROVE  \E n \in S : \A m \in S : n <= m
<1> DEFINE R == OpToRel(<, Nat)
<1>1. PICK n \in S : \A m \in S : ~(<<m, n>> \in R)
  <2>1. IsWellFoundedOn(R, Nat) BY NatLessThanWellFounded
  <2> HIDE DEF R
  <2>. QED BY <2>1, WFMin
<1> HIDE DEF R
<1>2. \A m \in S : n <= m
  <2> SUFFICES ASSUME NEW m \in S, m < n PROVE FALSE
    BY <1>1
  <2>1. <<m, n>> \in R BY DEF R, OpToRel
  <2>. QED BY <1>1, <2>1
<1>. QED BY <1>2

LEMMA IsSeqOf ==
  ASSUME NEW S, NEW n \in Nat, NEW f, f = [i \in 1 .. n |-> f[i]], \A i \in 1 .. n : f[i] \in S
  PROVE  f \in Seq(S) /\ Len(f) = n /\ DOMAIN f = 1 .. n
OBVIOUS

(* The parts of a flattening.                                              *)
FlatUpTo(ss, n, f) == f = [i \in 1 .. n |-> IF i = 1 THEN ss[i] ELSE f[i - 1] \o ss[i]]

LEMMA FlatExists ==
  ASSUME NEW ss, NEW n \in Nat \ {0}
  PROVE  \E f : FlatUpTo(ss, n, f)
<1> DEFINE Bad == { m \in Nat \ {0} : ~\E f : FlatUpTo(ss, m, f) }
<1>1. SUFFICES ASSUME Bad # {} PROVE FALSE
  OBVIOUS
<1>2. PICK m \in Bad : \A k \in Bad : m <= k BY <1>1, LeastNat
<1>3. CASE m = 1
  <2> DEFINE f == [i \in 1 .. 1 |-> ss[i]]
  <2>1. f = [i \in 1 .. 1 |-> IF i = 1 THEN ss[i] ELSE f[i - 1] \o ss[i]] OBVIOUS
  <2>. QED BY <1>2, <1>3, <2>1 DEF FlatUpTo
<1>4. CASE m # 1
  <2>1. m - 1 \in Nat \ {0} /\ m - 1 \notin Bad BY <1>2, <1>4
  <2>2. PICK g : FlatUpTo(ss, m - 1, g) BY <2>1
  <2> DEFINE f == [i \in 1 .. m |-> IF i = m THEN g[m - 1] \o ss[m] ELSE g[i]]
  <2>3. ASSUME NEW i \in 1 .. m PROVE f[i] = IF i = 1 THEN ss[i] ELSE f[i - 1] \o ss[i]
    <3>1. CASE i = m
      <4>1. m \in 1 .. m /\ m - 1 \in 1 .. m /\ m - 1 # m BY <2>1
      <4>2. f[m - 1] = g[m - 1] /\ f[m] = g[m - 1] \o ss[m] BY <4>1
      <4> HIDE DEF f
      <4>. QED BY <1>4, <3>1, <4>2
    <3>2. CASE i # m
      <4>1. i \in 1 .. m - 1 /\ f[i] = g[i] /\ (i # 1 => f[i - 1] = g[i - 1])
        BY <1>4, <2>1, <3>2
      <4>2. g[i] = IF i = 1 THEN ss[i] ELSE g[i - 1] \o ss[i] BY <2>2, <4>1 DEF FlatUpTo
      <4> HIDE DEF f
      <4>. QED BY <4>1, <4>2
    <3>. QED BY <3>1, <3>2
  <2>4. f = [i \in 1 .. m |-> f[i]] OBVIOUS
  <2> HIDE DEF f
  <2>5. FlatUpTo(ss, m, f) BY <2>3, <2>4 DEF FlatUpTo
  <2>. QED BY <1>2, <2>5
<1>. QED BY <1>3, <1>4

LEMMA FlatUnfold ==
  ASSUME NEW ss, Len(ss) \in Nat \ {0}
  PROVE  \E f : FlatUpTo(ss, Len(ss), f) /\ FlattenSeq(ss) = f[Len(ss)]
<1> DEFINE n == Len(ss)
           f == CHOOSE f : f = [i \in 1 .. n |-> IF i = 1 THEN ss[i] ELSE f[i - 1] \o ss[i]]
<1>1. f = [i \in 1 .. n |-> IF i = 1 THEN ss[i] ELSE f[i - 1] \o ss[i]]
  BY FlatExists DEF FlatUpTo
<1>2. FlattenSeq(ss) = f[n] BY DEF FlattenSeq
<1> HIDE DEF f
<1>. QED BY <1>1, <1>2 DEF FlatUpTo

(* F picks, in order, the elements of the first m sequences, none of which *)
(* has more than one; g says where from.                                   *)
Picks(F, ss, m, g) ==
  /\ g \in [DOMAIN F -> 1 .. m]
  /\ \A k \in DOMAIN F : ss[g[k]] = <<F[k]>>
  /\ \A j, k \in DOMAIN F : j < k => g[j] < g[k]
  /\ \A i \in 1 .. m : ss[i] # <<>> => \E k \in DOMAIN F : g[k] = i

Short(S, ss) == ss \in Seq(Seq(S)) /\ \A i \in DOMAIN ss : Len(ss[i]) <= 1

LEMMA PicksOne ==
  ASSUME NEW S, NEW ss, Short(S, ss), NEW m \in Nat, m + 1 \in DOMAIN ss,
         NEW F \in Seq(S), NEW g, Picks(F, ss, m, g)
  PROVE  /\ F \o ss[m + 1] \in Seq(S)
         /\ \E h : Picks(F \o ss[m + 1], ss, m + 1, h)
<1> DEFINE x == ss[m + 1]
           G == F \o x
<1>1. x \in Seq(S) /\ Len(x) \in Nat /\ Len(x) <= 1 /\ Len(F) \in Nat BY DEF Short
<1>2. G \in Seq(S) /\ Len(G) = Len(F) + Len(x) /\ DOMAIN F = 1 .. Len(F) /\ DOMAIN G = 1 .. Len(G)
  BY <1>1, ConcatProperties
<1>3. CASE Len(x) = 0
  <2>1. x = <<>> BY <1>1, <1>3, EmptySeq
  <2>2. G = F BY <2>1
  <2> HIDE DEF x, G
  <2>3. g \in [DOMAIN F -> 1 .. m + 1] BY DEF Picks
  <2>4. ASSUME NEW i \in 1 .. m + 1, ss[i] # <<>> PROVE \E k \in DOMAIN F : g[k] = i
    BY <2>1, <2>4 DEF x, Picks
  <2>5. Picks(G, ss, m + 1, g) BY <2>2, <2>3, <2>4 DEF Picks
  <2>. QED BY <1>2, <2>5 DEF G, x
<1>4. CASE Len(x) = 1
  <2> DEFINE h == [k \in 1 .. Len(F) + 1 |-> IF k <= Len(F) THEN g[k] ELSE m + 1]
  <2>1. x = <<x[1]>> /\ x # <<>> BY <1>1, <1>4
  <2>2. Len(G) = Len(F) + 1 /\ G[Len(F) + 1] = x[1] /\ \A k \in 1 .. Len(F) : G[k] = F[k]
    BY <1>1, <1>2, <1>4
  <2>3. /\ \A k \in 1 .. Len(F) : h[k] = g[k] /\ g[k] \in 1 .. m
        /\ h[Len(F) + 1] = m + 1
    <3>1. \A k \in 1 .. Len(F) : k \in 1 .. Len(F) + 1 /\ k <= Len(F) BY <1>1
    <3>2. Len(F) + 1 \in 1 .. Len(F) + 1 /\ ~(Len(F) + 1 <= Len(F)) BY <1>1
    <3>3. \A k \in 1 .. Len(F) : g[k] \in 1 .. m BY <1>2 DEF Picks
    <3>. QED BY <3>1, <3>2, <3>3
  <2>4. h \in [1 .. Len(F) + 1 -> 1 .. m + 1]
    <3>1. \A k \in 1 .. Len(F) + 1 : (IF k <= Len(F) THEN g[k] ELSE m + 1) \in 1 .. m + 1
      <4>1. \A k \in 1 .. Len(F) + 1 : k <= Len(F) => g[k] \in 1 .. m
        BY <1>1, <1>2, SMTT(30) DEF Picks
      <4>2. 1 .. m \subseteq 1 .. m + 1 /\ m + 1 \in 1 .. m + 1 OBVIOUS
      <4>. QED BY <4>1, <4>2
    <3>. QED BY <3>1
  <2> HIDE DEF h, G
  <2>5. ASSUME NEW k \in 1 .. Len(F) + 1 PROVE ss[h[k]] = <<G[k]>>
    <3>1. CASE k \in 1 .. Len(F) BY <1>2, <2>2, <2>3, <3>1 DEF Picks
    <3>2. CASE k = Len(F) + 1 BY <2>1, <2>2, <2>3, <3>2
    <3>. QED BY <1>1, <3>1, <3>2
  <2>6. ASSUME NEW j \in 1 .. Len(F) + 1, NEW k \in 1 .. Len(F) + 1, j < k PROVE h[j] < h[k]
    <3>1. j \in 1 .. Len(F) /\ h[j] = g[j] /\ g[j] \in 1 .. m BY <1>1, <2>3, <2>6
    <3>2. CASE k \in 1 .. Len(F) BY <1>2, <2>3, <2>6, <3>1, <3>2 DEF Picks
    <3>3. CASE k = Len(F) + 1 BY <2>3, <3>1, <3>3
    <3>. QED BY <1>1, <3>2, <3>3
  <2>7. ASSUME NEW i \in 1 .. m + 1, ss[i] # <<>> PROVE \E k \in 1 .. Len(F) + 1 : h[k] = i
    <3>1. CASE i = m + 1 BY <1>1, <2>3, <3>1
    <3>2. CASE i # m + 1
      <4>1. PICK k \in 1 .. Len(F) : g[k] = i BY <1>2, <2>7, <3>2 DEF Picks
      <4>. QED BY <1>1, <2>3, <4>1
    <3>. QED BY <3>1, <3>2
  <2>8. DOMAIN G = 1 .. Len(F) + 1 BY <1>2, <2>2
  <2>9. Picks(G, ss, m + 1, h) BY <2>4, <2>5, <2>6, <2>7, <2>8 DEF Picks
  <2>. QED BY <1>2, <2>9 DEF G
<1>5. Len(x) = 0 \/ Len(x) = 1
  <2> HIDE DEF x
  <2>1. \A n \in Nat : n <= 1 => n = 0 \/ n = 1 OBVIOUS
  <2>. QED BY <1>1, <2>1
<1>. QED BY <1>3, <1>4, <1>5, Zenon

LEMMA Flattened ==
  ASSUME NEW S, NEW ss, Short(S, ss)
  PROVE  FlattenSeq(ss) \in Seq(S) /\ \E g : Picks(FlattenSeq(ss), ss, Len(ss), g)
<1>1. Len(ss) \in Nat /\ DOMAIN ss = 1 .. Len(ss) BY DEF Short
<1>2. CASE Len(ss) = 0
  <2>1. ss = <<>> /\ FlattenSeq(ss) = <<>> BY <1>2, EmptySeq DEF FlattenSeq, Short
  <2>2. Picks(<<>>, ss, 0, <<>>) BY DEF Picks
  <2>3. <<>> \in Seq(S) OBVIOUS
  <2>4. Picks(FlattenSeq(ss), ss, Len(ss), <<>>) /\ FlattenSeq(ss) \in Seq(S)
    BY <1>2, <2>1, <2>2, <2>3
  <2>. QED BY <2>4
<1>3. CASE Len(ss) # 0
  <2>1. PICK f : FlatUpTo(ss, Len(ss), f) /\ FlattenSeq(ss) = f[Len(ss)]
    BY <1>1, <1>3, FlatUnfold
  <2> DEFINE Good(n) == f[n] \in Seq(S) /\ \E g : Picks(f[n], ss, n, g)
             Bad == { n \in 1 .. Len(ss) : ~Good(n) }
  <2>2. SUFFICES ASSUME Bad # {} PROVE FALSE
    BY <1>1, <1>3, <2>2, <2>1
  <2>3. PICK n \in Bad : \A k \in Bad : n <= k
    <3>1. Bad \in SUBSET Nat OBVIOUS
    <3> HIDE DEF Bad
    <3>. QED BY <2>2, <3>1, LeastNat
  <2>4. CASE n = 1
    <3>1. Picks(<<>>, ss, 0, <<>>) BY DEF Picks
    <3>2. 0 + 1 \in DOMAIN ss /\ <<>> \in Seq(S) BY <1>1, <1>3
    <3>3. <<>> \o ss[0 + 1] \in Seq(S) /\ \E h : Picks(<<>> \o ss[0 + 1], ss, 0 + 1, h)
      BY <3>1, <3>2, PicksOne
    <3>4. f[1] = ss[1] /\ ss[1] \in Seq(S) BY <1>1, <1>3, <2>1, <3>2 DEF FlatUpTo, Short
    <3>5. <<>> \o ss[1] = ss[1] BY <3>4
    <3>. QED BY <2>3, <2>4, <3>3, <3>4, <3>5
  <2>5. CASE n # 1
    <3>0. n \in 1 .. Len(ss) OBVIOUS
    <3>1. n - 1 \in 1 .. Len(ss) /\ n - 1 \in Nat /\ (n - 1) + 1 = n /\ n - 1 \notin Bad
      <4>1. n - 1 \in 1 .. Len(ss) /\ n - 1 \in Nat /\ (n - 1) + 1 = n /\ ~(n <= n - 1)
        BY <1>1, <2>5, <3>0
      <4>2. n - 1 \notin Bad BY <2>3, <4>1
      <4>. QED BY <4>1, <4>2
    <3>2. PICK g : f[n - 1] \in Seq(S) /\ Picks(f[n - 1], ss, n - 1, g) BY <3>1
    <3>3. f[n] = f[n - 1] \o ss[n] BY <1>1, <2>1, <2>3, <2>5 DEF FlatUpTo
    <3> DEFINE m == n - 1
    <3>5. m \in Nat /\ m + 1 \in DOMAIN ss /\ m + 1 = n BY <1>1, <2>3, <3>1
    <3> HIDE DEF m
    <3>6. f[m] \in Seq(S) /\ Picks(f[m], ss, m, g) BY <3>2 DEF m
    <3>4. /\ f[m] \o ss[m + 1] \in Seq(S)
          /\ \E h : Picks(f[m] \o ss[m + 1], ss, m + 1, h)
      BY <3>5, <3>6, PicksOne
    <3>7. f[n] = f[m] \o ss[m + 1] BY <3>3, <3>5 DEF m
    <3>. QED BY <2>3, <3>4, <3>5, <3>7
  <2>. QED BY <2>4, <2>5
<1>. QED BY <1>2, <1>3

(* What is kept of a lane: the jobs at the other places, in their order.   *)
Keeps(js, gone, K, g) ==
  /\ g \in [DOMAIN K -> DOMAIN js \ gone]
  /\ \A k \in DOMAIN K : K[k] = js[g[k]]
  /\ \A j, k \in DOMAIN K : j < k => g[j] < g[k]
  /\ \A i \in DOMAIN js \ gone : \E k \in DOMAIN K : g[k] = i

LEMMA KeptIs ==
  ASSUME NEW S, NEW js \in Seq(S), NEW gone
  PROVE  Kept(js, gone) \in Seq(S) /\ \E g : Keeps(js, gone, Kept(js, gone), g)
<1> DEFINE ss == [i \in DOMAIN js |-> IF i \in gone THEN <<>> ELSE <<js[i]>>]
           K == Kept(js, gone)
<1>1. DOMAIN js = 1 .. Len(js) /\ Len(js) \in Nat OBVIOUS
<1>2. \A i \in DOMAIN js : ss[i] \in Seq(S) /\ Len(ss[i]) <= 1 OBVIOUS
<1>3. ss \in Seq(Seq(S)) /\ Len(ss) = Len(js) /\ DOMAIN ss = DOMAIN js BY <1>1, <1>2
<1>4. Short(S, ss) BY <1>2, <1>3 DEF Short
<1>5. K = FlattenSeq(ss) BY DEF Kept
<1> HIDE DEF ss, K
<1>6. K \in Seq(S) BY <1>4, <1>5, Flattened
<1>7. PICK g : Picks(K, ss, Len(ss), g) BY <1>4, <1>5, Flattened
<1>8. \A i \in DOMAIN js : ss[i] = IF i \in gone THEN <<>> ELSE <<js[i]>> BY DEF ss
<1>9. ASSUME NEW k \in DOMAIN K PROVE g[k] \in DOMAIN js \ gone /\ K[k] = js[g[k]]
  <2>1. g[k] \in DOMAIN js /\ ss[g[k]] = <<K[k]>> BY <1>1, <1>3, <1>7, <1>9 DEF Picks
  <2>2. g[k] \notin gone /\ <<js[g[k]]>> = <<K[k]>>
    <3>1. <<>> # <<K[k]>> OBVIOUS
    <3>2. ss[g[k]] = IF g[k] \in gone THEN <<>> ELSE <<js[g[k]]>> BY <1>8, <2>1
    <3>. QED BY <2>1, <3>1, <3>2, Zenon
  <2>3. <<js[g[k]]>>[1] = <<K[k]>>[1] BY <2>2
  <2>. QED BY <2>1, <2>2, <2>3
<1>10. ASSUME NEW i \in DOMAIN js \ gone PROVE \E k \in DOMAIN K : g[k] = i
  <2>1. ss[i] # <<>> /\ i \in 1 .. Len(ss)
    <3>1. <<>> # <<js[i]>> OBVIOUS
    <3>2. ss[i] = <<js[i]>> BY <1>8
    <3>3. i \in 1 .. Len(ss) BY <1>1, <1>3
    <3>. QED BY <3>1, <3>2, <3>3
  <2>. QED BY <1>7, <2>1 DEF Picks
<1>11. g \in [DOMAIN K -> DOMAIN js \ gone] BY <1>7, <1>9 DEF Picks
<1>12. Keeps(js, gone, K, g) BY <1>7, <1>9, <1>10, <1>11 DEF Keeps, Picks
<1>. QED BY <1>6, <1>12 DEF K

----------------------------------------------------------------------------
(* The inductive invariant.  Two writes are rivals when the one that shows *)
(* later must be the newer one; the job that is ahead of a rival brings    *)
(* older text, but for a prompt before stream lines and for the later      *)
(* parts of one text.                                                      *)
Lanes == {"message", "edit", "topic"}

Outcome == {"none", "waiting", "superseded", "dropped", "merged", "sent", "refused", "failed"}

JobRecord == [op : Op, at : Nat, text : Seq(Nat), reply : Nat, merged : SUBSET Nat, live : Nat,
              plain : BOOLEAN, ripe : BOOLEAN]

QueueRecord(N) ==
  [message : Seq(JobRecord), edit : Seq(JobRecord), topic : Seq(JobRecord),
   broken : SUBSET Place, answer : [1 .. N -> Outcome]]

Increasing(ns) == \A i, j \in DOMAIN ns : i < j => ns[i] < ns[j]

Alike(o, p) == o.kind = p.kind /\ o.place = p.place /\ o.msg = p.msg

(* A text is that of submitted jobs of the same kind, in order.            *)
TextOK(subs, o, text) ==
  /\ text # <<>> /\ Increasing(text)
  /\ \A i \in DOMAIN text : text[i] \in 1 .. Len(subs) /\ Alike(subs[text[i]], o)

JobOK(subs, job) ==
  /\ job \in JobRecord /\ TextOK(subs, job.op, job.text) /\ Len(job.text) <= MaxText
  /\ job.at \in 1 .. Len(subs) /\ job.at <= job.text[1] /\ Alike(subs[job.at], job.op)
  /\ job.op.restart => subs[job.at].restart
  /\ Metered(job.op) /\ ~job.op.merge => job.text = <<job.at>>
  /\ Waiters(job) \cup {job.live} \subseteq 0 .. Len(subs)

Rivals(o, p) ==
  \/ Metered(o) /\ Metered(p) /\ o.place = p.place
  \/ o.msg # None /\ o.msg = p.msg /\ (o.kind = "react") = (p.kind = "react")

Ahead(a, b) ==
  Rivals(a.op, b.op) =>
    \/ Last(a.text) < b.at
    \/ a.op.prompt /\ IsLine(b.op)
    \/ Metered(b.op) /\ Last(a.text) = b.at /\ ~b.op.merge /\ ~b.op.restart

(* A text of several jobs stands behind no line that would take it in.     *)
NotTaken(a, b) ==
  QueueOf(a.op) = QueueOf(b.op) /\ Len(b.text) > 1 => a.plain \/ ~a.op.merge

InLine(jobs) ==
  \A i, k \in DOMAIN jobs : i < k => Ahead(jobs[i], jobs[k]) /\ NotTaken(jobs[i], jobs[k])

(* A write that takes the place of a queued edit or reaction.              *)
Overwrites(o, p) == Replaces(o, p) \/ (o.kind = "edit" /\ Into(p) /\ o.msg = p.msg)

Clear(s) ==
  /\ \A i, k \in DOMAIN s.edit : i # k => ~Overwrites(s.edit[i].op, s.edit[k].op)
  /\ \A i \in DOMAIN s.edit, k \in DOMAIN s.message :
       ~Overwrites(s.edit[i].op, s.message[k].op)

Unbroken(s, job) == ~(IsLine(job.op) /\ job.op.place \in s.broken)

(* E is what Telegram took.                                                *)
Queue(subs, E, s) ==
  /\ \A lane \in Lanes : \A i \in DOMAIN s[lane] :
       /\ JobOK(subs, s[lane][i]) /\ Lane(s[lane][i].op) = lane
       /\ \A e \in E : Ahead(e, s[lane][i])
  /\ InLine(s.message) /\ Clear(s)
  /\ \A i \in DOMAIN s.message : Unbroken(s, s.message[i])

Held(subs, E, s, lane, job) ==
  /\ JobOK(subs, job) /\ Lane(job.op) = lane /\ Unbroken(s, job)
  /\ \A e \in E : Ahead(e, job)
  /\ \A l \in Lanes : \A i \in DOMAIN s[l] : Ahead(job, s[l][i])
  /\ \A i \in DOMAIN s.edit : /\ ~Overwrites(s.edit[i].op, job.op)
                              /\ ~Overwrites(job.op, s.edit[i].op)
  /\ \A i \in DOMAIN s.message : /\ ~Overwrites(job.op, s.message[i].op)
                                 /\ NotTaken(job, s.message[i])

(* What was handed over: an edit never after turn content of its message,  *)
(* and a message in one topic.                                             *)
Legal(subs) ==
  /\ subs \in Seq(Op)
  /\ \A i, k \in DOMAIN subs :
       /\ Into(subs[i]) /\ Into(subs[k]) /\ subs[i].msg = subs[k].msg
            => subs[i].place = subs[k].place
       /\ i < k /\ Into(subs[i]) /\ subs[k].kind = "edit" => subs[i].msg # subs[k].msg

Entries(subs, E) == \A e \in E : e.op \in Op /\ e.text \in Seq(Nat) /\ TextOK(subs, e.op, e.text)

----------------------------------------------------------------------------
(* Operations.                                                             *)

LEMMA OpFacts ==
  ASSUME NEW o \in Op
  PROVE  /\ o \in OpRecord
         /\ Lane(o) \in Lanes
         /\ Lane(o) = "message" <=> o.kind \in {"send", "line"}
         /\ Lane(o) = "edit" <=> o.kind \in {"edit", "react"}
         /\ Lane(o) = "message" => o.place \in Place
         /\ Lane(o) = "message" => Metered(o) \/ Into(o)
         /\ Lane(o) = "edit" => o.msg # None /\ ~Metered(o) /\ ~IsLine(o)
         /\ Lane(o) = "topic" => o.msg = None /\ ~Metered(o) /\ ~IsLine(o)
         /\ Into(o) => ~Metered(o) /\ IsLine(o)
         /\ o.prompt => Metered(o) /\ ~IsLine(o) /\ ~o.merge
         /\ o.before > 0 => Metered(o) /\ ~o.merge
         /\ o.before \in Nat
BY DEF Op, OpRecord, Lane, Lanes, Metered, Into, IsLine

LEMMA AlikeFacts ==
  ASSUME NEW o, NEW p, Alike(o, p)
  PROVE  /\ Lane(o) = Lane(p) /\ QueueOf(o) = QueueOf(p)
         /\ Metered(o) = Metered(p) /\ Into(o) = Into(p) /\ IsLine(o) = IsLine(p)
         /\ \A r : /\ Rivals(o, r) = Rivals(p, r) /\ Rivals(r, o) = Rivals(r, p)
                   /\ Overwrites(o, r) = Overwrites(p, r) /\ Overwrites(r, o) = Overwrites(r, p)
BY DEF Alike, Metered, Into, IsLine, Lane, QueueOf, Rivals, Overwrites, Replaces

(* Rivals of the message lane stand in one queue.                          *)
LEMMA RivalsOfLane ==
  ASSUME NEW subs, Legal(subs), NEW a, NEW b, JobOK(subs, a), JobOK(subs, b),
         Lane(a.op) = "message", Lane(b.op) = "message", Rivals(a.op, b.op)
  PROVE  QueueOf(a.op) = QueueOf(b.op)
<1>1. a.op \in Op /\ b.op \in Op BY DEF JobOK, JobRecord
<1>2. CASE Metered(a.op) /\ Metered(b.op) /\ a.op.place = b.op.place
  BY <1>2 DEF Metered, QueueOf
<1>3. CASE ~(Metered(a.op) /\ Metered(b.op) /\ a.op.place = b.op.place)
  BY <1>3, <1>1, OpFacts, AlikeFacts DEF Rivals, Metered, JobOK, Alike, Legal, QueueOf
<1>. QED BY <1>2, <1>3

(* Between lanes there are rivals only where an edit meets turn content.   *)
LEMMA RivalsApart ==
  ASSUME NEW o \in Op, NEW p \in Op, Rivals(o, p)
  PROVE  /\ Lane(o) # "topic" /\ Lane(p) # "topic"
         /\ Lane(o) = "edit" => Overwrites(o, p)
         /\ Lane(p) = "edit" => Overwrites(p, o)
<1>1. Lane(o) # "topic" /\ Lane(p) # "topic" BY OpFacts DEF Rivals
<1>2. ASSUME NEW a \in Op, NEW b \in Op, Rivals(a, b), Lane(a) = "edit"
      PROVE  Overwrites(a, b)
  BY <1>2, OpFacts DEF Rivals, Op, Overwrites, Into, IsLine, Replaces
<1>3. Rivals(p, o) BY DEF Rivals
<1>. QED BY <1>1, <1>2, <1>3

----------------------------------------------------------------------------
(* Jobs that stand for one another: only the form, what the job is loud    *)
(* about or in the background of, and its debounce may change.             *)
Like(a, b) ==
  /\ b \in JobRecord
  /\ b.at = a.at /\ b.text = a.text /\ (a.plain => b.plain)
  /\ b.reply = a.reply /\ b.merged = a.merged /\ b.live = a.live
  /\ Alike(a.op, b.op)
  /\ b.op.prompt = a.op.prompt /\ b.op.merge = a.op.merge /\ b.op.restart = a.op.restart

LEMMA LikeIsOK ==
  ASSUME NEW subs, NEW a, NEW b, JobOK(subs, a), Like(a, b)
  PROVE  JobOK(subs, b) /\ Lane(b.op) = Lane(a.op)
BY AlikeFacts DEF Like, Alike, JobOK, TextOK, Waiters

LEMMA LikeStands ==
  ASSUME NEW a, NEW b, Like(a, b), NEW x, NEW y, Like(x, y)
  PROVE  /\ Ahead(a, x) => Ahead(b, y)
         /\ NotTaken(a, x) => NotTaken(b, y)
         /\ Overwrites(a.op, x.op) = Overwrites(b.op, y.op)
BY AlikeFacts DEF Like, Ahead, NotTaken

LEMMA LikeBehind ==
  ASSUME NEW e, NEW x, NEW y, Like(x, y), Ahead(e, x)
  PROVE  Ahead(e, y)
BY AlikeFacts DEF Like, Ahead

LEMMA LikeItself ==
  ASSUME NEW a \in JobRecord
  PROVE  Like(a, a)
BY DEF Like, Alike

(* Lanes that lost jobs and whose other jobs stand for those before.       *)
ThinnedBy(js, ks, g) ==
  /\ g \in [DOMAIN ks -> DOMAIN js]
  /\ \A k \in DOMAIN ks : Like(js[g[k]], ks[k])
  /\ \A j, k \in DOMAIN ks : j < k => g[j] < g[k]

Thins(s, t) == \A lane \in Lanes : \E g : ThinnedBy(s[lane], t[lane], g)

LEMMA Thinned ==
  ASSUME NEW subs, NEW E, NEW N, NEW s \in QueueRecord(N), NEW t \in QueueRecord(N),
         Queue(subs, E, s), Thins(s, t),
         \A i \in DOMAIN t.message : Unbroken(t, t.message[i])
  PROVE  Queue(subs, E, t)
<1>1. ASSUME NEW lane \in Lanes, NEW i \in DOMAIN t[lane]
      PROVE  /\ JobOK(subs, t[lane][i]) /\ Lane(t[lane][i].op) = lane
             /\ \A e \in E : Ahead(e, t[lane][i])
  <2>1. PICK g : ThinnedBy(s[lane], t[lane], g) BY DEF Thins
  <2>2. g[i] \in DOMAIN s[lane] /\ Like(s[lane][g[i]], t[lane][i]) BY <2>1 DEF ThinnedBy
  <2>3. /\ JobOK(subs, s[lane][g[i]]) /\ Lane(s[lane][g[i]].op) = lane
        /\ \A e \in E : Ahead(e, s[lane][g[i]])
    BY <2>2 DEF Queue
  <2>4. JobOK(subs, t[lane][i]) /\ Lane(t[lane][i].op) = lane BY <2>2, <2>3, LikeIsOK
  <2>5. \A e \in E : Ahead(e, t[lane][i]) BY <2>2, <2>3, LikeBehind
  <2>. QED BY <2>4, <2>5
<1>2. PICK g : ThinnedBy(s.message, t.message, g) BY DEF Lanes, Thins
<1>3. PICK h : ThinnedBy(s.edit, t.edit, h) BY DEF Lanes, Thins
<1>4. InLine(t.message)
  <2> SUFFICES ASSUME NEW i \in DOMAIN t.message, NEW k \in DOMAIN t.message, i < k
               PROVE  /\ Ahead(t.message[i], t.message[k])
                      /\ NotTaken(t.message[i], t.message[k])
    BY DEF InLine
  <2>1. /\ g[i] \in DOMAIN s.message /\ g[k] \in DOMAIN s.message /\ g[i] < g[k]
        /\ Like(s.message[g[i]], t.message[i]) /\ Like(s.message[g[k]], t.message[k])
    BY <1>2 DEF ThinnedBy
  <2>2. /\ Ahead(s.message[g[i]], s.message[g[k]])
        /\ NotTaken(s.message[g[i]], s.message[g[k]])
    BY <2>1 DEF Queue, InLine
  <2>. QED BY <2>1, <2>2, LikeStands
<1>5. ASSUME NEW i \in DOMAIN t.edit, NEW k \in DOMAIN t.edit, i # k
      PROVE  ~Overwrites(t.edit[i].op, t.edit[k].op)
  <2>1. /\ h[i] \in DOMAIN s.edit /\ h[k] \in DOMAIN s.edit
        /\ Like(s.edit[h[i]], t.edit[i]) /\ Like(s.edit[h[k]], t.edit[k])
    BY <1>3 DEF ThinnedBy
  <2>2. h[i] # h[k]
    <3>1. i \in Nat /\ k \in Nat /\ h[i] \in Nat /\ h[k] \in Nat BY <2>1 DEF QueueRecord
    <3>2. i < k \/ k < i BY <1>5, <3>1
    <3>. QED BY <1>3, <3>1, <3>2 DEF ThinnedBy
  <2>3. ~Overwrites(s.edit[h[i]].op, s.edit[h[k]].op) BY <2>1, <2>2 DEF Queue, Clear
  <2>. QED BY <2>1, <2>3, LikeStands
<1>6. ASSUME NEW i \in DOMAIN t.edit, NEW k \in DOMAIN t.message
      PROVE  ~Overwrites(t.edit[i].op, t.message[k].op)
  BY <1>2, <1>3, LikeStands DEF ThinnedBy, Queue, Clear
<1>7. Clear(t) BY <1>5, <1>6 DEF Clear
<1>. QED BY <1>1, <1>4, <1>7 DEF Queue

LEMMA HeldThinned ==
  ASSUME NEW subs, NEW E, NEW s, NEW t, NEW lane, NEW job, NEW other,
         Held(subs, E, s, lane, job), Thins(s, t), Like(job, other), Unbroken(t, other)
  PROVE  Held(subs, E, t, lane, other)
<1>1. JobOK(subs, other) /\ Lane(other.op) = lane BY LikeIsOK DEF Held
<1>2. \A e \in E : Ahead(e, other) BY LikeBehind DEF Held
<1>3. ASSUME NEW l \in Lanes, NEW i \in DOMAIN t[l]
      PROVE  \E k \in DOMAIN s[l] : Like(s[l][k], t[l][i])
  <2>1. PICK g : ThinnedBy(s[l], t[l], g) BY DEF Thins
  <2>2. g[i] \in DOMAIN s[l] /\ Like(s[l][g[i]], t[l][i]) BY <2>1 DEF ThinnedBy
  <2>. QED BY <2>2
<1>4. ASSUME NEW l \in Lanes, NEW i \in DOMAIN t[l] PROVE Ahead(other, t[l][i])
  BY <1>3, LikeStands DEF Held
<1>5. ASSUME NEW i \in DOMAIN t.edit
      PROVE  /\ ~Overwrites(t.edit[i].op, other.op) /\ ~Overwrites(other.op, t.edit[i].op)
  <2>1. PICK k \in DOMAIN s.edit : Like(s.edit[k], t.edit[i]) BY <1>3 DEF Lanes
  <2>. QED BY <2>1, LikeStands DEF Held
<1>6. ASSUME NEW i \in DOMAIN t.message
      PROVE  /\ ~Overwrites(other.op, t.message[i].op) /\ NotTaken(other, t.message[i])
  <2>1. PICK k \in DOMAIN s.message : Like(s.message[k], t.message[i]) BY <1>3 DEF Lanes
  <2>. QED BY <2>1, LikeStands DEF Held
<1>. QED BY <1>1, <1>2, <1>4, <1>5, <1>6 DEF Held

----------------------------------------------------------------------------
(* The operations on the lanes.                                            *)

LEMMA LanesAre ==
  ASSUME NEW N, NEW s \in QueueRecord(N)
  PROVE  /\ \A lane \in Lanes : s[lane] \in Seq(JobRecord)
         /\ s.broken \in SUBSET Place /\ s.answer \in [1 .. N -> Outcome]
         /\ \A lane \in Lanes : \A i \in DOMAIN s[lane] :
              i \in Nat /\ s[lane][i] \in JobRecord /\ i \in 1 .. Len(s[lane])
BY DEF QueueRecord, Lanes

(* The lanes are the same.                                                 *)
Unmoved(s, t) == \A lane \in Lanes : t[lane] = s[lane]

SameJobs(s, t) == Unmoved(s, t) /\ t.broken = s.broken

(* Only the given lane may differ.                                         *)
Elsewhere(s, t, lane) == t.broken = s.broken /\ \A l \in Lanes \ {lane} : t[l] = s[l]

WithLane(s, lane, js) == [s EXCEPT ![lane] = js]

LEMMA Relaned ==
  ASSUME NEW N, NEW s \in QueueRecord(N), NEW lane \in Lanes, NEW js \in Seq(JobRecord),
         NEW t, t = WithLane(s, lane, js)
  PROVE  /\ t \in QueueRecord(N) /\ t[lane] = js
         /\ Elsewhere(s, t, lane) /\ t.answer = s.answer
BY DEF QueueRecord, Lanes, WithLane, Elsewhere

LEMMA AnsweredIs ==
  ASSUME NEW N, NEW s \in QueueRecord(N), NEW waiters, NEW what \in Outcome,
         NEW t, t = Answered(s, waiters, what)
  PROVE  /\ t \in QueueRecord(N) /\ SameJobs(s, t)
         /\ t.answer = [n \in 1 .. N |-> IF n \in waiters THEN what ELSE s.answer[n]]
<1> DEFINE f == [n \in 1 .. N |-> IF n \in waiters THEN what ELSE s.answer[n]]
<1>1. s.answer \in [1 .. N -> Outcome] BY LanesAre
<1>2. f \in [1 .. N -> Outcome] BY <1>1
<1>3. t = [s EXCEPT !.answer = f] BY <1>1 DEF Answered
<1> HIDE DEF f
<1>4. /\ t \in QueueRecord(N) /\ t.answer = f /\ t.broken = s.broken
      /\ t["message"] = s["message"] /\ t["edit"] = s["edit"] /\ t["topic"] = s["topic"]
  BY <1>2, <1>3 DEF QueueRecord
<1>. QED BY <1>4 DEF f, Lanes, Unmoved, SameJobs

LEMMA KeepsAll ==
  ASSUME NEW js \in Seq(JobRecord)
  PROVE  \E g : ThinnedBy(js, js, g)
<1> DEFINE g == [i \in DOMAIN js |-> i]
<1>1. \A i \in DOMAIN js : Like(js[i], js[i]) BY LikeItself
<1>2. ThinnedBy(js, js, g) BY <1>1 DEF ThinnedBy
<1>. QED BY <1>2

LEMMA KeepsSome ==
  ASSUME NEW js \in Seq(JobRecord), NEW gone
  PROVE  Kept(js, gone) \in Seq(JobRecord) /\ \E g : ThinnedBy(js, Kept(js, gone), g)
<1>1. Kept(js, gone) \in Seq(JobRecord) BY KeptIs
<1>2. PICK g : Keeps(js, gone, Kept(js, gone), g) BY KeptIs
<1>3. ASSUME NEW k \in DOMAIN Kept(js, gone)
      PROVE  g[k] \in DOMAIN js /\ Like(js[g[k]], Kept(js, gone)[k])
  BY <1>2, LikeItself DEF Keeps
<1>4. g \in [DOMAIN Kept(js, gone) -> DOMAIN js] BY <1>2, <1>3 DEF Keeps
<1>5. ThinnedBy(js, Kept(js, gone), g) BY <1>2, <1>3, <1>4 DEF ThinnedBy, Keeps
<1>. QED BY <1>1, <1>5

LEMMA SameLanes ==
  ASSUME NEW N, NEW s \in QueueRecord(N), NEW t, Unmoved(s, t)
  PROVE  Thins(s, t)
BY LanesAre, KeepsAll DEF Thins, Unmoved

(* The given lane lost the jobs at the given places.                       *)
Lost(s, t, lane, gone) == t[lane] = Kept(s[lane], gone) /\ Elsewhere(s, t, lane)

LEMMA Unlaned ==
  ASSUME NEW N, NEW s \in QueueRecord(N), NEW lane \in Lanes, NEW gone,
         NEW t, t = WithLane(s, lane, Kept(s[lane], gone))
  PROVE  /\ t \in QueueRecord(N) /\ Thins(s, t)
         /\ Lost(s, t, lane, gone) /\ t.answer = s.answer
<1>1. s[lane] \in Seq(JobRecord) BY LanesAre
<1>2. Kept(s[lane], gone) \in Seq(JobRecord) /\ \E g : ThinnedBy(s[lane], Kept(s[lane], gone), g)
  BY <1>1, KeepsSome
<1> DEFINE js == Kept(s[lane], gone)
<1>3. t = WithLane(s, lane, js) /\ js \in Seq(JobRecord) BY <1>2
<1> HIDE DEF js
<1>9. /\ t \in QueueRecord(N) /\ t[lane] = js
      /\ Elsewhere(s, t, lane) /\ t.answer = s.answer
  BY <1>3, Relaned
<1>4. /\ t \in QueueRecord(N) /\ t[lane] = Kept(s[lane], gone)
      /\ Elsewhere(s, t, lane) /\ t.answer = s.answer
  BY <1>9 DEF js
<1>5. ASSUME NEW l \in Lanes PROVE \E g : ThinnedBy(s[l], t[l], g)
  BY <1>2, <1>4, LanesAre, KeepsAll DEF Elsewhere
<1>. QED BY <1>4, <1>5 DEF Thins, Lost

(* Purged keeps everything but the jobs at the given places.               *)
LEMMA PurgedIs ==
  ASSUME NEW N, NEW s \in QueueRecord(N), NEW lane \in Lanes, NEW gone, NEW what \in Outcome,
         NEW t, t = Purged(s, lane, gone, what)
  PROVE  /\ t \in QueueRecord(N) /\ Thins(s, t) /\ Lost(s, t, lane, gone)
         /\ t.answer = [n \in 1 .. N |-> IF n \in UNION {Waiters(s[lane][i]) : i \in gone}
                                         THEN what ELSE s.answer[n]]
<1> DEFINE w == UNION {Waiters(s[lane][i]) : i \in gone}
<1>0. PICK r : r = WithLane(s, lane, Kept(s[lane], gone)) OBVIOUS
<1>2. t = Answered(r, w, what) BY <1>0 DEF Purged, WithLane
<1> HIDE DEF w
<1>1. /\ r \in QueueRecord(N) /\ Thins(s, r)
      /\ Lost(s, r, lane, gone) /\ r.answer = s.answer
  BY <1>0, Unlaned
<1>3. /\ t \in QueueRecord(N) /\ SameJobs(r, t)
      /\ t.answer = [n \in 1 .. N |-> IF n \in w THEN what ELSE r.answer[n]]
  BY <1>1, <1>2, AnsweredIs
<1>4. Thins(s, t) BY <1>1, <1>3 DEF Thins, Unmoved, SameJobs
<1>5. t.answer = [n \in 1 .. N |-> IF n \in w THEN what ELSE s.answer[n]] BY <1>1, <1>3
<1>6. Lost(s, t, lane, gone) BY <1>1, <1>3 DEF Elsewhere, Lost, Unmoved, SameJobs
<1>. QED BY <1>3, <1>4, <1>5, <1>6 DEF w

----------------------------------------------------------------------------
(* A job that is handed over.                                              *)

Extends(more, subs) ==
  /\ subs \in Seq(Op) /\ more \in Seq(Op) /\ Len(subs) <= Len(more)
  /\ \A i \in 1 .. Len(subs) : more[i] = subs[i]

LEMMA TextGrows ==
  ASSUME NEW subs, NEW more, Extends(more, subs), NEW o, NEW text, TextOK(subs, o, text)
  PROVE  TextOK(more, o, text)
BY DEF Extends, TextOK

LEMMA JobGrows ==
  ASSUME NEW subs, NEW more, Extends(more, subs), NEW job, JobOK(subs, job)
  PROVE  JobOK(more, job)
BY TextGrows DEF Extends, JobOK

LEMMA QueueGrows ==
  ASSUME NEW subs, NEW more, Extends(more, subs), NEW E, NEW s, Queue(subs, E, s)
  PROVE  Queue(more, E, s)
BY JobGrows DEF Queue

LEMMA HeldGrows ==
  ASSUME NEW subs, NEW more, Extends(more, subs), NEW E, NEW s, NEW lane, NEW job,
         Held(subs, E, s, lane, job)
  PROVE  Held(more, E, s, lane, job)
BY JobGrows DEF Held

LEMMA EntriesGrow ==
  ASSUME NEW subs, NEW more, Extends(more, subs), NEW E, Entries(subs, E)
  PROVE  Entries(more, E)
BY TextGrows DEF Entries

LEMMA Newest ==
  ASSUME NEW subs \in Seq(Op), NEW o, NEW text \in Seq(Nat), TextOK(subs, o, text)
  PROVE  /\ Last(text) = text[Len(text)] /\ Len(text) \in DOMAIN text /\ 1 \in DOMAIN text
         /\ Last(text) \in 1 .. Len(subs) /\ Last(text) \in Nat /\ Last(text) <= Len(subs)
         /\ text[1] <= Last(text) /\ text[1] \in Nat
<1>1. Len(text) \in Nat /\ DOMAIN text = 1 .. Len(text) /\ Len(subs) \in Nat OBVIOUS
<1>2. Len(text) # 0 BY EmptySeq DEF TextOK
<1>3. Len(text) \in DOMAIN text /\ 1 \in DOMAIN text /\ (Len(text) = 1 \/ 1 < Len(text))
  BY <1>1, <1>2
<1>4. Last(text) = text[Len(text)] BY DEF Last
<1>5. text[1] \in 1 .. Len(subs) /\ Last(text) \in 1 .. Len(subs)
  BY <1>3, <1>4 DEF TextOK
<1>6. text[1] <= Last(text) BY <1>4, <1>5, <1>3 DEF TextOK, Increasing
<1>. QED BY <1>1, <1>3, <1>4, <1>5, <1>6

(* The newest text of a job, and of what Telegram took, was handed over.   *)
LEMMA NewestOfJob ==
  ASSUME NEW subs \in Seq(Op), NEW job, JobOK(subs, job)
  PROVE  /\ Last(job.text) \in Nat /\ Last(job.text) <= Len(subs) /\ job.at \in Nat
         /\ job.at <= Last(job.text) /\ job.text \in Seq(Nat) /\ job.op \in Op
         /\ Last(job.text) = job.text[Len(job.text)] /\ Len(job.text) \in DOMAIN job.text
BY Newest DEF JobOK, JobRecord

LEMMA JobIsOK ==
  ASSUME NEW subs \in Seq(Op), NEW n \in 1 .. Len(subs)
  PROVE  JobOK(subs, Job(n, subs[n]))
<1> DEFINE o == subs[n]
           j == Job(n, o)
<1>1. o \in Op /\ n \in Nat /\ Len(subs) \in Nat OBVIOUS
<1>2. /\ j.op = o /\ j.at = n /\ j.text = <<n>> /\ j.reply = n /\ j.merged = {}
      /\ j.live \in {0, n} /\ j.plain = FALSE /\ j.ripe = FALSE
  BY DEF Job
<1>3. j \in JobRecord BY <1>1 DEF Job, JobRecord
<1> HIDE DEF j
<1>4. Alike(o, o) BY DEF Alike
<1> HIDE DEF o
<1>5. TextOK(subs, o, <<n>>)
  <2>1. \A i \in DOMAIN <<n>> : i = 1 /\ <<n>>[i] = n OBVIOUS
  <2>2. Increasing(<<n>>)
    <3> SUFFICES ASSUME NEW i \in DOMAIN <<n>>, NEW k \in DOMAIN <<n>>, i < k PROVE FALSE
      BY DEF Increasing
    <3>1. i = 1 /\ k = 1 BY <2>1
    <3>. QED BY <3>1
  <2>3. <<n>> # <<>> OBVIOUS
  <2>. QED BY <1>4, <2>1, <2>2, <2>3 DEF TextOK, o
<1>6. Len(j.text) <= MaxText /\ j.at <= j.text[1] BY <1>1, <1>2, OutboxAssumption
<1>7. Waiters(j) \cup {j.live} \subseteq 0 .. Len(subs) BY <1>1, <1>2 DEF Waiters
<1>8. Alike(subs[j.at], j.op) /\ (j.op.restart => subs[j.at].restart) /\ j.at \in 1 .. Len(subs)
  BY <1>2, <1>4 DEF o
<1>9. TextOK(subs, j.op, j.text) /\ (Metered(j.op) /\ ~j.op.merge => j.text = <<j.at>>)
  BY <1>2, <1>5
<1>. QED BY <1>3, <1>6, <1>7, <1>8, <1>9 DEF JobOK, j, o

(* A job that goes to the end of its lane.                                 *)
LEMMA AppendIs ==
  ASSUME NEW subs, NEW E, NEW N, NEW s \in QueueRecord(N), Queue(subs, E, s),
         NEW lane \in Lanes, NEW job, JobOK(subs, job), Lane(job.op) = lane, Unbroken(s, job),
         \A e \in E : Ahead(e, job),
         \A i \in DOMAIN s.message : Ahead(s.message[i], job) /\ NotTaken(s.message[i], job),
         lane = "edit" => /\ \A i \in DOMAIN s.edit : /\ ~Overwrites(s.edit[i].op, job.op)
                                                      /\ ~Overwrites(job.op, s.edit[i].op)
                          /\ \A i \in DOMAIN s.message : ~Overwrites(job.op, s.message[i].op),
         lane = "message" => \A i \in DOMAIN s.edit : ~Overwrites(s.edit[i].op, job.op),
         NEW t, t = WithLane(s, lane, Append(s[lane], job))
  PROVE  t \in QueueRecord(N) /\ Queue(subs, E, t) /\ Elsewhere(s, t, lane) /\ t.answer = s.answer
         /\ t[lane] = Append(s[lane], job)
<1> DEFINE js == Append(s[lane], job)
<1>1. job \in JobRecord /\ s[lane] \in Seq(JobRecord) BY LanesAre DEF JobOK
<1>2. /\ js \in Seq(JobRecord) /\ DOMAIN js = 1 .. Len(s[lane]) + 1
      /\ DOMAIN s[lane] = 1 .. Len(s[lane]) /\ Len(s[lane]) \in Nat
      /\ js[Len(s[lane]) + 1] = job
      /\ \A i \in DOMAIN s[lane] : js[i] = s[lane][i]
  BY <1>1
<1> HIDE DEF js
<1>3. t = WithLane(s, lane, js) BY DEF js
<1>4. t \in QueueRecord(N) /\ Elsewhere(s, t, lane) /\ t.answer = s.answer /\ t[lane] = js
  BY <1>2, <1>3, Relaned
<1>5. ASSUME NEW i \in DOMAIN js PROVE i \in DOMAIN s[lane] \/ (i = Len(s[lane]) + 1 /\ js[i] = job)
  BY <1>2
<1>6. ASSUME NEW l \in Lanes, NEW i \in DOMAIN t[l]
      PROVE  /\ JobOK(subs, t[l][i]) /\ Lane(t[l][i].op) = l
             /\ \A e \in E : Ahead(e, t[l][i])
  BY <1>4, <1>2, <1>5 DEF Elsewhere, Queue
<1>7. t.broken = s.broken BY <1>4 DEF Elsewhere
<1>8. CASE lane = "message"
  <2>1. t.edit = s.edit /\ t.message = js /\ s[lane] = s.message
    BY <1>4, <1>8 DEF Elsewhere, Lanes
  <2>2. ASSUME NEW i \in DOMAIN js, NEW k \in DOMAIN js, i < k
        PROVE  Ahead(js[i], js[k]) /\ NotTaken(js[i], js[k])
    BY <1>2, <2>1, <2>2, <1>5 DEF Queue, InLine
  <2>3. ASSUME NEW i \in DOMAIN js
        PROVE  /\ \A k \in DOMAIN s.edit : ~Overwrites(s.edit[k].op, js[i].op)
               /\ Unbroken(t, js[i])
    BY <1>2, <2>1, <1>7, <1>5, <1>8 DEF Queue, Clear, Unbroken
  <2>4. InLine(t.message) BY <2>1, <2>2 DEF InLine
  <2>5. Clear(t) BY <2>1, <2>3 DEF Clear, Queue
  <2>6. \A i \in DOMAIN t.message : Unbroken(t, t.message[i]) BY <2>1, <2>3
  <2>. QED BY <1>4, <1>6, <2>4, <2>5, <2>6 DEF Queue, js
<1>9. CASE lane = "edit"
  <2>1. t.message = s.message /\ t.edit = js /\ s[lane] = s.edit
    BY <1>4, <1>9 DEF Elsewhere, Lanes
  <2>2. ASSUME NEW i \in DOMAIN js, NEW k \in DOMAIN js, i # k
        PROVE  ~Overwrites(js[i].op, js[k].op)
    BY <1>2, <2>1, <1>5, <2>2, <1>9 DEF Queue, Clear
  <2>3. ASSUME NEW i \in DOMAIN js, NEW k \in DOMAIN s.message
        PROVE  ~Overwrites(js[i].op, s.message[k].op)
    BY <1>2, <2>1, <1>5, <1>9 DEF Queue, Clear
  <2>4. Clear(t) BY <2>1, <2>2, <2>3 DEF Clear
  <2>5. InLine(t.message) /\ \A i \in DOMAIN t.message : Unbroken(t, t.message[i])
    BY <1>7, <2>1 DEF Queue, Unbroken
  <2>. QED BY <1>4, <1>6, <2>4, <2>5 DEF Queue, js
<1>10. CASE lane = "topic"
  BY <1>4, <1>10, <1>7, <1>6 DEF Elsewhere, Lanes, Queue, Clear, Unbroken, js
<1>. QED BY <1>8, <1>9, <1>10 DEF Lanes

(* A queued edit that another one takes the place of.                      *)
LEMMA EditReplaced ==
  ASSUME NEW subs, NEW E, NEW N, NEW s \in QueueRecord(N), Queue(subs, E, s),
         NEW i \in DOMAIN s.edit, NEW k, JobOK(subs, k), Alike(s.edit[i].op, k.op),
         \A e \in E : Ahead(e, k),
         NEW t, t = WithLane(s, "edit", [s.edit EXCEPT ![i] = k])
  PROVE  /\ t \in QueueRecord(N) /\ Queue(subs, E, t) /\ Elsewhere(s, t, "edit")
         /\ t.answer = s.answer /\ t.edit = [s.edit EXCEPT ![i] = k]
<1> DEFINE js == [s.edit EXCEPT ![i] = k]
<1>1. k \in JobRecord /\ s.edit \in Seq(JobRecord) /\ "edit" \in Lanes
  BY LanesAre DEF JobOK, Lanes
<1>2. /\ js \in Seq(JobRecord) /\ DOMAIN js = DOMAIN s.edit /\ js[i] = k
      /\ \A j \in DOMAIN s.edit \ {i} : js[j] = s.edit[j]
  BY <1>1
<1>9. t = WithLane(s, "edit", js) OBVIOUS
<1> HIDE DEF js
<1>3. /\ t \in QueueRecord(N) /\ Elsewhere(s, t, "edit") /\ t.answer = s.answer
      /\ t["edit"] = js
  BY <1>1, <1>2, <1>9, Relaned
<1>4. t.edit = js /\ t.message = s.message /\ t.broken = s.broken
  BY <1>3 DEF Elsewhere, Lanes
<1>5. ASSUME NEW j \in DOMAIN js
      PROVE  /\ JobOK(subs, js[j]) /\ Alike(s.edit[j].op, js[j].op) /\ Lane(js[j].op) = "edit"
             /\ \A e \in E : Ahead(e, js[j])
  BY <1>1, AlikeFacts, <1>2 DEF Queue, Alike
<1>6. ASSUME NEW l \in Lanes, NEW j \in DOMAIN t[l]
      PROVE  /\ JobOK(subs, t[l][j]) /\ Lane(t[l][j].op) = l
             /\ \A e \in E : Ahead(e, t[l][j])
  BY <1>3, <1>5 DEF Elsewhere, Queue
<1>7. Clear(t)
  <2>1. \A j, m \in DOMAIN js : j # m => ~Overwrites(js[j].op, js[m].op)
    <3> SUFFICES ASSUME NEW j \in DOMAIN js, NEW m \in DOMAIN js, j # m
                 PROVE  ~Overwrites(js[j].op, js[m].op)
      OBVIOUS
    <3>1. ~Overwrites(s.edit[j].op, s.edit[m].op) BY <1>2 DEF Queue, Clear
    <3>2. Alike(s.edit[j].op, js[j].op) /\ Alike(s.edit[m].op, js[m].op) BY <1>5
    <3>. QED BY <3>1, <3>2, AlikeFacts
  <2>2. \A j \in DOMAIN js, m \in DOMAIN s.message : ~Overwrites(js[j].op, s.message[m].op)
    <3> SUFFICES ASSUME NEW j \in DOMAIN js, NEW m \in DOMAIN s.message
                 PROVE  ~Overwrites(js[j].op, s.message[m].op)
      OBVIOUS
    <3>1. ~Overwrites(s.edit[j].op, s.message[m].op) BY <1>2 DEF Queue, Clear
    <3>. QED BY <1>5, <3>1, AlikeFacts
  <2>. QED BY <1>4, <2>1, <2>2 DEF Clear
<1>8. InLine(t.message) /\ \A j \in DOMAIN t.message : Unbroken(t, t.message[j])
  BY <1>4 DEF Queue, Unbroken
<1>. QED BY <1>3, <1>4, <1>6, <1>7, <1>8 DEF Queue, js

LEMMA RenewedIs ==
  ASSUME NEW old \in JobRecord, NEW job \in JobRecord
  PROVE  LET k == Renewed(old, job)
         IN /\ k \in JobRecord /\ k.at = old.at /\ k.text = job.text /\ k.reply = job.reply
            /\ k.merged = old.merged /\ k.live = job.live /\ Alike(old.op, k.op)
            /\ k.op.restart = old.op.restart
<1> DEFINE op == [old.op EXCEPT !.background = @ /\ job.op.background]
           k == [old EXCEPT !.text = job.text, !.reply = job.reply, !.live = job.live, !.op = op]
<1>1. old.op \in OpRecord /\ job.op \in OpRecord /\ old.op \in Op
  BY OpFacts DEF JobRecord
<1>2. /\ op \in OpRecord /\ op.kind = old.op.kind /\ op.place = old.op.place
      /\ op.msg = old.op.msg /\ op.prompt = old.op.prompt /\ op.status = old.op.status
      /\ op.merge = old.op.merge /\ op.restart = old.op.restart /\ op.before = old.op.before
  BY <1>1 DEF OpRecord
<1>3. Renewed(old, job) = k BY DEF Renewed
<1> HIDE DEF op
<1>4. op \in Op BY <1>1, <1>2 DEF Op, IsLine, Metered
<1>5. /\ k \in JobRecord /\ k.at = old.at /\ k.text = job.text /\ k.reply = job.reply
      /\ k.merged = old.merged /\ k.live = job.live /\ k.op = op
  BY <1>4 DEF JobRecord
<1>. QED BY <1>2, <1>3, <1>5 DEF Alike

LEMMA MinIs ==
  ASSUME NEW S \in SUBSET Nat, S # {}
  PROVE  Min(S) \in S /\ \A x \in S : Min(S) <= x
<1>1. PICK n \in S : \A m \in S : n <= m BY LeastNat
<1>2. Min(S) = CHOOSE x \in S : \A y \in S : x <= y BY DEF Min
<1>. QED BY <1>1, <1>2

(* Nothing that the invariant speaks of changes.                           *)
LEMMA QueueSame ==
  ASSUME NEW subs, NEW E, NEW s, NEW t, Queue(subs, E, s),
         Unmoved(s, t), t.broken \subseteq s.broken
  PROVE  Queue(subs, E, t)
BY DEF Lanes, Unmoved, Queue, Unbroken, Clear

WithBroken(s, B) == [s EXCEPT !.broken = B]

LEMMA BrokenIs ==
  ASSUME NEW N, NEW s \in QueueRecord(N), NEW B \in SUBSET Place,
         NEW t, t = WithBroken(s, B)
  PROVE  /\ t \in QueueRecord(N) /\ t.broken = B /\ t.answer = s.answer
         /\ Unmoved(s, t)
BY DEF QueueRecord, WithBroken, Lanes, Unmoved

(* No edit of the message waits that the line is written into.             *)
NoEditOf(s, o) ==
  Into(o) => \A k \in DOMAIN s.edit : ~(s.edit[k].op.kind = "edit" /\ s.edit[k].op.msg = o.msg)

LEMMA OutdatedIs ==
  ASSUME NEW subs, NEW E, NEW N, NEW s \in QueueRecord(N), Queue(subs, E, s), NEW o,
         NEW t, t = Outdated(s, o)
  PROVE  /\ t \in QueueRecord(N) /\ Queue(subs, E, t) /\ Thins(s, t) /\ t.broken = s.broken
         /\ NoEditOf(t, o)
<1>0. "edit" \in Lanes /\ "message" \in Lanes /\ "topic" \in Lanes /\ "superseded" \in Outcome
  BY DEF Lanes, Outcome
<1>1. CASE Into(o)
  <2> DEFINE gone == {i \in DOMAIN s.edit : s.edit[i].op.kind = "edit" /\ s.edit[i].op.msg = o.msg}
  <2>1. t = Purged(s, "edit", gone, "superseded") BY <1>1 DEF Outdated
  <2>2. \A i \in DOMAIN s.edit \ gone : ~(s.edit[i].op.kind = "edit" /\ s.edit[i].op.msg = o.msg)
    OBVIOUS
  <2> HIDE DEF gone
  <2>3. /\ t \in QueueRecord(N) /\ Thins(s, t) /\ t["edit"] = Kept(s["edit"], gone)
        /\ Elsewhere(s, t, "edit")
    <3>1. t \in QueueRecord(N) /\ Thins(s, t) /\ Lost(s, t, "edit", gone)
      BY <1>0, <2>1, PurgedIs
    <3>. QED BY <3>1 DEF Lost
  <2>4. t.broken = s.broken /\ t.message = s.message /\ t.topic = s.topic
    BY <2>3 DEF Elsewhere, Lanes
  <2>5. \A i \in DOMAIN t.message : Unbroken(t, t.message[i]) BY <2>4 DEF Queue, Unbroken
  <2>6. Queue(subs, E, t) BY <2>3, <2>5, Thinned
  <2>7. s.edit \in Seq(JobRecord) BY <1>0, LanesAre
  <2>8. PICK g : Keeps(s.edit, gone, t.edit, g) BY <2>3, <2>7, KeptIs
  <2>9. \A k \in DOMAIN t.edit : ~(t.edit[k].op.kind = "edit" /\ t.edit[k].op.msg = o.msg)
    BY <2>2, <2>8 DEF Keeps
  <2>. QED BY <1>1, <2>3, <2>4, <2>6, <2>9 DEF NoEditOf
<1>2. CASE ~Into(o) /\ o.prompt
  <2> DEFINE gone == {i \in DOMAIN s.message : s.message[i].live # 0
                                               /\ s.message[i].op.place = o.place}
  <2>1. t = Purged(s, "message", gone, "superseded") BY <1>2 DEF Outdated
  <2> HIDE DEF gone
  <2>3. /\ t \in QueueRecord(N) /\ Thins(s, t) /\ t["message"] = Kept(s["message"], gone)
        /\ Elsewhere(s, t, "message")
    <3>1. t \in QueueRecord(N) /\ Thins(s, t) /\ Lost(s, t, "message", gone)
      BY <1>0, <2>1, PurgedIs
    <3>. QED BY <3>1 DEF Lost
  <2>4. t.broken = s.broken /\ t.edit = s.edit /\ t.topic = s.topic
    BY <2>3 DEF Elsewhere, Lanes
  <2>5. s.message \in Seq(JobRecord) BY <1>0, LanesAre
  <2>6. PICK g : Keeps(s.message, gone, t.message, g) BY <2>3, <2>5, KeptIs
  <2>7. \A i \in DOMAIN t.message : Unbroken(t, t.message[i])
    BY <2>4, <2>6 DEF Queue, Unbroken, Keeps
  <2>8. Queue(subs, E, t) BY <2>3, <2>7, Thinned
  <2>. QED BY <1>2, <2>3, <2>4, <2>8 DEF NoEditOf
<1>3. CASE ~Into(o) /\ ~o.prompt BY <1>3, SameLanes DEF Outdated, Unmoved, NoEditOf
<1>. QED BY <1>1, <1>2, <1>3

(* The job goes to the end of its lane.                                    *)
LEMMA QueuedIs ==
  ASSUME NEW subs, Legal(subs), NEW E, NEW N, NEW s \in QueueRecord(N), Queue(subs, E, s),
         NEW n \in 1 .. Len(subs), NEW job, job = Job(n, subs[n]),
         NEW t, t = Queued(s, job),
         \A e \in E : Ahead(e, job), Unbroken(s, job),
         \A i \in DOMAIN s.message : s.message[i].at < n /\ Ahead(s.message[i], job),
         \A i \in DOMAIN s.edit : /\ ~Replaces(s.edit[i].op, job.op)
                                  /\ Into(job.op) => ~(s.edit[i].op.kind = "edit"
                                                       /\ s.edit[i].op.msg = job.op.msg)
  PROVE  t \in QueueRecord(N) /\ Queue(subs, E, t)
<1> DEFINE o == subs[n]
<1>1. subs \in Seq(Op) /\ n \in Nat /\ o \in Op BY DEF Legal
<1>2. JobOK(subs, job) /\ job.op = o /\ job.text = <<n>> /\ job \in JobRecord
  BY <1>1, JobIsOK DEF JobOK, Job
<1> HIDE DEF o
<1>3. Lane(o) \in Lanes BY <1>1, OpFacts
<1>4. ASSUME NEW r \in QueueRecord(N), Queue(subs, E, r), r.edit = s.edit, r.broken = s.broken,
             \A i \in DOMAIN r.message : /\ Ahead(r.message[i], job)
                                         /\ r.message[i].op = s.message[i].op
                                         /\ r.message[i].at = s.message[i].at,
             DOMAIN r.message = DOMAIN s.message,
             NEW u, u = WithLane(r, Lane(o), Append(r[Lane(o)], job))
      PROVE  u \in QueueRecord(N) /\ Queue(subs, E, u)
  <2>1. Unbroken(r, job) BY <1>4 DEF Unbroken
  <2>2. \A i \in DOMAIN r.message : Ahead(r.message[i], job) /\ NotTaken(r.message[i], job)
    BY <1>2, <1>4 DEF NotTaken
  <2>3. ASSUME Lane(o) = "edit"
        PROVE  /\ \A i \in DOMAIN r.edit : /\ ~Overwrites(r.edit[i].op, job.op)
                                           /\ ~Overwrites(job.op, r.edit[i].op)
               /\ \A i \in DOMAIN r.message : ~Overwrites(job.op, r.message[i].op)
    <3>1. o.kind \in {"edit", "react"} /\ ~IsLine(o) /\ ~Into(o) BY <1>1, <2>3, OpFacts
    <3>2. ASSUME NEW i \in DOMAIN r.edit
          PROVE  /\ ~Overwrites(r.edit[i].op, job.op) /\ ~Overwrites(job.op, r.edit[i].op)
      <4>1. r.edit[i] \in JobRecord /\ Lane(r.edit[i].op) = "edit"
        BY <1>4 DEF Queue, JobOK, Lanes
      <4>2. ~Into(r.edit[i].op) /\ r.edit[i].op.kind \in {"edit", "react"}
        BY <4>1, OpFacts DEF JobRecord
      <4>3. ~Replaces(r.edit[i].op, o) BY <1>2, <1>4
      <4>4. ~Replaces(o, r.edit[i].op) BY <3>1, <4>2, <4>3 DEF Replaces
      <4>. QED BY <1>2, <3>1, <4>2, <4>3, <4>4 DEF Overwrites
    <3>3. ASSUME NEW i \in DOMAIN r.message, Overwrites(job.op, r.message[i].op) PROVE FALSE
      <4> DEFINE m == r.message[i]
      <4>1. JobOK(subs, m) /\ Lane(m.op) = "message" /\ m.op \in Op /\ m.at < n
        BY <1>4 DEF Queue, JobOK, JobRecord, Lanes
      <4>2. m.op.kind \in {"send", "line"} BY <4>1, OpFacts
      <4> HIDE DEF m
      <4>3. o.kind = "edit" /\ Into(m.op) /\ o.msg = m.op.msg
        BY <1>2, <3>1, <3>3, <4>2 DEF Overwrites, Replaces, m
      <4>4. m.at \in 1 .. Len(subs) /\ Alike(subs[m.at], m.op) BY <4>1 DEF JobOK
      <4>5. Into(subs[m.at]) /\ subs[m.at].msg = o.msg /\ m.at \in DOMAIN subs /\ n \in DOMAIN subs
        BY <1>1, <4>3, <4>4, AlikeFacts DEF Alike
      <4>. QED BY <4>1, <4>3, <4>5 DEF Legal, o
    <3>. QED BY <3>2, <3>3
  <2>4. ASSUME Lane(o) = "message", NEW i \in DOMAIN r.edit
        PROVE  ~Overwrites(r.edit[i].op, job.op)
    BY <1>2, <1>4 DEF Overwrites
  <2> DEFINE lane == Lane(o)
  <2>5. lane \in Lanes /\ Lane(job.op) = lane /\ u = WithLane(r, lane, Append(r[lane], job))
    BY <1>2, <1>3, <1>4
  <2> HIDE DEF lane
  <2>. QED BY <1>2, <1>4, <2>1, <2>2, <2>3, <2>4, <2>5, AppendIs DEF lane
<1>5. CASE Lane(o) # "message" BY <1>2, <1>5, <1>4 DEF Queued, WithLane
<1>6. CASE Lane(o) = "message"
  <2> DEFINE woken == [i \in DOMAIN s.message |->
                         [s.message[i] EXCEPT !.ripe = @ /\ ~Joins(s.message[i].op, job.op)]]
  <2>1. s.message \in Seq(JobRecord) BY LanesAre DEF Lanes
  <2>2. ASSUME NEW i \in DOMAIN s.message
        PROVE  Like(s.message[i], woken[i]) /\ woken[i] \in JobRecord
               /\ woken[i].op = s.message[i].op /\ woken[i].at = s.message[i].at
    <3> DEFINE m == s.message[i]
               k == [m EXCEPT !.ripe = m.ripe /\ ~Joins(m.op, job.op)]
    <3>1. m \in JobRecord BY <2>1
    <3>2. woken[i] = k OBVIOUS
    <3>3. Joins(m.op, job.op) \in BOOLEAN BY DEF Joins, IsLine
    <3> HIDE DEF m
    <3>4. k \in JobRecord BY <3>1, <3>3 DEF JobRecord
    <3>5. /\ k.at = m.at /\ k.text = m.text /\ k.plain = m.plain /\ k.reply = m.reply
          /\ k.merged = m.merged /\ k.live = m.live /\ k.op = m.op
      BY <3>1 DEF JobRecord
    <3> HIDE DEF k, woken
    <3>6. Like(m, k) BY <3>4, <3>5 DEF Like, Alike
    <3>. QED BY <3>2, <3>4, <3>5, <3>6 DEF m
  <2>3. woken \in Seq(JobRecord) /\ DOMAIN woken = DOMAIN s.message
    <3>1. woken = [i \in DOMAIN s.message |-> woken[i]] OBVIOUS
    <3> HIDE DEF woken
    <3>3. \A i \in 1 .. Len(s.message) : woken[i] \in JobRecord BY <2>1, <2>2
    <3>4. woken = [i \in 1 .. Len(s.message) |-> woken[i]] BY <2>1, <3>1
    <3>2. woken \in [1 .. Len(s.message) -> JobRecord] BY <3>3, <3>4
    <3>. QED BY <2>1, <3>2
  <2> HIDE DEF woken
  <2>4. PICK r : r = WithLane(s, "message", woken) OBVIOUS
  <2>5. /\ r \in QueueRecord(N) /\ r["message"] = woken /\ Elsewhere(s, r, "message")
    BY <2>3, <2>4, Relaned DEF Lanes
  <2>6. r.message = woken /\ r.edit = s.edit /\ r.topic = s.topic /\ r.broken = s.broken
    BY <2>5 DEF Elsewhere, Lanes
  <2>7. \E g : ThinnedBy(s.message, woken, g)
    <3> DEFINE g == [i \in DOMAIN woken |-> i]
    <3>1. ThinnedBy(s.message, woken, g) BY <2>2, <2>3 DEF ThinnedBy
    <3>. QED BY <3>1
  <2>8. Thins(s, r) BY LanesAre, KeepsAll, <2>6, <2>7 DEF Lanes, Thins
  <2>9. \A i \in DOMAIN r.message : Unbroken(r, r.message[i])
    BY <2>2, <2>3, <2>6 DEF Queue, Unbroken
  <2>10. Queue(subs, E, r) BY <2>5, <2>8, <2>9, Thinned
  <2>11. \A i \in DOMAIN r.message : /\ Ahead(r.message[i], job)
                                     /\ r.message[i].op = s.message[i].op
                                     /\ r.message[i].at = s.message[i].at
    <3> SUFFICES ASSUME NEW i \in DOMAIN r.message
                 PROVE  /\ Ahead(r.message[i], job)
                        /\ r.message[i].op = s.message[i].op
                        /\ r.message[i].at = s.message[i].at
      OBVIOUS
    <3>1. i \in DOMAIN s.message /\ r.message[i] = woken[i] /\ Like(job, job)
      BY <1>2, <2>3, <2>6, LikeItself
    <3>. QED BY <2>2, <3>1, LikeStands
  <2>12. t = WithLane(r, "message", Append(r.message, job))
    BY <1>2, <1>6, <2>4, <2>6 DEF Queued, WithLane, woken, QueueRecord
  <2>. QED BY <1>4, <1>6, <2>3, <2>5, <2>6, <2>10, <2>11, <2>12
<1>. QED BY <1>5, <1>6

LEMMA EnqueueCases ==
  ASSUME NEW s, NEW job
  PROVE  /\ IsLine(job.op) /\ ~job.op.restart /\ job.op.place \in s.broken
              => Enqueue(s, job) = Answered(s, {job.reply}, "dropped")
         /\ ~(IsLine(job.op) /\ ~job.op.restart /\ job.op.place \in s.broken)
              => /\ Older(s, job.op) # {}
                      => Enqueue(s, job) = Coalesced(s, Min(Older(s, job.op)), job)
                 /\ Older(s, job.op) = {}
                      => Enqueue(s, job)
                           = Queued(Outdated(WithBroken(s, IF IsLine(job.op)
                                                           THEN s.broken \ {job.op.place}
                                                           ELSE s.broken), job.op), job)
BY DEF IsLine, Older, Replaces, Enqueue, WithBroken

LEMMA CoalescedIs ==
  ASSUME NEW N, NEW s \in QueueRecord(N), NEW i, NEW job
  PROVE  Coalesced(s, i, job)
           = Answered(WithLane(s, "edit", [s.edit EXCEPT ![i] = Renewed(s.edit[i], job)]),
                      {s.edit[i].reply}, "superseded")
BY DEF Coalesced, WithLane

(* enqueue keeps the invariant of the lanes.                               *)
LEMMA EnqueueIs ==
  ASSUME NEW subs, NEW more, Extends(more, subs), Len(more) = Len(subs) + 1, Legal(more),
         NEW E, Entries(subs, E), NEW N, NEW s \in QueueRecord(N), Queue(subs, E, s),
         NEW job, job = Job(Len(more), more[Len(more)]),
         NEW t, t = Enqueue(s, job)
  PROVE  t \in QueueRecord(N) /\ Queue(more, E, t)
<1> DEFINE n == Len(more)
           o == more[n]
           older == Older(s, o)
<1>1. /\ subs \in Seq(Op) /\ more \in Seq(Op) /\ Len(subs) \in Nat
      /\ n \in 1 .. Len(more) /\ n \in Nat /\ Len(subs) < n /\ n \in DOMAIN more
  BY DEF Extends
<1>2. /\ JobOK(more, job) /\ job.op = o /\ job.text = <<n>> /\ job.at = n /\ job.reply = n
      /\ job \in JobRecord
  BY <1>1, JobIsOK DEF JobOK, Job
<1>3. Queue(more, E, s) BY QueueGrows
<1>4. ASSUME NEW x, x.text \in Seq(Nat), TextOK(subs, x.op, x.text) PROVE Ahead(x, job)
  BY <1>1, <1>4, Newest, <1>2 DEF Ahead
<1>5. \A e \in E : Ahead(e, job) BY <1>4 DEF Entries
<1>6. \A i \in DOMAIN s.message : s.message[i].at < n /\ Ahead(s.message[i], job)
  <2> SUFFICES ASSUME NEW i \in DOMAIN s.message
               PROVE  s.message[i].at < n /\ Ahead(s.message[i], job)
    OBVIOUS
  <2>1. JobOK(subs, s.message[i]) BY DEF Queue, Lanes
  <2>2. s.message[i].at \in 1 .. Len(subs) BY <2>1 DEF JobOK
  <2>. QED BY <1>1, <1>4, <2>1, <2>2 DEF JobOK, JobRecord
<1>7. more[n] \in Op /\ o \in Op /\ o = job.op BY <1>1, <1>2
<1>8. CASE IsLine(o) /\ ~o.restart /\ o.place \in s.broken
  <2>1. t = Answered(s, {job.reply}, "dropped") BY <1>2, <1>8, EnqueueCases
  <2>2. t \in QueueRecord(N) /\ SameJobs(s, t) BY <2>1, AnsweredIs DEF Outcome
  <2>. QED BY <1>3, <2>2, QueueSame DEF SameJobs
<1>9. CASE ~(IsLine(o) /\ ~o.restart /\ o.place \in s.broken) /\ older # {}
  <2> DEFINE i == Min(older)
  <2>1. s.edit \in Seq(JobRecord) BY LanesAre DEF Lanes
  <2>2. i \in older
    <3>1. older \in SUBSET Nat BY <2>1 DEF Older
    <3>. QED BY <1>9, <3>1, MinIs
  <2>4. t = Coalesced(s, i, job) BY <1>2, <1>9, EnqueueCases
  <2> HIDE DEF i
  <2>3. i \in DOMAIN s.edit /\ Replaces(s.edit[i].op, o) /\ s.edit[i] \in JobRecord
    BY <2>1, <2>2 DEF Older
  <2> HIDE DEF older
  <2> DEFINE k == Renewed(s.edit[i], job)
  <2>5. PICK r : r = WithLane(s, "edit", [s.edit EXCEPT ![i] = k]) OBVIOUS
  <2>6. t = Answered(r, {s.edit[i].reply}, "superseded") BY <2>4, <2>5, CoalescedIs
  <2>7. /\ k \in JobRecord /\ k.at = s.edit[i].at /\ k.text = job.text /\ k.reply = job.reply
        /\ k.merged = s.edit[i].merged /\ k.live = job.live /\ Alike(s.edit[i].op, k.op)
        /\ k.op.restart = s.edit[i].op.restart
    BY <1>2, <2>3, RenewedIs
  <2> HIDE DEF k
  <2>8. JobOK(more, s.edit[i]) /\ Lane(s.edit[i].op) = "edit" /\ \A e \in E : Ahead(e, s.edit[i])
    BY <1>3, <2>3 DEF Queue, Lanes
  <2>9. s.edit[i].op \in Op /\ ~Metered(s.edit[i].op) /\ ~IsLine(s.edit[i].op)
    BY <2>3, <2>8, OpFacts DEF JobRecord
  <2>10. ~Metered(k.op) /\ ~IsLine(k.op) /\ Lane(k.op) = "edit"
    BY <2>7, <2>8, <2>9, AlikeFacts
  <2>11. Alike(o, k.op)
    <3>1. o.kind = k.op.kind /\ o.msg = k.op.msg BY <2>3, <2>7 DEF Replaces, Alike
    <3>2. k.op \in Op BY <2>7 DEF JobRecord
    <3>3. o.place = None /\ k.op.place = None BY <1>7, <2>10, <3>1, <3>2, OpFacts DEF Op
    <3>. QED BY <3>1, <3>3 DEF Alike
  <2>12. JobOK(more, k)
    <3>1. TextOK(more, k.op, k.text)
      <4>1. TextOK(more, o, k.text) BY <1>2, <2>7 DEF JobOK
      <4>2. \A p : Alike(p, o) => Alike(p, k.op) BY <2>11 DEF Alike
      <4>. QED BY <4>1, <4>2 DEF TextOK
    <3>2. k.at \in 1 .. Len(more) /\ k.at <= k.text[1] /\ Len(k.text) <= MaxText
      <4>1. s.edit[i].at \in 1 .. Len(more) BY <2>8 DEF JobOK
      <4>2. Len(job.text) <= MaxText BY <1>2 DEF JobOK
      <4>3. k.text[1] = n BY <1>2, <2>7
      <4>. QED BY <1>1, <2>7, <4>1, <4>2, <4>3
    <3>3. Alike(more[k.at], k.op) BY <2>7, <2>8 DEF JobOK, Alike
    <3>4. k.op.restart => more[k.at].restart BY <2>7, <2>8 DEF JobOK
    <3>5. Waiters(k) \cup {k.live} \subseteq 0 .. Len(more)
      BY <1>2, <2>7, <2>8 DEF JobOK, Waiters
    <3>. QED BY <2>7, <2>10, <3>1, <3>2, <3>3, <3>4, <3>5 DEF JobOK
  <2>13. \A e \in E : Ahead(e, k)
    <3> SUFFICES ASSUME NEW e \in E PROVE Ahead(e, k)
      OBVIOUS
    <3>1. Rivals(e.op, k.op) = Rivals(e.op, s.edit[i].op) BY <2>7, AlikeFacts
    <3>. QED BY <2>7, <2>8, <2>9, <3>1 DEF Ahead
  <2>14. r \in QueueRecord(N) /\ Queue(more, E, r)
    BY <1>3, <2>3, <2>5, <2>7, <2>12, <2>13, EditReplaced
  <2>15. t \in QueueRecord(N) /\ SameJobs(r, t)
    <3>1. "superseded" \in Outcome BY DEF Outcome
    <3>2. PICK w : w = {s.edit[i].reply} OBVIOUS
    <3>. QED BY <2>6, <2>14, <3>1, <3>2, AnsweredIs
  <2>. QED BY <2>14, <2>15, QueueSame DEF SameJobs
<1>10. CASE ~(IsLine(o) /\ ~o.restart /\ o.place \in s.broken) /\ older = {}
  <2> DEFINE B == IF IsLine(o) THEN s.broken \ {o.place} ELSE s.broken
  <2>1. PICK r : r = WithBroken(s, B) OBVIOUS
  <2>2. t = Queued(Outdated(r, o), job) BY <1>2, <1>10, <2>1, EnqueueCases
  <2>3. B \in SUBSET Place /\ B \subseteq s.broken /\ (IsLine(o) => o.place \notin B)
    BY LanesAre
  <2> HIDE DEF B
  <2>4. r \in QueueRecord(N) /\ r.broken = B /\ Unmoved(s, r) BY <2>1, <2>3, BrokenIs
  <2>5. Queue(more, E, r) BY <1>3, <2>3, <2>4, QueueSame
  <2>12. PICK u : u = Outdated(r, o) OBVIOUS
  <2>6. /\ u \in QueueRecord(N) /\ Queue(more, E, u) /\ Thins(r, u) /\ u.broken = r.broken
        /\ NoEditOf(u, o)
    BY <2>4, <2>5, <2>12, OutdatedIs
  <2>7. Unbroken(u, job) BY <1>7, <2>3, <2>4, <2>6 DEF Unbroken
  <2>8. r.message = s.message /\ r.edit = s.edit BY <2>4 DEF Lanes, Unmoved
  <2>9. \A i \in DOMAIN u.message : u.message[i].at < n /\ Ahead(u.message[i], job)
    <3> SUFFICES ASSUME NEW i \in DOMAIN u.message
                 PROVE  u.message[i].at < n /\ Ahead(u.message[i], job)
      OBVIOUS
    <3>1. PICK g : ThinnedBy(r.message, u.message, g) BY <2>6 DEF Thins, Lanes
    <3>2. g[i] \in DOMAIN s.message /\ Like(s.message[g[i]], u.message[i]) /\ Like(job, job)
      BY <1>2, <2>8, <3>1, LikeItself DEF ThinnedBy
    <3>3. Ahead(s.message[g[i]], job) /\ s.message[g[i]].at < n BY <1>6, <3>2
    <3>4. u.message[i].at = s.message[g[i]].at BY <3>2 DEF Like
    <3>. QED BY <3>2, <3>3, <3>4, LikeStands
  <2>10. ASSUME NEW i \in DOMAIN u.edit
         PROVE  /\ ~Replaces(u.edit[i].op, job.op)
                /\ Into(job.op) => ~(u.edit[i].op.kind = "edit" /\ u.edit[i].op.msg = job.op.msg)
    <3>1. PICK g : ThinnedBy(r.edit, u.edit, g) BY <2>6 DEF Thins, Lanes
    <3>2. g[i] \in DOMAIN s.edit /\ Like(s.edit[g[i]], u.edit[i])
      BY <2>8, <3>1 DEF ThinnedBy
    <3>3. ~Replaces(s.edit[g[i]].op, o) BY <1>10, <3>2 DEF Older
    <3>4. ~Replaces(u.edit[i].op, job.op) BY <1>7, <3>2, <3>3 DEF Replaces, Like, Alike
    <3>. QED BY <1>7, <2>6, <3>4 DEF NoEditOf
  <2>11. \A i \in DOMAIN u.edit :
           /\ ~Replaces(u.edit[i].op, job.op)
           /\ Into(job.op) => ~(u.edit[i].op.kind = "edit" /\ u.edit[i].op.msg = job.op.msg)
    BY <2>10
  <2>13. t = Queued(u, job) /\ job = Job(n, more[n]) BY <2>2, <2>12
  <2> HIDE DEF n, o
  <2>. QED BY <1>1, <1>5, <2>6, <2>7, <2>9, <2>11, <2>13, QueuedIs DEF n
<1>. QED BY <1>8, <1>9, <1>10

----------------------------------------------------------------------------
(* The channel is emptied.                                                 *)

FoldUpTo(s, jobs, n, f) ==
  f = [i \in 0 .. n |-> IF i = 0 THEN s ELSE Enqueue(f[i - 1], jobs[i])]

LEMMA FoldExists ==
  ASSUME NEW s, NEW jobs, NEW n \in Nat
  PROVE  \E f : FoldUpTo(s, jobs, n, f)
<1> DEFINE Bad == { m \in Nat : ~\E f : FoldUpTo(s, jobs, m, f) }
<1>1. SUFFICES ASSUME Bad # {} PROVE FALSE
  OBVIOUS
<1>2. PICK m \in Bad : \A k \in Bad : m <= k BY <1>1, LeastNat
<1>3. CASE m = 0
  <2> DEFINE f == [i \in 0 .. 0 |-> s]
  <2>1. f = [i \in 0 .. 0 |-> IF i = 0 THEN s ELSE Enqueue(f[i - 1], jobs[i])] OBVIOUS
  <2>. QED BY <1>2, <1>3, <2>1 DEF FoldUpTo
<1>4. CASE m # 0
  <2>1. m - 1 \in Nat /\ m - 1 \notin Bad /\ m \in Nat BY <1>2, <1>4
  <2>2. PICK g : FoldUpTo(s, jobs, m - 1, g) BY <2>1
  <2> DEFINE f == [i \in 0 .. m |-> IF i = m THEN Enqueue(g[m - 1], jobs[m]) ELSE g[i]]
  <2>3. ASSUME NEW i \in 0 .. m
        PROVE  f[i] = IF i = 0 THEN s ELSE Enqueue(f[i - 1], jobs[i])
    <3>1. CASE i = m
      <4>1. m \in 0 .. m /\ m - 1 \in 0 .. m /\ m - 1 # m BY <2>1
      <4>2. f[m - 1] = g[m - 1] /\ f[m] = Enqueue(g[m - 1], jobs[m]) BY <4>1
      <4> HIDE DEF f
      <4>. QED BY <1>4, <3>1, <4>2
    <3>2. CASE i # m
      <4>1. i \in 0 .. m - 1 /\ f[i] = g[i] BY <2>1, <3>2
      <4>2. ASSUME i # 0 PROVE f[i - 1] = g[i - 1] BY <2>1, <4>1, <4>2
      <4>3. g[i] = IF i = 0 THEN s ELSE Enqueue(g[i - 1], jobs[i])
        BY <2>2, <4>1 DEF FoldUpTo
      <4> HIDE DEF f
      <4>. QED BY <4>1, <4>2, <4>3
    <3>. QED BY <3>1, <3>2
  <2>4. f = [i \in 0 .. m |-> f[i]] OBVIOUS
  <2> HIDE DEF f
  <2>5. FoldUpTo(s, jobs, m, f) BY <2>3, <2>4 DEF FoldUpTo
  <2>. QED BY <1>2, <2>5
<1>. QED BY <1>3, <1>4

(* The states between the jobs that are taken in.                          *)
Between(s, jobs, f) ==
  /\ f[0] = s /\ f[Len(jobs)] = TakenIn(s, jobs)
  /\ \A i \in 1 .. Len(jobs) : f[i] = Enqueue(f[i - 1], jobs[i])

LEMMA TakenInSteps ==
  ASSUME NEW s, NEW jobs, Len(jobs) \in Nat
  PROVE  \E f : Between(s, jobs, f)
<1> DEFINE f == CHOOSE f : f = [i \in 0 .. Len(jobs) |->
                                 IF i = 0 THEN s ELSE Enqueue(f[i - 1], jobs[i])]
<1>1. f = [i \in 0 .. Len(jobs) |-> IF i = 0 THEN s ELSE Enqueue(f[i - 1], jobs[i])]
  BY FoldExists DEF FoldUpTo
<1>2. TakenIn(s, jobs) = f[Len(jobs)] BY DEF TakenIn
<1> HIDE DEF f
<1>3. f[0] = s BY <1>1
<1>4. ASSUME NEW i \in 1 .. Len(jobs) PROVE f[i] = Enqueue(f[i - 1], jobs[i]) BY <1>1
<1>. QED BY <1>2, <1>3, <1>4 DEF Between

(* The first n ops that were handed over.                                  *)
Upto(more, n) == [i \in 1 .. n |-> more[i]]

LEMMA UptoIs ==
  ASSUME NEW more, Legal(more), NEW n \in 0 .. Len(more)
  PROVE  /\ Legal(Upto(more, n)) /\ Len(Upto(more, n)) = n /\ Extends(more, Upto(more, n))
         /\ \A i \in 1 .. n : Upto(more, n)[i] = more[i]
<1> DEFINE subs == Upto(more, n)
<1>1. more \in Seq(Op) /\ Len(more) \in Nat /\ DOMAIN more = 1 .. Len(more) /\ n \in Nat
  BY DEF Legal
<1>2. \A i \in 1 .. n : subs[i] = more[i] /\ i \in DOMAIN more /\ more[i] \in Op
  BY <1>1 DEF Upto
<1>3. subs \in Seq(Op) /\ Len(subs) = n /\ DOMAIN subs = 1 .. n BY <1>1, <1>2 DEF Upto
<1> HIDE DEF subs
<1>4. Legal(subs) BY <1>2, <1>3 DEF Legal
<1>5. Extends(more, subs) BY <1>1, <1>2, <1>3 DEF Extends
<1>. QED BY <1>2, <1>3, <1>4, <1>5 DEF subs

LEMMA UptoNext ==
  ASSUME NEW more, Legal(more), NEW n \in 1 .. Len(more)
  PROVE  /\ Extends(Upto(more, n), Upto(more, n - 1))
         /\ Len(Upto(more, n)) = n /\ Len(Upto(more, n - 1)) = n - 1
         /\ Upto(more, n)[n] = more[n]
BY UptoIs DEF Legal, Extends

(* Jobs wait in the channel in the order they were handed over.            *)
InboxOf(subs, more, jobs) ==
  /\ Extends(more, subs) /\ Len(jobs) \in Nat /\ Len(more) = Len(subs) + Len(jobs)
  /\ \A i \in 1 .. Len(jobs) : jobs[i] = Job(Len(subs) + i, more[Len(subs) + i])

LEMMA TakenInIs ==
  ASSUME NEW subs, NEW more, NEW jobs, InboxOf(subs, more, jobs), Legal(more),
         NEW E, Entries(subs, E), NEW N, NEW s \in QueueRecord(N), Queue(subs, E, s),
         NEW t, t = TakenIn(s, jobs)
  PROVE  t \in QueueRecord(N) /\ Queue(more, E, t)
<1>1. PICK f : Between(s, jobs, f) BY TakenInSteps DEF InboxOf
<1>2. /\ Len(jobs) \in Nat /\ Len(subs) \in Nat /\ Len(more) = Len(subs) + Len(jobs)
      /\ more \in Seq(Op) /\ subs \in Seq(Op) /\ Extends(more, subs)
  BY DEF InboxOf, Extends
<1> DEFINE Good(i) == f[i] \in QueueRecord(N) /\ Queue(Upto(more, Len(subs) + i), E, f[i])
           Bad == { i \in 0 .. Len(jobs) : ~Good(i) }
<1>3. Upto(more, Len(subs)) = subs /\ Upto(more, Len(more)) = more
  BY <1>2 DEF Upto, Extends
<1>4. Good(0) BY <1>1, <1>2, <1>3 DEF Between
<1>5. ASSUME NEW i \in 1 .. Len(jobs), Good(i - 1) PROVE Good(i)
  <2> DEFINE n == Len(subs) + i
  <2>1. n \in 1 .. Len(more) /\ n - 1 = Len(subs) + (i - 1) /\ n \in Nat /\ n - 1 \in 0 .. Len(more)
        /\ Len(subs) <= n - 1
    BY <1>2
  <2>2. jobs[i] = Job(n, more[n]) /\ f[i] = Enqueue(f[i - 1], jobs[i])
    BY <1>1 DEF Between, InboxOf
  <2>3. f[i - 1] \in QueueRecord(N) /\ Queue(Upto(more, n - 1), E, f[i - 1])
    BY <1>5, <2>1
  <2> HIDE DEF n
  <2>4. /\ Extends(Upto(more, n), Upto(more, n - 1))
        /\ Len(Upto(more, n)) = n /\ Len(Upto(more, n - 1)) = n - 1 /\ Upto(more, n)[n] = more[n]
    BY <2>1, UptoNext
  <2>5. Legal(Upto(more, n)) BY <1>2, <2>1, UptoIs
  <2>6. Extends(Upto(more, n - 1), subs)
    <3>1. /\ Len(Upto(more, n - 1)) = n - 1 /\ Legal(Upto(more, n - 1))
          /\ \A k \in 1 .. n - 1 : Upto(more, n - 1)[k] = more[k]
      BY <2>1, UptoIs
    <3>2. \A k \in 1 .. Len(subs) : k \in 1 .. n - 1 /\ more[k] = subs[k]
      BY <1>2, <2>1 DEF Extends
    <3>. QED BY <1>2, <2>1, <3>1, <3>2 DEF Extends, Legal
  <2>7. Entries(Upto(more, n - 1), E) BY <2>6, EntriesGrow
  <2>8. Len(Upto(more, n)) = Len(Upto(more, n - 1)) + 1 BY <2>1, <2>4
  <2>9. jobs[i] = Job(Len(Upto(more, n)), Upto(more, n)[Len(Upto(more, n))])
    BY <2>2, <2>4
  <2>10. f[i] \in QueueRecord(N) /\ Queue(Upto(more, n), E, f[i])
    BY <2>2, <2>3, <2>4, <2>5, <2>7, <2>8, <2>9, EnqueueIs
  <2>. QED BY <2>10 DEF n
<1>6. Bad = {}
  <2> SUFFICES ASSUME Bad # {} PROVE FALSE
    OBVIOUS
  <2>1. PICK i \in Bad : \A k \in Bad : i <= k
    <3>1. Bad \in SUBSET Nat BY <1>2
    <3> HIDE DEF Bad
    <3>. QED BY <3>1, LeastNat
  <2>2. i # 0 BY <1>4
  <2>3. i \in 0 .. Len(jobs) /\ ~Good(i) OBVIOUS
  <2> HIDE DEF Good
  <2>4. i \in 1 .. Len(jobs) /\ i - 1 \in 0 .. Len(jobs) /\ ~(i <= i - 1)
    BY <1>2, <2>2, <2>3
  <2>5. Good(i - 1) BY <2>1, <2>4
  <2>. QED BY <1>5, <2>3, <2>4, <2>5
<1>7. Good(Len(jobs))
  <2>1. Len(jobs) \in 0 .. Len(jobs) BY <1>2
  <2> HIDE DEF Good
  <2>. QED BY <1>6, <2>1
<1>. QED BY <1>1, <1>2, <1>3, <1>7 DEF Between

----------------------------------------------------------------------------
(* Jobs that go back to the front of their lane.                           *)

LEMMA PutBackIs ==
  ASSUME NEW subs, NEW E, NEW N, NEW s \in QueueRecord(N), Queue(subs, E, s),
         NEW lane \in Lanes, NEW jobs \in Seq(JobRecord), InLine(jobs),
         \A i \in DOMAIN jobs : Held(subs, E, s, lane, jobs[i]),
         lane = "message" \/ Len(jobs) <= 1,
         NEW t, t = PutBack(s, lane, jobs)
  PROVE  t \in QueueRecord(N) /\ Queue(subs, E, t)
<1> DEFINE js == jobs \o s[lane]
           m == Len(jobs)
<1>1. s[lane] \in Seq(JobRecord) BY LanesAre
<1>2. /\ js \in Seq(JobRecord) /\ m \in Nat /\ DOMAIN jobs = 1 .. m
      /\ Len(s[lane]) \in Nat /\ DOMAIN s[lane] = 1 .. Len(s[lane])
      /\ DOMAIN js = 1 .. m + Len(s[lane])
      /\ \A i \in 1 .. m : js[i] = jobs[i]
      /\ \A i \in 1 .. Len(s[lane]) : js[m + i] = s[lane][i]
  BY <1>1
<1>3. t = WithLane(s, lane, js) BY DEF PutBack, WithLane
<1> HIDE DEF js, m
<1>4. t \in QueueRecord(N) /\ Elsewhere(s, t, lane) /\ t.answer = s.answer /\ t[lane] = js
  BY <1>2, <1>3, Relaned
<1>5. t.broken = s.broken BY <1>4 DEF Elsewhere
<1>6. ASSUME NEW i \in DOMAIN js
      PROVE  \/ i \in DOMAIN jobs /\ js[i] = jobs[i]
             \/ i > m /\ i - m \in DOMAIN s[lane] /\ js[i] = s[lane][i - m]
  BY <1>2
<1>7. ASSUME NEW l \in Lanes, NEW i \in DOMAIN t[l]
      PROVE  /\ JobOK(subs, t[l][i]) /\ Lane(t[l][i].op) = l
             /\ \A e \in E : Ahead(e, t[l][i])
  BY <1>4, <1>6 DEF Elsewhere, Queue, Held
<1>8. ASSUME lane = "message"
      PROVE  Clear(t) /\ InLine(t.message) /\ \A i \in DOMAIN t.message : Unbroken(t, t.message[i])
  <2>1. t.edit = s.edit /\ t.message = js /\ s[lane] = s.message
    BY <1>4, <1>8 DEF Elsewhere, Lanes
  <2>2. ASSUME NEW i \in DOMAIN js, NEW k \in DOMAIN js, i < k
        PROVE  Ahead(js[i], js[k]) /\ NotTaken(js[i], js[k])
    <3>1. CASE i \in DOMAIN jobs /\ js[i] = jobs[i]
      BY <2>2, <3>1, <1>8, <2>1, <1>6 DEF InLine, Held, Lanes
    <3>2. CASE i > m /\ i - m \in DOMAIN s[lane] /\ js[i] = s[lane][i - m]
      <4>1. k \in Nat /\ k > m /\ i - m < k - m BY <1>2, <2>2, <3>2
      <4>2. k - m \in DOMAIN s[lane] /\ js[k] = s[lane][k - m] BY <1>2, <1>6, <4>1
      <4>. QED BY <2>1, <3>2, <4>1, <4>2 DEF Queue, InLine
    <3>. QED BY <1>6, <3>1, <3>2
  <2>3. ASSUME NEW i \in DOMAIN js
        PROVE  /\ \A k \in DOMAIN s.edit : ~Overwrites(s.edit[k].op, js[i].op)
               /\ Unbroken(t, js[i])
    BY <1>5, <2>1, <1>6 DEF Held, Unbroken, Queue, Clear
  <2>. QED BY <2>1, <2>2, <2>3 DEF Clear, InLine, Queue
<1>9. ASSUME lane = "edit"
      PROVE  Clear(t) /\ InLine(t.message) /\ \A i \in DOMAIN t.message : Unbroken(t, t.message[i])
  <2>1. t.message = s.message /\ t.edit = js /\ s[lane] = s.edit
    BY <1>4, <1>9 DEF Elsewhere, Lanes
  <2>2. ASSUME NEW i \in DOMAIN js, NEW k \in DOMAIN js, i # k
        PROVE  ~Overwrites(js[i].op, js[k].op)
    <3>1. CASE i \in DOMAIN jobs /\ js[i] = jobs[i]
      <4>1. k \notin DOMAIN jobs BY <1>2, <1>9, <2>2, <3>1 DEF m
      <4>2. k - m \in DOMAIN s[lane] /\ js[k] = s[lane][k - m] BY <1>6, <4>1
      <4>. QED BY <2>1, <3>1, <4>2 DEF Held
    <3>2. CASE i > m /\ i - m \in DOMAIN s[lane] /\ js[i] = s[lane][i - m]
      <4>1. CASE k \in DOMAIN jobs /\ js[k] = jobs[k] BY <2>1, <3>2, <4>1 DEF Held
      <4>2. CASE k > m /\ k - m \in DOMAIN s[lane] /\ js[k] = s[lane][k - m]
        <5>1. i - m # k - m BY <1>2, <2>2
        <5>. QED BY <2>1, <3>2, <4>2, <5>1 DEF Queue, Clear
      <4>. QED BY <1>6, <4>1, <4>2
    <3>. QED BY <1>6, <3>1, <3>2
  <2>3. ASSUME NEW i \in DOMAIN js, NEW k \in DOMAIN s.message
        PROVE  ~Overwrites(js[i].op, s.message[k].op)
    BY <2>1, <1>6 DEF Held, Queue, Clear
  <2>4. InLine(t.message) /\ \A i \in DOMAIN t.message : Unbroken(t, t.message[i])
    BY <1>5, <2>1 DEF Queue, Unbroken
  <2>. QED BY <2>1, <2>2, <2>3, <2>4 DEF Clear
<1>10. ASSUME lane = "topic"
       PROVE  Clear(t) /\ InLine(t.message) /\ \A i \in DOMAIN t.message : Unbroken(t, t.message[i])
  BY <1>4, <1>10, <1>5 DEF Elsewhere, Lanes, Queue, Clear, Unbroken
<1>11. Clear(t) /\ InLine(t.message) /\ \A i \in DOMAIN t.message : Unbroken(t, t.message[i])
  BY <1>8, <1>9, <1>10 DEF Lanes
<1>. QED BY <1>4, <1>7, <1>11 DEF Queue

LEMMA OnePutBack ==
  ASSUME NEW subs, NEW E, NEW N, NEW s \in QueueRecord(N), Queue(subs, E, s),
         NEW lane, NEW job \in JobRecord, Held(subs, E, s, lane, job),
         NEW t, t = PutBack(s, lane, <<job>>)
  PROVE  t \in QueueRecord(N) /\ Queue(subs, E, t)
<1>1. PICK jobs : jobs = <<job>> OBVIOUS
<1>2. /\ jobs \in Seq(JobRecord) /\ Len(jobs) = 1 /\ DOMAIN jobs = {1} /\ jobs[1] = job
  BY <1>1
<1>3. InLine(jobs) BY <1>2 DEF InLine
<1>4. lane \in Lanes BY OpFacts DEF Held, JobRecord
<1>5. \A i \in DOMAIN jobs : Held(subs, E, s, lane, jobs[i]) BY <1>2
<1>6. t = PutBack(s, lane, jobs) /\ (lane = "message" \/ Len(jobs) <= 1) BY <1>1, <1>2
<1>. QED BY <1>2, <1>3, <1>4, <1>5, <1>6, PutBackIs

(* lay_out: a text of several messages goes as so many jobs.               *)
LEMMA PartIs ==
  ASSUME NEW job \in JobRecord, NEW k \in 1 .. job.op.before + 1, job.op.before > 0
  PROVE  LET part == Parts(job)[k]
         IN /\ part \in JobRecord /\ part.at = job.at /\ part.text = job.text /\ part.plain
            /\ Alike(job.op, part.op) /\ part.op.prompt = job.op.prompt /\ ~part.op.merge
            /\ (part.op.restart => job.op.restart /\ k = 1)
            /\ Waiters(part) \subseteq Waiters(job) /\ part.live \in {0, job.live}
            /\ part.op.before = 0 /\ part.op.form = job.op.form
<1> DEFINE part == Parts(job)[k]
<1>1. /\ job.op \in OpRecord /\ job.op \in Op /\ job.op.before \in Nat
      /\ ~job.op.merge /\ Metered(job.op)
  BY OpFacts DEF JobRecord
<1>2. CASE k > job.op.before
  <2> DEFINE op == [job.op EXCEPT !.before = 0, !.restart = FALSE]
             r == [job EXCEPT !.plain = TRUE, !.op = op]
  <2>1. part = r BY <1>2 DEF Parts, LastPart
  <2>2. /\ op \in OpRecord /\ op.kind = job.op.kind /\ op.place = job.op.place
        /\ op.msg = job.op.msg /\ op.prompt = job.op.prompt /\ op.status = job.op.status
        /\ op.merge = job.op.merge /\ op.restart = FALSE /\ op.before = 0
        /\ op.form = job.op.form
    BY <1>1 DEF OpRecord
  <2> HIDE DEF op
  <2>3. op \in Op BY <1>1, <2>2 DEF Op, IsLine, Metered
  <2>4. /\ r \in JobRecord /\ r.at = job.at /\ r.text = job.text /\ r.plain = TRUE /\ r.op = op
        /\ r.reply = job.reply /\ r.merged = job.merged /\ r.live = job.live
    BY <2>3 DEF JobRecord
  <2> HIDE DEF r
  <2>. QED BY <1>1, <2>1, <2>2, <2>4 DEF Alike, Waiters
<1>3. CASE ~(k > job.op.before)
  <2> DEFINE op == [job.op EXCEPT !.before = 0, !.restart = @ /\ k = 1, !.merge = FALSE]
             r == [job EXCEPT !.plain = TRUE, !.reply = 0, !.merged = {}, !.live = 0,
                              !.op = op]
  <2>1. part = r BY <1>3 DEF Parts, EarlierPart
  <2>2. /\ op \in OpRecord /\ op.kind = job.op.kind /\ op.place = job.op.place
        /\ op.msg = job.op.msg /\ op.prompt = job.op.prompt /\ op.status = job.op.status
        /\ op.merge = FALSE /\ op.restart = (job.op.restart /\ k = 1) /\ op.before = 0
        /\ op.form = job.op.form
    BY <1>1 DEF OpRecord
  <2> HIDE DEF op
  <2>3. op \in Op BY <1>1, <2>2 DEF Op, IsLine, Metered
  <2>4. /\ r \in JobRecord /\ r.at = job.at /\ r.text = job.text /\ r.plain = TRUE /\ r.op = op
        /\ r.reply = 0 /\ r.merged = {} /\ r.live = 0
    BY <2>3 DEF JobRecord
  <2> HIDE DEF r
  <2>. QED BY <1>1, <2>1, <2>2, <2>4 DEF Alike, Waiters
<1>. QED BY <1>2, <1>3

LEMMA PartsAre ==
  ASSUME NEW subs \in Seq(Op), NEW E, NEW N, NEW s \in QueueRecord(N), Queue(subs, E, s),
         NEW lane, NEW job, Held(subs, E, s, lane, job), ~LaidOut(job),
         NEW t, t = PutBack(s, lane, Parts(job))
  PROVE  t \in QueueRecord(N) /\ Queue(subs, E, t)
<1>1. /\ job \in JobRecord /\ job.op \in Op /\ job.op.before \in Nat /\ job.op.before > 0
      /\ ~job.op.merge /\ Metered(job.op)
  BY OpFacts DEF Held, JobOK, JobRecord, LaidOut
<1>2. lane = "message" /\ lane \in Lanes BY <1>1 DEF Held, Metered, Lane, Lanes
<1>3. job.text = <<job.at>> /\ Last(job.text) = job.at BY <1>1 DEF Held, JobOK, Last
<1>4. PICK jobs : jobs = Parts(job) OBVIOUS
<1>5. jobs = [k \in 1 .. job.op.before + 1 |-> jobs[k]] BY <1>4 DEF Parts
<1>6. ASSUME NEW k \in 1 .. job.op.before + 1
      PROVE  /\ jobs[k] \in JobRecord /\ jobs[k].at = job.at /\ jobs[k].text = job.text
             /\ jobs[k].plain /\ Alike(job.op, jobs[k].op)
             /\ jobs[k].op.prompt = job.op.prompt /\ ~jobs[k].op.merge
             /\ (jobs[k].op.restart => job.op.restart /\ k = 1)
             /\ Waiters(jobs[k]) \subseteq Waiters(job) /\ jobs[k].live \in {0, job.live}
  BY <1>1, <1>4, PartIs
<1>7. jobs \in Seq(JobRecord) /\ DOMAIN jobs = 1 .. job.op.before + 1
  <2>1. job.op.before + 1 \in Nat /\ \A k \in 1 .. job.op.before + 1 : jobs[k] \in JobRecord
    BY <1>1, <1>6
  <2>. QED BY <1>5, <2>1, IsSeqOf
<1>8. ASSUME NEW k \in DOMAIN jobs PROVE Held(subs, E, s, lane, jobs[k])
  <2> DEFINE part == jobs[k]
  <2>1. /\ part \in JobRecord /\ part.at = job.at /\ part.text = job.text
        /\ part.plain /\ Alike(job.op, part.op) /\ part.op.prompt = job.op.prompt
        /\ ~part.op.merge /\ (part.op.restart => job.op.restart)
        /\ Waiters(part) \subseteq Waiters(job) /\ part.live \in {0, job.live}
    BY <1>6, <1>7
  <2> HIDE DEF part
  <2>2. /\ Lane(part.op) = Lane(job.op) /\ QueueOf(part.op) = QueueOf(job.op)
        /\ Metered(part.op) = Metered(job.op) /\ IsLine(part.op) = IsLine(job.op)
        /\ \A r : /\ Rivals(job.op, r) = Rivals(part.op, r)
                  /\ Rivals(r, job.op) = Rivals(r, part.op)
                  /\ Overwrites(job.op, r) = Overwrites(part.op, r)
                  /\ Overwrites(r, job.op) = Overwrites(r, part.op)
    BY <2>1, AlikeFacts
  <2>3. JobOK(subs, job) BY DEF Held
  <2>4. JobOK(subs, part) BY <2>1, <2>3, <1>3 DEF Alike, JobOK, TextOK
  <2>5. Lane(part.op) = lane /\ Unbroken(s, part) BY <2>1, <2>2 DEF Held, Unbroken, Alike
  <2>6. \A e \in E : Ahead(e, part) BY <2>1, <2>2 DEF Held, Ahead
  <2>7. \A l \in Lanes : \A i \in DOMAIN s[l] : Ahead(part, s[l][i])
    BY <2>1, <2>2 DEF Held, Ahead
  <2>8. \A i \in DOMAIN s.edit : /\ ~Overwrites(s.edit[i].op, part.op)
                                 /\ ~Overwrites(part.op, s.edit[i].op)
    BY <2>2 DEF Held
  <2>9. \A i \in DOMAIN s.message : /\ ~Overwrites(part.op, s.message[i].op)
                                    /\ NotTaken(part, s.message[i])
    BY <2>1, <2>2 DEF Held, NotTaken
  <2>. QED BY <2>4, <2>5, <2>6, <2>7, <2>8, <2>9 DEF Held, part
<1>9. InLine(jobs)
  <2> SUFFICES ASSUME NEW i \in DOMAIN jobs, NEW k \in DOMAIN jobs, i < k
               PROVE  Ahead(jobs[i], jobs[k]) /\ NotTaken(jobs[i], jobs[k])
    BY DEF InLine
  <2>1. k # 1 BY <1>1, <1>7
  <2>2. Metered(jobs[k].op) BY <1>1, <1>6, <1>7, AlikeFacts
  <2>3. Last(jobs[i].text) = jobs[k].at /\ ~jobs[k].op.merge /\ ~jobs[k].op.restart /\ jobs[i].plain
    BY <1>3, <1>6, <1>7, <2>1
  <2>. QED BY <2>2, <2>3 DEF Ahead, NotTaken
<1>10. t = PutBack(s, lane, jobs) /\ (lane = "message" \/ Len(jobs) <= 1) BY <1>2, <1>4
<1>. QED BY <1>2, <1>7, <1>8, <1>9, <1>10, PutBackIs

----------------------------------------------------------------------------
(* A broken stream, and the job that goes.                                 *)

LEMMA StreamBroken ==
  ASSUME NEW subs, NEW E, NEW N, NEW s \in QueueRecord(N), Queue(subs, E, s),
         NEW place \in Place, NEW t, t = Broken(s, place)
  PROVE  t \in QueueRecord(N) /\ Queue(subs, E, t)
<1> DEFINE lines == {i \in DOMAIN s.message : IsLine(s.message[i].op)
                                              /\ s.message[i].op.place = place}
           restarts == {i \in lines : s.message[i].op.restart}
           gone == {i \in lines : \A k \in restarts : i < k}
           B == IF restarts = {} THEN s.broken \cup {place} ELSE s.broken
<1>1. B \in SUBSET Place BY LanesAre
<1>2. PICK r : r = WithBroken(s, B) OBVIOUS
<1>3. t = Purged(r, "message", gone, "dropped") BY <1>2 DEF Broken, WithBroken
<1>4. ASSUME NEW i \in DOMAIN s.message \ gone
      PROVE  ~(IsLine(s.message[i].op) /\ s.message[i].op.place \in B)
  BY DEF Queue, Unbroken
<1> HIDE DEF gone, restarts, lines, B
<1>5. r \in QueueRecord(N) /\ r.broken = B /\ Unmoved(s, r) BY <1>1, <1>2, BrokenIs
<1>6. "message" \in Lanes /\ "dropped" \in Outcome BY DEF Lanes, Outcome
<1>7. t \in QueueRecord(N) /\ Thins(r, t) /\ Lost(r, t, "message", gone)
  BY <1>3, <1>5, <1>6, PurgedIs
<1>8. r.message = s.message /\ t.message = Kept(s.message, gone) /\ t.broken = B
  BY <1>5, <1>7 DEF Unmoved, Lanes, Lost, Elsewhere
<1>9. Thins(s, t) BY <1>5, <1>7 DEF Thins, Unmoved
<1>10. s.message \in Seq(JobRecord) BY <1>6, LanesAre
<1>11. PICK g : Keeps(s.message, gone, t.message, g) BY <1>8, <1>10, KeptIs
<1>12. \A k \in DOMAIN t.message : Unbroken(t, t.message[k])
  BY <1>4, <1>8, <1>11 DEF Keeps, Unbroken
<1>. QED BY <1>7, <1>9, <1>12, Thinned

LEMMA OverwritesLanes ==
  ASSUME NEW o \in Op, NEW p \in Op, Overwrites(o, p)
  PROVE  Lane(o) = "edit" /\ Lane(p) \in {"edit", "message"}
BY DEF Overwrites, Replaces, Lane, Into, IsLine

(* The job at the given place may go: what stands before it in its queue   *)
(* are lines that a prompt passes.                                         *)
MayGo(s, i) ==
  \A k \in 1 .. i - 1 : \/ QueueOf(s.message[k].op) # QueueOf(s.message[i].op)
                        \/ s.message[i].op.prompt /\ IsLine(s.message[k].op)

LEMMA Removed ==
  ASSUME NEW subs, Legal(subs), NEW E, NEW N, NEW s \in QueueRecord(N), Queue(subs, E, s),
         NEW lane \in Lanes, NEW i \in DOMAIN s[lane], lane = "message" => MayGo(s, i),
         NEW r, r = WithLane(s, lane, Kept(s[lane], {i}))
  PROVE  r \in QueueRecord(N) /\ Queue(subs, E, r) /\ Held(subs, E, r, lane, s[lane][i])
<1> DEFINE job == s[lane][i]
<1>1. /\ r \in QueueRecord(N) /\ Thins(s, r) /\ Lost(s, r, lane, {i}) /\ r.answer = s.answer
  BY Unlaned
<1>2. r.broken = s.broken /\ r[lane] = Kept(s[lane], {i}) /\ s[lane] \in Seq(JobRecord)
  BY <1>1, LanesAre DEF Lost, Elsewhere
<1>3. PICK g : Keeps(s[lane], {i}, r[lane], g) BY <1>2, KeptIs
<1>4. ASSUME NEW l \in Lanes, NEW k \in DOMAIN r[l]
      PROVE  \E j \in DOMAIN s[l] : r[l][k] = s[l][j] /\ (l = lane => j # i)
  <2>1. CASE l = lane BY <1>3, <2>1, SMTT(30) DEF Keeps
  <2>2. CASE l # lane BY <1>1, <2>2 DEF Lost, Elsewhere
  <2>. QED BY <2>1, <2>2
<1>5. \A k \in DOMAIN r.message : Unbroken(r, r.message[k])
  BY <1>2, <1>4 DEF Queue, Unbroken, Lanes
<1>6. Queue(subs, E, r) BY <1>1, <1>5, Thinned
<1>7. JobOK(subs, job) /\ Lane(job.op) = lane /\ \A e \in E : Ahead(e, job) BY DEF Queue
<1>8. job.op \in Op /\ job \in JobRecord BY <1>7 DEF JobOK, JobRecord
<1>9. Unbroken(r, job) BY <1>2, <1>7, <1>8, OpFacts DEF Queue, Unbroken, Lanes
<1>10. ASSUME NEW l \in Lanes, NEW j \in DOMAIN s[l], l = lane => j # i
       PROVE  /\ Ahead(job, s[l][j])
              /\ ~Overwrites(job.op, s[l][j].op) /\ ~Overwrites(s[l][j].op, job.op)
              /\ l = "message" => NotTaken(job, s[l][j])
  <2> DEFINE x == s[l][j]
  <2>1. JobOK(subs, x) /\ Lane(x.op) = l /\ x.op \in Op BY DEF Queue, JobOK, JobRecord
  <2> HIDE DEF x, job
  <2>2. CASE lane = "message" /\ l = "message"
    <3>1. job = s.message[i] /\ x = s.message[j] /\ i \in DOMAIN s.message /\ j \in DOMAIN s.message
      BY <2>2 DEF x, job
    <3>2. i \in Nat /\ j \in Nat /\ i \in 1 .. Len(s.message) /\ j \in 1 .. Len(s.message) /\ i # j
      BY <1>10, <2>2, LanesAre
    <3>3. ~Overwrites(job.op, x.op) /\ ~Overwrites(x.op, job.op)
      BY <1>7, <1>8, <2>1, <2>2, OverwritesLanes
    <3>4. CASE i < j BY <3>1, <3>3, <3>4 DEF Queue, InLine, x
    <3>5. CASE j < i
      BY <3>2, <3>5, <2>2, <3>1, <1>7, <2>1, RivalsOfLane, <1>8, OpFacts, <3>3 DEF MayGo, Ahead,
         NotTaken, x
    <3>. QED BY <3>2, <3>4, <3>5
  <2>3. CASE ~(lane = "message" /\ l = "message")
    <3>1. ~Overwrites(job.op, x.op)
      <4> SUFFICES ASSUME Overwrites(job.op, x.op) PROVE FALSE
        OBVIOUS
      <4>1. lane = "edit" /\ l \in {"edit", "message"}
        BY <1>7, <1>8, <2>1, OverwritesLanes
      <4>2. i \in DOMAIN s.edit /\ job = s.edit[i] BY <4>1 DEF job
      <4>3. CASE l = "edit" BY <1>10, <4>1, <4>2, <4>3 DEF Queue, Clear, x
      <4>4. CASE l = "message" BY <4>2, <4>4 DEF Queue, Clear, x
      <4>. QED BY <4>1, <4>3, <4>4
    <3>2. ~Overwrites(x.op, job.op)
      <4> SUFFICES ASSUME Overwrites(x.op, job.op) PROVE FALSE
        OBVIOUS
      <4>1. l = "edit" /\ lane \in {"edit", "message"}
        BY <1>7, <1>8, <2>1, OverwritesLanes
      <4>2. j \in DOMAIN s.edit /\ x = s.edit[j] BY <4>1 DEF x
      <4>3. CASE lane = "edit" BY <1>10, <4>1, <4>2, <4>3 DEF Queue, Clear, job
      <4>4. CASE lane = "message" BY <4>2, <4>4 DEF Queue, Clear, job
      <4>. QED BY <4>1, <4>3, <4>4
    <3>3. ~Rivals(job.op, x.op)
      <4> SUFFICES ASSUME Rivals(job.op, x.op) PROVE FALSE
        OBVIOUS
      <4>1. lane # "topic" /\ l # "topic" BY <1>7, <1>8, <2>1, RivalsApart
      <4>2. lane = "edit" \/ l = "edit" BY <2>3, <4>1 DEF Lanes
      <4>. QED BY <1>7, <1>8, <2>1, <3>1, <3>2, <4>2, RivalsApart
    <3>4. l = "message" => NotTaken(job, x)
      <4> SUFFICES ASSUME l = "message" PROVE QueueOf(job.op) # QueueOf(x.op)
        BY DEF NotTaken
      <4>1. x.op.place # None BY <2>1, OpFacts DEF Op
      <4>2. job.op.place = None BY <1>7, <1>8, <2>3, OpFacts DEF Op
      <4>. QED BY <4>1, <4>2 DEF QueueOf
    <3>5. Ahead(job, x) BY <3>3 DEF Ahead
    <3>. QED BY <3>1, <3>2, <3>4, <3>5 DEF x
  <2>. QED BY <2>2, <2>3 DEF job, x
<1>11. \A l \in Lanes : \A k \in DOMAIN r[l] : Ahead(job, r[l][k]) BY <1>4, <1>10
<1>12. \A k \in DOMAIN r.edit : /\ ~Overwrites(r.edit[k].op, job.op)
                                /\ ~Overwrites(job.op, r.edit[k].op)
  <2> SUFFICES ASSUME NEW k \in DOMAIN r.edit
               PROVE  ~Overwrites(r.edit[k].op, job.op) /\ ~Overwrites(job.op, r.edit[k].op)
    OBVIOUS
  <2>1. "edit" \in Lanes BY DEF Lanes
  <2>2. PICK j \in DOMAIN s.edit : r.edit[k] = s.edit[j] /\ ("edit" = lane => j # i)
    BY <1>4, <2>1
  <2>. QED BY <1>10, <2>1, <2>2
<1>13. \A k \in DOMAIN r.message : /\ ~Overwrites(job.op, r.message[k].op)
                                   /\ NotTaken(job, r.message[k])
  <2> SUFFICES ASSUME NEW k \in DOMAIN r.message
               PROVE  ~Overwrites(job.op, r.message[k].op) /\ NotTaken(job, r.message[k])
    OBVIOUS
  <2>1. "message" \in Lanes BY DEF Lanes
  <2>2. PICK j \in DOMAIN s.message : r.message[k] = s.message[j] /\ ("message" = lane => j # i)
    BY <1>4, <2>1
  <2>. QED BY <1>10, <2>1, <2>2
<1>. QED BY <1>1, <1>6, <1>7, <1>9, <1>11, <1>12, <1>13 DEF Held

----------------------------------------------------------------------------
(* Lines that are taken into a merge line.                                 *)
Taking(s, job, T) ==
  /\ T \subseteq DOMAIN s.message
  /\ \A i \in T : /\ Alike(job.op, s.message[i].op) /\ s.message[i].op.merge
                  /\ Len(s.message[i].text) = 1
                  /\ \A k \in DOMAIN s.message :
                       k < i /\ QueueOf(s.message[k].op) = QueueOf(job.op) => k \in T
                  /\ Into(job.op) \/ Len(job.text) + Cardinality({k \in T : k <= i}) <= MaxText

LEMMA TakenIs ==
  ASSUME NEW subs \in Seq(Op), NEW E, NEW N, NEW s \in QueueRecord(N), Queue(subs, E, s),
         NEW job, Held(subs, E, s, "message", job), job.op.merge
  PROVE  Taking(s, job, Taken(s, job))
<1> DEFINE T == Taken(s, job)
           same == {i \in DOMAIN s.message : QueueOf(s.message[i].op) = QueueOf(job.op)}
           upto(i) == {k \in same : k <= i}
<1>1. s.message \in Seq(JobRecord) /\ DOMAIN s.message = 1 .. Len(s.message)
      /\ Len(s.message) \in Nat
  BY DEF QueueRecord
<1>2. ASSUME NEW i \in T
      PROVE  /\ i \in same /\ ~job.plain
             /\ \A k \in upto(i) : Joins(job.op, s.message[k].op)
             /\ Into(job.op) \/ Len(job.text) + Cardinality(upto(i)) <= MaxText
  BY <1>2 DEF Taken
<1>3. ASSUME NEW i \in same, ~job.plain,
             \A k \in upto(i) : Joins(job.op, s.message[k].op),
             Into(job.op) \/ Len(job.text) + Cardinality(upto(i)) <= MaxText
      PROVE  i \in T
  BY <1>3 DEF Taken
<1>4. \A i \in same : IsFiniteSet(upto(i)) /\ Cardinality(upto(i)) \in Nat
  <2> SUFFICES ASSUME NEW i \in same PROVE IsFiniteSet(upto(i)) /\ Cardinality(upto(i)) \in Nat
    OBVIOUS
  <2>1. IsFiniteSet(1 .. Len(s.message)) BY <1>1, FS_Interval
  <2>2. upto(i) \subseteq 1 .. Len(s.message) BY <1>1
  <2> HIDE DEF upto
  <2>3. IsFiniteSet(upto(i)) BY <2>1, <2>2, FS_Subset
  <2>. QED BY <2>3, FS_CardinalityType
<1>5. Len(job.text) \in Nat /\ MaxText \in Nat
  BY OutboxAssumption DEF Held, JobOK, JobRecord
<1>13. same \subseteq DOMAIN s.message /\ same \subseteq Nat BY <1>1
<1>14. \A i, k : k \in upto(i) <=> k \in same /\ k <= i OBVIOUS
<1>15. \A i \in T : i \in same BY <1>2
<1>16. \A k \in DOMAIN s.message : QueueOf(s.message[k].op) = QueueOf(job.op) <=> k \in same
  OBVIOUS
<1> HIDE DEF T, same, upto
<1>6. ASSUME NEW i \in T, NEW k \in same, k <= i PROVE k \in T
  <2>1. i \in same /\ i \in Nat /\ k \in Nat BY <1>13, <1>15
  <2>2. upto(k) \subseteq upto(i)
    <3> SUFFICES ASSUME NEW x \in upto(k) PROVE x \in upto(i)
      OBVIOUS
    <3>1. x \in same /\ x <= k /\ x \in Nat BY <1>13, <1>14
    <3>2. x <= i BY <1>6, <2>1, <3>1
    <3>. QED BY <1>14, <3>1, <3>2
  <2>3. Cardinality(upto(k)) <= Cardinality(upto(i))
    <3>. QED BY <1>4, <2>1, <2>2, FS_Subset
  <2>4. \A j \in upto(k) : Joins(job.op, s.message[j].op) BY <1>2, <2>2
  <2>5. Into(job.op) \/ Len(job.text) + Cardinality(upto(k)) <= MaxText
    <3>. QED BY <1>2, <1>4, <1>5, <2>1, <2>3
  <2>. QED BY <1>2, <1>3, <2>4, <2>5
<1>7. ASSUME NEW i \in T
      PROVE  /\ Alike(job.op, s.message[i].op) /\ s.message[i].op.merge
             /\ Len(s.message[i].text) = 1
  <2>1. Joins(job.op, s.message[i].op) BY <1>13, <1>14, <1>15, <1>2
  <2>2. i \in DOMAIN s.message BY <1>13, <1>15
  <2>3. Alike(job.op, s.message[i].op) /\ s.message[i].op.merge
    BY <2>1 DEF Joins, Alike, QueueOf, IsLine
  <2>4. NotTaken(job, s.message[i]) /\ JobOK(subs, s.message[i])
    BY <2>2 DEF Held, Queue, Lanes
  <2>5. QueueOf(job.op) = QueueOf(s.message[i].op) /\ ~job.plain
    BY <1>2, <1>15, <1>16, <2>2
  <2>6. ~(Len(s.message[i].text) > 1) BY <2>4, <2>5 DEF NotTaken
  <2>7. s.message[i].text \in Seq(Nat) /\ s.message[i].text # <<>>
    BY <2>4 DEF JobOK, JobRecord, TextOK
  <2>8. Len(s.message[i].text) \in Nat /\ Len(s.message[i].text) # 0 BY <2>7, EmptySeq
  <2>9. \A n \in Nat : n # 0 /\ ~(n > 1) => n = 1 OBVIOUS
  <2>. QED BY <2>3, <2>6, <2>8, <2>9
<1>8. ASSUME NEW i \in T PROVE upto(i) = {k \in T : k <= i} BY <1>6, <1>13, <1>14, <1>15
<1>9. T \subseteq DOMAIN s.message BY <1>13, <1>15
<1>10. ASSUME NEW i \in T, NEW k \in DOMAIN s.message, k < i,
              QueueOf(s.message[k].op) = QueueOf(job.op)
       PROVE  k \in T
  BY <1>13, <1>15, <1>16, <1>10, <1>6
<1>11. ASSUME NEW i \in T
       PROVE  Into(job.op) \/ Len(job.text) + Cardinality({k \in T : k <= i}) <= MaxText
  BY <1>2, <1>8
<1>12. Taking(s, job, T) BY <1>7, <1>9, <1>10, <1>11 DEF Taking
<1>. QED BY <1>12 DEF T

LEMMA LineAhead ==
  ASSUME NEW a, NEW b, a.op \in Op, b.op \in Op, Alike(a.op, b.op), IsLine(a.op), b.op.merge,
         Ahead(a, b)
  PROVE  Last(a.text) < b.at
BY OpFacts DEF Metered, Into, IsLine, Rivals, Alike, Ahead

LEMMA SeqConcatIs ==
  ASSUME NEW S, NEW f \in Seq(S), NEW g \in Seq(S)
  PROVE  /\ \A i \in 1 .. Len(f) : (f \o g)[i] = f[i]
         /\ \A i \in 1 .. Len(g) : (f \o g)[Len(f) + i] = g[i]
OBVIOUS

LEMMA SingleText ==
  ASSUME NEW S, NEW text \in Seq(S), Len(text) = 1
  PROVE  text = <<text[1]>> /\ Last(text) = text[1]
BY DEF Last

(* The texts of the lines that are taken in, each of them a job's own.     *)
Singles(next) ==
  /\ \A k \in DOMAIN next : Len(next[k].text) = 1
  /\ \A j, k \in DOMAIN next : j < k => next[j].text[1] < next[k].text[1]

TextsOf(next) == FlattenSeq([k \in DOMAIN next |-> next[k].text])

TextsOK(next, texts) ==
  /\ texts \in Seq(Nat) /\ texts # <<>> /\ Increasing(texts)
  /\ Last(texts) = Last(Last(next).text) /\ Len(texts) <= Len(next)
  /\ \A i \in DOMAIN texts : \E k \in DOMAIN next : texts[i] = next[k].text[1]

LEMMA TextsAre ==
  ASSUME NEW next \in Seq(JobRecord), next # <<>>, Singles(next),
         NEW texts, texts = TextsOf(next)
  PROVE  TextsOK(next, texts)
<1> USE DEF Singles
<1> DEFINE ss == [k \in DOMAIN next |-> next[k].text]
           m == Len(next)
<1>1. m \in Nat \ {0} /\ DOMAIN next = 1 .. m BY EmptySeq
<1>2. \A k \in DOMAIN next : next[k].text \in Seq(Nat)
  <2>1. \A k \in DOMAIN next : next[k] \in JobRecord OBVIOUS
  <2>. QED BY <2>1 DEF JobRecord
<1>3. ss \in Seq(Seq(Nat)) /\ Len(ss) = m /\ DOMAIN ss = 1 .. m BY <1>1, <1>2
<1>4. \A k \in 1 .. m : ss[k] = <<next[k].text[1]>> BY <1>1, <1>2, SingleText
<1>5. Short(Nat, ss)
  <2>1. \A k \in DOMAIN next : ss[k] = next[k].text OBVIOUS
  <2>3. DOMAIN ss = DOMAIN next OBVIOUS
  <2> HIDE DEF ss
  <2>2. \A k \in DOMAIN next : Len(ss[k]) <= 1
    <3>1. 1 <= 1 OBVIOUS
    <3>. QED BY <2>1, <3>1
  <2>. QED BY <1>3, <2>2, <2>3 DEF Short
<1>6. texts = FlattenSeq(ss) BY DEF TextsOf
<1> HIDE DEF ss
<1>7. PICK g : texts \in Seq(Nat) /\ Picks(texts, ss, m, g)
  BY <1>3, <1>5, <1>6, Flattened
<1>8. DOMAIN texts = 1 .. Len(texts) /\ Len(texts) \in Nat BY <1>7
<1>9. ASSUME NEW i \in DOMAIN texts
      PROVE  g[i] \in 1 .. m /\ texts[i] = next[g[i]].text[1]
  BY <1>7, <1>4 DEF Picks
<1>10. Increasing(texts)
  <2> SUFFICES ASSUME NEW i \in DOMAIN texts, NEW j \in DOMAIN texts, i < j
               PROVE  texts[i] < texts[j]
    BY DEF Increasing
  <2>1. g[i] < g[j] BY <1>7 DEF Picks
  <2>. QED BY <1>1, <1>9, <2>1
<1>11. PICK z \in DOMAIN texts : g[z] = m
  <2>1. m \in 1 .. m BY <1>1
  <2>2. ss[m] # <<>> BY <1>4, <2>1
  <2>. QED BY <1>7, <2>1, <2>2 DEF Picks
<1>12. Len(texts) \in DOMAIN texts /\ texts # <<>> BY <1>8, <1>11
<1>13. g[Len(texts)] = m
  <2>1. z = Len(texts) \/ z < Len(texts) BY <1>8
  <2>2. z < Len(texts) => g[z] < g[Len(texts)] BY <1>7, <1>12 DEF Picks
  <2>3. g[Len(texts)] \in 1 .. m BY <1>9, <1>12
  <2>. QED BY <1>1, <1>11, <2>1, <2>2, <2>3
<1>14. Last(texts) = Last(Last(next).text)
  BY <1>1, <1>12, <1>9, <1>13, <1>2, SingleText DEF Last
<1>15. Len(texts) <= m
  <2>1. g \in Injection(1 .. Len(texts), 1 .. m)
    <3>1. g \in [1 .. Len(texts) -> 1 .. m] BY <1>7, <1>8 DEF Picks
    <3>2. ASSUME NEW i \in 1 .. Len(texts), NEW j \in 1 .. Len(texts), g[i] = g[j]
          PROVE  i = j
      <4>1. i < j => g[i] < g[j] BY <1>7, <1>8 DEF Picks
      <4>2. j < i => g[j] < g[i] BY <1>7, <1>8 DEF Picks
      <4>3. g[i] \in Nat /\ g[j] \in Nat BY <3>1
      <4>. QED BY <1>8, <3>2, <4>1, <4>2, <4>3
    <3>. QED BY <3>1, <3>2 DEF Injection, IsInjective
  <2>2. IsFiniteSet(1 .. m) /\ Cardinality(1 .. m) = m
        /\ IsFiniteSet(1 .. Len(texts)) /\ Cardinality(1 .. Len(texts)) = Len(texts)
    <3>1. \A n \in Nat : IsFiniteSet(1 .. n) /\ Cardinality(1 .. n) = n
      <4> TAKE n \in Nat
      <4>1. 1 \in Int /\ n \in Int OBVIOUS
      <4>2. IsFiniteSet(1 .. n) /\ Cardinality(1 .. n) = IF 1 > n THEN 0 ELSE n - 1 + 1
        BY <4>1, FS_Interval
      <4>. QED BY <4>2
    <3>. QED BY <1>1, <1>8, <3>1
  <2>3. Cardinality(1 .. Len(texts)) <= Cardinality(1 .. m) BY <2>1, <2>2, FS_Injection
  <2>. QED BY <2>2, <2>3
<1>16. \A i \in DOMAIN texts : \E k \in DOMAIN next : texts[i] = next[k].text[1]
  BY <1>1, <1>9
<1>. QED BY <1>7, <1>10, <1>12, <1>14, <1>15, <1>16 DEF TextsOK

(* The lines that are taken, in order.                                     *)
NextOK(subs, s, job, T, next) ==
  /\ next \in Seq(JobRecord) /\ next # <<>>
  /\ \A k \in DOMAIN next :
       /\ JobOK(subs, next[k]) /\ Len(next[k].text) = 1 /\ Alike(job.op, next[k].op)
       /\ Last(job.text) < next[k].text[1]
       /\ \E i \in T : next[k] = s.message[i]
  /\ \A j, k \in DOMAIN next : j < k => next[j].text[1] < next[k].text[1]
  /\ \E i \in T : /\ Last(next) = s.message[i] /\ \A k \in T : k <= i
                  /\ Into(job.op) \/ Len(job.text) + Len(next) <= MaxText

LEMMA NextIs ==
  ASSUME NEW subs, Legal(subs), NEW E, NEW N, NEW s \in QueueRecord(N), Queue(subs, E, s),
         NEW job, Held(subs, E, s, "message", job), job.op.merge,
         NEW T, T # {}, Taking(s, job, T),
         NEW next, next = Kept(s.message, DOMAIN s.message \ T)
  PROVE  NextOK(subs, s, job, T, next)
<1> DEFINE D == DOMAIN s.message
<1>1. s.message \in Seq(JobRecord) /\ T \subseteq D /\ D \subseteq Nat
      /\ D = 1 .. Len(s.message) /\ Len(s.message) \in Nat
  BY DEF QueueRecord, Taking
<1>2. D \ (D \ T) = T BY <1>1
<1> HIDE DEF D
<1>3. PICK g : next \in Seq(JobRecord) /\ Keeps(s.message, D \ T, next, g)
  BY <1>1, KeptIs DEF D
<1>4. /\ g \in [DOMAIN next -> T] /\ \A i \in T : \E k \in DOMAIN next : g[k] = i
      /\ \A k \in DOMAIN next : next[k] = s.message[g[k]]
      /\ \A j, k \in DOMAIN next : j < k => g[j] < g[k]
  BY <1>2, <1>3 DEF Keeps, D
<1>5. next # <<>> /\ Len(next) \in Nat /\ Len(next) \in DOMAIN next /\ DOMAIN next = 1 .. Len(next)
  <2>1. PICK k \in DOMAIN next : TRUE BY <1>4
  <2>. QED BY <1>3, <2>1
<1>6. job.op \in Op /\ subs \in Seq(Op) BY DEF Held, JobOK, JobRecord, Legal
<1>7. ASSUME NEW k \in DOMAIN next
      PROVE  /\ JobOK(subs, next[k]) /\ Len(next[k].text) = 1 /\ Alike(job.op, next[k].op)
             /\ next[k].op.merge /\ IsLine(next[k].op) /\ next[k].op \in Op
             /\ next[k].at <= next[k].text[1] /\ next[k].text[1] = Last(next[k].text)
             /\ next[k].text[1] \in Nat /\ next[k].at \in Nat
             /\ Last(job.text) < next[k].at /\ Last(job.text) \in Nat
  <2>1. g[k] \in T /\ g[k] \in DOMAIN s.message /\ next[k] = s.message[g[k]]
    BY <1>1, <1>4 DEF D
  <2>2. JobOK(subs, next[k]) /\ Ahead(job, next[k]) BY <2>1 DEF Queue, Held, Lanes
  <2>3. Len(next[k].text) = 1 /\ Alike(job.op, next[k].op) /\ next[k].op.merge
    BY <2>1 DEF Taking
  <2>4. next[k].op \in Op /\ next[k].text \in Seq(Nat) /\ next[k].at \in Nat
        /\ next[k].at <= next[k].text[1]
    BY <2>2 DEF JobOK, JobRecord
  <2>5. IsLine(next[k].op) /\ IsLine(job.op) BY <2>3, <2>4, AlikeFacts DEF Op
  <2>6. next[k].text[1] = Last(next[k].text) /\ next[k].text[1] \in Nat
    BY <2>3, <2>4, SingleText
  <2>7. Last(job.text) < next[k].at BY <1>6, <2>2, <2>3, <2>4, <2>5, LineAhead
  <2>8. Last(job.text) \in Nat BY <1>6, NewestOfJob DEF Held
  <2>. QED BY <2>2, <2>3, <2>4, <2>5, <2>6, <2>7, <2>8
<1>8. ASSUME NEW j \in DOMAIN next, NEW k \in DOMAIN next, j < k
      PROVE  next[j].text[1] < next[k].text[1]
  <2>1. g[j] < g[k] /\ g[j] \in DOMAIN s.message /\ g[k] \in DOMAIN s.message
    BY <1>1, <1>4, <1>8 DEF D
  <2>2. Ahead(next[j], next[k]) BY <1>4, <2>1 DEF Queue, InLine
  <2>3. Alike(next[j].op, next[k].op) BY <1>7 DEF Alike
  <2>4. Last(next[j].text) < next[k].at BY <1>7, <2>2, <2>3, LineAhead
  <2>. QED BY <1>7, <2>4
<1>9. ASSUME NEW k \in DOMAIN next PROVE \E i \in T : next[k] = s.message[i] BY <1>4
<1>10. \E i \in T : /\ Last(next) = s.message[i] /\ \A k \in T : k <= i
                    /\ Into(job.op) \/ Len(job.text) + Len(next) <= MaxText
  <2> DEFINE z == g[Len(next)]
             U == {k \in T : k <= z}
  <2>1. z \in T /\ z \in Nat /\ Last(next) = s.message[z] BY <1>1, <1>4, <1>5 DEF Last
  <2>2. ASSUME NEW k \in T PROVE k <= z
    <3>1. PICK j \in DOMAIN next : g[j] = k BY <1>4
    <3>2. j = Len(next) \/ j < Len(next) BY <1>5
    <3>3. j < Len(next) => g[j] < z BY <1>4, <1>5
    <3>. QED BY <1>1, <2>1, <3>1, <3>2, <3>3
  <2>3. U = T BY <2>2
  <2> HIDE DEF U, z
  <2>4. Into(job.op) \/ Len(job.text) + Cardinality(U) <= MaxText BY <2>1 DEF Taking, U
  <2>5. IsFiniteSet(T) /\ Cardinality(T) \in Nat
    <3>1. IsFiniteSet(1 .. Len(s.message)) BY <1>1, FS_Interval
    <3>2. IsFiniteSet(T) BY <1>1, <3>1, FS_Subset
    <3>. QED BY <3>2, FS_CardinalityType
  <2>6. g \in Injection(1 .. Len(next), T)
    <3>1. g \in [1 .. Len(next) -> T] BY <1>4, <1>5
    <3>2. ASSUME NEW i \in 1 .. Len(next), NEW j \in 1 .. Len(next), g[i] = g[j]
          PROVE  i = j
      <4>1. (i < j => g[i] < g[j]) /\ (j < i => g[j] < g[i]) BY <1>4, <1>5
      <4>2. g[i] \in Nat /\ g[j] \in Nat BY <1>1, <3>1
      <4>. QED BY <1>5, <3>2, <4>1, <4>2
    <3>. QED BY <3>1, <3>2 DEF Injection, IsInjective
  <2>7. Cardinality(1 .. Len(next)) <= Cardinality(T) BY <2>5, <2>6, FS_Injection
  <2>8. Cardinality(1 .. Len(next)) = Len(next)
    <3>1. 1 \in Int /\ Len(next) \in Int BY <1>5
    <3>2. Cardinality(1 .. Len(next)) = IF 1 > Len(next) THEN 0 ELSE Len(next) - 1 + 1
      BY <3>1, FS_Interval
    <3>. QED BY <1>5, <3>2
  <2>9. Len(job.text) \in Nat /\ MaxText \in Nat
    BY OutboxAssumption DEF Held, JobOK, JobRecord
  <2>10. Into(job.op) \/ Len(job.text) + Len(next) <= MaxText
    <3>1. Cardinality(U) = Cardinality(T) /\ Len(next) <= Cardinality(T)
      BY <2>3, <2>7, <2>8
    <3>2. \A a, b, c, d \in Nat : a + b <= c /\ d <= b => a + d <= c OBVIOUS
    <3>. QED BY <1>5, <2>4, <2>5, <2>9, <3>1, <3>2
  <2>. QED BY <2>1, <2>2, <2>10
<1>11. ASSUME NEW k \in DOMAIN next PROVE Last(job.text) < next[k].text[1] BY <1>7
<1>. QED BY <1>3, <1>5, <1>7, <1>8, <1>9, <1>10, <1>11 DEF NextOK

(* The text of a merge line that took others in.                           *)
JoinedText(job, next) ==
  IF Into(job.op) THEN Last(next).text
  ELSE job.text \o TextsOf(next)

(* What a merge line becomes that took others in.                          *)
Became(job, hand, text, waiters) ==
  /\ hand \in JobRecord /\ hand.at = job.at /\ hand.text = text /\ hand.plain = job.plain
  /\ hand.live = job.live /\ hand.reply = job.reply /\ hand.merged = job.merged \cup waiters
  /\ Alike(job.op, hand.op) /\ hand.op.prompt = job.op.prompt
  /\ hand.op.merge = job.op.merge /\ hand.op.restart = job.op.restart

Changed(job, text, form, waiters) ==
  [job EXCEPT !.text = text, !.op.form = form, !.merged = @ \cup waiters]

LEMMA FormIs ==
  ASSUME NEW job \in JobRecord, NEW text \in Seq(Nat), NEW form \in {"rich", "html", "plain"},
         NEW waiters \in SUBSET Nat
  PROVE  Became(job, Changed(job, text, form, waiters), text, waiters)
<1> DEFINE h == Changed(job, text, form, waiters)
<1>1. job.op \in Op /\ job.op \in OpRecord BY DEF JobRecord, Op
<1> DEFINE o == [job.op EXCEPT !.form = form]
<1>2. o \in OpRecord BY <1>1 DEF OpRecord
<1>3. /\ Alike(job.op, o) /\ o.prompt = job.op.prompt /\ o.merge = job.op.merge
      /\ o.restart = job.op.restart /\ o.status = job.op.status /\ o.before = job.op.before
      /\ o.kind = job.op.kind /\ o.place = job.op.place /\ o.msg = job.op.msg
  BY <1>1 DEF OpRecord, Alike
<1> HIDE DEF o
<1>4. o \in Op BY <1>1, <1>2, <1>3 DEF Op, IsLine, Metered
<1>5. h = [job EXCEPT !.text = text, !.op = o, !.merged = job.merged \cup waiters]
  BY DEF JobRecord, o, Changed
<1>6. job.merged \cup waiters \in SUBSET Nat BY DEF JobRecord
<1> HIDE DEF h
<1>7. /\ h \in JobRecord /\ h.op = o /\ h.text = text /\ h.merged = job.merged \cup waiters
      /\ h.at = job.at /\ h.plain = job.plain /\ h.live = job.live /\ h.reply = job.reply
  BY <1>4, <1>5, <1>6 DEF JobRecord
<1>8. Became(job, h, text, waiters) BY <1>3, <1>7 DEF Became
<1>. QED BY <1>8 DEF h

WaitersOf(next) == UNION {Waiters(next[k]) : k \in DOMAIN next}

LEMMA JoinedBecomes ==
  ASSUME NEW s, NEW job \in JobRecord, NEW T, T # {}, NEW next \in Seq(JobRecord),
         next # <<>>, next = Kept(s.message, DOMAIN s.message \ T),
         NEW text \in Seq(Nat), text = JoinedText(job, next),
         NEW hand, hand = Joined(s, job, T)
  PROVE  Became(job, hand, text, WaitersOf(next))
<1> DEFINE forms == {job.op.form} \cup {next[k].op.form : k \in DOMAIN next}
           form == IF Into(job.op) THEN Last(next).op.form ELSE JoinedForm(forms)
<1>1. Len(next) \in DOMAIN next /\ Last(next) = next[Len(next)] BY EmptySeq DEF Last
<1>2. Last(next).op \in OpRecord
  <2>1. Last(next) \in JobRecord BY <1>1
  <2>. QED BY <2>1 DEF JobRecord, Op
<1>3. form \in {"rich", "html", "plain"}
  <2>1. Last(next).op.form \in {"rich", "html", "plain"} BY <1>2 DEF OpRecord
  <2> HIDE DEF forms
  <2>2. JoinedForm(forms) \in {"rich", "html", "plain"} BY DEF JoinedForm
  <2>. QED BY <2>1, <2>2
<1>4. WaitersOf(next) \in SUBSET Nat
  <2> SUFFICES ASSUME NEW k \in DOMAIN next PROVE Waiters(next[k]) \subseteq Nat
    BY DEF WaitersOf
  <2>1. next[k] \in JobRecord OBVIOUS
  <2>. QED BY <2>1 DEF JobRecord, Waiters
<1>5. hand = [job EXCEPT !.text = IF Into(job.op) THEN Last(next).text
                                  ELSE job.text \o FlattenSeq([k \in DOMAIN next |-> next[k].text]),
                         !.op.form = form, !.merged = @ \cup WaitersOf(next)]
  BY DEF Joined, WaitersOf
<1> HIDE DEF form
<1>6. hand = Changed(job, text, form, WaitersOf(next))
  BY <1>5 DEF JoinedText, TextsOf, Changed
<1>. QED BY <1>3, <1>4, <1>6, FormIs

JoinedTextOK(subs, s, job, T, text) ==
  /\ text \in Seq(Nat) /\ TextOK(subs, job.op, text) /\ Len(text) <= MaxText
  /\ job.at <= text[1]
  /\ \E i \in T : (\A k \in T : k <= i) /\ Last(text) = Last(s.message[i].text)

LEMMA JoinedTextIs ==
  ASSUME NEW subs, Legal(subs), NEW E, NEW N, NEW s \in QueueRecord(N), Queue(subs, E, s),
         NEW job, Held(subs, E, s, "message", job), job.op.merge,
         NEW T, T # {}, Taking(s, job, T),
         NEW next, next = Kept(s.message, DOMAIN s.message \ T),
         NEW text, text = JoinedText(job, next)
  PROVE  JoinedTextOK(subs, s, job, T, text)
<1>1. /\ next \in Seq(JobRecord) /\ next # <<>>
      /\ \A k \in DOMAIN next :
           /\ JobOK(subs, next[k]) /\ Len(next[k].text) = 1 /\ Alike(job.op, next[k].op)
           /\ Last(job.text) < next[k].text[1]
           /\ \E i \in T : next[k] = s.message[i]
      /\ \A j, k \in DOMAIN next : j < k => next[j].text[1] < next[k].text[1]
      /\ \E i \in T : /\ Last(next) = s.message[i] /\ \A k \in T : k <= i
                      /\ Into(job.op) \/ Len(job.text) + Len(next) <= MaxText
  <2>1. NextOK(subs, s, job, T, next) BY NextIs
  <2>. QED BY <2>1 DEF NextOK
<1>2. PICK z \in T : /\ Last(next) = s.message[z] /\ \A k \in T : k <= z
                     /\ Into(job.op) \/ Len(job.text) + Len(next) <= MaxText
  BY <1>1
<1>3. subs \in Seq(Op) /\ JobOK(subs, job) BY DEF Legal, Held
<1>4. /\ Last(job.text) \in Nat /\ job.text \in Seq(Nat) /\ job.at \in Nat /\ job.op \in Op
      /\ job.at <= Last(job.text) /\ Last(job.text) = job.text[Len(job.text)]
      /\ Len(job.text) \in DOMAIN job.text
  BY <1>3, NewestOfJob
<1>5. Len(next) \in Nat /\ Len(next) \in DOMAIN next /\ Last(next) = next[Len(next)]
  BY <1>1, EmptySeq DEF Last
<1>6. \A k \in DOMAIN next :
        /\ next[k].text \in Seq(Nat) /\ TextOK(subs, next[k].op, next[k].text)
        /\ next[k].text[1] \in Nat /\ 1 \in DOMAIN next[k].text
        /\ next[k].text[1] \in 1 .. Len(subs) /\ Alike(subs[next[k].text[1]], next[k].op)
  <2> SUFFICES ASSUME NEW k \in DOMAIN next
               PROVE  /\ next[k].text \in Seq(Nat) /\ TextOK(subs, next[k].op, next[k].text)
                      /\ next[k].text[1] \in Nat /\ 1 \in DOMAIN next[k].text
                      /\ next[k].text[1] \in 1 .. Len(subs)
                      /\ Alike(subs[next[k].text[1]], next[k].op)
    OBVIOUS
  <2>1. JobOK(subs, next[k]) BY <1>1
  <2>2. next[k].text \in Seq(Nat) /\ TextOK(subs, next[k].op, next[k].text)
    BY <2>1 DEF JobOK, JobRecord
  <2>3. 1 \in DOMAIN next[k].text /\ next[k].text[1] \in Nat BY <1>3, <2>2, Newest
  <2>. QED BY <2>2, <2>3 DEF TextOK
<1>7. \A o : Alike(job.op, o) => \A p : Alike(p, o) => Alike(p, job.op) BY DEF Alike
<1>8. CASE Into(job.op)
  <2>1. text = Last(next).text /\ text = next[Len(next)].text
    BY <1>5, <1>8 DEF JoinedText
  <2>2. text \in Seq(Nat) /\ TextOK(subs, next[Len(next)].op, text) BY <1>5, <1>6, <2>1
  <2>3. TextOK(subs, job.op, text) BY <1>1, <1>5, <1>7, <2>2 DEF TextOK
  <2>4. Len(text) <= MaxText BY <1>1, <1>5, <2>1 DEF JobOK
  <2>5. job.at <= text[1]
    <3>1. Last(job.text) < next[Len(next)].text[1] /\ next[Len(next)].text[1] \in Nat
      BY <1>1, <1>5, <1>6
    <3>. QED BY <1>4, <2>1, <3>1
  <2>6. (\A k \in T : k <= z) /\ Last(text) = Last(s.message[z].text) BY <1>2, <2>1
  <2>. QED BY <2>2, <2>3, <2>4, <2>5, <2>6 DEF JoinedTextOK
<1>9. CASE ~Into(job.op)
  <2>1. PICK texts : texts = TextsOf(next) OBVIOUS
  <2>2. /\ texts \in Seq(Nat) /\ texts # <<>> /\ Increasing(texts)
        /\ Last(texts) = Last(Last(next).text) /\ Len(texts) <= Len(next)
        /\ \A i \in DOMAIN texts : \E k \in DOMAIN next : texts[i] = next[k].text[1]
    <3>1. Singles(next) /\ next \in Seq(JobRecord) /\ next # <<>> BY <1>1 DEF Singles
    <3>2. TextsOK(next, texts) BY <2>1, <3>1, TextsAre
    <3>. QED BY <3>2 DEF TextsOK
  <2>3. text = job.text \o texts BY <1>9, <2>1 DEF JoinedText
  <2> DEFINE a == Len(job.text)
             b == Len(texts)
  <2>4. a \in Nat \ {0} /\ b \in Nat \ {0} /\ DOMAIN texts = 1 .. b /\ DOMAIN job.text = 1 .. a
    BY <1>4, <2>2, EmptySeq
  <2>5. text \in Seq(Nat) /\ Len(text) = a + b /\ DOMAIN text = 1 .. a + b
    <3>1. job.text \in Seq(Nat) /\ texts \in Seq(Nat) BY <1>4, <2>2
    <3>2. job.text \o texts \in Seq(Nat) /\ Len(job.text \o texts) = Len(job.text) + Len(texts)
      BY <3>1, ConcatProperties
    <3>3. text \in Seq(Nat) /\ Len(text) = a + b BY <2>3, <3>2
    <3> HIDE DEF a, b
    <3>. QED BY <3>3
  <2>6. /\ \A i \in 1 .. a : text[i] = job.text[i]
        /\ \A i \in 1 .. b : text[a + i] = texts[i]
    <3>1. job.text \in Seq(Nat) /\ texts \in Seq(Nat) BY <1>4, <2>2
    <3>2. /\ \A i \in 1 .. Len(job.text) : (job.text \o texts)[i] = job.text[i]
          /\ \A i \in 1 .. Len(texts) : (job.text \o texts)[Len(job.text) + i] = texts[i]
      BY <3>1, SeqConcatIs
    <3>. QED BY <2>3, <3>2
  <2> HIDE DEF a, b
  <2>7. ASSUME NEW i \in 1 .. b
        PROVE  /\ texts[i] \in 1 .. Len(subs) /\ Alike(subs[texts[i]], job.op)
               /\ Last(job.text) < texts[i]
    <3>1. PICK k \in DOMAIN next : texts[i] = next[k].text[1] BY <2>2, <2>4
    <3>. QED BY <1>1, <1>6, <1>7, <3>1
  <2>8. ASSUME NEW i \in 1 .. a + b
        PROVE  (i \in 1 .. a) \/ (i - a \in 1 .. b /\ a + (i - a) = i)
    BY <2>4
  <2>9. ASSUME NEW i \in DOMAIN text
        PROVE  text[i] \in 1 .. Len(subs) /\ Alike(subs[text[i]], job.op)
    <3>1. CASE i \in 1 .. a BY <1>3, <2>4, <2>6, <3>1 DEF JobOK, TextOK
    <3>2. CASE i - a \in 1 .. b /\ a + (i - a) = i BY <2>6, <2>7, <3>2, ZenonT(60)
    <3>. QED BY <2>5, <2>8, <3>1, <3>2
  <2>10. ASSUME NEW i \in 1 .. a PROVE text[i] <= Last(job.text) /\ text[i] \in Nat
    <3>1. i = a \/ i < a BY <2>4
    <3>2. Increasing(job.text) BY <1>3 DEF JobOK, TextOK
    <3>3. i < a => job.text[i] < job.text[a] BY <2>4, <3>2 DEF Increasing
    <3>4. Last(job.text) = job.text[a] /\ job.text[i] \in Nat BY <1>4, <2>4 DEF a
    <3>5. job.text[a] \in Nat /\ text[i] = job.text[i] BY <2>6, <1>4, <3>4
    <3>. QED BY <3>1, <3>3, <3>4, <3>5
  <2>11. Increasing(text)
    <3> SUFFICES ASSUME NEW i \in 1 .. a + b, NEW j \in 1 .. a + b, i < j
                 PROVE  text[i] < text[j]
      BY <2>5 DEF Increasing
    <3>1. CASE i \in 1 .. a /\ j \in 1 .. a
      BY <1>3, <2>4, <2>6, <3>1 DEF JobOK, TextOK, Increasing
    <3>2. CASE i \in 1 .. a /\ j - a \in 1 .. b /\ a + (j - a) = j
      <4>1. text[i] <= Last(job.text) /\ text[i] \in Nat BY <2>10, <3>2
      <4>2. text[j] = texts[j - a] /\ Last(job.text) < texts[j - a] /\ texts[j - a] \in Nat
        <5>1. text[a + (j - a)] = texts[j - a] BY <2>6, <3>2
        <5>2. texts[j - a] \in Nat BY <2>2, <2>4, <3>2
        <5>. QED BY <2>7, <3>2, <5>1, <5>2
      <4>. QED BY <1>4, <4>1, <4>2
    <3>3. CASE i - a \in 1 .. b /\ a + (i - a) = i /\ j - a \in 1 .. b /\ a + (j - a) = j
      <4>1. i - a < j - a BY <2>4
      <4>2. texts[i - a] < texts[j - a] BY <2>2, <2>4, <3>3, <4>1 DEF Increasing
      <4>. QED BY <2>6, <3>3, <4>2
    <3>4. ~(i - a \in 1 .. b /\ j \in 1 .. a) BY <2>4
    <3>. QED BY <2>8, <3>1, <3>2, <3>3, <3>4
  <2>12. text # <<>> /\ 1 \in 1 .. a BY <2>4, <2>5
  <2>13. TextOK(subs, job.op, text) BY <2>9, <2>11, <2>12 DEF TextOK
  <2>14. Len(text) <= MaxText
    <3>1. a + Len(next) <= MaxText /\ MaxText \in Nat
      BY <1>2, <1>9, OutboxAssumption DEF a
    <3>2. b <= Len(next) BY <2>2 DEF b
    <3>. QED BY <1>5, <2>4, <2>5, <3>1, <3>2
  <2>15. job.at <= text[1] BY <1>3, <2>6, <2>12 DEF JobOK
  <2>16. Last(text) = Last(s.message[z].text)
    <3>1. Last(text) = text[a + b] BY <2>5 DEF Last
    <3>2. text[a + b] = texts[b]
      <4>1. b \in 1 .. b BY <2>4
      <4>. QED BY <2>6, <4>1
    <3>3. texts[b] = Last(texts) BY DEF Last, b
    <3>. QED BY <1>2, <2>2, <3>1, <3>2, <3>3
  <2>. QED BY <1>2, <2>5, <2>13, <2>14, <2>15, <2>16 DEF JoinedTextOK
<1>. QED BY <1>8, <1>9

LEMMA JoinedIs ==
  ASSUME NEW subs, Legal(subs), NEW E, NEW N, NEW s \in QueueRecord(N), Queue(subs, E, s),
         NEW job, Held(subs, E, s, "message", job), job.op.merge,
         NEW T, T = Taken(s, job),
         NEW t, t = WithLane(s, "message", Kept(s.message, T)),
         NEW hand, hand = Joined(s, job, T)
  PROVE  /\ t \in QueueRecord(N) /\ Queue(subs, E, t) /\ Held(subs, E, t, "message", hand)
         /\ Alike(job.op, hand.op) /\ hand.op.merge
<1>1. "message" \in Lanes /\ subs \in Seq(Op) BY DEF Lanes, Legal
<1>2. /\ t \in QueueRecord(N) /\ Thins(s, t) /\ Lost(s, t, "message", T) BY <1>1, Unlaned
<1>3. PICK g : s.message \in Seq(JobRecord) /\ Keeps(s.message, T, t.message, g)
  BY <1>2, KeptIs DEF Lost, QueueRecord
<1>4. t.broken = s.broken /\ \A l \in Lanes \ {"message"} : t[l] = s[l]
  BY <1>2 DEF Lost, Elsewhere
<1>5. ASSUME NEW i \in DOMAIN t.message
      PROVE  /\ g[i] \in DOMAIN s.message /\ g[i] \notin T /\ t.message[i] = s.message[g[i]]
             /\ Unbroken(t, t.message[i])
  BY <1>3, <1>4 DEF Keeps, Queue, Unbroken
<1>6. Queue(subs, E, t) BY <1>2, <1>5, Thinned
<1>7. /\ JobOK(subs, job) /\ job \in JobRecord /\ job.op \in Op /\ Lane(job.op) = "message"
      /\ Unbroken(s, job) /\ \A e \in E : Ahead(e, job)
  BY DEF Held, JobOK, JobRecord
<1>8. CASE T = {}
  BY <1>8, <1>7, LikeItself, <1>4, <1>2, HeldThinned, <1>6 DEF Joined, Unbroken, Alike
<1>9. CASE T # {}
  <2>1. Taking(s, job, T) BY <1>1, TakenIs
  <2>2. PICK next : next = Kept(s.message, DOMAIN s.message \ T) OBVIOUS
  <2>3. PICK text : text = JoinedText(job, next) OBVIOUS
  <2>4. NextOK(subs, s, job, T, next) BY <1>9, <2>1, <2>2, NextIs
  <2>5. /\ text \in Seq(Nat) /\ TextOK(subs, job.op, text) /\ Len(text) <= MaxText
        /\ job.at <= text[1]
        /\ \E i \in T : (\A k \in T : k <= i) /\ Last(text) = Last(s.message[i].text)
    <3>1. JoinedTextOK(subs, s, job, T, text) BY <1>9, <2>1, <2>2, <2>3, JoinedTextIs
    <3>. QED BY <3>1 DEF JoinedTextOK
  <2>6. PICK z \in T : (\A k \in T : k <= z) /\ Last(text) = Last(s.message[z].text)
    BY <2>5
  <2>7. z \in DOMAIN s.message /\ z \in Nat /\ Alike(job.op, s.message[z].op)
        /\ s.message[z].op.merge
    <3>1. z \in DOMAIN s.message /\ Alike(job.op, s.message[z].op) /\ s.message[z].op.merge
      BY <2>1 DEF Taking
    <3>2. z \in Nat BY <1>3, <3>1
    <3>. QED BY <3>1, <3>2
  <2>8. Became(job, hand, text, WaitersOf(next))
    BY <1>7, <1>9, <2>2, <2>3, <2>4, <2>5, JoinedBecomes DEF NextOK
  <2>9. /\ hand \in JobRecord /\ hand.at = job.at /\ hand.text = text /\ hand.plain = job.plain
        /\ hand.live = job.live /\ hand.reply = job.reply
        /\ hand.merged = job.merged \cup WaitersOf(next)
        /\ Alike(job.op, hand.op) /\ hand.op.prompt = job.op.prompt
        /\ hand.op.merge = job.op.merge /\ hand.op.restart = job.op.restart
    BY <2>8 DEF Became
  <2>10. hand.op \in Op BY <2>9 DEF JobRecord
  <2>11. /\ Lane(hand.op) = "message" /\ QueueOf(hand.op) = QueueOf(job.op)
         /\ IsLine(hand.op) = IsLine(job.op) /\ hand.op.place = job.op.place
    BY <1>7, <2>9, AlikeFacts DEF Alike
  <2>12. Waiters(hand) \cup {hand.live} \subseteq 0 .. Len(subs)
    <3>1. Waiters(hand) \subseteq Waiters(job) \cup WaitersOf(next)
      BY <2>9 DEF WaitersOf, Waiters
    <3>2. WaitersOf(next) \subseteq 0 .. Len(subs)
      <4> SUFFICES ASSUME NEW k \in DOMAIN next PROVE Waiters(next[k]) \subseteq 0 .. Len(subs)
        BY DEF WaitersOf
      <4>1. JobOK(subs, next[k]) BY <2>4 DEF NextOK
      <4>. QED BY <4>1 DEF JobOK
    <3>. QED BY <1>7, <2>9, <3>1, <3>2 DEF JobOK
  <2>13. TextOK(subs, hand.op, hand.text) BY <2>9, <2>5 DEF Alike, TextOK
  <2>14. JobOK(subs, hand) BY <1>7, <2>9, <2>5, <2>12, <2>13 DEF JobOK, Alike
  <2>15. Unbroken(t, hand) BY <1>4, <1>7, <2>11 DEF Unbroken
  <2>16. ASSUME NEW e \in E PROVE Ahead(e, hand)
    BY <1>7, <2>9, AlikeFacts, <2>11 DEF Ahead
  <2>17. ASSUME NEW i \in DOMAIN t.message
         PROVE  /\ Ahead(hand, t.message[i]) /\ NotTaken(hand, t.message[i])
                /\ ~Overwrites(hand.op, t.message[i].op)
    <3> DEFINE j == g[i]
               y == s.message[j]
    <3>1. j \in DOMAIN s.message /\ j \notin T /\ t.message[i] = y BY <1>5
    <3>2. JobOK(subs, y) /\ Lane(y.op) = "message" /\ y.op \in Op
      BY <1>1, <3>1 DEF Queue, JobOK, JobRecord
    <3>3. NotTaken(job, y) /\ ~Overwrites(job.op, y.op) BY <3>1 DEF Held
    <3> HIDE DEF y, j
    <3>4. NotTaken(hand, y) BY <2>9, <2>11, <3>3 DEF NotTaken
    <3>5. ~Overwrites(hand.op, y.op) BY <2>9, <3>3, AlikeFacts
    <3>6. Ahead(hand, y)
      <4> SUFFICES ASSUME Rivals(hand.op, y.op) PROVE Ahead(hand, y)
        BY DEF Ahead
      <4>1. QueueOf(hand.op) = QueueOf(y.op) BY <2>11, <2>14, <3>2, RivalsOfLane
      <4>2. j \in Nat /\ ~(j < z)
        <5>1. j \in Nat BY <1>3, <3>1
        <5>2. j < z => j \in T BY <2>1, <2>11, <3>1, <4>1 DEF Taking, y
        <5>. QED BY <3>1, <5>1, <5>2
      <4>3. z < j BY <2>7, <3>1, <4>2
      <4>4. Ahead(s.message[z], y) BY <2>7, <3>1, <4>3 DEF Queue, InLine, y
      <4>5. Rivals(s.message[z].op, y.op) BY <2>9, AlikeFacts, <2>7
      <4>6. ~s.message[z].op.prompt BY <1>1, <2>7, OpFacts DEF Queue, JobOK, JobRecord
      <4>. QED BY <2>6, <2>9, <4>4, <4>5, <4>6 DEF Ahead
    <3>. QED BY <3>1, <3>4, <3>5, <3>6
  <2>18. ASSUME NEW i \in DOMAIN t.edit
         PROVE  /\ ~Overwrites(t.edit[i].op, hand.op) /\ ~Overwrites(hand.op, t.edit[i].op)
                /\ Ahead(hand, t.edit[i])
    <3>1. t.edit = s.edit BY <1>4 DEF Lanes
    <3>2. ~Overwrites(s.edit[i].op, job.op) /\ ~Overwrites(job.op, s.edit[i].op)
      BY <3>1 DEF Held
    <3>3. ~Overwrites(t.edit[i].op, hand.op) /\ ~Overwrites(hand.op, t.edit[i].op)
      BY <2>9, <3>1, <3>2, AlikeFacts
    <3>4. t.edit[i].op \in Op /\ Lane(t.edit[i].op) = "edit"
      BY <3>1 DEF Queue, JobOK, JobRecord, Lanes
    <3>5. ~Rivals(hand.op, t.edit[i].op) BY <2>10, <3>3, <3>4, RivalsApart
    <3>. QED BY <3>3, <3>5 DEF Ahead
  <2>19. ASSUME NEW i \in DOMAIN t.topic PROVE Ahead(hand, t.topic[i])
    <3>1. t.topic = s.topic BY <1>4 DEF Lanes
    <3>2. t.topic[i].op \in Op /\ Lane(t.topic[i].op) = "topic"
      BY <3>1 DEF Queue, JobOK, JobRecord, Lanes
    <3>. QED BY <2>10, <3>2, RivalsApart DEF Ahead
  <2>20. ASSUME NEW l \in Lanes, NEW i \in DOMAIN t[l] PROVE Ahead(hand, t[l][i])
    BY <2>17, <2>18, <2>19 DEF Lanes
  <2>21. Held(subs, E, t, "message", hand)
    BY <2>11, <2>14, <2>15, <2>16, <2>17, <2>18, <2>20 DEF Held
  <2>. QED BY <1>2, <1>6, <2>9, <2>21
<1>. QED BY <1>8, <1>9

----------------------------------------------------------------------------
(* What may be picked: a place of a lane, in the message lane one that may *)
(* go, whose tokens are there.                                             *)
LEMMA LeastIs ==
  ASSUME NEW S \in SUBSET Nat, NEW i \in Least(S)
  PROVE  i \in S /\ \A k \in S : i <= k
BY MinIs DEF Least

LEMMA LeastOf ==
  ASSUME NEW S \in SUBSET Nat, S # {}
  PROVE  Least(S) # {}
BY DEF Least

Paid(op) ==
  /\ tokens["group"] > 0
  /\ IF Metered(op) \/ (Into(op) /\ tokens["edits"] = 0) THEN tokens["messages"] > 0
                                                         ELSE tokens["edits"] > 0

TokensType == tokens \in [Bucket -> 0 .. Capacity]

LEMMA ReadyPaid ==
  ASSUME NEW op, TokensType
  PROVE  /\ Metered(op) /\ Ready(op) => Paid(op)
         /\ Metered(op) /\ MessageReady => Paid(op)
         /\ Into(op) /\ Ready(op) => Paid(op)
         /\ ~Metered(op) /\ EditReady => Paid(op)
BY OutboxAssumption DEF TokensType, Bucket, Into, Metered, Paid, Ready, MessageReady, EditReady

MayBeSent(i) == i \in DOMAIN q.message /\ MayGo(q, i) /\ Paid(q.message[i].op)

LEMMA FirstMayGo ==
  ASSUME NEW i \in FirstOfQueue
  PROVE  i \in DOMAIN q.message /\ MayGo(q, i)
BY DEF FirstOfQueue, MayGo

LEMMA NewMessageIs ==
  ASSUME NEW N, q \in QueueRecord(N), TokensType, NEW i \in NewMessage
  PROVE  MayBeSent(i) /\ Metered(q.message[i].op)
<1> DEFINE S == {k \in FirstOfQueue : Metered(q.message[k].op) /\ MessageReady /\ Due(k)}
<1>1. FirstOfQueue \in SUBSET Nat BY DEF QueueRecord, FirstOfQueue
<1>2. i \in Least(S) /\ S \in SUBSET Nat BY <1>1 DEF NewMessage
<1>3. i \in S
  <2> HIDE DEF S
  <2>. QED BY <1>2, LeastIs
<1>. QED BY <1>3, FirstMayGo, ReadyPaid DEF MayBeSent

LEMMA ContentIs ==
  ASSUME NEW N, q \in QueueRecord(N), TokensType, NEW first, NEW i \in Content(first)
  PROVE  MayBeSent(i)
<1> DEFINE S == {k \in FirstOfQueue : /\ Into(q.message[k].op) /\ EditReady /\ Due(k)
                                      /\ q.message[k].op.merge # first}
<1>1. FirstOfQueue \in SUBSET Nat BY DEF QueueRecord, FirstOfQueue
<1>2. i \in Least(S) /\ S \in SUBSET Nat BY <1>1 DEF Content
<1>3. i \in S
  <2> HIDE DEF S
  <2>. QED BY <1>2, LeastIs
<1>4. Into(q.message[i].op) => ~Metered(q.message[i].op) BY DEF Into, Metered
<1>. QED BY <1>3, <1>4, FirstMayGo, ReadyPaid DEF MayBeSent

LEMMA SpilledIs ==
  ASSUME NEW N, q \in QueueRecord(N), TokensType, NEW i \in SpilledContent
  PROVE  MayBeSent(i)
<1> DEFINE S == {k \in FirstOfQueue :
                   Into(q.message[k].op) /\ Ready(q.message[k].op) /\ Due(k)}
<1>1. FirstOfQueue \in SUBSET Nat BY DEF QueueRecord, FirstOfQueue
<1>2. i \in Least(S) /\ S \in SUBSET Nat BY <1>1 DEF SpilledContent
<1>3. i \in S
  <2> HIDE DEF S
  <2>. QED BY <1>2, LeastIs
<1>. QED BY <1>3, FirstMayGo, ReadyPaid DEF MayBeSent

(* A prompt, or the new line of its topic that goes before it.             *)
LEMMA PromptTurnIs ==
  ASSUME NEW subs, NEW E, NEW N, q \in QueueRecord(N), Queue(subs, E, q), TokensType,
         NEW i \in PromptTurn
  PROVE  i \in DOMAIN q.message /\ MayGo(q, i) /\ Metered(q.message[i].op)
<1> DEFINE free == {k \in DOMAIN q.message :
                      /\ q.message[k].op.prompt
                      /\ \A j \in 1 .. k - 1 : \/ q.message[j].op.place # q.message[k].op.place
                                               \/ IsLine(q.message[j].op)}
           before(k) == {j \in 1 .. k - 1 : /\ q.message[j].op.place = q.message[k].op.place
                                            /\ Metered(q.message[j].op)}
           held(k) == {j \in Least(before(k)) : q.message[j].op.merge}
<1>1. q.message \in Seq(JobRecord) /\ DOMAIN q.message = 1 .. Len(q.message)
      /\ Len(q.message) \in Nat
  BY DEF QueueRecord
<1>2. \A k \in DOMAIN q.message : q.message[k].op \in Op /\ Lane(q.message[k].op) = "message"
  BY DEF Queue, JobOK, JobRecord, Lanes
<1>3. free \in SUBSET Nat /\ \A k \in free : before(k) \in SUBSET Nat BY <1>1
<1>4. PICK p \in Least(free) : i \in IF held(p) = {} THEN {p} ELSE held(p)
  BY DEF PromptTurn
<1>5. p \in free
  <2> HIDE DEF free
  <2>. QED BY <1>3, <1>4, LeastIs
<1>6. /\ p \in DOMAIN q.message /\ p \in Nat /\ q.message[p].op.prompt
      /\ \A j \in 1 .. p - 1 : \/ q.message[j].op.place # q.message[p].op.place
                               \/ IsLine(q.message[j].op)
  BY <1>1, <1>5
<1>7. Metered(q.message[p].op) BY <1>2, <1>6, OpFacts
<1>8. CASE i = p BY <1>6, <1>7, <1>8 DEF MayGo, QueueOf
<1>9. CASE i # p
  <2>1. i \in Least(before(p)) BY <1>4, <1>9
  <2>2. before(p) \in SUBSET Nat BY <1>3, <1>5
  <2>3. i \in before(p) /\ \A k \in before(p) : i <= k
    <3> HIDE DEF before
    <3>. QED BY <2>1, <2>2, LeastIs
  <2>4. i \in 1 .. p - 1 /\ q.message[i].op.place = q.message[p].op.place
        /\ Metered(q.message[i].op)
    BY <2>3
  <2>5. i \in DOMAIN q.message BY <1>1, <1>6, <2>4
  <2>6. ASSUME NEW k \in 1 .. i - 1 PROVE QueueOf(q.message[k].op) # QueueOf(q.message[i].op)
    <3> SUFFICES ASSUME QueueOf(q.message[k].op) = QueueOf(q.message[i].op) PROVE FALSE
      OBVIOUS
    <3>1. k \in 1 .. p - 1 /\ k < i /\ k \in DOMAIN q.message BY <1>1, <1>6, <2>4
    <3>2. q.message[k].op.place = q.message[i].op.place /\ q.message[k].op.msg = q.message[i].op.msg
      BY DEF QueueOf
    <3>3. Metered(q.message[k].op) BY <1>2, <3>1, OpFacts, <2>4, <3>2 DEF Metered
    <3>4. k \in before(p) BY <2>4, <3>1, <3>2, <3>3
    <3>. QED BY <2>3, <2>4, <3>1, <3>4
  <2>. QED BY <2>4, <2>5, <2>6 DEF MayGo
<1>. QED BY <1>8, <1>9

(* A turn that may be taken.                                               *)
Takes(pick) ==
  /\ pick[1] \in Lanes /\ pick[2] \in DOMAIN q[pick[1]]
  /\ IF pick[1] = "message" THEN MayBeSent(pick[2]) ELSE EditReady

LEMMA MessageTakes ==
  ASSUME NEW S, \A i \in S : MayBeSent(i), NEW pick \in {"message"} \X S
  PROVE  Takes(pick)
BY DEF Takes, Lanes, MayBeSent

LEMMA ForegroundTakes ==
  ASSUME NEW N, q \in QueueRecord(N), TokensType, NEW pick \in ForegroundTurn
  PROVE  Takes(pick)
<1> DEFINE S == {i \in DOMAIN q.edit : ~q.edit[i].op.background}
           edits == Least(S)
           front == IF edits # {} THEN {"edit"} \X edits ELSE {"message"} \X Content(TRUE)
           calls == {"topic"} \X Least({1} \cap DOMAIN q.topic)
<1>1. EditReady /\ pick \in front \cup calls BY DEF ForegroundTurn
<1>2. S \in SUBSET Nat BY DEF QueueRecord
<1>3. edits \subseteq DOMAIN q.edit
  <2> SUFFICES ASSUME NEW i \in edits PROVE i \in DOMAIN q.edit
    OBVIOUS
  <2>1. i \in Least(S) OBVIOUS
  <2>2. i \in S
    <3> HIDE DEF S
    <3>. QED BY <1>2, <2>1, LeastIs
  <2>. QED BY <2>2
<1>4. Least({1} \cap DOMAIN q.topic) \subseteq DOMAIN q.topic
  <2> SUFFICES ASSUME NEW i \in Least({1} \cap DOMAIN q.topic) PROVE i \in DOMAIN q.topic
    OBVIOUS
  <2>1. {1} \cap DOMAIN q.topic \in SUBSET Nat OBVIOUS
  <2>2. i \in {1} \cap DOMAIN q.topic BY <2>1, LeastIs
  <2>. QED BY <2>2
<1> HIDE DEF edits
<1>5. CASE pick \in calls BY <1>5, <1>4, <1>1 DEF Takes, Lanes
<1>6. CASE pick \in {"edit"} \X edits BY <1>6, <1>3, <1>1 DEF Takes, Lanes
<1>7. CASE pick \in {"message"} \X Content(TRUE) BY ContentIs, <1>7, MessageTakes
<1>. QED BY <1>1, <1>5, <1>6, <1>7

LEMMA PickIs ==
  ASSUME NEW subs, NEW E, NEW N, q \in QueueRecord(N), Queue(subs, E, q), TokensType,
         NEW pick \in Pick
  PROVE  /\ Takes(pick)
         /\ NewMessage # {} /\ unmetered >= MaxUnmetered =>
              pick[1] = "message" /\ Metered(q.message[pick[2]].op)
<1> DEFINE first == Least({k \in DOMAIN Turns : Turns[k] # {}})
<1>1. PICK k \in first : pick \in Turns[k] BY DEF Pick
<1>2. DOMAIN Turns = 1 .. 7 BY DEF Turns
<1>3. k \in 1 .. 7 /\ \A j \in 1 .. 7 : Turns[j] # {} => k <= j
  <2> DEFINE S == {j \in DOMAIN Turns : Turns[j] # {}}
  <2>1. S \in SUBSET Nat BY <1>2
  <2>2. k \in Least(S) BY <1>1
  <2>3. k \in S /\ \A j \in S : k <= j
    <3> HIDE DEF S
    <3>. QED BY <2>1, <2>2, LeastIs
  <2>. QED BY <1>2, <2>3
<1>4. /\ Turns[1] = {"message"} \X {i \in PromptTurn : Ready(q.message[i].op)}
      /\ Turns[2] = {"message"} \X ForcedMessage
      /\ Turns[3] = ForegroundTurn
      /\ Turns[4] = {"message"} \X {i \in GroupContent : sinceRefresh < MaxUnmetered}
      /\ Turns[5] = {"edit"} \X {i \in {1} : q.edit # <<>> /\ EditReady}
      /\ Turns[6] = {"message"} \X GroupContent
      /\ Turns[7] = {"message"} \X SpilledContent
  BY DEF Turns
<1>5. \A i \in NewMessage : MayBeSent(i) /\ Metered(q.message[i].op) BY NewMessageIs
<1>6. \A i \in GroupContent : MayBeSent(i) BY ContentIs, <1>5 DEF GroupContent
<1>7. CASE k = 1
  <2> DEFINE S == {i \in PromptTurn : Ready(q.message[i].op)}
  <2>1. \A i \in S : MayBeSent(i) /\ Metered(q.message[i].op)
    <3> SUFFICES ASSUME NEW i \in S PROVE MayBeSent(i) /\ Metered(q.message[i].op)
      OBVIOUS
    <3>1. i \in DOMAIN q.message /\ MayGo(q, i) /\ Metered(q.message[i].op)
      BY PromptTurnIs
    <3>. QED BY <3>1, ReadyPaid DEF MayBeSent
  <2>2. pick \in {"message"} \X S BY <1>1, <1>4, <1>7
  <2> HIDE DEF S
  <2>3. Takes(pick) BY <2>1, <2>2, MessageTakes
  <2>. QED BY <2>1, <2>2, <2>3
<1>8. CASE k = 2 BY <1>1, <1>4, <1>8, <1>5, MessageTakes DEF ForcedMessage
<1>9. k > 2 => ~(NewMessage # {} /\ unmetered >= MaxUnmetered)
  <2> SUFFICES ASSUME k > 2, NewMessage # {}, unmetered >= MaxUnmetered PROVE FALSE
    OBVIOUS
  <2>1. ForcedMessage # {} BY DEF ForcedMessage
  <2>2. Turns[2] # {}
    <3>1. PICK i \in ForcedMessage : TRUE BY <2>1
    <3>2. <<"message", i>> \in Turns[2] BY <1>4
    <3>. QED BY <3>2
  <2>. QED BY <1>3, <2>2
<1>10. CASE k = 3 BY <1>1, <1>4, <1>9, <1>10, ForegroundTakes
<1>11. CASE k = 4
  <2> DEFINE S == {i \in GroupContent : sinceRefresh < MaxUnmetered}
  <2>1. \A i \in S : MayBeSent(i) BY <1>6
  <2>2. pick \in {"message"} \X S BY <1>1, <1>4, <1>11
  <2> HIDE DEF S
  <2>. QED BY <1>9, <1>11, <2>1, <2>2, MessageTakes
<1>12. CASE k = 5 BY <1>1, <1>4, <1>12, EmptySeq, <1>9 DEF QueueRecord, Takes, Lanes
<1>13. CASE k = 6 BY <1>1, <1>4, <1>13, <1>6, <1>9, MessageTakes
<1>14. CASE k = 7 BY <1>1, <1>4, <1>14, SpilledIs, <1>9, MessageTakes
<1>15. k \in {1, 2, 3, 4, 5, 6, 7} BY <1>3
<1>. QED BY <1>7, <1>8, <1>10, <1>11, <1>12, <1>13, <1>14, <1>15

(* The job of a turn.                                                      *)
LEMMA TurnedIs ==
  ASSUME NEW N, q \in QueueRecord(N), NEW lane \in Lanes, NEW i \in DOMAIN q[lane]
  PROVE  /\ Turned(lane, i) \in DOMAIN q[lane]
         /\ lane # "topic" => Turned(lane, i) = i
<1>1. CASE lane = "topic" /\ \E k \in DOMAIN q.topic : q.topic[k].op.kind = "create"
  <2> DEFINE S == {k \in DOMAIN q.topic : q.topic[k].op.kind = "create"}
  <2>1. q.topic \in Seq(JobRecord) BY DEF QueueRecord
  <2>2. S \in SUBSET Nat /\ S # {} /\ S \subseteq DOMAIN q.topic BY <1>1, <2>1
  <2>3. Turned(lane, i) = Min(S) BY <1>1 DEF Turned
  <2> HIDE DEF S
  <2>4. Min(S) \in S BY <2>2, MinIs
  <2>. QED BY <1>1, <2>2, <2>3, <2>4
<1>2. CASE ~(lane = "topic" /\ \E k \in DOMAIN q.topic : q.topic[k].op.kind = "create")
  BY <1>2 DEF Turned
<1>. QED BY <1>1, <1>2

----------------------------------------------------------------------------
(* The invariant of the states.                                            *)

(* The jobs the scheduler took in; the others are in the channel.          *)
Known == Upto(submitted, Len(submitted) - Len(inbox))

(* The requests Telegram took.                                             *)
Shown == {log[i] : i \in {j \in DOMAIN log : log[j].ok}}

LogRecord == [ok : BOOLEAN, op : Op, text : Seq(Nat)]

Shows(a, b) ==
  Rivals(a.op, b.op) =>
    \/ Last(a.text) < Head(b.text)
    \/ a.op.prompt /\ IsLine(b.op)
    \/ Metered(b.op) /\ Last(a.text) = Head(b.text)

LogOrder ==
  \A b \in DOMAIN log : \A a \in 1 .. b - 1 : log[a].ok /\ log[b].ok => Shows(log[a], log[b])

HubInv ==
  /\ work \in Workloads
  /\ Legal(submitted) /\ Len(submitted) <= work.jobs
  /\ \A n \in DOMAIN submitted : submitted[n] \in work.ops
  /\ cancelled \subseteq DOMAIN submitted
  /\ inbox \in Seq(JobRecord) /\ Len(inbox) <= Len(submitted)
  /\ InboxOf(Known, submitted, inbox)
  /\ out = <<>> => inbox = <<>>

OutIs(subs, E, s) ==
  \/ out = <<>>
  \/ \E r : out = <<r>> /\ r.lane \in Lanes /\ Held(subs, E, s, r.lane, r.job)

QueueInv ==
  /\ q \in QueueRecord(work.jobs) /\ Queue(Known, Shown, q)
  /\ OutIs(Known, Shown, q)
  /\ log \in Seq(LogRecord) /\ Entries(Known, Shown) /\ LogOrder

PaceInv ==
  /\ TokensType /\ {paused, topicTurn} \subseteq BOOLEAN
  /\ {unmetered, sinceRefresh} \subseteq 0 .. MaxUnmetered
  /\ faults \in 0 .. work.faults
  /\ passed \in Nat /\ passed <= unmetered

IInv == HubInv /\ QueueInv /\ PaceInv

----------------------------------------------------------------------------
(* Submit.                                                                 *)

LEMMA UptoAll ==
  ASSUME NEW more \in Seq(Op)
  PROVE  Upto(more, Len(more)) = more
BY DEF Upto

LEMMA KnownFacts ==
  ASSUME HubInv
  PROVE  /\ Known \in Seq(Op) /\ Len(Known) = Len(submitted) - Len(inbox)
         /\ Len(Known) \in Nat /\ Legal(Known) /\ Extends(submitted, Known)
         /\ inbox = <<>> => Known = submitted
         /\ submitted \in Seq(Op) /\ Len(submitted) \in Nat
         /\ DOMAIN submitted = 1 .. Len(submitted)
BY UptoIs, UptoAll DEF HubInv, Legal, Known, Extends

LEMMA SubmitLegal ==
  ASSUME HubInv, NEW o \in work.ops, Submit(o)
  PROVE  /\ Legal(submitted') /\ Len(submitted') = Len(submitted) + 1
         /\ submitted' \in Seq(Op) /\ submitted'[Len(submitted) + 1] = o
         /\ \A n \in 1 .. Len(submitted) : submitted'[n] = submitted[n]
         /\ \A n \in DOMAIN submitted' : submitted'[n] \in work.ops
         /\ DOMAIN submitted' = 1 .. Len(submitted) + 1
         /\ Len(submitted') <= work.jobs
<1> DEFINE L == Len(submitted)
<1>1. submitted \in Seq(Op) /\ L \in Nat /\ DOMAIN submitted = 1 .. L BY KnownFacts
<1>2. work.ops \subseteq Op /\ work.jobs \in Nat
      /\ \A a, b \in work.ops : Into(a) /\ Into(b) /\ a.msg = b.msg => a.place = b.place
  BY OutboxAssumption DEF HubInv
<1>3. submitted' = Append(submitted, o) /\ L < work.jobs
      /\ (o.kind = "edit" => \A n \in DOMAIN submitted :
                               ~(Into(submitted[n]) /\ submitted[n].msg = o.msg))
  BY DEF Submit
<1>4. o \in Op BY <1>2
<1>5. /\ submitted' \in Seq(Op) /\ Len(submitted') = L + 1 /\ DOMAIN submitted' = 1 .. L + 1
      /\ submitted'[L + 1] = o /\ \A n \in 1 .. L : submitted'[n] = submitted[n]
  BY <1>1, <1>3, <1>4
<1>6. \A n \in DOMAIN submitted : submitted[n] \in work.ops BY DEF HubInv
<1> HIDE DEF L
<1>7. \A n \in 1 .. L + 1 : n \in 1 .. L \/ n = L + 1 BY <1>1
<1>8. \A n \in DOMAIN submitted' : submitted'[n] \in work.ops BY <1>1, <1>5, <1>6, <1>7
<1>9. ASSUME NEW i \in DOMAIN submitted', NEW k \in DOMAIN submitted', i < k,
             Into(submitted'[i]), submitted'[k].kind = "edit"
      PROVE  submitted'[i].msg # submitted'[k].msg
  BY <1>1, <1>5, <1>9, <1>3, <1>7 DEF HubInv, Legal
<1>10. Legal(submitted') BY <1>2, <1>5, <1>8, <1>9 DEF Legal
<1>11. L + 1 <= work.jobs BY <1>1, <1>2, <1>3
<1>. QED BY <1>5, <1>8, <1>10, <1>11 DEF L

LEMMA HeldSame ==
  ASSUME NEW subs, NEW E, NEW s, NEW t, SameJobs(s, t), OutIs(subs, E, s)
  PROVE  OutIs(subs, E, t)
BY DEF OutIs, Held, Unbroken, SameJobs, Unmoved, Lanes

LEMMA SubmitKeeps ==
  ASSUME IInv, NEW o \in work.ops, Submit(o)
  PROVE  HubInv' /\ QueueInv'
<1> DEFINE L == Len(submitted)
           n == L + 1
           job == Job(n, o)
<1>1. /\ Known \in Seq(Op) /\ Len(Known) = L - Len(inbox) /\ L \in Nat
      /\ Len(Known) \in Nat /\ Legal(Known) /\ Extends(submitted, Known)
      /\ inbox = <<>> => Known = submitted
      /\ submitted \in Seq(Op) /\ DOMAIN submitted = 1 .. L
  BY KnownFacts DEF IInv
<1>2. /\ Legal(submitted') /\ Len(submitted') = L + 1
      /\ submitted' \in Seq(Op) /\ submitted'[L + 1] = o
      /\ \A i \in 1 .. L : submitted'[i] = submitted[i]
      /\ \A i \in DOMAIN submitted' : submitted'[i] \in work.ops
      /\ DOMAIN submitted' = 1 .. L + 1
      /\ Len(submitted') <= work.jobs
  BY SubmitLegal DEF IInv
<1>3. /\ UNCHANGED <<work, cancelled, out, log>>
      /\ IF out = <<>> THEN q' = Enqueue(Answered(q, {n}, "waiting"), job) /\ inbox' = inbox
                       ELSE q' = Answered(q, {n}, "waiting") /\ inbox' = Append(inbox, job)
  BY DEF Submit
<1>4. HubInv /\ QueueInv BY DEF IInv
<1>5. q \in QueueRecord(work.jobs) /\ Queue(Known, Shown, q) /\ Entries(Known, Shown)
      /\ OutIs(Known, Shown, q)
  BY <1>4 DEF QueueInv
<1>6. PICK s : s = Answered(q, {n}, "waiting") OBVIOUS
<1>7. s \in QueueRecord(work.jobs) /\ SameJobs(q, s)
  BY <1>5, <1>6, AnsweredIs DEF Outcome
<1>8. Queue(Known, Shown, s) BY <1>5, <1>7, QueueSame DEF SameJobs
<1>9. cancelled' \subseteq DOMAIN submitted' BY <1>1, <1>4, <1>2, <1>3 DEF HubInv
<1>10. Shown' = Shown BY <1>3 DEF Shown
<1>11. inbox \in Seq(JobRecord) /\ Len(inbox) \in Nat /\ Len(inbox) <= L
       /\ InboxOf(Known, submitted, inbox) /\ (out = <<>> => inbox = <<>>)
  BY <1>4 DEF HubInv
<1>12. n \in 1 .. Len(submitted') /\ job = Job(n, submitted'[n]) BY <1>1, <1>2
<1>13. JobOK(submitted', job) /\ job \in JobRecord BY <1>2, <1>12, JobIsOK DEF JobOK
<1>14. LogOrder' /\ log' \in Seq(LogRecord) BY <1>3, <1>4 DEF QueueInv, LogOrder
<1>15. CASE out = <<>>
  <2>1. inbox = <<>> /\ inbox' = <<>> /\ Known = submitted BY <1>1, <1>3, <1>11, <1>15
  <2>2. Known' = submitted' BY <2>1, <1>1, <1>2, UptoAll DEF Known
  <2>3. Extends(submitted', submitted) BY <1>1, <1>2 DEF Extends
  <2>4. q' = Enqueue(s, job) BY <1>3, <1>6, <1>15
  <2>5. job = Job(Len(submitted'), submitted'[Len(submitted')]) BY <1>2, <1>12
  <2> HIDE DEF job, n
  <2>6. q' \in QueueRecord(work.jobs) /\ Queue(submitted', Shown, q')
    BY <1>2, <1>5, <1>7, <1>8, <2>1, <2>3, <2>4, <2>5, EnqueueIs
  <2>7. Entries(submitted', Shown) BY <1>5, <2>1, <2>3, EntriesGrow
  <2>8. InboxOf(submitted', submitted', inbox') BY <2>1, <1>2, <1>1 DEF Extends, InboxOf
  <2>9. OutIs(Known, Shown, q)' BY <1>3, <1>15 DEF OutIs
  <2>10. QueueInv' BY <1>3, <1>10, <1>14, <2>2, <2>6, <2>7, <2>9 DEF QueueInv
  <2>11. HubInv' BY <1>1, <1>2, <2>1, <1>3, <1>4, <1>9, <2>2, <2>8 DEF HubInv
  <2>. QED BY <2>10, <2>11
<1>16. CASE out # <<>>
  <2>1. q' = s /\ inbox' = Append(inbox, job) BY <1>3, <1>6, <1>16
  <2>2. Len(inbox') = Len(inbox) + 1 /\ inbox' \in Seq(JobRecord)
        /\ inbox'[Len(inbox) + 1] = job /\ \A i \in 1 .. Len(inbox) : inbox'[i] = inbox[i]
    <3> HIDE DEF job
    <3>. QED BY <1>11, <1>13, <2>1
  <2>3. Known' = Known
    <3>1. Known' = Upto(submitted', L - Len(inbox)) BY <1>1, <1>2, <1>11, <2>2 DEF Known
    <3>2. \A i \in 1 .. L - Len(inbox) : submitted'[i] = submitted[i]
      BY <1>1, <1>2, <1>11
    <3>. QED BY <3>1, <3>2 DEF Known, Upto
  <2>4. InboxOf(Known, submitted', inbox')
    <3>1. Extends(submitted', Known) BY <1>1, <1>2, SMTT(30) DEF Extends
    <3>2. Len(submitted') = Len(Known) + Len(inbox') BY <1>1, <1>2, <1>11, <2>2
    <3>3. ASSUME NEW i \in 1 .. Len(inbox')
          PROVE  inbox'[i] = Job(Len(Known) + i, submitted'[Len(Known) + i])
      <4>1. CASE i \in 1 .. Len(inbox)
        <5>1. inbox'[i] = Job(Len(Known) + i, submitted[Len(Known) + i])
          BY <1>11, <2>2, <4>1 DEF InboxOf
        <5>2. Len(Known) + i \in 1 .. L BY <1>1, <1>11, <4>1
        <5>. QED BY <1>2, <5>1, <5>2
      <4>2. CASE i = Len(inbox) + 1
        <5>1. Len(Known) + i = n BY <1>1, <1>11, <4>2
        <5> HIDE DEF job, n
        <5>. QED BY <1>12, <2>2, <4>2, <5>1
      <4>. QED BY <1>11, <2>2, <4>1, <4>2
    <3>4. Len(inbox') \in Nat BY <1>11, <2>2
    <3>. QED BY <3>1, <3>2, <3>3, <3>4 DEF InboxOf
  <2>5. OutIs(Known, Shown, s) BY <1>5, <1>7, HeldSame
  <2>6. OutIs(Known, Shown, q)' BY <1>3, <1>10, <2>1, <2>3, <2>5 DEF OutIs
  <2>7. QueueInv' BY <1>3, <1>5, <1>7, <1>8, <1>10, <1>14, <2>1, <2>3, <2>6 DEF QueueInv
  <2>8. HubInv'
    BY <1>1, <1>2, <1>11, <2>2, <1>3, <1>4, <1>9, <1>16, <2>3, <2>4 DEF HubInv
  <2>. QED BY <2>7, <2>8
<1>. QED BY <1>15, <1>16

----------------------------------------------------------------------------
(* The answers of Telegram.                                                *)

LEMMA OutFacts ==
  ASSUME HubInv, QueueInv, NEW r \in ToSet(out)
  PROVE  /\ out = <<r>> /\ r.lane \in Lanes /\ Held(Known, Shown, q, r.lane, r.job)
         /\ r.job \in JobRecord /\ r.job.op \in Op /\ JobOK(Known, r.job)
<1>1. out # <<>> BY DEF ToSet
<1>2. PICK x : out = <<x>> /\ x.lane \in Lanes /\ Held(Known, Shown, q, x.lane, x.job)
  BY <1>1 DEF QueueInv, OutIs
<1>3. r = x BY <1>2 DEF ToSet
<1>. QED BY <1>2, <1>3 DEF Held, JobOK, JobRecord

(* A request was answered, and what was in the channel is in the lanes.    *)
LEMMA BackIs ==
  ASSUME HubInv, NEW s \in QueueRecord(work.jobs), NEW E, Entries(Known, E),
         Queue(Known, E, s), Back(s)
  PROVE  /\ HubInv' /\ Known' = submitted /\ out' = <<>>
         /\ q' \in QueueRecord(work'.jobs) /\ Queue(Known', E, q') /\ Entries(Known', E)
<1>1. /\ Known \in Seq(Op) /\ Len(Known) = Len(submitted) - Len(inbox)
      /\ Len(Known) \in Nat /\ Legal(Known) /\ Extends(submitted, Known)
      /\ submitted \in Seq(Op) /\ Len(submitted) \in Nat
  BY KnownFacts
<1>2. /\ out' = <<>> /\ inbox' = <<>> /\ q' = TakenIn(s, inbox)
      /\ work' = work /\ submitted' = submitted /\ cancelled' = cancelled
  BY DEF Back
<1>3. Legal(submitted) /\ InboxOf(Known, submitted, inbox) BY DEF HubInv
<1>4. q' \in QueueRecord(work.jobs) /\ Queue(submitted, E, q') BY <1>2, <1>3, TakenInIs
<1>5. Known' = submitted BY <1>2, <1>1, UptoAll DEF Known
<1>6. Entries(submitted, E) BY <1>1, EntriesGrow
<1>7. InboxOf(submitted, submitted, <<>>) BY <1>1 DEF Extends, InboxOf
<1>8. HubInv' BY <1>1, <1>2, <1>5, <1>7 DEF HubInv
<1>. QED BY <1>2, <1>4, <1>5, <1>6, <1>8

LEMMA AnswersIs ==
  ASSUME NEW N, NEW s \in QueueRecord(N), NEW subs, NEW E, Queue(subs, E, s),
         NEW first, NEW what \in Outcome, NEW second, NEW how \in Outcome,
         NEW t, t = Answered(Answered(s, first, what), second, how)
  PROVE  t \in QueueRecord(N) /\ SameJobs(s, t) /\ Queue(subs, E, t)
<1>1. PICK r : r = Answered(s, first, what) OBVIOUS
<1>2. r \in QueueRecord(N) /\ SameJobs(s, r) BY <1>1, AnsweredIs
<1>3. t \in QueueRecord(N) /\ SameJobs(r, t) BY <1>1, <1>2, AnsweredIs
<1>4. SameJobs(s, t) BY <1>2, <1>3 DEF SameJobs, Unmoved
<1>. QED BY <1>3, <1>4, QueueSame DEF SameJobs

(* The log without a new request.                                          *)
LEMMA LogStays ==
  ASSUME QueueInv, NEW entry \in LogRecord, ~entry.ok,
         log' = log \/ log' = Append(log, entry)
  PROVE  Shown' = Shown /\ LogOrder' /\ log' \in Seq(LogRecord)
<1>1. log \in Seq(LogRecord) /\ LogOrder BY DEF QueueInv
<1>2. CASE log' = log BY <1>1, <1>2 DEF Shown, LogOrder
<1>3. CASE log' = Append(log, entry)
  <2> DEFINE L == Len(log)
  <2>1. L \in Nat /\ DOMAIN log = 1 .. L /\ DOMAIN log' = 1 .. L + 1 /\ log'[L + 1] = entry
        /\ log' \in Seq(LogRecord) /\ \A i \in 1 .. L : log'[i] = log[i]
    BY <1>1, <1>3
  <2> HIDE DEF L
  <2>2. {j \in DOMAIN log' : log'[j].ok} = {j \in DOMAIN log : log[j].ok} BY <2>1
  <2>3. Shown' = Shown BY <2>1, <2>2 DEF Shown
  <2>4. LogOrder'
    <3> SUFFICES ASSUME NEW b \in DOMAIN log', NEW a \in 1 .. b - 1, log'[a].ok, log'[b].ok
                 PROVE  Shows(log'[a], log'[b])
      BY DEF LogOrder
    <3>1. b \in 1 .. L BY <2>1
    <3>2. a \in 1 .. L BY <2>1, <3>1
    <3>. QED BY <1>1, <2>1, <3>1, <3>2 DEF LogOrder
  <2>. QED BY <2>1, <2>3, <2>4
<1>. QED BY <1>2, <1>3

(* The log with a request that Telegram took.                              *)
LEMMA LogGrows ==
  ASSUME QueueInv, NEW job, JobOK(Known, job), \A e \in Shown : Ahead(e, job),
         NEW entry \in LogRecord, entry = [ok |-> TRUE, op |-> job.op, text |-> job.text],
         log' = Append(log, entry)
  PROVE  Shown' = Shown \cup {entry} /\ LogOrder' /\ log' \in Seq(LogRecord)
<1> DEFINE L == Len(log)
<1>1. log \in Seq(LogRecord) /\ LogOrder BY DEF QueueInv
<1>2. L \in Nat /\ DOMAIN log = 1 .. L /\ DOMAIN log' = 1 .. L + 1 /\ log'[L + 1] = entry
      /\ log' \in Seq(LogRecord) /\ \A i \in 1 .. L : log'[i] = log[i]
  BY <1>1
<1> HIDE DEF L
<1>3. \A j \in 1 .. L + 1 : j \in 1 .. L \/ j = L + 1 BY <1>2
<1>4. 1 .. L \subseteq 1 .. L + 1 /\ L + 1 \in 1 .. L + 1 BY <1>2
<1>5. Shown' = Shown \cup {entry}
  <2>1. ASSUME NEW e \in Shown' PROVE e \in Shown \cup {entry}
    <3>1. PICK j \in DOMAIN log' : log'[j].ok /\ e = log'[j] BY DEF Shown
    <3>. QED BY <1>2, <1>3, <3>1 DEF Shown
  <2>2. ASSUME NEW e \in Shown PROVE e \in Shown'
    <3>1. PICK j \in DOMAIN log : log[j].ok /\ e = log[j] BY DEF Shown
    <3>2. j \in DOMAIN log' /\ log'[j].ok /\ e = log'[j] BY <1>2, <1>4, <3>1
    <3>. QED BY <3>2 DEF Shown
  <2>3. entry \in Shown' BY <1>2, <1>4 DEF Shown
  <2>. QED BY <2>1, <2>2, <2>3
<1>6. ASSUME NEW a \in DOMAIN log, log[a].ok PROVE Shows(log[a], entry)
  <2>1. Ahead(log[a], job) BY <1>6 DEF Shown
  <2>2. /\ job.at <= job.text[1] /\ (Metered(job.op) /\ ~job.op.merge => job.text = <<job.at>>)
        /\ job \in JobRecord /\ job.text # <<>>
    BY DEF JobOK, TextOK
  <2>3. entry.op = job.op /\ entry.text = job.text /\ Head(job.text) = job.text[1]
    BY <2>2 DEF JobRecord
  <2>4. job.at \in Nat /\ job.text[1] \in Nat BY <2>2, EmptySeq DEF JobRecord
  <2>5. log[a].ok /\ log[a].text \in Seq(Nat) /\ log[a] \in Shown
    <3>1. log[a] \in LogRecord BY <1>1
    <3>. QED BY <1>6, <3>1 DEF Shown, LogRecord
  <2>6. Last(log[a].text) \in Nat BY <2>5, EmptySeq DEF QueueInv, Entries, TextOK, Last
  <2>7. Metered(job.op) /\ ~job.op.merge => Head(job.text) = job.at BY <2>2, <2>3
  <2>. QED BY <2>1, <2>2, <2>3, <2>4, <2>6, <2>7 DEF Ahead, Shows
<1>7. LogOrder'
  <2> SUFFICES ASSUME NEW b \in DOMAIN log', NEW a \in 1 .. b - 1, log'[a].ok, log'[b].ok
               PROVE  Shows(log'[a], log'[b])
    BY DEF LogOrder
  <2>1. a \in 1 .. L /\ log'[a] = log[a] BY <1>2
  <2>2. CASE b \in 1 .. L BY <1>1, <1>2, <2>1, <2>2 DEF LogOrder
  <2>3. CASE b = L + 1 BY <1>2, <1>6, <2>1, <2>3
  <2>. QED BY <1>2, <1>3, <2>2, <2>3
<1>. QED BY <1>2, <1>5, <1>7

LEMMA AcceptedKeeps ==
  ASSUME HubInv, QueueInv, Accepted
  PROVE  HubInv' /\ QueueInv'
<1>1. PICK r \in ToSet(out) :
        /\ Back(Answered(Answered(q, r.job.merged, "merged"), {r.job.reply} \ {0}, "sent"))
        /\ log' = Append(log, [ok |-> TRUE, op |-> r.job.op, text |-> r.job.text])
  BY DEF Accepted
<1> DEFINE job == r.job
           entry == [ok |-> TRUE, op |-> job.op, text |-> job.text]
<1>2. /\ r.lane \in Lanes /\ Held(Known, Shown, q, r.lane, job)
      /\ job \in JobRecord /\ job.op \in Op /\ JobOK(Known, job)
  BY <1>1, OutFacts
<1>3. entry \in LogRecord /\ entry.op = job.op /\ entry.text = job.text
  BY <1>2 DEF LogRecord, JobRecord
<1>4. \A e \in Shown : Ahead(e, job) BY <1>2 DEF Held
<1>5. Shown' = Shown \cup {entry} /\ LogOrder' /\ log' \in Seq(LogRecord)
  BY <1>1, <1>2, <1>3, <1>4, LogGrows
<1> HIDE DEF entry, job
<1>6. PICK E : E = Shown \cup {entry} OBVIOUS
<1>7. /\ q \in QueueRecord(work.jobs) /\ Queue(Known, Shown, q) /\ Entries(Known, Shown)
  BY DEF QueueInv
<1>8. ASSUME NEW l \in Lanes, NEW i \in DOMAIN q[l] PROVE Ahead(entry, q[l][i])
  BY <1>2, <1>3 DEF Held, Ahead
<1>9. Queue(Known, E, q) BY <1>6, <1>7, <1>8 DEF Queue
<1>10. Entries(Known, E) BY <1>2, <1>3, <1>6, <1>7 DEF JobOK, JobRecord, Entries
<1>11. PICK s : s = Answered(Answered(q, job.merged, "merged"), {job.reply} \ {0}, "sent")
  OBVIOUS
<1>12. s \in QueueRecord(work.jobs) /\ Queue(Known, E, s)
  BY <1>7, <1>9, <1>11, AnswersIs DEF Outcome
<1>13. Back(s) BY <1>1, <1>11 DEF job
<1>14. /\ HubInv' /\ Known' = submitted /\ out' = <<>>
       /\ q' \in QueueRecord(work'.jobs) /\ Queue(Known', E, q') /\ Entries(Known', E)
  BY <1>10, <1>12, <1>13, BackIs
<1>15. Shown' = E BY <1>5, <1>6
<1>. QED BY <1>5, <1>14, <1>15 DEF QueueInv, OutIs

(* A request that did not show anything: something is put back or not.     *)
LEMMA UnshownKeeps ==
  ASSUME HubInv, QueueInv, NEW s \in QueueRecord(work.jobs), Queue(Known, Shown, s), Back(s),
         Shown' = Shown, LogOrder', log' \in Seq(LogRecord)
  PROVE  HubInv' /\ QueueInv'
<1>1. PICK E : E = Shown OBVIOUS
<1>2. Queue(Known, E, s) /\ Entries(Known, E) BY <1>1 DEF QueueInv
<1>3. /\ HubInv' /\ Known' = submitted /\ out' = <<>>
      /\ q' \in QueueRecord(work'.jobs) /\ Queue(Known', E, q') /\ Entries(Known', E)
  BY <1>2, BackIs
<1>. QED BY <1>1, <1>3 DEF QueueInv, OutIs

LEMMA SameLog ==
  ASSUME QueueInv, log' = log
  PROVE  Shown' = Shown /\ LogOrder' /\ log' \in Seq(LogRecord)
BY DEF Shown, LogOrder, QueueInv

LEMMA RefusedKeeps ==
  ASSUME HubInv, QueueInv, Refused
  PROVE  HubInv' /\ QueueInv'
<1>1. PICK r \in ToSet(out) :
        /\ Back(Answered(Answered(q, r.job.merged, "dropped"), {r.job.reply} \ {0}, "refused"))
        /\ log' = log
  BY DEF Refused
<1>2. PICK s : s = Answered(Answered(q, r.job.merged, "dropped"), {r.job.reply} \ {0}, "refused")
  OBVIOUS
<1>3. q \in QueueRecord(work.jobs) /\ Queue(Known, Shown, q) BY DEF QueueInv
<1>4. s \in QueueRecord(work.jobs) /\ Queue(Known, Shown, s)
  BY <1>2, <1>3, AnswersIs DEF Outcome
<1>5. Back(s) BY <1>1, <1>2
<1>. QED BY <1>1, <1>4, <1>5, SameLog, UnshownKeeps

LEMMA FailedKeeps ==
  ASSUME HubInv, QueueInv, Failed
  PROVE  HubInv' /\ QueueInv'
<1>1. PICK r \in ToSet(out) :
        /\ Back(IF IsLine(r.job.op)
                THEN Broken(Answered(Answered(q, r.job.merged, "dropped"),
                                     {r.job.reply} \ {0}, "failed"), r.job.op.place)
                ELSE Answered(Answered(q, r.job.merged, "dropped"), {r.job.reply} \ {0}, "failed"))
        /\ log' = IF IsLine(r.job.op)
                  THEN Append(log, [ok |-> FALSE, op |-> r.job.op, text |-> r.job.text]) ELSE log
  BY DEF Failed
<1> DEFINE job == r.job
           entry == [ok |-> FALSE, op |-> job.op, text |-> job.text]
<1>2. /\ r.lane \in Lanes /\ Held(Known, Shown, q, r.lane, job)
      /\ job \in JobRecord /\ job.op \in Op /\ JobOK(Known, job)
  BY <1>1, OutFacts
<1>3. entry \in LogRecord /\ ~entry.ok BY <1>2 DEF LogRecord, JobRecord
<1>4. log' = log \/ log' = Append(log, entry) BY <1>1
<1> HIDE DEF entry
<1>5. Shown' = Shown /\ LogOrder' /\ log' \in Seq(LogRecord) BY <1>3, <1>4, LogStays
<1> HIDE DEF job
<1>6. PICK s : s = Answered(Answered(q, job.merged, "dropped"), {job.reply} \ {0}, "failed")
  OBVIOUS
<1>7. q \in QueueRecord(work.jobs) /\ Queue(Known, Shown, q) BY DEF QueueInv
<1>8. s \in QueueRecord(work.jobs) /\ Queue(Known, Shown, s)
  BY <1>6, <1>7, AnswersIs DEF Outcome
<1>9. PICK t : t = IF IsLine(job.op) THEN Broken(s, job.op.place) ELSE s OBVIOUS
<1>10. Back(t) BY <1>1, <1>6, <1>9 DEF job
<1>11. t \in QueueRecord(work.jobs) /\ Queue(Known, Shown, t)
  <2>1. CASE IsLine(job.op)
    BY <2>1, <1>2, OpFacts, <1>9, KnownFacts, <1>8, StreamBroken DEF Lane, IsLine
  <2>2. CASE ~IsLine(job.op) BY <1>8, <1>9, <2>2
  <2>. QED BY <2>1, <2>2
<1>. QED BY <1>5, <1>10, <1>11, UnshownKeeps

LEMMA FloodWaitKeeps ==
  ASSUME HubInv, QueueInv, FloodWait
  PROVE  HubInv' /\ QueueInv'
<1>1. PICK r \in ToSet(out) :
        LET newer == {i \in DOMAIN q.edit : Replaces(q.edit[i].op, r.job.op)}
        IN /\ Back(IF newer # {}
                   THEN Answered([q EXCEPT !.edit[Min(newer)].op.background =
                                    @ /\ r.job.op.background], {r.job.reply}, "superseded")
                   ELSE PutBack(q, r.lane, <<r.job>>))
           /\ log' = log
  BY DEF FloodWait
<1>2. /\ r.lane \in Lanes /\ Held(Known, Shown, q, r.lane, r.job)
      /\ r.job \in JobRecord /\ r.job.op \in Op /\ JobOK(Known, r.job)
  BY <1>1, OutFacts
<1>3. {i \in DOMAIN q.edit : Replaces(q.edit[i].op, r.job.op)} = {}
  BY <1>2 DEF Held, Overwrites
<1>4. Back(PutBack(q, r.lane, <<r.job>>)) BY <1>1, <1>3
<1>5. PICK s : s = PutBack(q, r.lane, <<r.job>>) OBVIOUS
<1>6. q \in QueueRecord(work.jobs) /\ Queue(Known, Shown, q) BY DEF QueueInv
<1>7. s \in QueueRecord(work.jobs) /\ Queue(Known, Shown, s)
  BY <1>2, <1>5, <1>6, OnePutBack
<1>8. Back(s) BY <1>4, <1>5
<1>. QED BY <1>1, <1>7, <1>8, SameLog, UnshownKeeps

(* A job whose form was refused stands for the job before.                 *)
Plainer(job) ==
  [job EXCEPT !.plain = TRUE, !.op.form = IF @ = "rich" THEN "html" ELSE "plain"]

LEMMA PlainerIs ==
  ASSUME NEW job \in JobRecord
  PROVE  Like(job, Plainer(job))
<1>1. job.op \in Op /\ job.op \in OpRecord BY DEF JobRecord, Op
<1> DEFINE form == IF job.op.form = "rich" THEN "html" ELSE "plain"
           o == [job.op EXCEPT !.form = form]
           h == Plainer(job)
<1>2. form \in {"rich", "html", "plain"} OBVIOUS
<1> HIDE DEF form
<1>3. o \in OpRecord BY <1>1, <1>2 DEF OpRecord
<1>4. /\ Alike(job.op, o) /\ o.prompt = job.op.prompt /\ o.merge = job.op.merge
      /\ o.restart = job.op.restart /\ o.status = job.op.status /\ o.before = job.op.before
      /\ o.kind = job.op.kind /\ o.place = job.op.place /\ o.msg = job.op.msg
  BY <1>1 DEF OpRecord, Alike
<1>5. h = [job EXCEPT !.plain = TRUE, !.op = o] BY DEF JobRecord, Plainer, form
<1> HIDE DEF o, h
<1>6. o \in Op BY <1>1, <1>3, <1>4 DEF Op, IsLine, Metered
<1>7. /\ h \in JobRecord /\ h.op = o /\ h.text = job.text /\ h.merged = job.merged
      /\ h.at = job.at /\ h.plain /\ h.live = job.live /\ h.reply = job.reply
  BY <1>5, <1>6 DEF JobRecord
<1>8. Like(job, h) BY <1>4, <1>7 DEF Like
<1>. QED BY <1>8 DEF h

LEMMA FormRefusedKeeps ==
  ASSUME HubInv, QueueInv, FormRefused
  PROVE  HubInv' /\ QueueInv'
<1>1. PICK r \in ToSet(out) : Back(PutBack(q, r.lane, <<Plainer(r.job)>>)) /\ log' = log
  BY DEF FormRefused, Plainer
<1>2. /\ r.lane \in Lanes /\ Held(Known, Shown, q, r.lane, r.job)
      /\ r.job \in JobRecord /\ r.job.op \in Op /\ JobOK(Known, r.job)
  BY <1>1, OutFacts
<1>3. PICK job : job = Plainer(r.job) OBVIOUS
<1>4. Like(r.job, job) BY <1>2, <1>3, PlainerIs
<1>5. q \in QueueRecord(work.jobs) /\ Queue(Known, Shown, q) BY DEF QueueInv
<1>6. Thins(q, q) BY <1>5, SameLanes DEF Unmoved
<1>7. Unbroken(q, job) BY <1>2, <1>4, AlikeFacts DEF Held, Unbroken, Like, Alike
<1>8. Held(Known, Shown, q, r.lane, job) BY <1>2, <1>4, <1>6, <1>7, HeldThinned
<1>9. PICK s : s = PutBack(q, r.lane, <<job>>) OBVIOUS
<1>10. s \in QueueRecord(work.jobs) /\ Queue(Known, Shown, s)
  BY <1>4, <1>5, <1>8, <1>9, OnePutBack DEF Like
<1>11. Back(s) BY <1>1, <1>3, <1>9
<1>. QED BY <1>1, <1>10, <1>11, SameLog, UnshownKeeps

----------------------------------------------------------------------------
(* Dispatch.                                                               *)

(* One turn of the scheduler.                                              *)
Turn(lane, i) ==
  LET job == q[lane][i]
      rest == [q EXCEPT ![lane] = Kept(@, {i})]
      taken == IF lane = "message" /\ job.op.merge THEN Taken(rest, job) ELSE {}
  IN \/ /\ job.live \in cancelled
        /\ q' = Answered(rest, {job.reply}, "superseded")
        /\ UNCHANGED <<out, tokens, pace>>
     \/ /\ ~LaidOut(job)
        /\ q' = PutBack(rest, lane, Parts(job))
        /\ UNCHANGED <<out, tokens, pace>>
     \/ /\ q' = [rest EXCEPT !.message = Kept(@, taken)]
        /\ Request(lane, Joined(rest, job, taken))

LEMMA DispatchIs ==
  ASSUME HubInv, QueueInv, PaceInv, Dispatch
  PROVE  /\ out = <<>> /\ ~paused
         /\ UNCHANGED <<work, submitted, cancelled, inbox, paused, log, faults>>
         /\ \E lane \in Lanes : \E i \in DOMAIN q[lane] :
              /\ Turn(lane, i)
              /\ lane = "message" => MayGo(q, i)
              /\ Paid(q[lane][i].op)
              /\ NewMessage # {} /\ unmetered >= MaxUnmetered => Metered(q[lane][i].op)
<1>1. PICK pick \in Pick : Turn(pick[1], Turned(pick[1], pick[2])) BY DEF Dispatch, Turn
<1>2. q \in QueueRecord(work.jobs) /\ Queue(Known, Shown, q) /\ TokensType
  BY DEF QueueInv, PaceInv
<1>3. /\ Takes(pick)
      /\ NewMessage # {} /\ unmetered >= MaxUnmetered =>
           pick[1] = "message" /\ Metered(q.message[pick[2]].op)
  BY <1>2, PickIs
<1>4. PICK lane, k : lane = pick[1] /\ k = pick[2] OBVIOUS
<1>5. PICK i : i = Turned(lane, k) OBVIOUS
<1>6. lane \in Lanes /\ k \in DOMAIN q[lane]
      /\ IF lane = "message" THEN MayBeSent(k) ELSE EditReady
  BY <1>3, <1>4 DEF Takes
<1>7. i \in DOMAIN q[lane] /\ (lane # "topic" => i = k) BY <1>2, <1>5, <1>6, TurnedIs
<1>8. Turn(lane, i) BY <1>1, <1>4, <1>5
<1>9. lane = "message" => MayGo(q, i) /\ Paid(q[lane][i].op) BY <1>6, <1>7 DEF MayBeSent
<1>10. lane # "message" => Paid(q[lane][i].op)
  <2> SUFFICES ASSUME lane # "message" PROVE Paid(q[lane][i].op)
    OBVIOUS
  <2>1. q[lane][i].op \in Op /\ Lane(q[lane][i].op) = lane
    BY <1>2, <1>6, <1>7 DEF Queue, JobOK, JobRecord
  <2>2. ~Metered(q[lane][i].op) BY <1>6, <2>1, OpFacts DEF Lanes
  <2>. QED BY <1>2, <1>6, <2>2, ReadyPaid
<1>11. NewMessage # {} /\ unmetered >= MaxUnmetered => Metered(q[lane][i].op)
  BY <1>3, <1>4, <1>7
<1>12. out = <<>> /\ ~paused /\ UNCHANGED <<work, submitted, cancelled, inbox, paused, log, faults>>
  BY DEF Dispatch
<1>. QED BY <1>6, <1>7, <1>8, <1>9, <1>10, <1>11, <1>12

Requested(lane, i) ==
  \/ UNCHANGED <<tokens, pace>>
  \/ \E hand : Request(lane, hand) /\ Alike(q[lane][i].op, hand.op)

LEMMA TurnKeeps ==
  ASSUME HubInv, QueueInv, NEW lane \in Lanes, NEW i \in DOMAIN q[lane], Turn(lane, i),
         lane = "message" => MayGo(q, i), out = <<>>,
         UNCHANGED <<work, submitted, cancelled, inbox, paused, log, faults>>
  PROVE  HubInv' /\ QueueInv' /\ Requested(lane, i)
<1>1. inbox = <<>> /\ inbox' = <<>> /\ submitted' = submitted /\ work' = work
      /\ cancelled' = cancelled /\ log' = log
  BY DEF HubInv
<1>2. Known' = Known BY <1>1 DEF Known
<1>3. HubInv' BY <1>1, <1>2 DEF HubInv
<1>4. Shown' = Shown /\ LogOrder' /\ log' \in Seq(LogRecord) BY <1>1, SameLog
<1>5. Known \in Seq(Op) /\ Legal(Known) BY KnownFacts
<1>6. q \in QueueRecord(work.jobs) /\ Queue(Known, Shown, q) /\ Entries(Known, Shown)
  BY DEF QueueInv
<1>7. PICK job : job = q[lane][i] OBVIOUS
<1>8. PICK rest : rest = WithLane(q, lane, Kept(q[lane], {i})) OBVIOUS
<1>9. rest \in QueueRecord(work.jobs) /\ Queue(Known, Shown, rest)
      /\ Held(Known, Shown, rest, lane, job)
  BY <1>5, <1>6, <1>7, <1>8, Removed
<1>10. rest = [q EXCEPT ![lane] = Kept(@, {i})] BY <1>8 DEF WithLane
<1>11. PICK taken : taken = IF lane = "message" /\ job.op.merge THEN Taken(rest, job) ELSE {}
  OBVIOUS
<1>12. \/ /\ q' = Answered(rest, {job.reply}, "superseded")
          /\ out' = out /\ UNCHANGED <<tokens, pace>>
       \/ /\ ~LaidOut(job)
          /\ q' = PutBack(rest, lane, Parts(job))
          /\ out' = out /\ UNCHANGED <<tokens, pace>>
       \/ /\ q' = WithLane(rest, "message", Kept(rest.message, taken))
          /\ Request(lane, Joined(rest, job, taken))
          /\ out' = <<[lane |-> lane, job |-> Joined(rest, job, taken)]>>
  BY <1>7, <1>10, <1>11 DEF Turn, WithLane, Request
<1>13. CASE /\ q' = Answered(rest, {job.reply}, "superseded") /\ out' = out
            /\ UNCHANGED <<tokens, pace>>
  <2>1. "superseded" \in Outcome BY DEF Outcome
  <2>2. q' \in QueueRecord(work.jobs) /\ SameJobs(rest, q')
    BY <1>9, <1>13, <2>1, AnsweredIs
  <2>3. Queue(Known, Shown, q') BY <1>9, <2>2, QueueSame DEF SameJobs
  <2>4. QueueInv' BY <1>1, <1>2, <1>4, <1>6, <1>13, <2>2, <2>3 DEF QueueInv, OutIs
  <2>5. UNCHANGED <<tokens, pace>> BY <1>13
  <2>. QED BY <1>3, <2>4, <2>5 DEF Requested
<1>14. CASE /\ ~LaidOut(job) /\ q' = PutBack(rest, lane, Parts(job)) /\ out' = out
            /\ UNCHANGED <<tokens, pace>>
  BY <1>5, <1>9, <1>14, PartsAre, <1>1, <1>2, <1>4, <1>6, <1>3 DEF QueueInv, OutIs, Requested
<1>15. CASE /\ q' = WithLane(rest, "message", Kept(rest.message, taken))
            /\ Request(lane, Joined(rest, job, taken))
            /\ out' = <<[lane |-> lane, job |-> Joined(rest, job, taken)]>>
  <2>1. PICK hand : hand = Joined(rest, job, taken) OBVIOUS
  <2>2. PICK t : t = q' OBVIOUS
  <2>3. t = WithLane(rest, "message", Kept(rest.message, taken)) BY <1>15, <2>2
  <2>4. /\ t \in QueueRecord(work.jobs) /\ Queue(Known, Shown, t)
        /\ Held(Known, Shown, t, lane, hand) /\ Alike(job.op, hand.op)
    <3>1. CASE lane = "message" /\ job.op.merge
      BY <1>11, <3>1, <1>5, <1>9, <2>1, <2>3, JoinedIs
    <3>2. CASE ~(lane = "message" /\ job.op.merge)
      <4>1. taken = {} BY <1>11, <3>2
      <4>2. hand = job BY <2>1, <4>1 DEF Joined
      <4>3. "message" \in Lanes BY DEF Lanes
      <4>4. t \in QueueRecord(work.jobs) /\ Thins(rest, t) /\ Lost(rest, t, "message", taken)
        BY <1>9, <2>3, <4>3, Unlaned
      <4>5. t.broken = rest.broken BY <4>4 DEF Lost, Elsewhere
      <4>6. PICK g : rest.message \in Seq(JobRecord) /\ Keeps(rest.message, taken, t.message, g)
        BY <1>9, <4>4, KeptIs DEF QueueRecord, Lost
      <4>7. \A k \in DOMAIN t.message : Unbroken(t, t.message[k])
        <5> SUFFICES ASSUME NEW k \in DOMAIN t.message PROVE Unbroken(t, t.message[k])
          OBVIOUS
        <5>1. g[k] \in DOMAIN rest.message /\ t.message[k] = rest.message[g[k]]
          BY <4>6 DEF Keeps
        <5>. QED BY <1>9, <4>5, <5>1 DEF Queue, Unbroken
      <4>8. Queue(Known, Shown, t) BY <1>9, <4>4, <4>7, Thinned
      <4>9. job \in JobRecord /\ Unbroken(t, job) BY <1>9, <4>5 DEF Held, JobOK, Unbroken
      <4>10. Like(job, hand) /\ Unbroken(t, hand) BY <4>2, <4>9, LikeItself
      <4>11. Held(Known, Shown, t, lane, hand) BY <1>9, <4>4, <4>10, HeldThinned
      <4>12. Alike(job.op, hand.op) BY <4>2 DEF Alike
      <4>. QED BY <4>4, <4>8, <4>11, <4>12
    <3>. QED BY <3>1, <3>2
  <2>5. PICK r : r = [lane |-> lane, job |-> hand] OBVIOUS
  <2>6. out' = <<r>> /\ r.lane = lane /\ r.job = hand BY <1>15, <2>1, <2>5
  <2>7. OutIs(Known, Shown, q)' BY <1>2, <1>4, <2>2, <2>4, <2>6 DEF OutIs
  <2>8. QueueInv' BY <1>1, <1>2, <1>4, <1>6, <2>2, <2>4, <2>7 DEF QueueInv
  <2>10. Request(lane, hand) /\ Alike(q[lane][i].op, hand.op) BY <1>7, <1>15, <2>1, <2>4
  <2>. QED BY <1>3, <2>8, <2>10 DEF Requested
<1>. QED BY <1>12, <1>13, <1>14, <1>15

LEMMA TurnPaces ==
  ASSUME PaceInv, NEW lane, NEW i, Requested(lane, i), Paid(q[lane][i].op),
         NewMessage # {} /\ unmetered >= MaxUnmetered => Metered(q[lane][i].op),
         UNCHANGED <<work, paused, faults>>
  PROVE  PaceInv'
<1>1. CASE UNCHANGED <<tokens, pace>> BY <1>1 DEF PaceInv, TokensType, pace
<1>2. ASSUME NEW job, Request(lane, job), Alike(q[lane][i].op, job.op)
      PROVE  PaceInv'
  <2> DEFINE message == Metered(job.op) \/ (Into(job.op) /\ tokens["edits"] = 0)
  <2>1. /\ tokens' = [tokens EXCEPT !["group"] = @ - 1,
                                    ![IF message THEN "messages" ELSE "edits"] = @ - 1]
        /\ sinceRefresh' = IF job.op.background THEN 0 ELSE Min({sinceRefresh + 1, MaxUnmetered})
        /\ unmetered' = IF message THEN 0 ELSE Min({unmetered + 1, MaxUnmetered})
        /\ passed' = IF message \/ NewMessage = {} THEN 0 ELSE passed + 1
        /\ topicTurn' = IF message THEN topicTurn
                        ELSE IF lane = "topic" THEN FALSE
                        ELSE \/ topicTurn
                             \/ lane = "edit" /\ ~job.op.background
                             \/ lane = "message" /\ ~job.op.merge
    BY <1>2 DEF Request
  <2>2. Metered(q[lane][i].op) = Metered(job.op) /\ Into(q[lane][i].op) = Into(job.op)
    BY <1>2, AlikeFacts
  <2>3. tokens["group"] > 0 /\ IF message THEN tokens["messages"] > 0 ELSE tokens["edits"] > 0
    BY <2>2 DEF Paid
  <2>4. NewMessage # {} /\ unmetered >= MaxUnmetered => message BY <2>2
  <2>5. /\ tokens \in [Bucket -> 0 .. Capacity] /\ Capacity \in Nat
        /\ unmetered \in 0 .. MaxUnmetered /\ sinceRefresh \in 0 .. MaxUnmetered
        /\ MaxUnmetered \in Nat \ {0} /\ passed \in Nat /\ passed <= unmetered
        /\ topicTurn \in BOOLEAN
    BY OutboxAssumption DEF PaceInv, TokensType
  <2> HIDE DEF message
  <2>6. ASSUME NEW n \in 0 .. MaxUnmetered
        PROVE  /\ Min({n + 1, MaxUnmetered}) \in 0 .. MaxUnmetered
               /\ n < MaxUnmetered => Min({n + 1, MaxUnmetered}) = n + 1
    BY <2>5, MinIs
  <2>7. TokensType' BY <2>1, <2>3, <2>5 DEF TokensType, Bucket
  <2>8. unmetered' \in 0 .. MaxUnmetered /\ sinceRefresh' \in 0 .. MaxUnmetered
    BY <2>1, <2>5, <2>6
  <2>9. passed' \in Nat /\ passed' <= unmetered' BY <2>1, <2>8, <2>4, <2>5, <2>6
  <2>10. topicTurn' \in BOOLEAN BY <2>1, <2>5
  <2>. QED BY <2>7, <2>8, <2>9, <2>10 DEF PaceInv
<1>. QED BY <1>1, <1>2 DEF Requested

LEMMA DispatchKeeps ==
  ASSUME IInv, Dispatch
  PROVE  IInv'
<1>1. /\ out = <<>> /\ ~paused
      /\ UNCHANGED <<work, submitted, cancelled, inbox, paused, log, faults>>
      /\ \E lane \in Lanes : \E i \in DOMAIN q[lane] :
           /\ Turn(lane, i)
           /\ lane = "message" => MayGo(q, i)
           /\ Paid(q[lane][i].op)
           /\ NewMessage # {} /\ unmetered >= MaxUnmetered => Metered(q[lane][i].op)
  BY DispatchIs DEF IInv
<1>5. PICK lane \in Lanes : \E i \in DOMAIN q[lane] :
        /\ Turn(lane, i)
        /\ lane = "message" => MayGo(q, i)
        /\ Paid(q[lane][i].op)
        /\ NewMessage # {} /\ unmetered >= MaxUnmetered => Metered(q[lane][i].op)
  BY <1>1
<1>2. PICK i \in DOMAIN q[lane] :
        /\ Turn(lane, i)
        /\ lane = "message" => MayGo(q, i)
        /\ Paid(q[lane][i].op)
        /\ NewMessage # {} /\ unmetered >= MaxUnmetered => Metered(q[lane][i].op)
  BY <1>5
<1>3. HubInv' /\ QueueInv' /\ Requested(lane, i) BY <1>1, <1>2, TurnKeeps DEF IInv
<1>4. PaceInv' BY <1>1, <1>2, <1>3, TurnPaces DEF IInv
<1>. QED BY <1>3, <1>4 DEF IInv

----------------------------------------------------------------------------
(* Time.                                                                   *)

LEMMA RipenKeeps ==
  ASSUME HubInv, QueueInv, NEW i \in DOMAIN q.message, Ripen(i)
  PROVE  HubInv' /\ QueueInv'
<1>1. /\ out = <<>> /\ out' = out /\ inbox' = inbox /\ submitted' = submitted /\ work' = work
      /\ cancelled' = cancelled /\ log' = log /\ q' = [q EXCEPT !.message[i].ripe = TRUE]
  BY DEF Ripen
<1>2. Known' = Known BY <1>1 DEF Known
<1>3. HubInv' BY <1>1, <1>2 DEF HubInv
<1>4. Shown' = Shown /\ LogOrder' /\ log' \in Seq(LogRecord) BY <1>1, SameLog
<1>5. q \in QueueRecord(work.jobs) /\ Queue(Known, Shown, q) /\ Entries(Known, Shown)
  BY DEF QueueInv
<1>6. q.message \in Seq(JobRecord) /\ "message" \in Lanes BY <1>5 DEF QueueRecord, Lanes
<1>7. PICK ripe : ripe = [q.message[i] EXCEPT !.ripe = TRUE] OBVIOUS
<1>8. q.message[i] \in JobRecord BY <1>6
<1>9. /\ ripe \in JobRecord /\ Like(q.message[i], ripe) /\ ripe.op = q.message[i].op
  BY <1>7, <1>8 DEF JobRecord, Like, Alike
<1>10. PICK js : js = [q.message EXCEPT ![i] = ripe] OBVIOUS
<1>11. js \in Seq(JobRecord) /\ DOMAIN js = DOMAIN q.message
       /\ \A k \in DOMAIN js : js[k] = IF k = i THEN ripe ELSE q.message[k]
  BY <1>6, <1>9, <1>10
<1>12. PICK t : t = WithLane(q, "message", js) OBVIOUS
<1>13. q' = t BY <1>1, <1>7, <1>10, <1>12 DEF WithLane
<1>14. t \in QueueRecord(work.jobs) /\ t.message = js /\ Elsewhere(q, t, "message")
  BY <1>5, <1>6, <1>11, <1>12, Relaned
<1>15. \E g : ThinnedBy(q.message, t.message, g)
  <2> DEFINE g == [k \in DOMAIN js |-> k]
  <2>1. ASSUME NEW k \in DOMAIN js PROVE Like(q.message[k], js[k])
    BY <1>6, <1>11, <1>9, LikeItself
  <2>2. ThinnedBy(q.message, js, g) BY <1>11, <2>1 DEF ThinnedBy
  <2>. QED BY <1>14, <2>2
<1>16. Thins(q, t)
  <2> SUFFICES ASSUME NEW l \in Lanes PROVE \E g : ThinnedBy(q[l], t[l], g)
    BY DEF Thins
  <2>1. CASE l = "message" BY <1>15, <2>1
  <2>2. CASE l # "message" BY <1>14, <2>2, <1>5, LanesAre, KeepsAll DEF Elsewhere
  <2>. QED BY <2>1, <2>2
<1>17. \A k \in DOMAIN t.message : Unbroken(t, t.message[k])
  <2> SUFFICES ASSUME NEW k \in DOMAIN t.message PROVE Unbroken(t, t.message[k])
    OBVIOUS
  <2>1. k \in DOMAIN q.message /\ t.message[k].op = q.message[k].op BY <1>9, <1>11, <1>14
  <2>. QED BY <1>5, <1>14, <2>1 DEF Queue, Unbroken, Elsewhere
<1>18. Queue(Known, Shown, t) BY <1>5, <1>14, <1>16, <1>17, Thinned
<1>19. QueueInv' BY <1>1, <1>2, <1>4, <1>5, <1>13, <1>14, <1>18 DEF QueueInv, OutIs
<1>. QED BY <1>3, <1>19

----------------------------------------------------------------------------
(* The theorems.                                                           *)

LEMMA AnswerPaces ==
  ASSUME HubInv, PaceInv, Answer
  PROVE  PaceInv'
<1>1. work' = work /\ UNCHANGED pace
  BY DEF Answer, Accepted, Refused, Failed, FloodWait, FormRefused, Back
<1>2. /\ tokens' = tokens \/ tokens' = [tokens EXCEPT !["group"] = 1]
      /\ paused' = paused \/ paused' = TRUE
      /\ faults' = faults \/ Fault
  BY DEF Answer, Accepted, Refused, Failed, FloodWait, FormRefused
<1>3. faults' \in 0 .. work'.faults
  BY OutboxAssumption, <1>1, <1>2 DEF PaceInv, HubInv, Fault
<1>4. TokensType' BY OutboxAssumption, <1>2 DEF PaceInv, TokensType, Bucket
<1>. QED BY <1>1, <1>2, <1>3, <1>4 DEF PaceInv, pace

LEMMA StillKept ==
  ASSUME HubInv, QueueInv, UNCHANGED <<work, submitted, inbox, q, out, log>>,
         cancelled' \subseteq DOMAIN submitted
  PROVE  HubInv' /\ QueueInv'
BY DEF Known, Shown, HubInv, QueueInv, LogOrder, OutIs

LEMMA InitHolds ==
  ASSUME Init
  PROVE  IInv
<1>1. /\ work \in Workloads
      /\ submitted = <<>> /\ cancelled = {} /\ inbox = <<>> /\ out = <<>> /\ log = <<>>
      /\ q = [message |-> <<>>, edit |-> <<>>, topic |-> <<>>, broken |-> {},
              answer |-> [n \in 1 .. work.jobs |-> "none"]]
      /\ tokens = [b \in Bucket |-> Capacity]
      /\ paused = FALSE /\ unmetered = 0 /\ sinceRefresh = 0 /\ topicTurn = TRUE
      /\ passed = 0 /\ faults = 0
  BY DEF Init
<1>2. work.jobs \in Nat /\ work.faults \in Nat /\ Capacity \in Nat /\ MaxUnmetered \in Nat
  BY <1>1, OutboxAssumption
<1>3. submitted \in Seq(Op) /\ Len(submitted) = 0 /\ Len(inbox) = 0 /\ DOMAIN submitted = {}
      /\ inbox \in Seq(JobRecord) /\ log \in Seq(LogRecord) /\ DOMAIN log = {}
  BY <1>1
<1>4. Known = submitted
  <2>1. Known = Upto(submitted, Len(submitted)) BY <1>3 DEF Known
  <2>. QED BY <1>3, <2>1, UptoAll
<1>5. Extends(submitted, submitted) BY <1>3 DEF Extends
<1>6. InboxOf(Known, submitted, inbox) BY <1>3, <1>4, <1>5 DEF InboxOf
<1>7. Legal(submitted) BY <1>3 DEF Legal
<1>8. HubInv BY <1>1, <1>2, <1>3, <1>6, <1>7 DEF HubInv
<1>9. Shown = {} BY <1>3 DEF Shown
<1>10. q \in QueueRecord(work.jobs) BY <1>1 DEF Outcome, QueueRecord
<1>11. \A lane \in Lanes : DOMAIN q[lane] = {} BY <1>1 DEF Lanes
<1>12. Queue(Known, Shown, q) BY <1>11 DEF Lanes, InLine, Clear, Queue
<1>13. QueueInv BY <1>1, <1>3, <1>9, <1>10, <1>12 DEF QueueInv, OutIs, Entries, LogOrder
<1>14. PaceInv
  <2>1. tokens \in [Bucket -> 0 .. Capacity] BY <1>1, <1>2
  <2>2. {paused, topicTurn} \subseteq BOOLEAN BY <1>1
  <2>3. {unmetered, sinceRefresh} \subseteq 0 .. MaxUnmetered /\ faults \in 0 .. work.faults
        /\ passed \in Nat /\ passed <= unmetered
    BY <1>1, <1>2
  <2>. QED BY <2>1, <2>2, <2>3 DEF PaceInv, TokensType
<1>. QED BY <1>8, <1>13, <1>14 DEF IInv

LEMMA NextKeeps ==
  ASSUME IInv, [Next]_outboxVars
  PROVE  IInv'
<1>1. HubInv /\ QueueInv /\ PaceInv BY DEF IInv
<1>2. ASSUME NEW o \in work.ops, Submit(o) PROVE IInv'
  BY <1>2, SubmitKeeps, <1>1 DEF Submit, PaceInv, TokensType, pace, IInv
<1>3. ASSUME NEW n \in DOMAIN submitted, Cancel(n) PROVE IInv'
  BY <1>1, <1>3, StillKept DEF Cancel, HubInv, PaceInv, TokensType, pace, IInv
<1>4. CASE Dispatch BY <1>4, DispatchKeeps
<1>5. CASE Answer
  BY <1>1, <1>5, AcceptedKeeps, RefusedKeeps, FailedKeeps, FloodWaitKeeps, FormRefusedKeeps,
     AnswerPaces DEF Answer, IInv
<1>6. ASSUME NEW b \in Bucket, Refill(b) PROVE IInv'
  BY <1>1, <1>6, StillKept, OutboxAssumption DEF Refill, HubInv, PaceInv, TokensType, pace, IInv
<1>7. CASE PauseOver
  BY <1>1, <1>7, StillKept DEF PauseOver, HubInv, PaceInv, TokensType, pace, IInv
<1>8. ASSUME NEW i \in DOMAIN q.message, Ripen(i) PROVE IInv'
  BY <1>1, <1>8, RipenKeeps DEF Ripen, PaceInv, TokensType, pace, IInv
<1>9. CASE UNCHANGED outboxVars
  BY <1>1, <1>9, StillKept DEF outboxVars, HubInv, PaceInv, TokensType, pace, IInv
<1>. QED BY <1>2, <1>3, <1>4, <1>5, <1>6, <1>7, <1>8, <1>9 DEF Next, Time

(* The invariant holds of every run: the jobs of a lane stay in order, no  *)
(* queued edit is older than what is ahead of it, and the budgets hold.    *)
THEOREM Invariance ==
  Spec => []IInv
<1>1. Init => IInv BY InitHolds
<1>2. IInv /\ [Next]_outboxVars => IInv' BY NextKeeps
<1>. QED BY <1>1, <1>2, PTL DEF Spec

LEMMA JobTyped ==
  ASSUME HubInv, NEW job, JobOK(Known, job)
  PROVE  JobType(job)
<1>1. Known \in Seq(Op) /\ Len(Known) \in Nat /\ Len(Known) <= Len(submitted)
      /\ Len(submitted) \in Nat /\ DOMAIN submitted = 1 .. Len(submitted)
  BY KnownFacts DEF HubInv
<1>2. /\ job \in JobRecord /\ job.op \in Op /\ job.at \in 1 .. Len(Known) /\ job.text # <<>>
      /\ \A i \in DOMAIN job.text : job.text[i] \in 1 .. Len(Known)
      /\ Waiters(job) \cup {job.live} \subseteq 0 .. Len(Known)
      /\ {job.plain, job.ripe} \subseteq BOOLEAN
  BY DEF JobOK, JobRecord, TextOK
<1>3. 1 .. Len(Known) \subseteq DOMAIN submitted BY <1>1
<1>4. ToSet(job.text) \subseteq DOMAIN submitted BY <1>2, <1>3 DEF ToSet
<1>5. Waiters(job) \subseteq DOMAIN submitted /\ job.live \in {0} \cup DOMAIN submitted
  <2>1. 0 \notin Waiters(job) BY DEF Waiters
  <2>2. \A n \in 0 .. Len(Known) : n = 0 \/ n \in 1 .. Len(Known) BY <1>1
  <2>. QED BY <1>2, <1>3, <2>1, <2>2
<1>. QED BY <1>2, <1>3, <1>4, <1>5 DEF JobType

LEMMA Typed ==
  IInv => TypeOK
<1> SUFFICES ASSUME IInv PROVE TypeOK
  OBVIOUS
<1>1. HubInv /\ QueueInv /\ PaceInv BY DEF IInv
<1>2. q \in QueueRecord(work.jobs) /\ Queue(Known, Shown, q) /\ OutIs(Known, Shown, q)
  BY <1>1 DEF QueueInv
<1>3. \A lane \in Lanes : \A i \in DOMAIN q[lane] :
        JobType(q[lane][i]) /\ Lane(q[lane][i].op) = lane
  BY <1>1, <1>2, JobTyped DEF Queue
<1>4. Len(out) <= 1 /\ (out = <<>> => inbox = <<>>)
  <2>1. out = <<>> \/ \E r : out = <<r>> BY <1>2 DEF OutIs
  <2>2. \A r : Len(<<r>>) = 1 OBVIOUS
  <2>3. Len(<<>>) = 0 OBVIOUS
  <2>4. Len(out) = 0 \/ Len(out) = 1 BY <2>1, <2>2, <2>3
  <2>5. Len(out) <= 1
    <3>1. 0 <= 1 /\ 1 <= 1 OBVIOUS
    <3>. QED BY <2>4, <3>1, Zenon
  <2>6. out = <<>> => inbox = <<>> BY <1>1 DEF HubInv
  <2>. QED BY <2>5, <2>6
<1>5. \A r \in ToSet(out) :
        JobType(r.job) /\ Lane(r.job.op) = r.lane /\ Len(r.job.text) <= MaxText
  <2> SUFFICES ASSUME NEW r \in ToSet(out)
               PROVE  JobType(r.job) /\ Lane(r.job.op) = r.lane /\ Len(r.job.text) <= MaxText
    OBVIOUS
  <2>1. Held(Known, Shown, q, r.lane, r.job) /\ JobOK(Known, r.job) BY <1>1, OutFacts
  <2>. QED BY <1>1, <2>1, JobTyped DEF Held, JobOK
<1>6. q.broken \subseteq Place
      /\ \A i \in DOMAIN q.message :
           ~(IsLine(q.message[i].op) /\ q.message[i].op.place \in q.broken)
  BY <1>2, LanesAre DEF Queue, Unbroken
<1>7. /\ \A n \in DOMAIN submitted : submitted[n] \in work.ops
      /\ cancelled \subseteq DOMAIN submitted
  BY <1>1 DEF HubInv
<1>8. /\ tokens \in [Bucket -> 0 .. Capacity]
      /\ {paused, topicTurn} \subseteq BOOLEAN
      /\ {unmetered, sinceRefresh} \subseteq 0 .. MaxUnmetered /\ faults \in 0 .. work.faults
  BY <1>1 DEF PaceInv, TokensType
<1>. QED BY <1>3, <1>4, <1>5, <1>6, <1>7, <1>8 DEF TypeOK, Lanes

(* Two requests that Telegram took.                                        *)
LEMMA ShownFacts ==
  ASSUME IInv, NEW b \in DOMAIN log, log[b].ok
  PROVE  /\ log[b].op \in Op /\ log[b].text \in Seq(Nat) /\ Increasing(log[b].text)
         /\ log[b].text # <<>> /\ DOMAIN log[b].text = 1 .. Len(log[b].text)
         /\ Len(log[b].text) \in Nat \ {0}
         /\ Head(log[b].text) = log[b].text[1] /\ Last(log[b].text) = log[b].text[Len(log[b].text)]
         /\ Head(log[b].text) \in Nat /\ Last(log[b].text) \in Nat
         /\ Head(log[b].text) <= Last(log[b].text)
         /\ \A a \in 1 .. b - 1 : log[a].ok => a \in DOMAIN log /\ Shows(log[a], log[b])
<1>1. QueueInv BY DEF IInv
<1>2. log \in Seq(LogRecord) /\ Entries(Known, Shown) /\ LogOrder BY <1>1 DEF QueueInv
<1>3. log[b] \in Shown BY DEF Shown
<1>4. log[b].op \in Op /\ log[b].text \in Seq(Nat) /\ TextOK(Known, log[b].op, log[b].text)
  BY <1>2, <1>3 DEF Entries
<1>5. Increasing(log[b].text) /\ log[b].text # <<>> BY <1>4 DEF TextOK
<1>6. PICK text : text = log[b].text OBVIOUS
<1>7. text \in Seq(Nat) /\ Len(text) \in Nat \ {0} /\ DOMAIN text = 1 .. Len(text)
  BY <1>4, <1>5, <1>6, EmptySeq
<1>8. 1 \in 1 .. Len(text) /\ Len(text) \in 1 .. Len(text) BY <1>7
<1>9. Head(text) = text[1] /\ Last(text) = text[Len(text)] BY <1>7 DEF Last
<1>10. text[1] \in Nat /\ text[Len(text)] \in Nat /\ text[1] <= text[Len(text)]
  BY <1>7, <1>8, <1>5, <1>6 DEF Increasing
<1>11. \A a \in 1 .. b - 1 : log[a].ok => a \in DOMAIN log /\ Shows(log[a], log[b])
  BY <1>2 DEF LogOrder
<1>. QED BY <1>4, <1>5, <1>6, <1>7, <1>9, <1>10, <1>11

LEMMA Ordered ==
  IInv => TopicOrder
<1> SUFFICES ASSUME IInv, NEW b \in DOMAIN log, log[b].ok, Metered(log[b].op)
             PROVE  /\ \A k \in 2 .. Len(log[b].text) : log[b].text[k - 1] < log[b].text[k]
                    /\ \A a \in 1 .. b - 1 :
                         log[a].ok /\ Metered(log[a].op) /\ log[a].op.place = log[b].op.place
                         => \/ Last(log[a].text) <= Head(log[b].text)
                            \/ log[a].op.prompt /\ IsLine(log[b].op)
  BY DEF TopicOrder
<1>1. /\ Increasing(log[b].text) /\ DOMAIN log[b].text = 1 .. Len(log[b].text)
      /\ Len(log[b].text) \in Nat /\ Head(log[b].text) \in Nat
      /\ \A a \in 1 .. b - 1 : log[a].ok => a \in DOMAIN log /\ Shows(log[a], log[b])
  BY ShownFacts
<1>2. ASSUME NEW k \in 2 .. Len(log[b].text) PROVE log[b].text[k - 1] < log[b].text[k]
  BY <1>1 DEF Increasing
<1>3. ASSUME NEW a \in 1 .. b - 1, log[a].ok, Metered(log[a].op),
             log[a].op.place = log[b].op.place
      PROVE  \/ Last(log[a].text) <= Head(log[b].text)
             \/ log[a].op.prompt /\ IsLine(log[b].op)
  BY <1>1, <1>3, ShownFacts DEF Rivals, Shows
<1>. QED BY <1>2, <1>3

LEMMA Newer ==
  IInv => NewestTextStays
<1> SUFFICES ASSUME IInv, NEW b \in DOMAIN log, NEW a \in 1 .. b - 1, log[a].ok, log[b].ok,
                    log[a].op.msg # None, log[a].op.msg = log[b].op.msg,
                    (log[a].op.kind = "react") = (log[b].op.kind = "react")
             PROVE  Last(log[a].text) < Last(log[b].text)
  BY DEF NewestTextStays
<1>1. /\ log[b].op \in Op /\ Head(log[b].text) \in Nat /\ Last(log[b].text) \in Nat
      /\ Head(log[b].text) <= Last(log[b].text)
      /\ \A i \in 1 .. b - 1 : log[i].ok => i \in DOMAIN log /\ Shows(log[i], log[b])
  BY ShownFacts
<1>2. a \in DOMAIN log /\ Shows(log[a], log[b]) BY <1>1
<1>3. log[a].op \in Op /\ Last(log[a].text) \in Nat BY <1>2, ShownFacts
<1>4. Rivals(log[a].op, log[b].op) BY DEF Rivals
<1>5. ~Metered(log[b].op) /\ ~Metered(log[a].op) BY DEF Metered
<1>6. ~log[a].op.prompt BY <1>3, <1>5, OpFacts
<1>7. Last(log[a].text) < Head(log[b].text) BY <1>2, <1>4, <1>5, <1>6 DEF Shows
<1>. QED BY <1>1, <1>3, <1>7

(* Every job stands in the lane of its kind, no request goes without its   *)
(* token, and a stream is broken only while no queued line restarts it.    *)
THEOREM TypeCorrect ==
  Spec => []TypeOK
BY Typed, Invariance, PTL

(* The new messages of a topic show in the order they were handed over,    *)
(* whatever was retried, merged or put back; a prompt alone overtakes.     *)
THEOREM TopicsKeepOrder ==
  Spec => []TopicOrder
BY Ordered, Invariance, PTL

(* No delayed or retried edit takes a message back to an older text.       *)
THEOREM NewestStays ==
  Spec => []NewestTextStays
BY Newer, Invariance, PTL

(* A due new message lets at most MAX_CONSECUTIVE_UNMETERED other requests *)
(* go before it.                                                           *)
THEOREM MessageServed ==
  Spec => []NewMessageServed
<1>1. IInv => NewMessageServed
  <2> SUFFICES ASSUME IInv PROVE NewMessageServed
    OBVIOUS
  <2>1. PaceInv /\ MaxUnmetered \in Nat BY OutboxAssumption DEF IInv
  <2>. QED BY <2>1 DEF PaceInv, NewMessageServed
<1>. QED BY <1>1, Invariance, PTL

----------------------------------------------------------------------------
(* Who waits for an answer: the senders in the lanes, each in one place,   *)
(* and those in X, whose jobs are elsewhere.  Only a line has senders      *)
(* merged into it, and a line has no LiveText.                             *)
Own(job) == (job.merged # {} => IsLine(job.op)) /\ (job.live # 0 => ~IsLine(job.op))

OwnIn(js) == \A i \in DOMAIN js : Own(js[i])

HeldIn(js) == UNION {Waiters(js[i]) : i \in DOMAIN js}

ApartIn(js) ==
  \A i, k \in DOMAIN js : i # k => Waiters(js[i]) \cap Waiters(js[k]) = {}

Single(js) == OwnIn(js) /\ ApartIn(js)

Waits(s) == {n \in DOMAIN s.answer : s.answer[n] = "waiting"}

LaneSenders(s) == UNION {HeldIn(s[lane]) : lane \in Lanes}

Senders(s, X) ==
  /\ \A lane \in Lanes : Single(s[lane])
  /\ \A l, k \in Lanes : l # k => HeldIn(s[l]) \cap HeldIn(s[k]) = {}
  /\ LaneSenders(s) \cap X = {}
  /\ Waits(s) = X \cup LaneSenders(s)

LEMMA HeldInIs ==
  ASSUME NEW js, NEW i \in DOMAIN js
  PROVE  Waiters(js[i]) \subseteq HeldIn(js)
BY DEF HeldIn

LEMMA InOneLane ==
  ASSUME NEW s, NEW lane \in Lanes
  PROVE  HeldIn(s[lane]) \subseteq LaneSenders(s)
BY DEF LaneSenders

(* Only what the given lane holds changed, and X makes up for it.          *)
LEMMA Shifted ==
  ASSUME NEW s, NEW t, NEW X, NEW Y, NEW lane \in Lanes,
         Senders(s, X), Elsewhere(s, t, lane), t.answer = s.answer, Single(t[lane]),
         HeldIn(t[lane]) \cap Y = {}, HeldIn(t[lane]) \cup Y = HeldIn(s[lane]) \cup X
  PROVE  Senders(t, Y)
<1>1. \A l \in Lanes \ {lane} : t[l] = s[l] BY DEF Elsewhere
<1>2. \A l \in Lanes : Single(t[l]) BY <1>1 DEF Senders
<1>3. Waits(t) = Waits(s) BY DEF Waits
<1>4. /\ \A l, k \in Lanes : l # k => HeldIn(s[l]) \cap HeldIn(s[k]) = {}
      /\ LaneSenders(s) \cap X = {} /\ Waits(s) = X \cup LaneSenders(s)
  BY DEF Senders
<1> DEFINE R == UNION {HeldIn(s[l]) : l \in Lanes \ {lane}}
           A == HeldIn(s[lane])
           B == HeldIn(t[lane])
<1>5. LaneSenders(s) = A \cup R BY DEF LaneSenders
<1>6. LaneSenders(t) = B \cup R BY <1>1 DEF LaneSenders
<1>7. A \cap R = {} BY <1>4
<1>8. \A l \in Lanes \ {lane} : HeldIn(t[l]) = HeldIn(s[l]) /\ HeldIn(s[l]) \subseteq R
  BY <1>1
<1>9. B \cap Y = {} /\ B \cup Y = A \cup X OBVIOUS
<1> HIDE DEF A, B, R
<1>10. B \cap R = {} /\ Y \cap R = {} /\ (B \cup R) \cap Y = {} BY <1>4, <1>5, <1>7, <1>9
<1>11. ASSUME NEW l \in Lanes, NEW k \in Lanes, l # k PROVE HeldIn(t[l]) \cap HeldIn(t[k]) = {}
  BY <1>1, <1>4, <1>11, <1>8, <1>10 DEF B
<1>12. LaneSenders(t) \cap Y = {} /\ Waits(t) = Y \cup LaneSenders(t)
  BY <1>3, <1>4, <1>5, <1>6, <1>9, <1>10
<1>. QED BY <1>2, <1>11, <1>12 DEF Senders

LEMMA SameSenders ==
  ASSUME NEW s, NEW t, NEW X, NEW Y, Senders(s, X), Unmoved(s, t),
         LaneSenders(s) \cap Y = {}, Waits(t) = Y \cup LaneSenders(s)
  PROVE  Senders(t, Y)
BY DEF Unmoved, LaneSenders, Senders

LEMMA Untouched ==
  ASSUME NEW s, NEW t, NEW X, Senders(s, X), Unmoved(s, t), t.answer = s.answer
  PROVE  Senders(t, X)
<1>1. LaneSenders(s) \cap X = {} /\ Waits(s) = X \cup LaneSenders(s) BY DEF Senders
<1>2. Waits(t) = Waits(s) BY DEF Waits
<1>. QED BY <1>1, <1>2, SameSenders

(* Senders that are answered wait no more.                                 *)
LEMMA ReleasedApart ==
  ASSUME NEW N, NEW s \in QueueRecord(N), NEW X, Senders(s, X), NEW w,
         LaneSenders(s) \cap w = {}, NEW what \in Outcome, what # "waiting",
         NEW t, t = Answered(s, w, what)
  PROVE  t \in QueueRecord(N) /\ SameJobs(s, t) /\ Senders(t, X \ w)
<1>1. /\ t \in QueueRecord(N) /\ SameJobs(s, t)
      /\ t.answer = [n \in 1 .. N |-> IF n \in w THEN what ELSE s.answer[n]]
  BY AnsweredIs
<1>2. DOMAIN s.answer = 1 .. N BY LanesAre
<1>3. Waits(t) = Waits(s) \ w BY <1>1, <1>2 DEF Waits
<1>4. LaneSenders(s) \cap X = {} /\ Waits(s) = X \cup LaneSenders(s) BY DEF Senders
<1>5. Waits(t) = (X \ w) \cup LaneSenders(s) /\ LaneSenders(s) \cap (X \ w) = {}
  BY <1>3, <1>4
<1>. QED BY <1>1, <1>5, SameSenders DEF SameJobs

LEMMA Released ==
  ASSUME NEW N, NEW s \in QueueRecord(N), N \in Nat, NEW X, Senders(s, X), NEW w,
         w \subseteq X \cup {0}, NEW what \in Outcome, what # "waiting",
         NEW t, t = Answered(s, w, what)
  PROVE  t \in QueueRecord(N) /\ SameJobs(s, t) /\ Senders(t, X \ w)
<1>1. DOMAIN s.answer = 1 .. N BY LanesAre
<1>2. LaneSenders(s) \cap X = {} /\ Waits(s) = X \cup LaneSenders(s) BY DEF Senders
<1>3. 0 \notin Waits(s) BY <1>1 DEF Waits
<1>4. LaneSenders(s) \cap w = {} BY <1>2, <1>3
<1>. QED BY <1>4, ReleasedApart

(* A sender that is asked for waits.                                       *)
LEMMA Asked ==
  ASSUME NEW N, NEW s \in QueueRecord(N), N \in Nat, NEW X, Senders(s, X), NEW n \in 1 .. N,
         n \notin LaneSenders(s),
         NEW t, t = Answered(s, {n}, "waiting"), "waiting" \in Outcome
  PROVE  t \in QueueRecord(N) /\ SameJobs(s, t) /\ Senders(t, X \cup {n})
<1>1. /\ t \in QueueRecord(N) /\ SameJobs(s, t)
      /\ t.answer = [k \in 1 .. N |-> IF k \in {n} THEN "waiting" ELSE s.answer[k]]
  BY AnsweredIs
<1>2. DOMAIN s.answer = 1 .. N BY LanesAre
<1>3. Waits(t) = Waits(s) \cup {n} BY <1>1, <1>2 DEF Waits
<1>4. LaneSenders(s) \cap X = {} /\ Waits(s) = X \cup LaneSenders(s) BY DEF Senders
<1>5. Waits(t) = (X \cup {n}) \cup LaneSenders(s) /\ LaneSenders(s) \cap (X \cup {n}) = {}
  BY <1>3, <1>4
<1>. QED BY <1>1, <1>5, SameSenders DEF SameJobs

(* What one lane holds.                                                    *)
LEMMA KeptSenders ==
  ASSUME NEW js \in Seq(JobRecord), Single(js), NEW gone \in SUBSET DOMAIN js,
         NEW ks, ks = Kept(js, gone)
  PROVE  /\ Single(ks)
         /\ HeldIn(ks) = HeldIn(js) \ UNION {Waiters(js[i]) : i \in gone}
<1>1. PICK g : Keeps(js, gone, ks, g) /\ ks \in Seq(JobRecord) BY KeptIs
<1>2. \A k \in DOMAIN ks : g[k] \in DOMAIN js \ gone /\ ks[k] = js[g[k]]
  BY <1>1 DEF Keeps
<1>3. \A i, k \in DOMAIN js : i # k => Waiters(js[i]) \cap Waiters(js[k]) = {}
  BY DEF Single, ApartIn
<1>4. OwnIn(ks) BY <1>2 DEF OwnIn, Single
<1>5. ASSUME NEW i \in DOMAIN ks, NEW k \in DOMAIN ks, i # k
      PROVE  Waiters(ks[i]) \cap Waiters(ks[k]) = {}
  BY <1>1, <1>2, <1>5, <1>3 DEF Keeps
<1>6. ASSUME NEW n \in HeldIn(ks)
      PROVE  n \in HeldIn(js) /\ n \notin UNION {Waiters(js[i]) : i \in gone}
  <2>1. PICK k \in DOMAIN ks : n \in Waiters(ks[k]) BY <1>6 DEF HeldIn
  <2>2. g[k] \in DOMAIN js /\ g[k] \notin gone /\ n \in Waiters(js[g[k]]) BY <1>2, <2>1
  <2>3. \A i \in gone : n \notin Waiters(js[i]) BY <1>3, <2>2
  <2>. QED BY <2>2, <2>3 DEF HeldIn
<1>7. ASSUME NEW n \in HeldIn(js), n \notin UNION {Waiters(js[i]) : i \in gone}
      PROVE  n \in HeldIn(ks)
  <2>1. PICK i \in DOMAIN js : n \in Waiters(js[i]) BY DEF HeldIn
  <2>2. i \notin gone BY <1>7, <2>1
  <2>3. PICK k \in DOMAIN ks : g[k] = i BY <1>1, <2>2 DEF Keeps
  <2>. QED BY <1>2, <2>1, <2>3 DEF HeldIn
<1>8. ApartIn(ks) BY <1>5 DEF ApartIn
<1>. QED BY <1>4, <1>6, <1>7, <1>8 DEF Single

LEMMA JoinedSenders ==
  ASSUME NEW js \in Seq(JobRecord), NEW ks \in Seq(JobRecord), Single(js), Single(ks),
         HeldIn(js) \cap HeldIn(ks) = {}, NEW all, all = js \o ks
  PROVE  Single(all) /\ HeldIn(all) = HeldIn(js) \cup HeldIn(ks)
<1>1. /\ Len(js) \in Nat /\ Len(ks) \in Nat /\ Len(all) = Len(js) + Len(ks)
      /\ DOMAIN all = 1 .. Len(js) + Len(ks) /\ DOMAIN js = 1 .. Len(js) /\ DOMAIN ks = 1 .. Len(ks)
  OBVIOUS
<1>2. /\ \A i \in 1 .. Len(js) : all[i] = js[i]
      /\ \A i \in 1 .. Len(ks) : all[Len(js) + i] = ks[i]
  BY SeqConcatIs
<1>3. ASSUME NEW i \in DOMAIN all, i > Len(js)
      PROVE  i - Len(js) \in DOMAIN ks /\ all[i] = ks[i - Len(js)]
  BY <1>1, <1>3, <1>2
<1>4. ASSUME NEW i \in DOMAIN all, ~(i > Len(js)) PROVE i \in DOMAIN js /\ all[i] = js[i]
  BY <1>1, <1>2, <1>4
<1>5. OwnIn(all)
  <2> SUFFICES ASSUME NEW i \in DOMAIN all PROVE Own(all[i])
    BY DEF OwnIn
  <2>. QED BY <1>3, <1>4 DEF Single, OwnIn
<1>6. ApartIn(all)
  <2> SUFFICES ASSUME NEW i \in DOMAIN all, NEW k \in DOMAIN all, i # k
               PROVE  Waiters(all[i]) \cap Waiters(all[k]) = {}
    BY DEF ApartIn
  <2>1. CASE i > Len(js) /\ k > Len(js) BY <1>1, <1>3, <2>1 DEF Single, ApartIn
  <2>2. CASE ~(i > Len(js)) /\ ~(k > Len(js)) BY <1>4, <2>2 DEF Single, ApartIn
  <2>3. CASE i > Len(js) /\ ~(k > Len(js)) BY <1>3, <1>4, <2>3, HeldInIs
  <2>4. CASE ~(i > Len(js)) /\ k > Len(js) BY <1>3, <1>4, <2>4, HeldInIs
  <2>. QED BY <2>1, <2>2, <2>3, <2>4
<1>7. HeldIn(all) \subseteq HeldIn(js) \cup HeldIn(ks)
  <2> SUFFICES ASSUME NEW i \in DOMAIN all
               PROVE  Waiters(all[i]) \subseteq HeldIn(js) \cup HeldIn(ks)
    BY DEF HeldIn
  <2>. QED BY <1>3, <1>4, HeldInIs
<1>8. HeldIn(js) \subseteq HeldIn(all) BY <1>1, <1>2 DEF HeldIn
<1>9. HeldIn(ks) \subseteq HeldIn(all)
  <2>1. \A i \in DOMAIN ks : Len(js) + i \in DOMAIN all /\ all[Len(js) + i] = ks[i]
    BY <1>1, <1>2
  <2>. QED BY <2>1 DEF HeldIn
<1>. QED BY <1>5, <1>6, <1>7, <1>8, <1>9 DEF Single

LEMMA OneSender ==
  ASSUME NEW job \in JobRecord, Own(job)
  PROVE  <<job>> \in Seq(JobRecord) /\ Single(<<job>>) /\ HeldIn(<<job>>) = Waiters(job)
<1>1. DOMAIN <<job>> = {1} /\ <<job>>[1] = job /\ <<job>> \in Seq(JobRecord) OBVIOUS
<1> DEFINE js == <<job>>
<1> HIDE DEF js
<1>2. \A i \in {1} : js[i] = job BY <1>1 DEF js
<1>3. DOMAIN js = {1} BY <1>1 DEF js
<1>4. Single(js) /\ HeldIn(js) = Waiters(job)
  BY <1>2, <1>3 DEF Single, OwnIn, ApartIn, HeldIn
<1>. QED BY <1>1, <1>4 DEF js

(* Jobs that stand for those before, with the same senders.                *)
LEMMA AlikeSenders ==
  ASSUME NEW js, NEW ks, DOMAIN ks = DOMAIN js, Single(js),
         \A i \in DOMAIN js : Waiters(ks[i]) = Waiters(js[i]) /\ Own(ks[i])
  PROVE  Single(ks) /\ HeldIn(ks) = HeldIn(js)
BY DEF Single, OwnIn, ApartIn, HeldIn

LEMMA ChangedSenders ==
  ASSUME NEW js, Single(js), NEW i \in DOMAIN js, NEW job, Own(job),
         Waiters(job) \cap HeldIn(js) = {}, NEW ks, ks = [js EXCEPT ![i] = job]
  PROVE  Single(ks) /\ HeldIn(ks) = (HeldIn(js) \ Waiters(js[i])) \cup Waiters(job)
<1>1. DOMAIN ks = DOMAIN js /\ ks[i] = job /\ \A k \in DOMAIN js \ {i} : ks[k] = js[k]
  OBVIOUS
<1>2. \A k, l \in DOMAIN js : k # l => Waiters(js[k]) \cap Waiters(js[l]) = {}
  BY DEF Single, ApartIn
<1>3. OwnIn(ks) BY <1>1 DEF Single, OwnIn
<1>4. \A k \in DOMAIN js : Waiters(job) \cap Waiters(js[k]) = {} BY HeldInIs
<1>5. ApartIn(ks)
  <2> SUFFICES ASSUME NEW k \in DOMAIN ks, NEW l \in DOMAIN ks, k # l
               PROVE  Waiters(ks[k]) \cap Waiters(ks[l]) = {}
    BY DEF ApartIn
  <2>. QED BY <1>1, <1>2, <1>4
<1>6. ASSUME NEW n
      PROVE  n \in HeldIn(ks) <=> n \in (HeldIn(js) \ Waiters(js[i])) \cup Waiters(job)
  BY <1>1, <1>2 DEF HeldIn
<1>. QED BY <1>3, <1>5, <1>6 DEF Single

----------------------------------------------------------------------------
(* The operations on the lanes keep track of every sender.                 *)
WaitersAt(js, places) == UNION {Waiters(js[i]) : i \in places}

LEMMA TakenOut ==
  ASSUME NEW N, NEW s \in QueueRecord(N), NEW X, Senders(s, X), NEW lane \in Lanes,
         NEW gone \in SUBSET DOMAIN s[lane]
  PROVE  /\ Senders(WithLane(s, lane, Kept(s[lane], gone)), X \cup WaitersAt(s[lane], gone))
         /\ WaitersAt(s[lane], gone) \cap X = {}
<1> DEFINE W == WaitersAt(s[lane], gone)
           t == WithLane(s, lane, Kept(s[lane], gone))
<1>8. t = WithLane(s, lane, Kept(s[lane], gone)) /\ W = WaitersAt(s[lane], gone) OBVIOUS
<1> HIDE DEF W, t
<1>1. s[lane] \in Seq(JobRecord) /\ Single(s[lane]) BY LanesAre DEF Senders
<1>2. /\ t \in QueueRecord(N) /\ t[lane] = Kept(s[lane], gone)
      /\ Elsewhere(s, t, lane) /\ t.answer = s.answer
  BY <1>8, Unlaned DEF Lost
<1>3. Single(t[lane]) /\ HeldIn(t[lane]) = HeldIn(s[lane]) \ W
  BY <1>1, <1>2, <1>8, KeptSenders DEF WaitersAt
<1>4. W \subseteq HeldIn(s[lane]) BY <1>8 DEF HeldIn, WaitersAt
<1>5. HeldIn(s[lane]) \cap X = {} BY InOneLane DEF Senders
<1>6. /\ HeldIn(t[lane]) \cap (X \cup W) = {}
      /\ HeldIn(t[lane]) \cup (X \cup W) = HeldIn(s[lane]) \cup X
  BY <1>3, <1>4, <1>5
<1>7. Senders(t, X \cup W) BY <1>2, <1>3, <1>6, Shifted
<1>. QED BY <1>4, <1>5, <1>7 DEF W, t

LEMMA PurgedSenders ==
  ASSUME NEW N, NEW s \in QueueRecord(N), N \in Nat, NEW X, Senders(s, X), NEW lane \in Lanes,
         NEW gone \in SUBSET DOMAIN s[lane], NEW what \in Outcome, what # "waiting",
         NEW t, t = Purged(s, lane, gone, what)
  PROVE  t \in QueueRecord(N) /\ Senders(t, X)
<1>1. PICK W : W = WaitersAt(s[lane], gone) OBVIOUS
<1>2. PICK r : r = WithLane(s, lane, Kept(s[lane], gone)) OBVIOUS
<1>3. t = Answered(r, W, what) BY <1>1, <1>2 DEF Purged, WithLane, WaitersAt
<1>7. r \in QueueRecord(N) BY <1>2, Unlaned
<1>4. r \in QueueRecord(N) /\ Senders(r, X \cup W) /\ W \cap X = {}
  BY <1>1, <1>2, <1>7, TakenOut
<1>5. W \subseteq (X \cup W) \cup {0} /\ (X \cup W) \ W = X BY <1>4
<1>6. t \in QueueRecord(N) /\ Senders(t, (X \cup W) \ W) BY <1>3, <1>4, <1>5, Released
<1>. QED BY <1>5, <1>6

LEMMA OutdatedSenders ==
  ASSUME NEW N, NEW s \in QueueRecord(N), N \in Nat, NEW X, Senders(s, X), NEW o,
         NEW t, t = Outdated(s, o)
  PROVE  t \in QueueRecord(N) /\ Senders(t, X)
<1>1. "superseded" \in Outcome BY DEF Outcome
<1>2. "edit" \in Lanes /\ "message" \in Lanes BY DEF Lanes
<1> DEFINE edits == {i \in DOMAIN s.edit : s.edit[i].op.kind = "edit" /\ s.edit[i].op.msg = o.msg}
           texts == {i \in DOMAIN s.message : s.message[i].live # 0
                                              /\ s.message[i].op.place = o.place}
<1>3. edits \in SUBSET DOMAIN s.edit /\ texts \in SUBSET DOMAIN s.message OBVIOUS
<1>4. t = IF Into(o) THEN Purged(s, "edit", edits, "superseded")
          ELSE IF o.prompt THEN Purged(s, "message", texts, "superseded") ELSE s
  BY DEF Outdated
<1> HIDE DEF edits, texts
<1>5. CASE Into(o) BY <1>1, <1>2, <1>3, <1>4, <1>5, PurgedSenders
<1>6. CASE ~Into(o) /\ o.prompt BY <1>1, <1>2, <1>3, <1>4, <1>6, PurgedSenders
<1>7. CASE ~Into(o) /\ ~o.prompt BY <1>4, <1>7
<1>. QED BY <1>5, <1>6, <1>7

(* A job that is put at the end, or at the front, of its lane.             *)
LEMMA LinedUp ==
  ASSUME NEW N, NEW s \in QueueRecord(N), NEW X, Senders(s, X), NEW lane \in Lanes,
         NEW jobs \in Seq(JobRecord), Single(jobs), HeldIn(jobs) \subseteq X,
         NEW js, js = jobs \o s[lane] \/ js = s[lane] \o jobs,
         NEW t, t = WithLane(s, lane, js)
  PROVE  t \in QueueRecord(N) /\ Senders(t, X \ HeldIn(jobs))
<1>1. s[lane] \in Seq(JobRecord) /\ Single(s[lane]) BY LanesAre DEF Senders
<1>2. HeldIn(s[lane]) \cap X = {} BY InOneLane DEF Senders
<1>3. HeldIn(s[lane]) \cap HeldIn(jobs) = {} /\ HeldIn(jobs) \cap HeldIn(s[lane]) = {}
  BY <1>2
<1> DEFINE old == s[lane]
<1>4. /\ old \in Seq(JobRecord) /\ Single(old) /\ HeldIn(old) \cap HeldIn(jobs) = {}
      /\ HeldIn(jobs) \cap HeldIn(old) = {} /\ (js = jobs \o old \/ js = old \o jobs)
  BY <1>1, <1>3
<1> HIDE DEF old
<1>9. ASSUME js = jobs \o old
      PROVE  js \in Seq(JobRecord) /\ Single(js) /\ HeldIn(js) = HeldIn(old) \cup HeldIn(jobs)
  <2>1. Single(js) /\ HeldIn(js) = HeldIn(jobs) \cup HeldIn(old)
    BY <1>4, <1>9, JoinedSenders
  <2>2. js \in Seq(JobRecord) /\ HeldIn(js) = HeldIn(old) \cup HeldIn(jobs)
    BY <1>4, <1>9, <2>1
  <2>. QED BY <2>1, <2>2
<1>10. ASSUME js = old \o jobs
       PROVE  js \in Seq(JobRecord) /\ Single(js) /\ HeldIn(js) = HeldIn(old) \cup HeldIn(jobs)
  <2>1. Single(js) /\ HeldIn(js) = HeldIn(old) \cup HeldIn(jobs)
    BY <1>4, <1>10, JoinedSenders
  <2>2. js \in Seq(JobRecord) BY <1>4, <1>10
  <2>. QED BY <2>1, <2>2
<1>5. js \in Seq(JobRecord) /\ Single(js) /\ HeldIn(js) = HeldIn(s[lane]) \cup HeldIn(jobs)
  BY <1>4, <1>9, <1>10 DEF old
<1>6. t \in QueueRecord(N) /\ t[lane] = js /\ Elsewhere(s, t, lane) /\ t.answer = s.answer
  BY <1>5, Relaned
<1>7. /\ HeldIn(t[lane]) \cap (X \ HeldIn(jobs)) = {}
      /\ HeldIn(t[lane]) \cup (X \ HeldIn(jobs)) = HeldIn(s[lane]) \cup X
  BY <1>2, <1>5, <1>6
<1>. QED BY <1>5, <1>6, <1>7, Shifted

LEMMA NewJob ==
  ASSUME NEW subs \in Seq(Op), NEW n \in 1 .. Len(subs), NEW job, job = Job(n, subs[n])
  PROVE  job \in JobRecord /\ Own(job) /\ Waiters(job) = {n} /\ job.merged = {}
         /\ job.reply = n /\ job.op = subs[n]
BY JobIsOK DEF JobOK, Job, Op, OpRecord, IsLine, Own, Waiters

LEMMA QueuedSenders ==
  ASSUME NEW subs \in Seq(Op), NEW n \in 1 .. Len(subs), NEW job, job = Job(n, subs[n]),
         NEW N, NEW s \in QueueRecord(N), NEW X, Senders(s, X), n \in X,
         NEW t, t = Queued(s, job)
  PROVE  t \in QueueRecord(N) /\ Senders(t, X \ {n})
<1>1. job \in JobRecord /\ Own(job) /\ Waiters(job) = {n} /\ job.op = subs[n] /\ job.op \in Op
  BY NewJob
<1>2. <<job>> \in Seq(JobRecord) /\ Single(<<job>>) /\ HeldIn(<<job>>) = {n}
  BY <1>1, OneSender
<1>3. PICK lane \in Lanes : lane = Lane(job.op) BY <1>1, OpFacts
<1>4. ASSUME NEW r \in QueueRecord(N), Senders(r, X), t = WithLane(r, lane, Append(r[lane], job))
      PROVE  t \in QueueRecord(N) /\ Senders(t, X \ {n})
  <2>1. r[lane] \in Seq(JobRecord) BY <1>4, LanesAre
  <2>2. Append(r[lane], job) = r[lane] \o <<job>> BY <1>1, <2>1
  <2>3. PICK jobs : jobs = <<job>> OBVIOUS
  <2>4. jobs \in Seq(JobRecord) /\ Single(jobs) /\ HeldIn(jobs) = {n} BY <1>2, <2>3
  <2>5. HeldIn(jobs) \subseteq X /\ t = WithLane(r, lane, r[lane] \o jobs)
    BY <1>4, <2>2, <2>3, <2>4
  <2>6. t \in QueueRecord(N) /\ Senders(t, X \ HeldIn(jobs)) BY <1>4, <2>4, <2>5, LinedUp
  <2>. QED BY <2>4, <2>6
<1>5. CASE lane # "message" BY <1>3, <1>5, <1>4 DEF Queued, WithLane
<1>6. CASE lane = "message"
  <2> DEFINE woken == [i \in DOMAIN s.message |->
                         [s.message[i] EXCEPT !.ripe = @ /\ ~Joins(s.message[i].op, job.op)]]
  <2>1. s.message \in Seq(JobRecord) /\ "message" \in Lanes BY LanesAre DEF Lanes
  <2>2. ASSUME NEW i \in DOMAIN s.message
        PROVE  woken[i] \in JobRecord /\ Like(s.message[i], woken[i])
               /\ IsLine(woken[i].op) = IsLine(s.message[i].op)
    <3> DEFINE m == s.message[i]
               k == [m EXCEPT !.ripe = m.ripe /\ ~Joins(m.op, job.op)]
    <3>1. m \in JobRecord BY <2>1
    <3>2. woken[i] = k OBVIOUS
    <3>3. Joins(m.op, job.op) \in BOOLEAN BY DEF Joins, IsLine
    <3> HIDE DEF m
    <3>4. k \in JobRecord BY <3>1, <3>3 DEF JobRecord
    <3>5. /\ k.at = m.at /\ k.text = m.text /\ k.plain = m.plain /\ k.reply = m.reply
          /\ k.merged = m.merged /\ k.live = m.live /\ k.op = m.op
      BY <3>1 DEF JobRecord
    <3> HIDE DEF k, woken
    <3>6. Like(m, k) BY <3>4, <3>5 DEF Like, Alike
    <3>. QED BY <3>2, <3>4, <3>5, <3>6 DEF m
  <2>3. woken \in Seq(JobRecord) /\ DOMAIN woken = DOMAIN s.message
    <3>1. woken = [i \in DOMAIN s.message |-> woken[i]] OBVIOUS
    <3> HIDE DEF woken
    <3>3. \A i \in 1 .. Len(s.message) : woken[i] \in JobRecord BY <2>1, <2>2
    <3>4. woken = [i \in 1 .. Len(s.message) |-> woken[i]] BY <2>1, <3>1
    <3>2. woken \in [1 .. Len(s.message) -> JobRecord] BY <3>3, <3>4
    <3>. QED BY <2>1, <3>2
  <2> HIDE DEF woken
  <2>4. Single(s.message) /\ HeldIn(s.message) \cap X = {} BY <2>1, InOneLane DEF Senders
  <2>5. ASSUME NEW i \in DOMAIN s.message
        PROVE  Waiters(woken[i]) = Waiters(s.message[i]) /\ Own(woken[i])
    BY <2>4, <2>2 DEF Single, OwnIn, Like, Waiters, Own
  <2>6. Single(woken) /\ HeldIn(woken) = HeldIn(s.message)
    BY <2>3, <2>4, <2>5, AlikeSenders
  <2>7. PICK r : r = WithLane(s, "message", woken) OBVIOUS
  <2>8. /\ r \in QueueRecord(N) /\ r["message"] = woken /\ Elsewhere(s, r, "message")
        /\ r.answer = s.answer
    BY <2>1, <2>3, <2>7, Relaned
  <2>9. /\ Single(r["message"]) /\ HeldIn(r["message"]) \cap X = {}
        /\ HeldIn(r["message"]) \cup X = HeldIn(s["message"]) \cup X
    BY <2>4, <2>6, <2>8
  <2>10. Senders(r, X) BY <2>1, <2>8, <2>9, Shifted
  <2>11. t = WithLane(r, "message", Append(r.message, job))
    BY <1>3, <1>6, <2>7, <2>8 DEF Queued, WithLane, woken, QueueRecord
  <2>. QED BY <1>4, <1>6, <2>8, <2>10, <2>11
<1>. QED BY <1>5, <1>6

(* The job that is replaced was alone, for an edit has nobody merged in.   *)
LEMMA CoalescedSenders ==
  ASSUME NEW N, NEW s \in QueueRecord(N), N \in Nat, NEW X, Senders(s, X),
         NEW i \in DOMAIN s.edit, ~IsLine(s.edit[i].op),
         NEW subs \in Seq(Op), NEW n \in 1 .. Len(subs), NEW job, job = Job(n, subs[n]), n \in X,
         NEW t, t = Coalesced(s, i, job)
  PROVE  t \in QueueRecord(N) /\ Senders(t, X \ {n})
<1>1. job \in JobRecord /\ Waiters(job) = {n} /\ job.reply = n BY NewJob, SMTT(30)
<1>2. "edit" \in Lanes /\ "superseded" \in Outcome /\ "superseded" # "waiting"
  BY DEF Lanes, Outcome
<1>3. s.edit \in Seq(JobRecord) /\ s.edit[i] \in JobRecord BY <1>2, LanesAre
<1>4. Single(s.edit) /\ HeldIn(s.edit) \cap X = {} BY <1>2, InOneLane DEF Senders
<1> DEFINE k == Renewed(s.edit[i], job)
           old == s.edit[i].reply
           js == [s.edit EXCEPT ![i] = k]
<1>5. /\ k \in JobRecord /\ k.reply = n /\ k.merged = s.edit[i].merged
      /\ Alike(s.edit[i].op, k.op)
  BY <1>1, <1>3, RenewedIs
<1>6. s.edit[i].merged = {} BY <1>4 DEF Single, OwnIn, Own
<1> HIDE DEF k
<1>7. k.merged = {} /\ ~IsLine(k.op) BY <1>5, <1>6, AlikeFacts
<1>8. Own(k) BY <1>7 DEF Own
<1>9. Waiters(k) = {n} BY <1>5, <1>7 DEF Waiters
<1>10. Waiters(s.edit[i]) = {old} \ {0} /\ Waiters(s.edit[i]) \subseteq HeldIn(s.edit)
  BY <1>6, HeldInIs DEF Waiters
<1>11. PICK ks : ks = js OBVIOUS
<1>12. ks \in Seq(JobRecord) BY <1>3, <1>5, <1>11
<1>13. PICK r : r = WithLane(s, "edit", ks) OBVIOUS
<1>14. t = Answered(r, {old}, "superseded") BY <1>11, <1>13, CoalescedIs DEF k
<1>15. r \in QueueRecord(N) /\ r["edit"] = ks /\ Elsewhere(s, r, "edit") /\ r.answer = s.answer
  BY <1>2, <1>12, <1>13, Relaned
<1>16. Waiters(k) \cap HeldIn(s.edit) = {} BY <1>4, <1>9
<1>17. Single(ks) /\ HeldIn(ks) = (HeldIn(s.edit) \ Waiters(s.edit[i])) \cup Waiters(k)
  BY <1>4, <1>8, <1>11, <1>16, ChangedSenders
<1> DEFINE Y == (X \ {n}) \cup Waiters(s.edit[i])
<1>18. HeldIn(ks) \cap Y = {} /\ HeldIn(ks) \cup Y = HeldIn(s.edit) \cup X
  BY <1>4, <1>9, <1>10, <1>17
<1>19. Y \ {old} = X \ {n} /\ {old} \subseteq Y \cup {0}
  <2>1. {old} \ {0} \subseteq HeldIn(s.edit) /\ {old} \ {0} \subseteq Y BY <1>10
  <2>2. ASSUME old \in X PROVE FALSE BY <1>4, <2>1, <2>2, LanesAre DEF Senders, Waits
  <2>. QED BY <1>10, <2>1, <2>2
<1> HIDE DEF Y, old
<1>20. Senders(r, Y) BY <1>2, <1>15, <1>17, <1>18, Shifted
<1>21. t \in QueueRecord(N) /\ Senders(t, Y \ {old})
  BY <1>2, <1>14, <1>15, <1>19, <1>20, Released
<1>. QED BY <1>19, <1>21

LEMMA EnqueueSenders ==
  ASSUME NEW subs \in Seq(Op), NEW n \in 1 .. Len(subs), NEW job, job = Job(n, subs[n]),
         NEW known, NEW E, NEW N, NEW s \in QueueRecord(N), N \in Nat, Queue(known, E, s),
         NEW X, Senders(s, X), n \in X,
         NEW t, t = Enqueue(s, job)
  PROVE  Senders(t, X \ {n})
<1>1. job \in JobRecord /\ job.reply = n /\ job.op = subs[n] BY NewJob
<1> DEFINE o == job.op
           older == Older(s, o)
           B == IF IsLine(o) THEN s.broken \ {o.place} ELSE s.broken
<1>2. CASE IsLine(o) /\ ~o.restart /\ o.place \in s.broken
  BY <1>1, <1>2, EnqueueCases, Released DEF Outcome
<1>3. CASE ~(IsLine(o) /\ ~o.restart /\ o.place \in s.broken) /\ older # {}
  <2>1. s.edit \in Seq(JobRecord) BY LanesAre DEF Lanes
  <2>2. PICK i : i = Min(older) OBVIOUS
  <2>3. i \in older
    <3>1. older \in SUBSET Nat BY <2>1 DEF Older
    <3>. QED BY <1>3, <2>2, <3>1, MinIs
  <2>4. t = Coalesced(s, i, job) BY <1>3, <2>2, EnqueueCases
  <2>5. i \in DOMAIN s.edit BY <2>3 DEF Older
  <2>6. s.edit[i].op \in Op /\ Lane(s.edit[i].op) = "edit"
    BY <2>5 DEF Queue, Lanes, JobOK, JobRecord
  <2>7. ~IsLine(s.edit[i].op) BY <2>6, OpFacts
  <2>. QED BY <2>4, <2>5, <2>7, CoalescedSenders
<1>4. CASE ~(IsLine(o) /\ ~o.restart /\ o.place \in s.broken) /\ older = {}
  <2>1. PICK r : r = WithBroken(s, B) OBVIOUS
  <2>2. B \in SUBSET Place BY LanesAre
  <2>3. PICK u : u = Outdated(r, o) OBVIOUS
  <2>4. t = Queued(u, job) BY <1>4, <2>1, <2>3, EnqueueCases
  <2>5. r \in QueueRecord(N) /\ r.answer = s.answer /\ Unmoved(s, r)
    BY <2>1, <2>2, BrokenIs
  <2>7. Senders(r, X) BY <2>5, Untouched
  <2>8. u \in QueueRecord(N) /\ Senders(u, X) BY <2>3, <2>5, <2>7, OutdatedSenders
  <2>. QED BY <2>4, <2>8, QueuedSenders
<1>. QED BY <1>2, <1>3, <1>4

LEMMA BrokenSenders ==
  ASSUME NEW N, NEW s \in QueueRecord(N), N \in Nat, NEW X, Senders(s, X), NEW place \in Place,
         NEW t, t = Broken(s, place)
  PROVE  t \in QueueRecord(N) /\ Senders(t, X)
<1> DEFINE lines == {i \in DOMAIN s.message : IsLine(s.message[i].op)
                                              /\ s.message[i].op.place = place}
           restarts == {i \in lines : s.message[i].op.restart}
           gone == {i \in lines : \A k \in restarts : i < k}
           B == IF restarts = {} THEN s.broken \cup {place} ELSE s.broken
<1>1. B \in SUBSET Place /\ gone \in SUBSET DOMAIN s.message BY LanesAre
<1>2. PICK r : r = WithBroken(s, B) OBVIOUS
<1>3. t = Purged(r, "message", gone, "dropped") BY <1>2 DEF Broken, WithBroken
<1> HIDE DEF gone, restarts, lines, B
<1>4. r \in QueueRecord(N) /\ r.answer = s.answer /\ Unmoved(s, r)
  BY <1>1, <1>2, BrokenIs
<1>6. Senders(r, X) BY <1>4, Untouched
<1>7. "message" \in Lanes /\ "dropped" \in Outcome /\ "dropped" # "waiting"
  BY DEF Lanes, Outcome
<1>8. gone \in SUBSET DOMAIN r["message"] BY <1>1, <1>4, <1>7 DEF Unmoved
<1>. QED BY <1>3, <1>4, <1>6, <1>7, <1>8, PurgedSenders

(* Who is in the channel.                                                  *)
LEMMA TakenInSenders ==
  ASSUME NEW subs, NEW more, NEW jobs, InboxOf(subs, more, jobs), Legal(more),
         NEW E, Entries(subs, E), NEW N, NEW s \in QueueRecord(N), N \in Nat, Queue(subs, E, s),
         Senders(s, Len(subs) + 1 .. Len(more)),
         NEW t, t = TakenIn(s, jobs)
  PROVE  Senders(t, {})
<1>1. PICK f : Between(s, jobs, f) BY TakenInSteps DEF InboxOf
<1>2. /\ Len(jobs) \in Nat /\ Len(subs) \in Nat /\ Len(more) = Len(subs) + Len(jobs)
      /\ more \in Seq(Op) /\ subs \in Seq(Op) /\ Extends(more, subs)
  BY DEF InboxOf, Extends
<1> DEFINE Good(i) == /\ f[i] \in QueueRecord(N) /\ Queue(Upto(more, Len(subs) + i), E, f[i])
                      /\ Senders(f[i], Len(subs) + i + 1 .. Len(more))
           Bad == { i \in 0 .. Len(jobs) : ~Good(i) }
<1>3. Upto(more, Len(subs)) = subs BY <1>2 DEF Upto, Extends
<1>4. Good(0) BY <1>1, <1>2, <1>3 DEF Between
<1>5. ASSUME NEW i \in 1 .. Len(jobs), Good(i - 1) PROVE Good(i)
  <2> DEFINE n == Len(subs) + i
             X == n .. Len(more)
  <2>1. n \in 1 .. Len(more) /\ n - 1 = Len(subs) + (i - 1) /\ n \in Nat /\ n - 1 \in 0 .. Len(more)
        /\ Len(subs) <= n - 1 /\ Len(subs) + (i - 1) + 1 = n /\ Len(subs) + i + 1 = n + 1
    BY <1>2
  <2>2. jobs[i] = Job(n, more[n]) /\ f[i] = Enqueue(f[i - 1], jobs[i])
    BY <1>1 DEF Between, InboxOf
  <2>3. f[i - 1] \in QueueRecord(N) /\ Queue(Upto(more, n - 1), E, f[i - 1])
        /\ Senders(f[i - 1], X)
    BY <1>5, <2>1
  <2>12. n \in X /\ X \ {n} = n + 1 .. Len(more) BY <1>2, <2>1
  <2> HIDE DEF n, X
  <2>4. /\ Extends(Upto(more, n), Upto(more, n - 1))
        /\ Len(Upto(more, n)) = n /\ Len(Upto(more, n - 1)) = n - 1 /\ Upto(more, n)[n] = more[n]
    BY <2>1, UptoNext
  <2>5. Legal(Upto(more, n)) BY <1>2, <2>1, UptoIs
  <2>6. Extends(Upto(more, n - 1), subs)
    <3>1. /\ Len(Upto(more, n - 1)) = n - 1 /\ Legal(Upto(more, n - 1))
          /\ \A k \in 1 .. n - 1 : Upto(more, n - 1)[k] = more[k]
      BY <2>1, UptoIs
    <3>2. \A k \in 1 .. Len(subs) : k \in 1 .. n - 1 /\ more[k] = subs[k]
      BY <1>2, <2>1 DEF Extends
    <3>. QED BY <1>2, <2>1, <3>1, <3>2 DEF Extends, Legal
  <2>7. Entries(Upto(more, n - 1), E) BY <2>6, EntriesGrow
  <2>8. Len(Upto(more, n)) = Len(Upto(more, n - 1)) + 1 BY <2>1, <2>4
  <2>9. jobs[i] = Job(Len(Upto(more, n)), Upto(more, n)[Len(Upto(more, n))])
    BY <2>2, <2>4
  <2>10. f[i] \in QueueRecord(N) /\ Queue(Upto(more, n), E, f[i])
    BY <2>2, <2>3, <2>4, <2>5, <2>7, <2>8, <2>9, EnqueueIs
  <2>11. Senders(f[i], X \ {n})
    <3>1. n \in 1 .. Len(more) /\ jobs[i] = Job(n, more[n]) BY <2>1, <2>2
    <3>. QED BY <1>2, <2>2, <2>3, <2>12, <3>1, EnqueueSenders
  <2>. QED BY <2>1, <2>10, <2>11, <2>12 DEF n
<1>6. Bad = {}
  <2> SUFFICES ASSUME Bad # {} PROVE FALSE
    OBVIOUS
  <2>1. PICK i \in Bad : \A k \in Bad : i <= k
    <3>1. Bad \in SUBSET Nat BY <1>2
    <3> HIDE DEF Bad
    <3>. QED BY <3>1, LeastNat
  <2>2. i # 0 BY <1>4
  <2>3. i \in 0 .. Len(jobs) /\ ~Good(i) OBVIOUS
  <2> HIDE DEF Good
  <2>4. i \in 1 .. Len(jobs) /\ i - 1 \in 0 .. Len(jobs) /\ ~(i <= i - 1)
    BY <1>2, <2>2, <2>3
  <2>5. Good(i - 1) BY <2>1, <2>4
  <2>. QED BY <1>5, <2>3, <2>4, <2>5
<1>7. Good(Len(jobs))
  <2>1. Len(jobs) \in 0 .. Len(jobs) BY <1>2
  <2> HIDE DEF Good
  <2>. QED BY <1>6, <2>1
<1>8. Len(subs) + Len(jobs) + 1 .. Len(more) = {} BY <1>2
<1>9. Senders(f[Len(jobs)], {}) BY <1>7, <1>8
<1>. QED BY <1>1, <1>9 DEF Between

LEMMA OneBack ==
  ASSUME NEW N, NEW s \in QueueRecord(N), NEW X, Senders(s, X), NEW lane \in Lanes,
         NEW job \in JobRecord, Own(job), Waiters(job) \subseteq X,
         NEW t, t = PutBack(s, lane, <<job>>)
  PROVE  Senders(t, X \ Waiters(job))
<1>1. PICK jobs : jobs = <<job>> OBVIOUS
<1>2. jobs \in Seq(JobRecord) /\ Single(jobs) /\ HeldIn(jobs) = Waiters(job)
  BY <1>1, OneSender
<1>3. PICK js : js = jobs \o s[lane] OBVIOUS
<1>4. t = WithLane(s, lane, js) BY <1>1, <1>3 DEF PutBack, WithLane
<1>5. Senders(t, X \ HeldIn(jobs)) BY <1>2, <1>3, <1>4, LinedUp
<1>. QED BY <1>2, <1>5

(* Only the last part of a text has senders, and a LiveText.               *)
LEMMA PartsBack ==
  ASSUME NEW N, NEW s \in QueueRecord(N), NEW X, Senders(s, X), NEW lane \in Lanes,
         NEW job \in JobRecord, Own(job), Waiters(job) \subseteq X, ~LaidOut(job),
         NEW t, t = PutBack(s, lane, Parts(job))
  PROVE  Senders(t, X \ Waiters(job))
<1>1. job.op \in Op /\ job.op.before \in Nat /\ job.op.before > 0
  BY OpFacts DEF JobRecord, LaidOut
<1> DEFINE m == job.op.before + 1
<1>2. PICK jobs : jobs = Parts(job) OBVIOUS
<1>3. jobs = [k \in 1 .. m |-> jobs[k]] BY <1>2 DEF Parts
<1>4. m \in Nat /\ m \in 1 .. m /\ m > job.op.before
      /\ \A k \in 1 .. m : k # m => ~(k > job.op.before)
  BY <1>1
<1>5. ASSUME NEW k \in 1 .. m PROVE jobs[k] \in JobRecord /\ Alike(job.op, jobs[k].op)
  BY <1>1, <1>2, PartIs
<1>6. jobs \in Seq(JobRecord) /\ DOMAIN jobs = 1 .. m
  <2> HIDE DEF m
  <2>. QED BY <1>3, <1>4, <1>5, IsSeqOf
<1>7. jobs[m].reply = job.reply /\ jobs[m].merged = job.merged /\ jobs[m].live = job.live
  BY <1>2, <1>4 DEF Parts, LastPart, JobRecord
<1>8. ASSUME NEW k \in 1 .. m, k # m
      PROVE  jobs[k].reply = 0 /\ jobs[k].merged = {} /\ jobs[k].live = 0
  BY <1>2, <1>4, <1>8 DEF Parts, EarlierPart, JobRecord
<1>9. Waiters(jobs[m]) = Waiters(job) /\ \A k \in 1 .. m : k # m => Waiters(jobs[k]) = {}
  BY <1>7, <1>8 DEF Waiters
<1> HIDE DEF m
<1>10. ASSUME NEW k \in 1 .. m PROVE Own(jobs[k]) BY <1>5, AlikeFacts, <1>7, <1>8 DEF Own
<1>11. Single(jobs) BY <1>6, <1>9, <1>10 DEF Single, OwnIn, ApartIn
<1>12. HeldIn(jobs) = Waiters(job) BY <1>4, <1>6, <1>9 DEF HeldIn
<1>13. PICK js : js = jobs \o s[lane] OBVIOUS
<1>14. t = WithLane(s, lane, js) BY <1>2, <1>13 DEF PutBack, WithLane
<1>15. Senders(t, X \ HeldIn(jobs)) BY <1>6, <1>11, <1>12, <1>13, <1>14, LinedUp
<1>. QED BY <1>12, <1>15

LEMMA MessagesOut ==
  ASSUME NEW N, NEW s \in QueueRecord(N), NEW X, Senders(s, X),
         NEW gone \in SUBSET DOMAIN s.message,
         NEW W, W = WaitersAt(s.message, gone),
         NEW t, t = WithLane(s, "message", Kept(s.message, gone))
  PROVE  Senders(t, X \cup W)
BY TakenOut DEF Lanes

(* A merge line waits for the senders of the lines it takes in.            *)
LEMMA JoinedWaits ==
  ASSUME NEW subs, Legal(subs), NEW E, NEW N, NEW s \in QueueRecord(N), Queue(subs, E, s),
         NEW X, Senders(s, X),
         NEW job, Held(subs, E, s, "message", job), job.op.merge, Own(job), Waiters(job) = X,
         NEW T, T = Taken(s, job),
         NEW t, t = WithLane(s, "message", Kept(s.message, T)),
         NEW hand, hand = Joined(s, job, T)
  PROVE  Own(hand) /\ Senders(t, Waiters(hand))
<1>1. "message" \in Lanes /\ subs \in Seq(Op) BY DEF Lanes, Legal
<1>2. Taking(s, job, T) BY <1>1, TakenIs
<1>3. T \in SUBSET DOMAIN s.message /\ s.message \in Seq(JobRecord) /\ job \in JobRecord
  BY <1>1, <1>2, LanesAre DEF Taking, Held, JobOK
<1>4. PICK W : W = WaitersAt(s.message, T) OBVIOUS
<1>5. Senders(t, X \cup W) BY <1>3, <1>4, MessagesOut
<1>6. CASE T = {} BY <1>4, <1>6, <1>5 DEF Joined, WaitersAt
<1>7. CASE T # {}
  <2>1. PICK next : next = Kept(s.message, DOMAIN s.message \ T) OBVIOUS
  <2>2. NextOK(subs, s, job, T, next) BY <1>2, <1>7, <2>1, NextIs
  <2>3. next \in Seq(JobRecord) /\ next # <<>> BY <2>2 DEF NextOK
  <2>4. PICK text : text = JoinedText(job, next) OBVIOUS
  <2>5. text \in Seq(Nat) BY <1>2, <1>7, <2>1, <2>4, JoinedTextIs DEF JoinedTextOK
  <2>6. Became(job, hand, text, WaitersOf(next))
    BY <1>3, <1>7, <2>1, <2>3, <2>4, <2>5, JoinedBecomes
  <2>7. HeldIn(next) = W
    <3>1. Single(s.message) BY <1>1 DEF Senders
    <3>2. DOMAIN s.message \ T \in SUBSET DOMAIN s.message OBVIOUS
    <3>3. HeldIn(next) = HeldIn(s.message)
                           \ UNION {Waiters(s.message[i]) : i \in DOMAIN s.message \ T}
      BY <1>3, <2>1, <3>1, <3>2, KeptSenders
    <3>4. \A i, k \in DOMAIN s.message :
            i # k => Waiters(s.message[i]) \cap Waiters(s.message[k]) = {}
      BY <3>1 DEF Single, ApartIn
    <3>5. ASSUME NEW n
          PROVE  n \in W <=> /\ n \in HeldIn(s.message)
                             /\ n \notin UNION {Waiters(s.message[i]) : i \in DOMAIN s.message \ T}
      <4>1. n \in W <=> \E i \in T : n \in Waiters(s.message[i]) BY <1>4 DEF WaitersAt
      <4>2. n \in HeldIn(s.message) <=> \E i \in DOMAIN s.message : n \in Waiters(s.message[i])
        BY DEF HeldIn
      <4>. QED BY <1>3, <3>4, <4>1, <4>2
    <3>. QED BY <3>3, <3>5
  <2>8. WaitersOf(next) = W BY <2>7 DEF WaitersOf, HeldIn
  <2>9. hand.reply = job.reply /\ hand.merged = job.merged \cup W /\ hand.live = job.live
        /\ Alike(job.op, hand.op)
    BY <2>6, <2>8 DEF Became
  <2>10. 0 \notin W BY <1>4 DEF Waiters, WaitersAt
  <2>11. Waiters(hand) = X \cup W BY <2>9, <2>10 DEF Waiters
  <2>12. IsLine(job.op) /\ IsLine(hand.op) BY <1>3, <2>9, AlikeFacts DEF JobRecord, Op
  <2>13. Own(hand) BY <2>9, <2>12 DEF Own
  <2>. QED BY <1>5, <2>11, <2>13
<1>. QED BY <1>6, <1>7

(* The senders of the request that is out, and those in the channel.       *)
OutSenders == UNION {Waiters(r.job) : r \in ToSet(out)}

Later == Len(submitted) - Len(inbox) + 1 .. Len(submitted)

SendersInv ==
  Senders(q, OutSenders \cup Later) /\ \A r \in ToSet(out) : Own(r.job)

LEMMA OutSendersAre ==
  /\ out = <<>> => ToSet(out) = {} /\ OutSenders = {}
  /\ \A r : out = <<r>> => ToSet(out) = {r} /\ OutSenders = Waiters(r.job)
BY DEF ToSet, OutSenders

LEMMA LanesKnown ==
  ASSUME NEW subs, NEW E, NEW s, Queue(subs, E, s)
  PROVE  LaneSenders(s) \subseteq 0 .. Len(subs)
<1> SUFFICES ASSUME NEW lane \in Lanes, NEW i \in DOMAIN s[lane]
             PROVE  Waiters(s[lane][i]) \subseteq 0 .. Len(subs)
  BY DEF LaneSenders, HeldIn
<1>1. JobOK(subs, s[lane][i]) BY DEF Queue
<1>. QED BY <1>1 DEF JobOK

LEMMA LaterIs ==
  ASSUME HubInv, QueueInv
  PROVE  /\ Later = Len(Known) + 1 .. Len(submitted) /\ work.jobs \in Nat
         /\ OutSenders \cap Later = {} /\ 0 \notin OutSenders \cup Later
         /\ inbox = <<>> => Later = {}
BY KnownFacts, OutFacts, OutboxAssumption DEF Later, JobOK, Waiters, OutSenders, HubInv

(* What came meanwhile is taken in.                                        *)
LEMMA BackSenders ==
  ASSUME HubInv, QueueInv, NEW s \in QueueRecord(work.jobs), Queue(Known, Shown, s),
         Senders(s, Later), Back(s)
  PROVE  SendersInv'
<1>1. /\ out' = <<>> /\ inbox' = <<>> /\ q' = TakenIn(s, inbox) /\ submitted' = submitted
  BY DEF Back
<1>2. Legal(submitted) /\ InboxOf(Known, submitted, inbox) /\ Entries(Known, Shown)
  BY DEF HubInv, QueueInv
<1>3. Later = Len(Known) + 1 .. Len(submitted) /\ work.jobs \in Nat /\ Len(submitted) \in Nat
  BY LaterIs, KnownFacts
<1>4. Senders(s, Len(Known) + 1 .. Len(submitted)) BY <1>3
<1>5. Senders(q', {}) BY <1>1, <1>2, <1>3, <1>4, TakenInSenders
<1>6. Later' = {} BY <1>1, <1>3 DEF Later
<1>7. ToSet(out') = {} BY <1>1 DEF ToSet
<1>8. OutSenders' = {} BY <1>7 DEF OutSenders
<1>9. OutSenders' \cup Later' = {} BY <1>6, <1>8
<1>. QED BY <1>5, <1>7, <1>9 DEF SendersInv

(* The senders of a request get their answers.                             *)
LEMMA AnsweredSenders ==
  ASSUME NEW N, NEW s \in QueueRecord(N), N \in Nat, NEW X, Senders(s, X), NEW job,
         Waiters(job) \subseteq X,
         NEW what \in Outcome, what # "waiting", NEW how \in Outcome, how # "waiting",
         NEW t, t = Answered(Answered(s, job.merged, what), {job.reply} \ {0}, how)
  PROVE  Senders(t, X \ Waiters(job))
<1>1. PICK r : r = Answered(s, job.merged, what) OBVIOUS
<1>2. LaneSenders(s) \cap X = {} /\ Waits(s) = X \cup LaneSenders(s) BY DEF Senders
<1>3. 0 \notin LaneSenders(s) /\ 0 \notin X BY LanesAre, <1>2 DEF Waits
<1>4. LaneSenders(s) \cap job.merged = {} /\ LaneSenders(s) \cap ({job.reply} \ {0}) = {}
  BY <1>2, <1>3 DEF Waiters
<1>5. r \in QueueRecord(N) /\ SameJobs(s, r) /\ Senders(r, X \ job.merged)
  BY <1>1, <1>4, ReleasedApart
<1>6. LaneSenders(r) = LaneSenders(s) BY <1>5 DEF SameJobs, Unmoved, LaneSenders
<1>7. LaneSenders(r) \cap ({job.reply} \ {0}) = {} BY <1>4, <1>6
<1>8. t = Answered(r, {job.reply} \ {0}, how) BY <1>1
<1>9. Senders(t, (X \ job.merged) \ ({job.reply} \ {0}))
  BY <1>5, <1>7, <1>8, ReleasedApart
<1>10. (X \ job.merged) \ ({job.reply} \ {0}) = X \ Waiters(job) BY <1>3 DEF Waiters
<1>. QED BY <1>9, <1>10

LEMMA RequestSenders ==
  ASSUME HubInv, QueueInv, SendersInv, NEW r \in ToSet(out)
  PROVE  /\ q \in QueueRecord(work.jobs) /\ work.jobs \in Nat /\ Queue(Known, Shown, q)
         /\ r.lane \in Lanes /\ r.job \in JobRecord /\ Own(r.job)
         /\ Senders(q, Waiters(r.job) \cup Later)
         /\ (Waiters(r.job) \cup Later) \ Waiters(r.job) = Later
BY OutFacts, OutSendersAre, LaterIs DEF SendersInv, QueueInv

LEMMA AcceptedSenders ==
  ASSUME HubInv, QueueInv, SendersInv, Accepted
  PROVE  SendersInv'
<1>1. PICK r \in ToSet(out) :
        Back(Answered(Answered(q, r.job.merged, "merged"), {r.job.reply} \ {0}, "sent"))
  BY DEF Accepted
<1>2. /\ q \in QueueRecord(work.jobs) /\ work.jobs \in Nat /\ Queue(Known, Shown, q)
      /\ Senders(q, Waiters(r.job) \cup Later)
      /\ (Waiters(r.job) \cup Later) \ Waiters(r.job) = Later
  BY <1>1, RequestSenders
<1>3. PICK s : s = Answered(Answered(q, r.job.merged, "merged"), {r.job.reply} \ {0}, "sent")
  OBVIOUS
<1>4. "merged" \in Outcome /\ "sent" \in Outcome /\ "merged" # "waiting" /\ "sent" # "waiting"
  BY DEF Outcome
<1>5. s \in QueueRecord(work.jobs) /\ Queue(Known, Shown, s)
  BY <1>2, <1>3, <1>4, AnswersIs
<1>6. PICK X : X = Waiters(r.job) \cup Later OBVIOUS
<1>7. Senders(q, X) /\ Waiters(r.job) \subseteq X /\ X \ Waiters(r.job) = Later
  BY <1>2, <1>6
<1>8. Senders(s, X \ Waiters(r.job)) BY <1>2, <1>3, <1>4, <1>7, AnsweredSenders
<1>9. Senders(s, Later) /\ Back(s) BY <1>1, <1>3, <1>7, <1>8
<1>. QED BY <1>5, <1>9, BackSenders

LEMMA RefusedSenders ==
  ASSUME HubInv, QueueInv, SendersInv, Refused
  PROVE  SendersInv'
<1>1. PICK r \in ToSet(out) :
        Back(Answered(Answered(q, r.job.merged, "dropped"), {r.job.reply} \ {0}, "refused"))
  BY DEF Refused
<1>2. /\ q \in QueueRecord(work.jobs) /\ work.jobs \in Nat /\ Queue(Known, Shown, q)
      /\ Senders(q, Waiters(r.job) \cup Later)
      /\ (Waiters(r.job) \cup Later) \ Waiters(r.job) = Later
  BY <1>1, RequestSenders
<1>3. PICK s : s = Answered(Answered(q, r.job.merged, "dropped"), {r.job.reply} \ {0}, "refused")
  OBVIOUS
<1>4. "dropped" \in Outcome /\ "refused" \in Outcome /\ "dropped" # "waiting"
      /\ "refused" # "waiting"
  BY DEF Outcome
<1>5. s \in QueueRecord(work.jobs) /\ Queue(Known, Shown, s)
  BY <1>2, <1>3, <1>4, AnswersIs
<1>6. PICK X : X = Waiters(r.job) \cup Later OBVIOUS
<1>7. Senders(q, X) /\ Waiters(r.job) \subseteq X /\ X \ Waiters(r.job) = Later
  BY <1>2, <1>6
<1>8. Senders(s, X \ Waiters(r.job)) BY <1>2, <1>3, <1>4, <1>7, AnsweredSenders
<1>9. Senders(s, Later) /\ Back(s) BY <1>1, <1>3, <1>7, <1>8
<1>. QED BY <1>5, <1>9, BackSenders

LEMMA FailedSenders ==
  ASSUME HubInv, QueueInv, SendersInv, Failed
  PROVE  SendersInv'
<1>1. PICK r \in ToSet(out) :
        Back(IF IsLine(r.job.op)
             THEN Broken(Answered(Answered(q, r.job.merged, "dropped"),
                                  {r.job.reply} \ {0}, "failed"), r.job.op.place)
             ELSE Answered(Answered(q, r.job.merged, "dropped"), {r.job.reply} \ {0}, "failed"))
  BY DEF Failed
<1>2. /\ q \in QueueRecord(work.jobs) /\ work.jobs \in Nat /\ Queue(Known, Shown, q)
      /\ r.job \in JobRecord /\ Senders(q, Waiters(r.job) \cup Later)
      /\ (Waiters(r.job) \cup Later) \ Waiters(r.job) = Later
  BY <1>1, RequestSenders
<1>3. PICK s : s = Answered(Answered(q, r.job.merged, "dropped"), {r.job.reply} \ {0}, "failed")
  OBVIOUS
<1>4. "dropped" \in Outcome /\ "failed" \in Outcome /\ "dropped" # "waiting"
      /\ "failed" # "waiting"
  BY DEF Outcome
<1>5. s \in QueueRecord(work.jobs) /\ Queue(Known, Shown, s)
  BY <1>2, <1>3, <1>4, AnswersIs
<1>6. PICK X : X = Waiters(r.job) \cup Later OBVIOUS
<1>7. Senders(q, X) /\ Waiters(r.job) \subseteq X /\ X \ Waiters(r.job) = Later
  BY <1>2, <1>6
<1>8. Senders(s, X \ Waiters(r.job)) BY <1>2, <1>3, <1>4, <1>7, AnsweredSenders
<1>9. Senders(s, Later) BY <1>7, <1>8
<1>10. CASE IsLine(r.job.op)
  <2>1. PICK t : t = Broken(s, r.job.op.place) OBVIOUS
  <2>2. r.job.op.place \in Place BY <1>10, <1>2, OpFacts DEF Lane, IsLine, JobRecord
  <2>3. Known \in Seq(Op) BY KnownFacts
  <2>4. t \in QueueRecord(work.jobs) /\ Queue(Known, Shown, t)
    BY <1>5, <2>1, <2>2, <2>3, StreamBroken
  <2>5. Senders(t, Later) BY <1>2, <1>5, <1>9, <2>1, <2>2, BrokenSenders
  <2>6. Back(t) BY <1>1, <1>3, <1>10, <2>1
  <2>. QED BY <2>4, <2>5, <2>6, BackSenders
<1>11. CASE ~IsLine(r.job.op) BY <1>1, <1>3, <1>11, <1>5, <1>9, BackSenders
<1>. QED BY <1>10, <1>11

LEMMA FloodWaitSenders ==
  ASSUME HubInv, QueueInv, SendersInv, FloodWait
  PROVE  SendersInv'
<1>1. PICK r \in ToSet(out) :
        LET newer == {i \in DOMAIN q.edit : Replaces(q.edit[i].op, r.job.op)}
        IN Back(IF newer # {}
                THEN Answered([q EXCEPT !.edit[Min(newer)].op.background =
                                 @ /\ r.job.op.background], {r.job.reply}, "superseded")
                ELSE PutBack(q, r.lane, <<r.job>>))
  BY DEF FloodWait
<1>2. Held(Known, Shown, q, r.lane, r.job) BY <1>1, OutFacts
<1>3. {i \in DOMAIN q.edit : Replaces(q.edit[i].op, r.job.op)} = {}
  BY <1>2 DEF Held, Overwrites
<1>4. Back(PutBack(q, r.lane, <<r.job>>)) BY <1>1, <1>3
<1>5. PICK s : s = PutBack(q, r.lane, <<r.job>>) OBVIOUS
<1>6. /\ q \in QueueRecord(work.jobs) /\ Queue(Known, Shown, q) /\ r.lane \in Lanes
      /\ r.job \in JobRecord /\ Own(r.job)
      /\ Senders(q, Waiters(r.job) \cup Later)
      /\ (Waiters(r.job) \cup Later) \ Waiters(r.job) = Later
  BY <1>1, RequestSenders
<1>7. s \in QueueRecord(work.jobs) /\ Queue(Known, Shown, s)
  BY <1>2, <1>5, <1>6, OnePutBack
<1>8. PICK X : X = Waiters(r.job) \cup Later OBVIOUS
<1>9. Senders(q, X) /\ Waiters(r.job) \subseteq X /\ X \ Waiters(r.job) = Later
  BY <1>6, <1>8
<1>10. Senders(s, X \ Waiters(r.job)) BY <1>5, <1>6, <1>9, OneBack
<1>11. Senders(s, Later) /\ Back(s) BY <1>4, <1>5, <1>9, <1>10
<1>. QED BY <1>7, <1>11, BackSenders

LEMMA FormRefusedSenders ==
  ASSUME HubInv, QueueInv, SendersInv, FormRefused
  PROVE  SendersInv'
<1>1. PICK r \in ToSet(out) : Back(PutBack(q, r.lane, <<Plainer(r.job)>>))
  BY DEF FormRefused, Plainer
<1>2. Held(Known, Shown, q, r.lane, r.job) BY <1>1, OutFacts
<1>3. PICK job : job = Plainer(r.job) OBVIOUS
<1>4. /\ q \in QueueRecord(work.jobs) /\ Queue(Known, Shown, q) /\ r.lane \in Lanes
      /\ r.job \in JobRecord /\ Own(r.job)
      /\ Senders(q, Waiters(r.job) \cup Later)
      /\ (Waiters(r.job) \cup Later) \ Waiters(r.job) = Later
  BY <1>1, RequestSenders
<1>5. Like(r.job, job) BY <1>3, <1>4, PlainerIs
<1>6. job \in JobRecord /\ Waiters(job) = Waiters(r.job) BY <1>5 DEF Like, Waiters
<1>7. Own(job) BY <1>5, AlikeFacts, <1>4 DEF Like, Own
<1>8. Held(Known, Shown, q, r.lane, job)
  <2>1. Thins(q, q) BY <1>4, SameLanes DEF Unmoved
  <2>2. Unbroken(q, job) BY <1>2, <1>5, AlikeFacts DEF Held, Unbroken, Like, Alike
  <2>. QED BY <1>2, <1>4, <1>5, <2>1, <2>2, HeldThinned
<1>9. PICK s : s = PutBack(q, r.lane, <<job>>) OBVIOUS
<1>10. s \in QueueRecord(work.jobs) /\ Queue(Known, Shown, s)
  BY <1>4, <1>6, <1>8, <1>9, OnePutBack
<1>11. PICK X : X = Waiters(r.job) \cup Later OBVIOUS
<1>12. Senders(q, X) /\ Waiters(job) \subseteq X /\ X \ Waiters(job) = Later
  BY <1>4, <1>6, <1>11
<1>13. Senders(s, X \ Waiters(job)) BY <1>4, <1>6, <1>7, <1>9, <1>12, OneBack
<1>14. Senders(s, Later) /\ Back(s) BY <1>1, <1>3, <1>9, <1>12, <1>13
<1>. QED BY <1>10, <1>14, BackSenders

(* The job that is taken out of its lane is the only one in hand.          *)
LEMMA TurnSenders ==
  ASSUME HubInv, QueueInv, SendersInv, NEW lane \in Lanes, NEW i \in DOMAIN q[lane],
         Turn(lane, i), lane = "message" => MayGo(q, i), out = <<>>,
         UNCHANGED <<submitted, inbox>>
  PROVE  SendersInv'
<1>1. inbox = <<>> /\ OutSenders = {} /\ Later = {} /\ Later' = {} /\ work.jobs \in Nat
  BY OutSendersAre, LaterIs DEF HubInv, Later
<1>2. Known \in Seq(Op) /\ Legal(Known) BY KnownFacts
<1>3. q \in QueueRecord(work.jobs) /\ Queue(Known, Shown, q) BY DEF QueueInv
<1>4. Senders(q, {}) BY <1>1 DEF SendersInv
<1>5. PICK job : job = q[lane][i] OBVIOUS
<1>6. PICK rest : rest = WithLane(q, lane, Kept(q[lane], {i})) OBVIOUS
<1>7. rest \in QueueRecord(work.jobs) /\ Queue(Known, Shown, rest)
      /\ Held(Known, Shown, rest, lane, job)
  BY <1>2, <1>3, <1>5, <1>6, Removed
<1>8. job \in JobRecord /\ Own(job)
  BY <1>4, <1>5, <1>7 DEF Senders, Held, JobOK, Single, OwnIn
<1>9. Senders(rest, Waiters(job))
  <2>1. {i} \in SUBSET DOMAIN q[lane] OBVIOUS
  <2>2. Senders(WithLane(q, lane, Kept(q[lane], {i})), {} \cup WaitersAt(q[lane], {i}))
    BY <1>3, <1>4, <2>1, TakenOut
  <2>3. {} \cup WaitersAt(q[lane], {i}) = Waiters(job) BY <1>5 DEF WaitersAt
  <2>. QED BY <1>6, <2>2, <2>3
<1>10. rest = [q EXCEPT ![lane] = Kept(@, {i})] BY <1>6 DEF WithLane
<1>11. PICK taken : taken = IF lane = "message" /\ job.op.merge THEN Taken(rest, job) ELSE {}
  OBVIOUS
<1>12. \/ /\ job.live \in cancelled
          /\ q' = Answered(rest, {job.reply}, "superseded") /\ out' = <<>>
       \/ ~LaidOut(job) /\ q' = PutBack(rest, lane, Parts(job)) /\ out' = <<>>
       \/ /\ q' = WithLane(rest, "message", Kept(rest.message, taken))
          /\ out' = <<[lane |-> lane, job |-> Joined(rest, job, taken)]>>
  BY <1>5, <1>10, <1>11 DEF Turn, WithLane, Request
<1>13. ASSUME out' = <<>>, Senders(q', {}) PROVE SendersInv'
  <2>1. ToSet(out') = {} BY <1>13 DEF ToSet
  <2>2. OutSenders' = {} BY <2>1 DEF OutSenders
  <2>3. OutSenders' \cup Later' = {} BY <1>1, <2>2
  <2>. QED BY <1>13, <2>1, <2>3 DEF SendersInv
<1>14. CASE /\ job.live \in cancelled
            /\ q' = Answered(rest, {job.reply}, "superseded") /\ out' = <<>>
  <2>1. job.live # 0 BY KnownFacts, <1>14 DEF HubInv
  <2>2. job.merged = {} BY <1>8, <2>1 DEF Own
  <2>3. Waiters(job) \ {job.reply} = {} /\ {job.reply} \subseteq Waiters(job) \cup {0}
    BY <2>2 DEF Waiters
  <2>4. "superseded" \in Outcome /\ "superseded" # "waiting" BY DEF Outcome
  <2>5. Senders(q', Waiters(job) \ {job.reply})
    BY <1>1, <1>7, <1>9, <1>14, <2>3, <2>4, Released
  <2>. QED BY <1>13, <1>14, <2>3, <2>5
<1>15. CASE ~LaidOut(job) /\ q' = PutBack(rest, lane, Parts(job)) /\ out' = <<>>
  BY <1>7, <1>8, <1>9, <1>15, PartsBack, <1>13
<1>16. CASE /\ q' = WithLane(rest, "message", Kept(rest.message, taken))
            /\ out' = <<[lane |-> lane, job |-> Joined(rest, job, taken)]>>
  <2>1. PICK hand : hand = Joined(rest, job, taken) OBVIOUS
  <2>2. Own(hand) /\ Senders(q', Waiters(hand))
    <3>1. CASE lane = "message" /\ job.op.merge
      <4>1. taken = Taken(rest, job) /\ Held(Known, Shown, rest, "message", job)
        BY <1>7, <1>11, <3>1
      <4>2. PICK X : X = Waiters(job) OBVIOUS
      <4>3. Senders(rest, X) BY <1>9, <4>2
      <4>. QED BY <1>2, <1>7, <1>8, <1>16, <2>1, <3>1, <4>1, <4>2, <4>3, JoinedWaits
    <3>2. CASE ~(lane = "message" /\ job.op.merge)
      <4>1. taken = {} /\ hand = job BY <1>11, <2>1, <3>2 DEF Joined
      <4>2. taken \in SUBSET DOMAIN rest.message /\ WaitersAt(rest.message, taken) = {}
        BY <4>1 DEF WaitersAt
      <4>3. Senders(q', Waiters(job) \cup WaitersAt(rest.message, taken))
        BY <1>7, <1>9, <1>16, <4>2, MessagesOut
      <4>4. Waiters(job) \cup WaitersAt(rest.message, taken) = Waiters(job) BY <4>2
      <4>. QED BY <1>8, <4>1, <4>3, <4>4
    <3>. QED BY <3>1, <3>2
  <2>3. PICK r : r = [lane |-> lane, job |-> hand] OBVIOUS
  <2>4. out' = <<r>> /\ r.job = hand BY <1>16, <2>1, <2>3
  <2>5. ToSet(out') = {r} BY <2>4 DEF ToSet
  <2>6. OutSenders' = Waiters(hand) BY <2>4, <2>5 DEF OutSenders
  <2>7. OutSenders' \cup Later' = Waiters(hand) BY <1>1, <2>6
  <2>. QED BY <2>2, <2>4, <2>5, <2>7 DEF SendersInv
<1>. QED BY <1>12, <1>14, <1>15, <1>16

LEMMA SubmitSenders ==
  ASSUME HubInv, QueueInv, SendersInv, NEW o \in work.ops, Submit(o)
  PROVE  SendersInv'
<1> DEFINE L == Len(submitted)
           n == L + 1
           job == Job(n, o)
<1>1. /\ Len(Known) = L - Len(inbox) /\ L \in Nat /\ Len(Known) \in Nat /\ Len(Known) <= L
      /\ (inbox = <<>> => Known = submitted)
  BY KnownFacts DEF HubInv
<1>2. /\ Len(submitted') = L + 1 /\ submitted' \in Seq(Op) /\ submitted'[L + 1] = o
      /\ Len(submitted') <= work.jobs
  BY SubmitLegal
<1>3. /\ out' = out
      /\ IF out = <<>> THEN q' = Enqueue(Answered(q, {n}, "waiting"), job) /\ inbox' = inbox
                       ELSE q' = Answered(q, {n}, "waiting") /\ inbox' = Append(inbox, job)
  BY DEF Submit
<1>4. /\ Later = Len(Known) + 1 .. L /\ work.jobs \in Nat /\ (inbox = <<>> => Later = {})
  BY LaterIs
<1>5. n \in 1 .. work.jobs BY <1>1, <1>2, <1>4
<1>6. q \in QueueRecord(work.jobs) /\ Queue(Known, Shown, q) BY DEF QueueInv
<1>7. n \notin LaneSenders(q) BY <1>6, LanesKnown, <1>1
<1>8. PICK X : X = OutSenders \cup Later OBVIOUS
<1>9. Senders(q, X) BY <1>8 DEF SendersInv
<1>10. PICK s : s = Answered(q, {n}, "waiting") OBVIOUS
<1>11. "waiting" \in Outcome BY DEF Outcome
<1>15. n \in 1 .. Len(submitted') /\ job = Job(n, submitted'[n]) BY <1>1, <1>2
<1> HIDE DEF n, job
<1>12. s \in QueueRecord(work.jobs) /\ SameJobs(q, s) /\ Senders(s, X \cup {n})
  BY <1>4, <1>5, <1>6, <1>7, <1>9, <1>10, <1>11, Asked
<1>13. OutSenders' = OutSenders BY <1>3 DEF OutSenders
<1>14. \A r \in ToSet(out') : Own(r.job) BY <1>3 DEF SendersInv
<1>16. CASE out = <<>>
  <2>1. inbox = <<>> /\ OutSenders = {} /\ X = {} /\ inbox' = inbox
    BY <1>16, <1>3, <1>4, <1>8, OutSendersAre DEF HubInv
  <2>2. Queue(Known, Shown, s) BY <1>6, <1>12, QueueSame DEF SameJobs
  <2>3. q' = Enqueue(s, job) BY <1>3, <1>10, <1>16
  <2>4. Senders(s, {n}) /\ n \in {n} BY <2>1, <1>12
  <2>5. Senders(q', {n} \ {n})
    BY <1>2, <1>4, <1>12, <1>15, <2>2, <2>3, <2>4, EnqueueSenders
  <2>6. Later' = {} BY <2>1, <1>1, <1>2 DEF Later
  <2>7. OutSenders' \cup Later' = {n} \ {n} BY <1>13, <2>1, <2>6
  <2>. QED BY <1>14, <2>5, <2>7 DEF SendersInv
<1>17. CASE out # <<>>
  <2>1. q' = s /\ inbox' = Append(inbox, job) BY <1>3, <1>10, <1>17
  <2>2. Len(inbox') = Len(inbox) + 1 /\ Len(inbox) \in Nat
    BY <1>2, <1>15, NewJob, <2>1 DEF HubInv
  <2>3. Later' = Later \cup {n} BY <1>1, <1>2, <2>2, <1>4 DEF Later, n
  <2>4. OutSenders' \cup Later' = X \cup {n} BY <1>8, <1>13, <2>3
  <2>. QED BY <1>12, <1>14, <2>1, <2>4 DEF SendersInv
<1>. QED BY <1>16, <1>17

LEMMA RipenSenders ==
  ASSUME HubInv, QueueInv, SendersInv, NEW i \in DOMAIN q.message, Ripen(i)
  PROVE  SendersInv'
<1>1. /\ out' = out /\ inbox' = inbox /\ submitted' = submitted
      /\ q' = [q EXCEPT !.message[i].ripe = TRUE]
  BY DEF Ripen
<1>2. q \in QueueRecord(work.jobs) /\ Senders(q, OutSenders \cup Later)
  BY DEF QueueInv, SendersInv
<1>3. "message" \in Lanes BY DEF Lanes
<1>4. q.message \in Seq(JobRecord) /\ q.message[i] \in JobRecord BY <1>2, <1>3, LanesAre
<1>5. PICK ripe : ripe = [q.message[i] EXCEPT !.ripe = TRUE] OBVIOUS
<1>6. /\ ripe \in JobRecord /\ ripe.op = q.message[i].op /\ ripe.reply = q.message[i].reply
      /\ ripe.merged = q.message[i].merged /\ ripe.live = q.message[i].live
  BY <1>4, <1>5 DEF JobRecord
<1>7. PICK js : js = [q.message EXCEPT ![i] = ripe] OBVIOUS
<1>8. js \in Seq(JobRecord) /\ DOMAIN js = DOMAIN q.message
      /\ \A k \in DOMAIN js : js[k] = IF k = i THEN ripe ELSE q.message[k]
  BY <1>4, <1>6, <1>7
<1>9. PICK t : t = WithLane(q, "message", js) OBVIOUS
<1>10. q' = t BY <1>1, <1>5, <1>7, <1>9 DEF WithLane
<1>11. t["message"] = js /\ Elsewhere(q, t, "message") /\ t.answer = q.answer
  BY <1>2, <1>3, <1>8, <1>9, Relaned
<1>12. Single(q["message"]) BY <1>2, <1>3 DEF Senders
<1>13. \A k \in DOMAIN q.message : Waiters(js[k]) = Waiters(q.message[k]) /\ Own(js[k])
  <2> SUFFICES ASSUME NEW k \in DOMAIN q.message
               PROVE  Waiters(js[k]) = Waiters(q.message[k]) /\ Own(js[k])
    OBVIOUS
  <2>1. Own(q.message[k]) BY <1>12 DEF Single, OwnIn
  <2>. QED BY <1>6, <1>8, <2>1 DEF Waiters, Own
<1>14. Single(js) /\ HeldIn(js) = HeldIn(q.message) BY <1>8, <1>12, <1>13, AlikeSenders
<1>15. PICK X : X = OutSenders \cup Later OBVIOUS
<1>16. HeldIn(q["message"]) \cap X = {} BY <1>3, InOneLane, <1>2, <1>15 DEF Senders
<1>17. /\ Single(t["message"]) /\ HeldIn(t["message"]) \cap X = {}
       /\ HeldIn(t["message"]) \cup X = HeldIn(q["message"]) \cup X
  BY <1>11, <1>14, <1>16
<1>18. Senders(t, X) BY <1>2, <1>3, <1>11, <1>15, <1>17, Shifted
<1>19. OutSenders' = OutSenders /\ Later' = Later /\ \A r \in ToSet(out') : Own(r.job)
  BY <1>1 DEF OutSenders, Later, SendersInv
<1>. QED BY <1>10, <1>15, <1>18, <1>19 DEF SendersInv

LEMMA SendersSame ==
  ASSUME SendersInv, UNCHANGED <<submitted, inbox, q, out>>
  PROVE  SendersInv'
BY DEF OutSenders, Later, SendersInv

LEMMA SendersInit ==
  ASSUME Init
  PROVE  SendersInv
<1>1. /\ submitted = <<>> /\ inbox = <<>> /\ out = <<>>
      /\ q = [message |-> <<>>, edit |-> <<>>, topic |-> <<>>, broken |-> {},
              answer |-> [n \in 1 .. work.jobs |-> "none"]]
  BY DEF Init
<1>2. \A lane \in Lanes : DOMAIN q[lane] = {} BY <1>1 DEF Lanes
<1>3. \A lane \in Lanes : Single(q[lane]) /\ HeldIn(q[lane]) = {}
  BY <1>2 DEF Single, OwnIn, ApartIn, HeldIn
<1>4. LaneSenders(q) = {} BY <1>3 DEF LaneSenders
<1>5. Waits(q) = {} BY <1>1 DEF Waits
<1>6. OutSenders \cup Later = {} /\ ToSet(out) = {} BY <1>1, OutSendersAre DEF Later
<1>7. Senders(q, {}) BY <1>3, <1>4, <1>5 DEF Senders
<1>. QED BY <1>6, <1>7 DEF SendersInv

LEMMA SendersStep ==
  ASSUME IInv, SendersInv, [Next]_outboxVars
  PROVE  SendersInv'
BY SubmitSenders, SendersSame, DispatchIs, TurnSenders, AcceptedSenders, RefusedSenders,
   FailedSenders, FloodWaitSenders, FormRefusedSenders, RipenSenders DEF IInv, Cancel, Answer,
   Refill, PauseOver, outboxVars, Next, Time

(* Where a sender waits.                                                   *)
LEMMA InLanePlace ==
  ASSUME NEW p \in Waiting, p[1] \in Lanes
  PROVE  /\ p = <<p[1], p[2]>> /\ p[2] \in DOMAIN q[p[1]] /\ WaitingJob(p) = q[p[1]][p[2]]
BY DEF Lanes, Waiting, WaitingJob

LEMMA OutPlace ==
  ASSUME NEW p \in Waiting, p[1] = "out"
  PROVE  p = <<"out", p[2]>> /\ p[2] \in DOMAIN out /\ WaitingJob(p) = out[p[2]].job
BY DEF Lanes, Waiting, WaitingJob

LEMMA InboxPlace ==
  ASSUME NEW p \in Waiting, p[1] = "inbox"
  PROVE  p = <<"inbox", p[2]>> /\ p[2] \in DOMAIN inbox /\ WaitingJob(p) = inbox[p[2]]
BY DEF Lanes, Waiting, WaitingJob

LEMMA PlaceKinds ==
  ASSUME NEW p \in Waiting
  PROVE  p[1] \in Lanes \/ p[1] = "out" \/ p[1] = "inbox"
BY DEF Waiting, Lanes

LEMMA JobAlone ==
  ASSUME NEW subs \in Seq(Op), NEW n \in 1 .. Len(subs)
  PROVE  Waiters(Job(n, subs[n])) = {n}
BY DEF Job, Waiters

LEMMA InboxSenders ==
  ASSUME HubInv, QueueInv, NEW i \in DOMAIN inbox
  PROVE  Len(Known) + i \in Later /\ Waiters(inbox[i]) = {Len(Known) + i} /\ i \in Nat
<1>1. inbox \in Seq(JobRecord) /\ InboxOf(Known, submitted, inbox) BY DEF HubInv
<1>2. i \in 1 .. Len(inbox) /\ Len(inbox) \in Nat BY <1>1
<1>3. /\ Len(Known) \in Nat /\ Len(submitted) = Len(Known) + Len(inbox)
      /\ submitted \in Seq(Op) /\ Later = Len(Known) + 1 .. Len(submitted)
  BY <1>1, KnownFacts, LaterIs DEF InboxOf
<1>4. Len(Known) + i \in 1 .. Len(submitted) /\ Len(Known) + i \in Later BY <1>2, <1>3
<1>5. inbox[i] = Job(Len(Known) + i, submitted[Len(Known) + i]) BY <1>1, <1>2 DEF InboxOf
<1>6. Waiters(inbox[i]) = {Len(Known) + i} BY <1>3, <1>4, JobAlone, <1>5
<1>. QED BY <1>2, <1>4, <1>6

LEMMA OneOut ==
  ASSUME HubInv, QueueInv, NEW i \in DOMAIN out
  PROVE  i = 1 /\ OutSenders = Waiters(out[i].job)
<1>1. out # <<>> OBVIOUS
<1>2. PICK r : out = <<r>> BY <1>1 DEF QueueInv, OutIs
<1>3. i = 1 /\ out[i] = r BY <1>2
<1>. QED BY <1>2, <1>3, OutSendersAre

(* Where the sender n may wait.                                            *)
LEMMA PlacesOf ==
  ASSUME HubInv, QueueInv, NEW p \in Waiting, NEW n \in Waiters(WaitingJob(p))
  PROVE  /\ p[1] \in Lanes => n \in LaneSenders(q)
         /\ p[1] = "out" => p = <<"out", 1>> /\ n \in OutSenders
         /\ p[1] = "inbox" => p = <<"inbox", n - Len(Known)>> /\ n \in Later
BY InLanePlace, OutPlace, OneOut, InboxPlace, InboxSenders, KnownFacts DEF LaneSenders, HeldIn

LEMMA OnePlace ==
  ASSUME HubInv, QueueInv, SendersInv, NEW p \in Waiting, NEW r \in Waiting,
         NEW n, n \in Waiters(WaitingJob(p)), n \in Waiters(WaitingJob(r))
  PROVE  p = r
<1>1. LaneSenders(q) \cap (OutSenders \cup Later) = {} /\ OutSenders \cap Later = {}
  BY LaterIs DEF SendersInv, Senders
<1>2. /\ p[1] \in Lanes => n \in LaneSenders(q)
      /\ p[1] = "out" => p = <<"out", 1>> /\ n \in OutSenders
      /\ p[1] = "inbox" => p = <<"inbox", n - Len(Known)>> /\ n \in Later
  BY PlacesOf
<1>3. /\ r[1] \in Lanes => n \in LaneSenders(q)
      /\ r[1] = "out" => r = <<"out", 1>> /\ n \in OutSenders
      /\ r[1] = "inbox" => r = <<"inbox", n - Len(Known)>> /\ n \in Later
  BY PlacesOf
<1>4. CASE p[1] \in Lanes /\ r[1] \in Lanes
  BY <1>4, InLanePlace DEF HeldIn, SendersInv, Senders, Single, ApartIn
<1>5. CASE ~(p[1] \in Lanes /\ r[1] \in Lanes) BY <1>1, <1>2, <1>3, <1>5, PlaceKinds
<1>. QED BY <1>4, <1>5

LEMMA SomePlace ==
  ASSUME HubInv, QueueInv, NEW n \in OutSenders \cup Later \cup LaneSenders(q)
  PROVE  \E p \in Waiting : n \in Waiters(WaitingJob(p))
<1>1. CASE n \in OutSenders
  <2>1. PICK r \in ToSet(out) : n \in Waiters(r.job) BY <1>1 DEF OutSenders
  <2>2. PICK i \in DOMAIN out : out[i] = r BY DEF ToSet
  <2>3. <<"out", i>> \in Waiting /\ WaitingJob(<<"out", i>>) = out[i].job
    BY DEF Waiting, WaitingJob
  <2>. QED BY <2>1, <2>2, <2>3
<1>2. CASE n \in Later
  <2>1. Len(submitted) = Len(Known) + Len(inbox) /\ inbox \in Seq(JobRecord)
        /\ Later = Len(Known) + 1 .. Len(submitted) /\ Len(Known) \in Nat
    BY KnownFacts, LaterIs DEF HubInv, InboxOf
  <2>2. PICK i : i = n - Len(Known) OBVIOUS
  <2>3. i \in DOMAIN inbox /\ Len(Known) + i = n BY <1>2, <2>1, <2>2
  <2>4. n \in Waiters(inbox[i]) BY <2>3, InboxSenders
  <2>5. <<"inbox", i>> \in Waiting /\ WaitingJob(<<"inbox", i>>) = inbox[i]
    BY <2>3 DEF Waiting, WaitingJob
  <2>. QED BY <2>4, <2>5
<1>3. CASE n \in LaneSenders(q)
  <2>1. PICK lane \in Lanes : \E i \in DOMAIN q[lane] : n \in Waiters(q[lane][i])
    BY <1>3 DEF LaneSenders, HeldIn
  <2>2. PICK i \in DOMAIN q[lane] : n \in Waiters(q[lane][i]) BY <2>1
  <2>3. lane # "inbox" /\ lane # "out" BY DEF Lanes
  <2>4. <<lane, i>> \in Waiting BY DEF Waiting, Lanes
  <2>5. WaitingJob(<<lane, i>>) = q[lane][i] BY <2>3 DEF WaitingJob
  <2>. QED BY <2>2, <2>4, <2>5
<1>. QED BY <1>1, <1>2, <1>3

LEMMA SendersAreHeld ==
  ASSUME IInv, SendersInv
  PROVE  WaitersHeld
<1>1. HubInv /\ QueueInv BY DEF IInv
<1> SUFFICES ASSUME NEW n \in DOMAIN submitted, NEW held,
                    held = {p \in Waiting : n \in Waiters(WaitingJob(p))}
             PROVE  IF q.answer[n] = "waiting" THEN \E p \in Waiting : held = {p}
                                               ELSE held = {}
  BY DEF WaitersHeld
<1>2. n \in DOMAIN q.answer BY <1>1, KnownFacts, LaterIs, LanesAre DEF HubInv, QueueInv
<1>3. Waits(q) = OutSenders \cup Later \cup LaneSenders(q) BY DEF SendersInv, Senders
<1>4. CASE q.answer[n] = "waiting"
  <2>1. n \in OutSenders \cup Later \cup LaneSenders(q) BY <1>2, <1>3, <1>4 DEF Waits
  <2>2. PICK p \in Waiting : n \in Waiters(WaitingJob(p)) BY <1>1, <2>1, SomePlace
  <2>3. \A r \in held : r = p BY <1>1, <2>2, OnePlace
  <2>4. held = {p} BY <2>2, <2>3
  <2>. QED BY <1>4, <2>4
<1>5. CASE q.answer[n] # "waiting" BY <1>3, <1>5, <1>1, PlacesOf, PlaceKinds DEF Waits
<1>. QED BY <1>4, <1>5

(* No sender is forgotten or answered twice: in every run a sender that    *)
(* was not answered waits in exactly one job, whatever was coalesced,      *)
(* merged, laid out, put back or dropped with its stream, and nobody who   *)
(* was answered waits (the responders of Pending in scheduler.rs).         *)
THEOREM SendersHeld ==
  Spec => []WaitersHeld
<1>1. Init => IInv /\ SendersInv BY InitHolds, SendersInit
<1>2. IInv /\ SendersInv /\ [Next]_outboxVars => (IInv /\ SendersInv)'
  BY NextKeeps, SendersStep
<1>3. IInv /\ SendersInv => WaitersHeld BY SendersAreHeld
<1>. QED BY <1>1, <1>2, <1>3, PTL DEF Spec

=============================================================================
