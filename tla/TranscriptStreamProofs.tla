----------------------- MODULE TranscriptStreamProofs -----------------------
(* Proofs about TranscriptStream, for every transcript, every limit and    *)
(* everything that may go wrong: its types, that no answer is lost or      *)
(* shown twice, and that nothing is written above an answer.               *)
EXTENDS TranscriptStream, SequenceTheorems, FiniteSetTheorems, WellFoundedInduction, TLAPS

----------------------------------------------------------------------------
(* Least numbers, and functions that go from step to step.                 *)

LEMMA LeastNat ==
  ASSUME NEW S \in SUBSET Nat, S # {}
  PROVE  \E n \in S : \A m \in S : n <= m
<1> DEFINE R == OpToRel(<, Nat)
<1>1. PICK n \in S : \A m \in S : ~(<<m, n>> \in R)
  <2>1. IsWellFoundedOn(R, Nat) BY NatLessThanWellFounded
  <2> HIDE DEF R
  <2>. QED BY <2>1, WFMin
<1> HIDE DEF R
<1>2. \A m \in S : n <= m
  <2> SUFFICES ASSUME NEW m \in S, m < n PROVE FALSE
    BY <1>1
  <2>1. <<m, n>> \in R BY DEF R, OpToRel
  <2>. QED BY <1>1, <2>1
<1>. QED BY <1>2

(* What holds first and is kept from one to the next holds throughout.     *)
LEMMA StepByStep ==
  ASSUME NEW a \in Nat, NEW b \in Nat, NEW P, a \in P,
         \A i \in a + 1 .. b : i - 1 \in P => i \in P
  PROVE  a .. b \subseteq P
<1> DEFINE Bad == {i \in a .. b : i \notin P}
<1>1. SUFFICES ASSUME Bad # {} PROVE FALSE
  OBVIOUS
<1>2. PICK i \in Bad : \A j \in Bad : i <= j
  <2>1. Bad \in SUBSET Nat OBVIOUS
  <2> HIDE DEF Bad
  <2>. QED BY <1>1, <2>1, LeastNat
<1>3. i \in a + 1 .. b /\ i - 1 \in a .. b /\ i - 1 \notin Bad BY <1>2
<1>. QED BY <1>3

(* A function on a .. b whose value at i is h of the one before and i.     *)
Chain(x, h, a, b, f) ==
  /\ f = [i \in a .. b |-> f[i]] /\ f[a] = x
  /\ \A i \in a + 1 .. b : f[i] = h[<<f[i - 1], i>>]

LEMMA ChainExists ==
  ASSUME NEW x, NEW h, NEW a \in Nat, NEW b \in Nat, a <= b
  PROVE  \E f : Chain(x, h, a, b, f)
<1> DEFINE P == {m \in a .. b : \E f : Chain(x, h, a, m, f)}
<1>1. a \in P
  <2> DEFINE f == [i \in a .. a |-> x]
  <2>1. Chain(x, h, a, a, f) BY DEF Chain
  <2>2. a \in a .. b OBVIOUS
  <2>. QED BY <2>1, <2>2
<1>2. ASSUME NEW m \in a + 1 .. b, m - 1 \in P PROVE m \in P
  <2>0. PICK g : Chain(x, h, a, m - 1, g) BY <1>2
  <2>1. g[a] = x /\ \A i \in a + 1 .. m - 1 : g[i] = h[<<g[i - 1], i>>] BY <2>0 DEF Chain
  <2> DEFINE f == [i \in a .. m |-> IF i = m THEN h[<<g[m - 1], m>>] ELSE g[i]]
  <2>2. /\ f = [i \in a .. m |-> f[i]]
        /\ f[m] = h[<<g[m - 1], m>>] /\ \A i \in a .. m - 1 : f[i] = g[i]
    OBVIOUS
  <2>2a. \A i \in a .. m - 1 : f[i] = g[i] BY <2>2
  <2> HIDE DEF f
  <2>3. f[a] = x BY <2>1, <2>2a
  <2>4. ASSUME NEW i \in a + 1 .. m PROVE f[i] = h[<<f[i - 1], i>>]
    <3>1. f[i - 1] = g[i - 1] BY <2>2a
    <3>2. CASE i = m BY <2>2, <3>1, <3>2
    <3>3. CASE i # m BY <3>3, <2>1, <2>2a, <3>1
    <3>. QED BY <3>2, <3>3
  <2>5. Chain(x, h, a, m, f) BY <2>2, <2>3, <2>4 DEF Chain
  <2>. QED BY <1>2, <2>5
<1> HIDE DEF P
<1>3. a .. b \subseteq P BY <1>1, <1>2, StepByStep
<1>. QED BY <1>3 DEF P

(* The writes of several answers: what each one keeps, all of them do.     *)
LEMMA AnswersGoReach ==
  ASSUME NEW st, NEW answers, Len(answers) \in Nat, NEW T, st \in T[0],
         \A i \in 1 .. Len(answers) : \A y \in T[i - 1] : AnswerGoes(y, answers[i]) \in T[i]
  PROVE  AnswersGo(st, answers) \in T[Len(answers)]
<1> DEFINE n == Len(answers)
           U == UNION {T[i] : i \in 0 .. n}
           h == [p \in U \X (1 .. n) |-> AnswerGoes(p[1], answers[p[2]])]
           Goes1(f) == f = [i \in 0 .. n |-> IF i = 0 THEN st ELSE AnswerGoes(f[i - 1], answers[i])]
<1>1. PICK f : Chain(st, h, 0, n, f)
  <2> HIDE DEF h
  <2>1. 0 \in Nat /\ n \in Nat /\ 0 <= n OBVIOUS
  <2>. QED BY <2>1, ChainExists
<1>2. \A i \in 0 .. n : f[i] \in T[i]
  <2> DEFINE P == {i \in 0 .. n : f[i] \in T[i]}
  <2>1. 0 \in P BY <1>1 DEF Chain
  <2>2. ASSUME NEW i \in 0 + 1 .. n, i - 1 \in P PROVE i \in P
    <3>1. f[i - 1] \in T[i - 1] /\ i - 1 \in 0 .. n /\ i \in 1 .. n BY <2>2
    <3>2. f[i - 1] \in U BY <3>1
    <3>3. h[<<f[i - 1], i>>] = AnswerGoes(f[i - 1], answers[i]) BY <3>1, <3>2
    <3> HIDE DEF h
    <3>4. f[i] = AnswerGoes(f[i - 1], answers[i]) BY <1>1, <3>3 DEF Chain
    <3>. QED BY <3>1, <3>4
  <2> HIDE DEF P
  <2>3. 0 .. n \subseteq P BY <2>1, <2>2, StepByStep
  <2>. QED BY <2>3 DEF P
<1>3. Goes1(f)
  <2>1. ASSUME NEW i \in 0 .. n
        PROVE  f[i] = IF i = 0 THEN st ELSE AnswerGoes(f[i - 1], answers[i])
    <3>1. CASE i = 0 BY <1>1, <3>1 DEF Chain
    <3>2. CASE i # 0
      <4>1. i \in 0 + 1 .. n /\ i \in 1 .. n /\ i - 1 \in 0 .. n BY <3>2
      <4>2. f[i - 1] \in U BY <1>2, <4>1
      <4>3. h[<<f[i - 1], i>>] = AnswerGoes(f[i - 1], answers[i]) BY <4>1, <4>2
      <4> HIDE DEF h
      <4>. QED BY <1>1, <3>2, <4>1, <4>3 DEF Chain
    <3>. QED BY <3>1, <3>2
  <2>2. f = [i \in 0 .. n |-> f[i]] BY <1>1 DEF Chain
  <2>. QED BY <2>1, <2>2
<1> DEFINE gone == CHOOSE gone : Goes1(gone)
<1>4. Goes1(gone) BY <1>3
<1>5. AnswersGo(st, answers) = gone[n] BY DEF AnswersGo
<1> HIDE DEF gone, Goes1
<1> DEFINE P == {i \in 0 .. n : gone[i] \in T[i]}
<1>6. 0 \in P BY <1>4 DEF Goes1
<1>7. ASSUME NEW i \in 0 + 1 .. n, i - 1 \in P PROVE i \in P BY <1>7, <1>4 DEF Goes1
<1> HIDE DEF P
<1>8. 0 .. n \subseteq P BY <1>6, <1>7, StepByStep
<1>. QED BY <1>5, <1>8 DEF P
(* So with writes handed to the scheduler one by one.                      *)
LEMMA HandedOffReach ==
  ASSUME NEW o, NEW ops, Len(ops) \in Nat, NEW T, o \in T[0],
         \A i \in 1 .. Len(ops) : \A y \in T[i - 1] : HandOff(y, ops[i]) \in T[i]
  PROVE  HandedOff(o, ops) \in T[Len(ops)]
<1> DEFINE n == Len(ops)
           U == UNION {T[i] : i \in 0 .. n}
           h == [p \in U \X (1 .. n) |-> HandOff(p[1], ops[p[2]])]
           Handed1(f) == f = [i \in 0 .. n |-> IF i = 0 THEN o ELSE HandOff(f[i - 1], ops[i])]
<1>1. PICK f : Chain(o, h, 0, n, f)
  <2> HIDE DEF h
  <2>1. 0 \in Nat /\ n \in Nat /\ 0 <= n OBVIOUS
  <2>. QED BY <2>1, ChainExists
<1>2. \A i \in 0 .. n : f[i] \in T[i]
  <2> DEFINE P == {i \in 0 .. n : f[i] \in T[i]}
  <2>1. 0 \in P BY <1>1 DEF Chain
  <2>2. ASSUME NEW i \in 0 + 1 .. n, i - 1 \in P PROVE i \in P
    <3>1. f[i - 1] \in T[i - 1] /\ i - 1 \in 0 .. n /\ i \in 1 .. n BY <2>2
    <3>2. f[i - 1] \in U BY <3>1
    <3>3. h[<<f[i - 1], i>>] = HandOff(f[i - 1], ops[i]) BY <3>1, <3>2
    <3> HIDE DEF h
    <3>4. f[i] = HandOff(f[i - 1], ops[i]) BY <1>1, <3>3 DEF Chain
    <3>. QED BY <3>1, <3>4
  <2> HIDE DEF P
  <2>3. 0 .. n \subseteq P BY <2>1, <2>2, StepByStep
  <2>. QED BY <2>3 DEF P
<1>3. Handed1(f)
  <2>1. ASSUME NEW i \in 0 .. n
        PROVE  f[i] = IF i = 0 THEN o ELSE HandOff(f[i - 1], ops[i])
    <3>1. CASE i = 0 BY <1>1, <3>1 DEF Chain
    <3>2. CASE i # 0
      <4>1. i \in 0 + 1 .. n /\ i \in 1 .. n /\ i - 1 \in 0 .. n BY <3>2
      <4>2. f[i - 1] \in U BY <1>2, <4>1
      <4>3. h[<<f[i - 1], i>>] = HandOff(f[i - 1], ops[i]) BY <4>1, <4>2
      <4> HIDE DEF h
      <4>. QED BY <1>1, <3>2, <4>1, <4>3 DEF Chain
    <3>. QED BY <3>1, <3>2
  <2>2. f = [i \in 0 .. n |-> f[i]] BY <1>1 DEF Chain
  <2>. QED BY <2>1, <2>2
<1> DEFINE handed == CHOOSE handed : Handed1(handed)
<1>4. Handed1(handed) BY <1>3
<1>5. HandedOff(o, ops) = handed[n] BY DEF HandedOff
<1> HIDE DEF handed, Handed1
<1> DEFINE P == {i \in 0 .. n : handed[i] \in T[i]}
<1>6. 0 \in P BY <1>4 DEF Handed1
<1>7. ASSUME NEW i \in 0 + 1 .. n, i - 1 \in P PROVE i \in P BY <1>7, <1>4 DEF Handed1
<1> HIDE DEF P
<1>8. 0 .. n \subseteq P BY <1>6, <1>7, StepByStep
<1>. QED BY <1>5, <1>8 DEF P
(* And with the lines of a read.                                           *)
LEMMA LinesReadReach ==
  ASSUME NEW c, NEW from \in Nat, NEW to \in Nat, from <= to, NEW T, c \in T[from],
         \A i \in from + 1 .. to : \A y \in T[i - 1] : TakenLine(y, i) \in T[i]
  PROVE  LinesRead(c, from, to) \in T[to]
<1> DEFINE U == UNION {T[i] : i \in from .. to}
           h == [p \in U \X (from + 1 .. to) |-> TakenLine(p[1], p[2])]
           Read1(f) == f = [i \in from .. to |-> IF i = from THEN c ELSE TakenLine(f[i - 1], i)]
<1>1. PICK f : Chain(c, h, from, to, f)
  <2> HIDE DEF h
  <2>. QED BY ChainExists
<1>2. \A i \in from .. to : f[i] \in T[i]
  <2> DEFINE P == {i \in from .. to : f[i] \in T[i]}
  <2>1. from \in P BY <1>1 DEF Chain
  <2>2. ASSUME NEW i \in from + 1 .. to, i - 1 \in P PROVE i \in P
    <3>1. f[i - 1] \in T[i - 1] /\ i - 1 \in from .. to /\ i \in from + 1 .. to BY <2>2
    <3>2. f[i - 1] \in U BY <3>1
    <3>3. h[<<f[i - 1], i>>] = TakenLine(f[i - 1], i) BY <3>1, <3>2
    <3> HIDE DEF h
    <3>4. f[i] = TakenLine(f[i - 1], i) BY <1>1, <3>3 DEF Chain
    <3>. QED BY <3>1, <3>4
  <2> HIDE DEF P
  <2>3. from .. to \subseteq P BY <2>1, <2>2, StepByStep
  <2>. QED BY <2>3 DEF P
<1>3. Read1(f)
  <2>1. ASSUME NEW i \in from .. to
        PROVE  f[i] = IF i = from THEN c ELSE TakenLine(f[i - 1], i)
    <3>1. CASE i = from BY <1>1, <3>1 DEF Chain
    <3>2. CASE i # from
      <4>1. i \in from + 1 .. to /\ i \in from + 1 .. to /\ i - 1 \in from .. to BY <3>2
      <4>2. f[i - 1] \in U BY <1>2, <4>1
      <4>3. h[<<f[i - 1], i>>] = TakenLine(f[i - 1], i) BY <4>1, <4>2
      <4> HIDE DEF h
      <4>. QED BY <1>1, <3>2, <4>1, <4>3 DEF Chain
    <3>. QED BY <3>1, <3>2
  <2>2. f = [i \in from .. to |-> f[i]] BY <1>1 DEF Chain
  <2>. QED BY <2>1, <2>2
<1> DEFINE read == CHOOSE read : Read1(read)
<1>4. Read1(read) BY <1>3
<1>5. LinesRead(c, from, to) = read[to] BY DEF LinesRead
<1> HIDE DEF read, Read1
<1> DEFINE P == {i \in from .. to : read[i] \in T[i]}
<1>6. from \in P BY <1>4 DEF Read1
<1>7. ASSUME NEW i \in from + 1 .. to, i - 1 \in P PROVE i \in P BY <1>7, <1>4 DEF Read1
<1> HIDE DEF P
<1>8. from .. to \subseteq P BY <1>6, <1>7, StepByStep
<1>. QED BY <1>5, <1>8 DEF P
----------------------------------------------------------------------------
(* Flattening and picking.                                                 *)

LEMMA IsSeqOf ==
  ASSUME NEW S, NEW n \in Nat, NEW f, f = [i \in 1 .. n |-> f[i]], \A i \in 1 .. n : f[i] \in S
  PROVE  f \in Seq(S) /\ Len(f) = n /\ DOMAIN f = 1 .. n
OBVIOUS

(* The parts of a flattening.                                              *)
FlatUpTo(ss, n, f) == f = [i \in 1 .. n |-> IF i = 1 THEN ss[i] ELSE f[i - 1] \o ss[i]]

LEMMA FlatExists ==
  ASSUME NEW ss, NEW n \in Nat \ {0}
  PROVE  \E f : FlatUpTo(ss, n, f)
<1> DEFINE Bad == { m \in Nat \ {0} : ~\E f : FlatUpTo(ss, m, f) }
<1>1. SUFFICES ASSUME Bad # {} PROVE FALSE
  OBVIOUS
<1>2. PICK m \in Bad : \A k \in Bad : m <= k BY <1>1, LeastNat
<1>3. CASE m = 1
  <2> DEFINE f == [i \in 1 .. 1 |-> ss[i]]
  <2>1. f = [i \in 1 .. 1 |-> IF i = 1 THEN ss[i] ELSE f[i - 1] \o ss[i]] OBVIOUS
  <2>. QED BY <1>2, <1>3, <2>1 DEF FlatUpTo
<1>4. CASE m # 1
  <2>1. m - 1 \in Nat \ {0} /\ m - 1 \notin Bad BY <1>2, <1>4
  <2>2. PICK g : FlatUpTo(ss, m - 1, g) BY <2>1
  <2> DEFINE f == [i \in 1 .. m |-> IF i = m THEN g[m - 1] \o ss[m] ELSE g[i]]
  <2>3. ASSUME NEW i \in 1 .. m PROVE f[i] = IF i = 1 THEN ss[i] ELSE f[i - 1] \o ss[i]
    <3>1. CASE i = m
      <4>1. m \in 1 .. m /\ m - 1 \in 1 .. m /\ m - 1 # m BY <2>1
      <4>2. f[m - 1] = g[m - 1] /\ f[m] = g[m - 1] \o ss[m] BY <4>1
      <4> HIDE DEF f
      <4>. QED BY <1>4, <3>1, <4>2
    <3>2. CASE i # m
      <4>1. i \in 1 .. m - 1 /\ f[i] = g[i] /\ (i # 1 => f[i - 1] = g[i - 1])
        BY <1>4, <2>1, <3>2
      <4>2. g[i] = IF i = 1 THEN ss[i] ELSE g[i - 1] \o ss[i] BY <2>2, <4>1 DEF FlatUpTo
      <4> HIDE DEF f
      <4>. QED BY <4>1, <4>2
    <3>. QED BY <3>1, <3>2
  <2>4. f = [i \in 1 .. m |-> f[i]] OBVIOUS
  <2> HIDE DEF f
  <2>5. FlatUpTo(ss, m, f) BY <2>3, <2>4 DEF FlatUpTo
  <2>. QED BY <1>2, <2>5
<1>. QED BY <1>3, <1>4

LEMMA FlatUnfold ==
  ASSUME NEW ss, Len(ss) \in Nat \ {0}
  PROVE  \E f : FlatUpTo(ss, Len(ss), f) /\ FlattenSeq(ss) = f[Len(ss)]
<1> DEFINE n == Len(ss)
           f == CHOOSE f : f = [i \in 1 .. n |-> IF i = 1 THEN ss[i] ELSE f[i - 1] \o ss[i]]
<1>1. f = [i \in 1 .. n |-> IF i = 1 THEN ss[i] ELSE f[i - 1] \o ss[i]]
  BY FlatExists DEF FlatUpTo
<1>2. FlattenSeq(ss) = f[n] BY DEF FlattenSeq
<1> HIDE DEF f
<1>. QED BY <1>1, <1>2 DEF FlatUpTo

(* F picks, in order, the elements of the first m sequences, none of which *)
(* has more than one; g says where from.                                   *)
Picks(F, ss, m, g) ==
  /\ g \in [DOMAIN F -> 1 .. m]
  /\ \A k \in DOMAIN F : ss[g[k]] = <<F[k]>>
  /\ \A j, k \in DOMAIN F : j < k => g[j] < g[k]
  /\ \A i \in 1 .. m : ss[i] # <<>> => \E k \in DOMAIN F : g[k] = i

Short(S, ss) == ss \in Seq(Seq(S)) /\ \A i \in DOMAIN ss : Len(ss[i]) <= 1

LEMMA PicksOne ==
  ASSUME NEW S, NEW ss, Short(S, ss), NEW m \in Nat, m + 1 \in DOMAIN ss,
         NEW F \in Seq(S), NEW g, Picks(F, ss, m, g)
  PROVE  /\ F \o ss[m + 1] \in Seq(S)
         /\ \E h : Picks(F \o ss[m + 1], ss, m + 1, h)
<1> DEFINE x == ss[m + 1]
           G == F \o x
<1>1. x \in Seq(S) /\ Len(x) \in Nat /\ Len(x) <= 1 /\ Len(F) \in Nat BY DEF Short
<1>2. G \in Seq(S) /\ Len(G) = Len(F) + Len(x) /\ DOMAIN F = 1 .. Len(F) /\ DOMAIN G = 1 .. Len(G)
  BY <1>1, ConcatProperties
<1>3. CASE Len(x) = 0
  <2>1. x = <<>> BY <1>1, <1>3, EmptySeq
  <2>2. G = F BY <2>1
  <2> HIDE DEF x, G
  <2>3. g \in [DOMAIN F -> 1 .. m + 1] BY DEF Picks
  <2>4. ASSUME NEW i \in 1 .. m + 1, ss[i] # <<>> PROVE \E k \in DOMAIN F : g[k] = i
    BY <2>1, <2>4 DEF x, Picks
  <2>5. Picks(G, ss, m + 1, g) BY <2>2, <2>3, <2>4 DEF Picks
  <2>. QED BY <1>2, <2>5 DEF G, x
<1>4. CASE Len(x) = 1
  <2> DEFINE h == [k \in 1 .. Len(F) + 1 |-> IF k <= Len(F) THEN g[k] ELSE m + 1]
  <2>1. x = <<x[1]>> /\ x # <<>> BY <1>1, <1>4
  <2>2. Len(G) = Len(F) + 1 /\ G[Len(F) + 1] = x[1] /\ \A k \in 1 .. Len(F) : G[k] = F[k]
    BY <1>1, <1>2, <1>4
  <2>3. /\ \A k \in 1 .. Len(F) : h[k] = g[k] /\ g[k] \in 1 .. m
        /\ h[Len(F) + 1] = m + 1
    <3>1. \A k \in 1 .. Len(F) : k \in 1 .. Len(F) + 1 /\ k <= Len(F) BY <1>1
    <3>2. Len(F) + 1 \in 1 .. Len(F) + 1 /\ ~(Len(F) + 1 <= Len(F)) BY <1>1
    <3>3. \A k \in 1 .. Len(F) : g[k] \in 1 .. m BY <1>2 DEF Picks
    <3>. QED BY <3>1, <3>2, <3>3
  <2>4. h \in [1 .. Len(F) + 1 -> 1 .. m + 1]
    <3>1. \A k \in 1 .. Len(F) + 1 : (IF k <= Len(F) THEN g[k] ELSE m + 1) \in 1 .. m + 1
      <4>1. \A k \in 1 .. Len(F) + 1 : k <= Len(F) => g[k] \in 1 .. m
        BY <1>1, <1>2, SMTT(20) DEF Picks
      <4>2. 1 .. m \subseteq 1 .. m + 1 /\ m + 1 \in 1 .. m + 1 OBVIOUS
      <4>. QED BY <4>1, <4>2
    <3>. QED BY <3>1
  <2> HIDE DEF h, G
  <2>5. ASSUME NEW k \in 1 .. Len(F) + 1 PROVE ss[h[k]] = <<G[k]>>
    <3>1. CASE k \in 1 .. Len(F) BY <1>2, <2>2, <2>3, <3>1 DEF Picks
    <3>2. CASE k = Len(F) + 1 BY <2>1, <2>2, <2>3, <3>2
    <3>. QED BY <1>1, <3>1, <3>2
  <2>6. ASSUME NEW j \in 1 .. Len(F) + 1, NEW k \in 1 .. Len(F) + 1, j < k PROVE h[j] < h[k]
    <3>1. j \in 1 .. Len(F) /\ h[j] = g[j] /\ g[j] \in 1 .. m BY <1>1, <2>3, <2>6
    <3>2. CASE k \in 1 .. Len(F) BY <1>2, <2>3, <2>6, <3>1, <3>2 DEF Picks
    <3>3. CASE k = Len(F) + 1 BY <2>3, <3>1, <3>3
    <3>. QED BY <1>1, <3>2, <3>3
  <2>7. ASSUME NEW i \in 1 .. m + 1, ss[i] # <<>> PROVE \E k \in 1 .. Len(F) + 1 : h[k] = i
    <3>1. CASE i = m + 1 BY <1>1, <2>3, <3>1
    <3>2. CASE i # m + 1
      <4>1. PICK k \in 1 .. Len(F) : g[k] = i BY <1>2, <2>7, <3>2 DEF Picks
      <4>. QED BY <1>1, <2>3, <4>1
    <3>. QED BY <3>1, <3>2
  <2>8. DOMAIN G = 1 .. Len(F) + 1 BY <1>2, <2>2
  <2>9. Picks(G, ss, m + 1, h) BY <2>4, <2>5, <2>6, <2>7, <2>8 DEF Picks
  <2>. QED BY <1>2, <2>9 DEF G
<1>5. Len(x) = 0 \/ Len(x) = 1
  <2> HIDE DEF x
  <2>1. \A n \in Nat : n <= 1 => n = 0 \/ n = 1 OBVIOUS
  <2>. QED BY <1>1, <2>1
<1>. QED BY <1>3, <1>4, <1>5, Zenon

LEMMA Flattened ==
  ASSUME NEW S, NEW ss, Short(S, ss)
  PROVE  FlattenSeq(ss) \in Seq(S) /\ \E g : Picks(FlattenSeq(ss), ss, Len(ss), g)
<1>1. Len(ss) \in Nat /\ DOMAIN ss = 1 .. Len(ss) BY DEF Short
<1>2. CASE Len(ss) = 0
  <2>1. ss = <<>> /\ FlattenSeq(ss) = <<>> BY <1>2, EmptySeq DEF FlattenSeq, Short
  <2>2. Picks(<<>>, ss, 0, <<>>) BY DEF Picks
  <2>3. <<>> \in Seq(S) OBVIOUS
  <2>4. Picks(FlattenSeq(ss), ss, Len(ss), <<>>) /\ FlattenSeq(ss) \in Seq(S)
    BY <1>2, <2>1, <2>2, <2>3
  <2>. QED BY <2>4
<1>3. CASE Len(ss) # 0
  <2>1. PICK f : FlatUpTo(ss, Len(ss), f) /\ FlattenSeq(ss) = f[Len(ss)]
    BY <1>1, <1>3, FlatUnfold
  <2> DEFINE Good(n) == f[n] \in Seq(S) /\ \E g : Picks(f[n], ss, n, g)
             Bad == { n \in 1 .. Len(ss) : ~Good(n) }
  <2>2. SUFFICES ASSUME Bad # {} PROVE FALSE
    BY <1>1, <1>3, <2>2, <2>1
  <2>3. PICK n \in Bad : \A k \in Bad : n <= k
    <3>1. Bad \in SUBSET Nat OBVIOUS
    <3> HIDE DEF Bad
    <3>. QED BY <2>2, <3>1, LeastNat
  <2>4. CASE n = 1
    <3>1. Picks(<<>>, ss, 0, <<>>) BY DEF Picks
    <3>2. 0 + 1 \in DOMAIN ss /\ <<>> \in Seq(S) BY <1>1, <1>3
    <3>3. <<>> \o ss[0 + 1] \in Seq(S) /\ \E h : Picks(<<>> \o ss[0 + 1], ss, 0 + 1, h)
      BY <3>1, <3>2, PicksOne
    <3>4. f[1] = ss[1] /\ ss[1] \in Seq(S) BY <1>1, <1>3, <2>1, <3>2 DEF FlatUpTo, Short
    <3>5. <<>> \o ss[1] = ss[1] BY <3>4
    <3>. QED BY <2>3, <2>4, <3>3, <3>4, <3>5
  <2>5. CASE n # 1
    <3>0. n \in 1 .. Len(ss) OBVIOUS
    <3>1. n - 1 \in 1 .. Len(ss) /\ n - 1 \in Nat /\ (n - 1) + 1 = n /\ n - 1 \notin Bad
      <4>1. n - 1 \in 1 .. Len(ss) /\ n - 1 \in Nat /\ (n - 1) + 1 = n /\ ~(n <= n - 1)
        BY <1>1, <2>5, <3>0
      <4>2. n - 1 \notin Bad BY <2>3, <4>1
      <4>. QED BY <4>1, <4>2
    <3>2. PICK g : f[n - 1] \in Seq(S) /\ Picks(f[n - 1], ss, n - 1, g) BY <3>1
    <3>3. f[n] = f[n - 1] \o ss[n] BY <1>1, <2>1, <2>3, <2>5 DEF FlatUpTo
    <3> DEFINE m == n - 1
    <3>5. m \in Nat /\ m + 1 \in DOMAIN ss /\ m + 1 = n BY <1>1, <2>3, <3>1
    <3> HIDE DEF m
    <3>6. f[m] \in Seq(S) /\ Picks(f[m], ss, m, g) BY <3>2 DEF m
    <3>4. /\ f[m] \o ss[m + 1] \in Seq(S)
          /\ \E h : Picks(f[m] \o ss[m + 1], ss, m + 1, h)
      BY <3>5, <3>6, PicksOne
    <3>7. f[n] = f[m] \o ss[m + 1] BY <3>3, <3>5 DEF m
    <3>. QED BY <2>3, <3>4, <3>5, <3>7
  <2>. QED BY <2>4, <2>5
<1>. QED BY <1>2, <1>3

(* What is picked: the elements at these places, in their order.           *)
PicksOf(s, ks, K, g) ==
  /\ g \in [DOMAIN K -> ks \cap DOMAIN s]
  /\ \A k \in DOMAIN K : K[k] = s[g[k]]
  /\ \A j, k \in DOMAIN K : j < k => g[j] < g[k]
  /\ \A i \in ks \cap DOMAIN s : \E k \in DOMAIN K : g[k] = i

LEMMA PickedIs ==
  ASSUME NEW S, NEW s \in Seq(S), NEW ks
  PROVE  Picked(s, ks) \in Seq(S) /\ \E g : PicksOf(s, ks, Picked(s, ks), g)
<1> DEFINE ss == [k \in DOMAIN s |-> IF k \in ks THEN <<s[k]>> ELSE <<>>]
           K == Picked(s, ks)
<1>1. DOMAIN s = 1 .. Len(s) /\ Len(s) \in Nat OBVIOUS
<1>2. \A i \in DOMAIN s : ss[i] \in Seq(S) /\ Len(ss[i]) <= 1 OBVIOUS
<1>3. ss \in Seq(Seq(S)) /\ Len(ss) = Len(s) /\ DOMAIN ss = DOMAIN s BY <1>1, <1>2
<1>4. Short(S, ss) BY <1>2, <1>3 DEF Short
<1>5. K = FlattenSeq(ss) BY DEF Picked
<1> HIDE DEF ss, K
<1>6. K \in Seq(S) BY <1>4, <1>5, Flattened
<1>7. PICK g : Picks(K, ss, Len(ss), g) BY <1>4, <1>5, Flattened
<1>8. \A i \in DOMAIN s : ss[i] = IF i \in ks THEN <<s[i]>> ELSE <<>> BY DEF ss
<1>9. ASSUME NEW k \in DOMAIN K PROVE g[k] \in ks \cap DOMAIN s /\ K[k] = s[g[k]]
  <2>1. g[k] \in DOMAIN s /\ ss[g[k]] = <<K[k]>> BY <1>1, <1>3, <1>7, <1>9 DEF Picks
  <2>2. g[k] \in ks /\ <<s[g[k]]>> = <<K[k]>>
    <3>1. <<>> # <<K[k]>> OBVIOUS
    <3>2. ss[g[k]] = IF g[k] \in ks THEN <<s[g[k]]>> ELSE <<>> BY <1>8, <2>1
    <3>. QED BY <2>1, <3>1, <3>2, Zenon
  <2>3. <<s[g[k]]>>[1] = <<K[k]>>[1] BY <2>2
  <2>. QED BY <2>1, <2>2, <2>3
<1>10. ASSUME NEW i \in ks \cap DOMAIN s PROVE \E k \in DOMAIN K : g[k] = i
  <2>1. ss[i] # <<>> /\ i \in 1 .. Len(ss)
    <3>1. <<>> # <<s[i]>> OBVIOUS
    <3>2. ss[i] = <<s[i]>> BY <1>8
    <3>3. i \in 1 .. Len(ss) BY <1>1, <1>3
    <3>. QED BY <3>1, <3>2, <3>3
  <2>. QED BY <1>7, <2>1 DEF Picks
<1>11. g \in [DOMAIN K -> ks \cap DOMAIN s] BY <1>7, <1>9 DEF Picks
<1>12. PicksOf(s, ks, K, g) BY <1>7, <1>9, <1>10, <1>11 DEF PicksOf, Picks
<1>. QED BY <1>6, <1>12 DEF K

(* A flattening shows the elements of all its sequences and no others.     *)
LEMMA FlatSet ==
  ASSUME NEW S, NEW ss \in Seq(Seq(S))
  PROVE  /\ FlattenSeq(ss) \in Seq(S)
         /\ ToSet(FlattenSeq(ss)) = UNION {ToSet(ss[i]) : i \in DOMAIN ss}
<1>1. Len(ss) \in Nat /\ DOMAIN ss = 1 .. Len(ss) /\ \A i \in DOMAIN ss : ss[i] \in Seq(S)
  OBVIOUS
<1>2. CASE Len(ss) = 0 BY <1>2, EmptySeq, <1>1 DEF FlattenSeq, ToSet
<1>3. CASE Len(ss) # 0
  <2>1. PICK f : FlatUpTo(ss, Len(ss), f) /\ FlattenSeq(ss) = f[Len(ss)]
    BY <1>1, <1>3, FlatUnfold
  <2> DEFINE All(n) == UNION {ToSet(ss[i]) : i \in 1 .. n}
             P == {n \in 1 .. Len(ss) : f[n] \in Seq(S) /\ ToSet(f[n]) = All(n)}
  <2>2. 1 \in P BY <1>1, <1>3, <2>1 DEF FlatUpTo
  <2>3. ASSUME NEW n \in 1 + 1 .. Len(ss), n - 1 \in P PROVE n \in P
    <3>0. n \in 1 .. Len(ss) /\ n # 1 BY <1>1
    <3>1. f[n] = f[n - 1] \o ss[n] /\ n \in 1 .. Len(ss) /\ ss[n] \in Seq(S)
      BY <1>1, <2>1, <3>0 DEF FlatUpTo
    <3>2. f[n - 1] \in Seq(S) /\ ToSet(f[n - 1]) = All(n - 1) BY <2>3
    <3>3. All(n) = All(n - 1) \cup ToSet(ss[n]) BY <3>1
    <3> HIDE DEF All
    <3>4. ToSet(f[n - 1] \o ss[n]) = ToSet(f[n - 1]) \cup ToSet(ss[n])
      <4> DEFINE F == f[n - 1]
                 G == ss[n]
      <4>1. F \in Seq(S) /\ G \in Seq(S) BY <3>1, <3>2
      <4> HIDE DEF F, G
      <4>2. Range(F \o G) = Range(F) \cup Range(G) BY <4>1, RangeConcatenation
      <4>. QED BY <4>2 DEF F, G, ToSet, Range
    <3>5. f[n - 1] \o ss[n] \in Seq(S) BY <3>1, <3>2, ConcatProperties
    <3>. QED BY <3>1, <3>2, <3>3, <3>4, <3>5
  <2> HIDE DEF P
  <2>4. 1 .. Len(ss) \subseteq P BY <1>1, <2>2, <2>3, StepByStep
  <2>5. Len(ss) \in 1 .. Len(ss) BY <1>1, <1>3
  <2>. QED BY <1>1, <2>1, <2>4, <2>5 DEF P
<1>. QED BY <1>2, <1>3

LEMMA AppendSet ==
  ASSUME NEW S, NEW s \in Seq(S), NEW x \in S
  PROVE  /\ Append(s, x) \in Seq(S) /\ Len(Append(s, x)) = Len(s) + 1
         /\ DOMAIN Append(s, x) = 1 .. Len(s) + 1
         /\ \A i \in 1 .. Len(s) : Append(s, x)[i] = s[i]
         /\ Append(s, x)[Len(s) + 1] = x
         /\ ToSet(Append(s, x)) = ToSet(s) \cup {x}
<1>1. /\ Append(s, x) \in Seq(S) /\ Len(Append(s, x)) = Len(s) + 1
      /\ \A i \in 1 .. Len(s) : Append(s, x)[i] = s[i]
      /\ Append(s, x)[Len(s) + 1] = x
  OBVIOUS
<1>2. DOMAIN Append(s, x) = 1 .. Len(s) + 1 /\ DOMAIN s = 1 .. Len(s) /\ Len(s) \in Nat
  OBVIOUS
<1>3. ToSet(Append(s, x)) = ToSet(s) \cup {x}
  <2> DEFINE A == Append(s, x)
  <2>1. DOMAIN A = DOMAIN s \cup {Len(s) + 1} /\ \A i \in DOMAIN s : A[i] = s[i]
    BY <1>1, <1>2
  <2>2. A[Len(s) + 1] = x BY <1>1
  <2> HIDE DEF A
  <2>. QED BY <2>1, <2>2 DEF ToSet, A
<1>. QED BY <1>1, <1>2, <1>3

LEMMA PickedSet ==
  ASSUME NEW S, NEW s \in Seq(S), NEW ks
  PROVE  /\ Picked(s, ks) \in Seq(S)
         /\ ToSet(Picked(s, ks)) = {s[k] : k \in ks \cap DOMAIN s}
<1>1. PICK g : Picked(s, ks) \in Seq(S) /\ PicksOf(s, ks, Picked(s, ks), g) BY PickedIs
<1>. QED BY <1>1 DEF PicksOf, ToSet

----------------------------------------------------------------------------
(* The types: lines are in L, turn ends in E.                              *)
OpenIn(L) == [key : Nat, number : Nat, text : Seq(L)]

OpIn(L) == [number : Nat \ {0}, text : Seq(L), into : Nat, merge : BOOLEAN, restart : BOOLEAN]

AnswerIn(E) == [answer : E, end : E \cup {0}, gone : BOOLEAN]

MessageIn(L, E) ==
  [number : Nat \ {0}, state : {"waiting", "accepted", "refused"}, answer : Seq(AnswerIn(E)),
   op : OpIn(L), absorb : BOOLEAN]

BarrierIn(L) == [number : {0}, to : Nat, call : BOOLEAN, open : OpenIn(L)]

WaitingIn(L, E) == Seq(MessageIn(L, E) \cup BarrierIn(L))

LiveIn(L, E) ==
  [readAt : Nat, call : BOOLEAN, reading : Nat, debts : SUBSET E, held : Seq(AnswerIn(E)),
   ends : Seq(E), lapsing : BOOLEAN, restart : BOOLEAN, answeredEnds : SUBSET E,
   rewind : BOOLEAN, unpaired : Seq(E), open : OpenIn(L), committed : OpenIn(L),
   waiting : WaitingIn(L, E), next : Nat]

ReplyIn ==
  [number : Nat \ {0}, what : {"sent", "merged", "skipped", "gone", "unsent"}, key : Nat]

OutIn(L) == [queue : Seq(OpIn(L)), broken : BOOLEAN, done : SUBSET ReplyIn]

StreamIn(L, E) ==
  [live : LiveIn(L, E), out : OutIn(L), topic : Seq(Seq(L \cup {0}))]

NewOp(lv, text, into, merge) ==
  [number |-> lv.next + 1, text |-> text, into |-> into, merge |-> merge, restart |-> lv.restart]

NewEntry(lv, answer, text, into, merge, absorb) ==
  [number |-> lv.next + 1, state |-> "waiting", answer |-> answer,
   op |-> NewOp(lv, text, into, merge), absorb |-> absorb]

(* Two states of the stream differ in what waits, in its opens and in how  *)
(* far they are read only.                                                 *)
SameRest(lv, lw) ==
  /\ lw.reading = lv.reading /\ lw.call = lv.call
  /\ lw.debts = lv.debts /\ lw.held = lv.held /\ lw.ends = lv.ends
  /\ lw.lapsing = lv.lapsing /\ lw.answeredEnds = lv.answeredEnds
  /\ lw.rewind = lv.rewind /\ lw.unpaired = lv.unpaired

SameReads(lv, lw) == lw.readAt = lv.readAt /\ SameRest(lv, lw)

LEMMA WaitingType ==
  ASSUME NEW L, NEW E, NEW w \in WaitingIn(L, E), NEW k \in DOMAIN w
  PROVE  /\ Len(w) \in Nat /\ DOMAIN w = 1 .. Len(w)
         /\ IsBarrier(w[k]) => w[k] \in BarrierIn(L)
         /\ ~IsBarrier(w[k]) => w[k] \in MessageIn(L, E)
BY DEF WaitingIn, MessageIn, IsBarrier, BarrierIn

LEMMA MessageOf ==
  ASSUME NEW L, NEW E, NEW lv, lv.waiting \in WaitingIn(L, E)
  PROVE  /\ Messages(lv) \subseteq MessageIn(L, E)
         /\ Messages(lv) = {lv.waiting[k] : k \in {j \in DOMAIN lv.waiting : ~IsBarrier(lv.waiting[j])}}
BY WaitingType DEF Messages, ToSet

LEMMA OpensType ==
  ASSUME NEW L, NEW E, NEW lv \in LiveIn(L, E)
  PROVE  Opens(lv) \subseteq OpenIn(L)
BY WaitingType DEF LiveIn, BarrierIn, Opens

LEMMA HandOffType ==
  ASSUME NEW L, NEW o \in OutIn(L), NEW op \in OpIn(L)
  PROVE  /\ HandOff(o, op) \in OutIn(L)
         /\ \/ /\ HandOff(o, op).queue = o.queue /\ HandOff(o, op).broken = o.broken
               /\ HandOff(o, op).done =
                    o.done \cup {[number |-> op.number, what |-> "unsent", key |-> 0]}
               /\ o.broken /\ ~op.restart
            \/ /\ HandOff(o, op).queue = Append(o.queue, op) /\ HandOff(o, op).done = o.done
               /\ ~HandOff(o, op).broken
               /\ ~o.broken \/ op.restart
<1>1. [number |-> op.number, what |-> "unsent", key |-> 0] \in ReplyIn
  BY DEF ReplyIn, OpIn
<1>2. CASE o.broken /\ ~op.restart BY <1>2, <1>1 DEF HandOff, OutIn
<1>3. CASE ~(o.broken /\ ~op.restart)
  <2>1. HandOff(o, op) = [o EXCEPT !.queue = Append(@, op), !.broken = FALSE]
    BY <1>3 DEF HandOff
  <2>2. Append(o.queue, op) \in Seq(OpIn(L)) BY DEF OutIn
  <2>. QED BY <1>3, <2>1, <2>2 DEF OutIn
<1>. QED BY <1>2, <1>3

LEMMA LiveWith ==
  ASSUME NEW L, NEW E, NEW lv \in LiveIn(L, E), NEW n \in Nat, NEW b \in BOOLEAN,
         NEW w \in WaitingIn(L, E)
  PROVE  LET lw == [lv EXCEPT !.next = n, !.restart = b, !.waiting = w]
         IN /\ lw \in LiveIn(L, E)
            /\ lw.waiting = w /\ lw.next = n /\ lw.restart = b
            /\ lw.open = lv.open /\ lw.committed = lv.committed /\ SameReads(lv, lw)
<1> DEFINE lw == [lv EXCEPT !.next = n, !.restart = b, !.waiting = w]
<1>1. lw \in LiveIn(L, E) BY DEF LiveIn
<1>2. /\ lw.waiting = w /\ lw.next = n /\ lw.restart = b
      /\ lw.open = lv.open /\ lw.committed = lv.committed /\ SameReads(lv, lw)
  BY DEF LiveIn, SameReads, SameRest
<1>. QED BY <1>1, <1>2

(* Message `e` is pushed: from `s` to `p`.                                 *)
Pushes(s, p, e) ==
  /\ p.topic = s.topic /\ p.out = HandOff(s.out, e.op)
  /\ p.live.waiting = Append(s.live.waiting, e)
  /\ p.live.next = s.live.next + 1 /\ ~p.live.restart
  /\ p.live.open = s.live.open /\ p.live.committed = s.live.committed
  /\ SameReads(s.live, p.live)
  /\ Messages(p.live) = Messages(s.live) \cup {e}
  /\ Opens(p.live) = Opens(s.live)

LEMMA PushIs ==
  ASSUME NEW L, NEW E, NEW s \in StreamIn(L, E), NEW answer \in Seq(AnswerIn(E)),
         NEW text \in Seq(L), NEW into \in Nat, NEW merge \in BOOLEAN, NEW absorb \in BOOLEAN
  PROVE  LET p == Push(s, answer, text, into, merge, absorb)
             e == NewEntry(s.live, answer, text, into, merge, absorb)
         IN /\ p \in StreamIn(L, E) /\ e \in MessageIn(L, E)
            /\ Pushes(s, p, e)
<1> DEFINE p == Push(s, answer, text, into, merge, absorb)
           e == NewEntry(s.live, answer, text, into, merge, absorb)
           W == MessageIn(L, E) \cup BarrierIn(L)
<1>1. s.live \in LiveIn(L, E) /\ s.out \in OutIn(L) /\ s.topic \in Seq(Seq(L \cup {0}))
  BY DEF StreamIn
<1>2. s.live.next \in Nat /\ s.live.restart \in BOOLEAN /\ s.live.waiting \in Seq(W)
  BY <1>1 DEF LiveIn, WaitingIn
<1>3. NewOp(s.live, text, into, merge) \in OpIn(L) BY <1>2 DEF NewOp, OpIn
<1>4. e \in MessageIn(L, E) /\ e.op = NewOp(s.live, text, into, merge) /\ e.number # 0
  BY <1>2, <1>3 DEF NewEntry, MessageIn
<1> DEFINE lw == [s.live EXCEPT !.next = s.live.next + 1, !.restart = FALSE,
                                !.waiting = Append(s.live.waiting, e)]
<1>5. p = [s EXCEPT !.live = lw, !.out = HandOff(s.out, NewOp(s.live, text, into, merge))]
  BY DEF Push, NewEntry, NewOp
<1> HIDE DEF e
<1>6. Append(s.live.waiting, e) \in Seq(W) BY <1>2, <1>4
<1>7. HandOff(s.out, e.op) \in OutIn(L) BY <1>1, <1>3, <1>4, HandOffType
<1>8. lw \in LiveIn(L, E)
  <2>1. Append(s.live.waiting, e) \in WaitingIn(L, E) /\ s.live.next + 1 \in Nat
    BY <1>2, <1>6 DEF WaitingIn
  <2>. QED BY <1>1, <2>1, LiveWith
<1>9. /\ lw.waiting = Append(s.live.waiting, e) /\ lw.next = s.live.next + 1 /\ ~lw.restart
      /\ lw.open = s.live.open /\ lw.committed = s.live.committed /\ SameReads(s.live, lw)
  BY <1>1 DEF LiveIn, SameReads, SameRest
<1> HIDE DEF lw
<1>10. p.live = lw /\ p.topic = s.topic /\ p.out = HandOff(s.out, e.op) /\ p \in StreamIn(L, E)
  <2>1. p = [s EXCEPT !.live = lw, !.out = HandOff(s.out, e.op)] BY <1>4, <1>5
  <2> HIDE DEF p
  <2>. QED BY <1>1, <1>7, <1>8, <2>1 DEF StreamIn
<1>11. Messages(lw) = Messages(s.live) \cup {e}
  <2>1. ToSet(lw.waiting) = ToSet(s.live.waiting) \cup {e} BY <1>2, <1>4, <1>9, AppendSet
  <2>. QED BY <1>4, <2>1 DEF Messages, IsBarrier
<1>12. Opens(lw) = Opens(s.live)
  <2> DEFINE w == s.live.waiting
             v == lw.waiting
  <2>1. /\ DOMAIN v = 1 .. Len(w) + 1 /\ DOMAIN w = 1 .. Len(w) /\ Len(w) \in Nat
        /\ v[Len(w) + 1] = e /\ \A k \in 1 .. Len(w) : v[k] = w[k]
    BY <1>2, <1>4, <1>9, AppendSet
  <2>2. lw.open = s.live.open /\ lw.committed = s.live.committed BY <1>9
  <2>3. {v[k].open : k \in {j \in DOMAIN v : IsBarrier(v[j])}}
          = {w[k].open : k \in {j \in DOMAIN w : IsBarrier(w[j])}}
    <3>1. {j \in DOMAIN v : IsBarrier(v[j])} = {j \in DOMAIN w : IsBarrier(w[j])}
      <4>1. ~IsBarrier(v[Len(w) + 1]) BY <1>4, <2>1 DEF IsBarrier
      <4> HIDE DEF v, w
      <4>. QED BY <2>1, <4>1
    <3> HIDE DEF v, w
    <3>. QED BY <2>1, <3>1
  <2>. QED BY <2>2, <2>3 DEF Opens
<1>13. Pushes(s, p, e) BY <1>9, <1>10, <1>11, <1>12 DEF Pushes
<1>. QED BY <1>4, <1>10, <1>13 DEF e

----------------------------------------------------------------------------
(* What the operations of the stream do, one by one.                       *)

LEMMA EachOpenIs ==
  ASSUME NEW L, NEW E, NEW lv \in LiveIn(L, E), NEW f, \A o \in Opens(lv) : f[o] \in OpenIn(L)
  PROVE  LET lw == EachOpen(lv, f)
         IN /\ lw \in LiveIn(L, E)
            /\ lw.next = lv.next /\ lw.restart = lv.restart /\ SameReads(lv, lw)
            /\ lw.open = f[lv.open] /\ lw.committed = f[lv.committed]
            /\ DOMAIN lw.waiting = DOMAIN lv.waiting /\ Len(lw.waiting) = Len(lv.waiting)
            /\ \A k \in DOMAIN lv.waiting :
                 /\ IsBarrier(lw.waiting[k]) <=> IsBarrier(lv.waiting[k])
                 /\ ~IsBarrier(lv.waiting[k]) => lw.waiting[k] = lv.waiting[k]
                 /\ IsBarrier(lv.waiting[k]) =>
                      /\ lw.waiting[k].to = lv.waiting[k].to
                      /\ lw.waiting[k].call = lv.waiting[k].call
                      /\ lw.waiting[k].open = f[lv.waiting[k].open]
            /\ Messages(lw) = Messages(lv)
            /\ Opens(lw) = {f[o] : o \in Opens(lv)}
<1> DEFINE w == lv.waiting
           v == [k \in DOMAIN w |-> IF IsBarrier(w[k]) THEN [w[k] EXCEPT !.open = f[@]] ELSE w[k]]
           lw == EachOpen(lv, f)
<1>1. lv.open \in Opens(lv) /\ lv.committed \in Opens(lv) BY DEF Opens
<1>2. \A k \in DOMAIN w : IsBarrier(w[k]) => w[k].open \in Opens(lv) BY DEF Opens
<1>3. w \in WaitingIn(L, E) BY DEF LiveIn
<1>4. ASSUME NEW k \in DOMAIN w
      PROVE  /\ v[k] \in MessageIn(L, E) \cup BarrierIn(L)
             /\ IsBarrier(v[k]) <=> IsBarrier(w[k])
             /\ ~IsBarrier(w[k]) => v[k] = w[k]
             /\ IsBarrier(w[k]) => v[k].to = w[k].to /\ v[k].call = w[k].call /\ v[k].open = f[w[k].open]
  <2>1. CASE IsBarrier(w[k])
    <3>1. w[k] \in BarrierIn(L) /\ f[w[k].open] \in OpenIn(L)
      BY <1>2, <1>3, <2>1, WaitingType
    <3>2. v[k] = [w[k] EXCEPT !.open = f[w[k].open]] BY <2>1
    <3> HIDE DEF v, w
    <3>3. v[k] \in BarrierIn(L) /\ v[k].number = w[k].number
          /\ v[k].to = w[k].to /\ v[k].call = w[k].call /\ v[k].open = f[w[k].open]
      BY <3>1, <3>2 DEF BarrierIn
    <3>. QED BY <2>1, <3>3 DEF IsBarrier
  <2>2. CASE ~IsBarrier(w[k])
    <3>1. v[k] = w[k] BY <2>2
    <3> HIDE DEF v
    <3>. QED BY <1>3, <2>2, <3>1 DEF WaitingIn
  <2>. QED BY <2>1, <2>2
<1>5. DOMAIN v = DOMAIN w /\ DOMAIN w = 1 .. Len(w) /\ Len(w) \in Nat /\ v = [k \in 1 .. Len(w) |-> v[k]]
  BY <1>3 DEF WaitingIn
<1>6. lw = [lv EXCEPT !.open = f[lv.open], !.committed = f[lv.committed], !.waiting = v]
  BY DEF EachOpen
<1> HIDE DEF v
<1>7. v \in WaitingIn(L, E) /\ Len(v) = Len(w)
  <2> DEFINE n == Len(w)
             W == MessageIn(L, E) \cup BarrierIn(L)
  <2>1. n \in Nat /\ v = [k \in 1 .. n |-> v[k]] /\ \A k \in 1 .. n : v[k] \in W
    BY <1>4, <1>5
  <2> HIDE DEF n, W, w
  <2>2. v \in Seq(W) /\ Len(v) = n BY <2>1, IsSeqOf
  <2>. QED BY <2>2 DEF WaitingIn, W, n
<1> HIDE DEF lw
<1>8. /\ lw \in LiveIn(L, E)
      /\ lw.next = lv.next /\ lw.restart = lv.restart /\ SameReads(lv, lw)
      /\ lw.open = f[lv.open] /\ lw.committed = f[lv.committed] /\ lw.waiting = v
  BY <1>1, <1>6, <1>7 DEF LiveIn, SameReads, SameRest
<1>9. Messages(lw) = Messages(lv)
  <2>1. {v[k] : k \in {j \in DOMAIN v : ~IsBarrier(v[j])}}
          = {w[k] : k \in {j \in DOMAIN w : ~IsBarrier(w[j])}}
    <3>1. {j \in DOMAIN v : ~IsBarrier(v[j])} = {j \in DOMAIN w : ~IsBarrier(w[j])}
      BY <1>4, <1>5
    <3> HIDE DEF w
    <3>. QED BY <1>4, <1>5, <3>1
  <2>2. Messages(lw) = {v[k] : k \in {j \in DOMAIN v : ~IsBarrier(v[j])}}
    BY <1>7, <1>8, MessageOf
  <2>3. Messages(lv) = {w[k] : k \in {j \in DOMAIN w : ~IsBarrier(w[j])}}
    BY <1>3, MessageOf
  <2>. QED BY <2>1, <2>2, <2>3
<1>10. Opens(lw) = {f[o] : o \in Opens(lv)}
  <2>1. {v[k].open : k \in {j \in DOMAIN v : IsBarrier(v[j])}}
          = {f[w[k].open] : k \in {j \in DOMAIN w : IsBarrier(w[j])}}
    <3>1. {j \in DOMAIN v : IsBarrier(v[j])} = {j \in DOMAIN w : IsBarrier(w[j])}
      BY <1>4, <1>5
    <3> HIDE DEF w
    <3>. QED BY <1>4, <1>5, <3>1
  <2>2. Opens(lw) = {f[lv.open], f[lv.committed]} \cup
                      {f[w[k].open] : k \in {j \in DOMAIN w : IsBarrier(w[j])}}
    BY <1>8, <2>1 DEF Opens
  <2>3. Opens(lv) = {lv.open, lv.committed} \cup
                      {w[k].open : k \in {j \in DOMAIN w : IsBarrier(w[j])}}
    BY DEF Opens
  <2> HIDE DEF w
  <2>. QED BY <2>2, <2>3
<1>. QED BY <1>4, <1>5, <1>7, <1>8, <1>9, <1>10 DEF lw

LEMMA CloseOpenIs ==
  ASSUME NEW L, NEW E, NEW lv \in LiveIn(L, E)
  PROVE  LET lw == CloseOpen(lv)
         IN /\ lw \in LiveIn(L, E)
            /\ lw.next = lv.next /\ lw.restart = lv.restart /\ SameReads(lv, lw)
            /\ lw.open = NoOpen /\ lw.committed = NoOpen
            /\ DOMAIN lw.waiting = DOMAIN lv.waiting /\ Len(lw.waiting) = Len(lv.waiting)
            /\ \A k \in DOMAIN lv.waiting :
                 /\ IsBarrier(lw.waiting[k]) <=> IsBarrier(lv.waiting[k])
                 /\ ~IsBarrier(lv.waiting[k]) => lw.waiting[k] = lv.waiting[k]
                 /\ IsBarrier(lv.waiting[k]) =>
                      /\ lw.waiting[k].to = lv.waiting[k].to
                      /\ lw.waiting[k].call = lv.waiting[k].call
                      /\ lw.waiting[k].open = NoOpen
            /\ Messages(lw) = Messages(lv)
            /\ Opens(lw) = {NoOpen}
<1> DEFINE f == [open \in Opens(lv) |-> NoOpen]
           lw == EachOpen(lv, f)
<1>1. NoOpen \in OpenIn(L) BY DEF NoOpen, OpenIn
<1>2. \A o \in Opens(lv) : f[o] = NoOpen OBVIOUS
<1>3. CloseOpen(lv) = lw BY DEF CloseOpen
<1>4. lv.open \in Opens(lv) /\ lv.committed \in Opens(lv)
      /\ \A k \in DOMAIN lv.waiting : IsBarrier(lv.waiting[k]) => lv.waiting[k].open \in Opens(lv)
  BY DEF Opens
<1> HIDE DEF f
<1>5. /\ lw \in LiveIn(L, E)
      /\ lw.next = lv.next /\ lw.restart = lv.restart /\ SameReads(lv, lw)
      /\ lw.open = f[lv.open] /\ lw.committed = f[lv.committed]
      /\ DOMAIN lw.waiting = DOMAIN lv.waiting /\ Len(lw.waiting) = Len(lv.waiting)
      /\ \A k \in DOMAIN lv.waiting :
           /\ IsBarrier(lw.waiting[k]) <=> IsBarrier(lv.waiting[k])
           /\ ~IsBarrier(lv.waiting[k]) => lw.waiting[k] = lv.waiting[k]
           /\ IsBarrier(lv.waiting[k]) =>
                /\ lw.waiting[k].to = lv.waiting[k].to
                /\ lw.waiting[k].call = lv.waiting[k].call
                /\ lw.waiting[k].open = f[lv.waiting[k].open]
      /\ Messages(lw) = Messages(lv)
      /\ Opens(lw) = {f[o] : o \in Opens(lv)}
  BY <1>1, <1>2, EachOpenIs
<1> HIDE DEF lw
<1>6. Opens(lw) = {NoOpen} BY <1>2, <1>4, <1>5
<1>. QED BY <1>2, <1>3, <1>4, <1>5, <1>6

(* The turn message sent as `number` is `key`, or none.                    *)
OpenedTo(o, number, key) ==
  IF o.key # 0 \/ o.number # number THEN o ELSE IF key = 0 THEN NoOpen ELSE [o EXCEPT !.key = key]

LEMMA OpenedToType ==
  ASSUME NEW L, NEW o \in OpenIn(L), NEW number \in Nat, NEW key \in Nat
  PROVE  OpenedTo(o, number, key) \in OpenIn(L)
BY DEF NoOpen, OpenIn, OpenedTo

OpenedSet(lv, lw, number, key, L, E) ==
  /\ lw \in LiveIn(L, E)
  /\ lw.next = lv.next /\ lw.restart = lv.restart /\ SameReads(lv, lw)
  /\ lw.open = OpenedTo(lv.open, number, key)
  /\ lw.committed = OpenedTo(lv.committed, number, key)
  /\ DOMAIN lw.waiting = DOMAIN lv.waiting /\ Len(lw.waiting) = Len(lv.waiting)
  /\ \A k \in DOMAIN lv.waiting :
       /\ IsBarrier(lw.waiting[k]) <=> IsBarrier(lv.waiting[k])
       /\ ~IsBarrier(lv.waiting[k]) => lw.waiting[k] = lv.waiting[k]
       /\ IsBarrier(lv.waiting[k]) =>
            /\ lw.waiting[k].to = lv.waiting[k].to
            /\ lw.waiting[k].call = lv.waiting[k].call
            /\ lw.waiting[k].open = OpenedTo(lv.waiting[k].open, number, key)
  /\ Messages(lw) = Messages(lv)
  /\ Opens(lw) = {OpenedTo(o, number, key) : o \in Opens(lv)}

LEMMA OpenedIs ==
  ASSUME NEW L, NEW E, NEW lv \in LiveIn(L, E), NEW number \in Nat, NEW key \in Nat
  PROVE  OpenedSet(lv, Opened(lv, number, key), number, key, L, E)
<1> DEFINE f == [o \in Opens(lv) |->
                   IF o.key # 0 \/ o.number # number THEN o
                   ELSE IF key = 0 THEN NoOpen ELSE [o EXCEPT !.key = key]]
           lw == EachOpen(lv, f)
<1>2. \A o \in Opens(lv) : f[o] = OpenedTo(o, number, key) BY DEF OpenedTo
<1>1. \A o \in Opens(lv) : f[o] \in OpenIn(L) BY <1>2, OpensType, OpenedToType
<1>3. Opened(lv, number, key) = lw BY DEF Opened
<1>4. lv.open \in Opens(lv) /\ lv.committed \in Opens(lv)
      /\ \A k \in DOMAIN lv.waiting : IsBarrier(lv.waiting[k]) => lv.waiting[k].open \in Opens(lv)
  BY DEF Opens
<1> HIDE DEF f
<1>5. /\ lw \in LiveIn(L, E)
      /\ lw.next = lv.next /\ lw.restart = lv.restart /\ SameReads(lv, lw)
      /\ lw.open = f[lv.open] /\ lw.committed = f[lv.committed]
      /\ DOMAIN lw.waiting = DOMAIN lv.waiting /\ Len(lw.waiting) = Len(lv.waiting)
      /\ \A k \in DOMAIN lv.waiting :
           /\ IsBarrier(lw.waiting[k]) <=> IsBarrier(lv.waiting[k])
           /\ ~IsBarrier(lv.waiting[k]) => lw.waiting[k] = lv.waiting[k]
           /\ IsBarrier(lv.waiting[k]) =>
                /\ lw.waiting[k].to = lv.waiting[k].to
                /\ lw.waiting[k].call = lv.waiting[k].call
                /\ lw.waiting[k].open = f[lv.waiting[k].open]
      /\ Messages(lw) = Messages(lv)
      /\ Opens(lw) = {f[o] : o \in Opens(lv)}
  BY <1>1, EachOpenIs
<1> HIDE DEF lw
<1>6. Opens(lw) = {OpenedTo(o, number, key) : o \in Opens(lv)} BY <1>2, <1>5
<1>. QED BY <1>2, <1>3, <1>4, <1>5, <1>6 DEF OpenedSet

LEMMA MinIs ==
  ASSUME NEW S \in SUBSET Nat, S # {}
  PROVE  Min(S) \in S /\ \A x \in S : Min(S) <= x
<1>1. PICK n \in S : \A m \in S : n <= m BY LeastNat
<1>2. Min(S) = CHOOSE x \in S : \A y \in S : x <= y BY DEF Min
<1>. QED BY <1>1, <1>2

LEMMA MaxIs ==
  ASSUME NEW n \in Nat, NEW S \in SUBSET (0 .. n), S # {}
  PROVE  Max(S) \in S /\ \A x \in S : x <= Max(S)
<1> DEFINE B == {b \in 0 .. n : \A x \in S : x <= b}
<1>1. n \in B OBVIOUS
<1>2. PICK b \in B : \A c \in B : b <= c
  <2>1. B \in SUBSET Nat /\ B # {} BY <1>1
  <2> HIDE DEF B
  <2>. QED BY <2>1, LeastNat
<1>3. b \in S
  <2> SUFFICES ASSUME b \notin S PROVE FALSE
    OBVIOUS
  <2>1. \A x \in S : x <= b /\ x # b /\ x \in Nat /\ b \in Nat BY <1>2
  <2>2. b # 0
    <3>1. PICK x \in S : TRUE OBVIOUS
    <3>. QED BY <2>1, <3>1
  <2>3. b - 1 \in B BY <2>1, <2>2
  <2>4. ~(b <= b - 1) BY <2>1
  <2>. QED BY <1>2, <2>3, <2>4
<1>4. b \in S /\ \A y \in S : b >= y BY <1>2, <1>3
<1>5. Max(S) = CHOOSE x \in S : \A y \in S : x >= y BY DEF Max
<1>6. Max(S) \in S /\ \A y \in S : Max(S) >= y BY <1>4, <1>5
<1>. QED BY <1>6

BarrierSet(lv, lw, to, L, E) ==
  LET w == lv.waiting
      v == lw.waiting
  IN /\ lw \in LiveIn(L, E)
     /\ lw.readAt = to /\ SameRest(lv, lw)
     /\ lw.next = lv.next /\ lw.restart = lv.restart
     /\ lw.open = lv.open /\ lw.committed = lv.committed
     /\ Messages(lw) = Messages(lv)
     /\ Opens(lw) \subseteq Opens(lv)
     /\ \E n \in Nat :
          /\ n = Len(w) \/ (n + 1 = Len(w) /\ IsBarrier(w[n + 1]))
          /\ Len(v) = n + 1 /\ DOMAIN v = 1 .. n + 1
          /\ \A k \in 1 .. n : v[k] = w[k]
          /\ v[n + 1] = [number |-> 0, to |-> to, call |-> lv.call, open |-> lv.open]

LEMMA BarrierIs ==
  ASSUME NEW L, NEW E, NEW lv \in LiveIn(L, E), NEW to \in Nat
  PROVE  BarrierSet(lv, Barrier(lv, to), to, L, E)
<1> DEFINE w == lv.waiting
           W == MessageIn(L, E) \cup BarrierIn(L)
           b == [number |-> 0, to |-> to, call |-> lv.call, open |-> lv.open]
           both == w # <<>> /\ IsBarrier(Last(w))
           lw == Barrier(lv, to)
           v == lw.waiting
           n == IF both THEN Len(w) - 1 ELSE Len(w)
<1>1. w \in Seq(W) /\ lv.open \in OpenIn(L) /\ lv.call \in BOOLEAN
  BY DEF LiveIn, WaitingIn
<1>2. b \in W /\ IsBarrier(b) /\ b.open = lv.open BY <1>1 DEF BarrierIn, IsBarrier
<1>3. lw = [lv EXCEPT !.readAt = to, !.waiting = IF both THEN Append(Front(w), b) ELSE Append(w, b)]
  BY DEF Barrier
<1>4. Len(w) \in Nat /\ DOMAIN w = 1 .. Len(w) BY <1>1
<1> HIDE DEF W, b, w
<1>5. both => /\ Len(w) \in Nat \ {0} /\ Front(w) \in Seq(W) /\ Len(Front(w)) = Len(w) - 1
              /\ \A k \in 1 .. Len(w) - 1 : Front(w)[k] = w[k]
              /\ IsBarrier(w[Len(w)])
  <2> SUFFICES ASSUME both
               PROVE  /\ Len(w) \in Nat \ {0} /\ Front(w) \in Seq(W) /\ Len(Front(w)) = Len(w) - 1
                      /\ \A k \in 1 .. Len(w) - 1 : Front(w)[k] = w[k]
                      /\ IsBarrier(w[Len(w)])
    OBVIOUS
  <2>1. Len(w) \in Nat \ {0} BY <1>1, <1>4, EmptySeq
  <2>2. Front(w) = SubSeq(w, 1, Len(w) - 1) /\ Last(w) = w[Len(w)] BY DEF Front, Last
  <2> DEFINE m == Len(w) - 1
  <2>3. m \in Nat /\ m <= Len(w) BY <2>1
  <2>4. SubSeq(w, 1, m) \in Seq(W) /\ Len(SubSeq(w, 1, m)) = m
        /\ \A k \in 1 .. m : SubSeq(w, 1, m)[k] = w[k]
    <3> HIDE DEF m
    <3>. QED BY <1>1, <1>4, <2>3
  <2>. QED BY <2>1, <2>2, <2>4
<1>6. n \in Nat /\ (n = Len(w) \/ (n + 1 = Len(w) /\ IsBarrier(w[n + 1])))
  <2>1. CASE both
    <3>1. n = Len(w) - 1 BY <2>1
    <3>2. Len(w) \in Nat \ {0} /\ IsBarrier(w[Len(w)]) BY <1>5, <2>1
    <3>3. n + 1 = Len(w) /\ n \in Nat BY <3>1, <3>2
    <3> HIDE DEF n
    <3>. QED BY <3>2, <3>3
  <2>2. CASE ~both BY <1>4, <2>2
  <2>. QED BY <2>1, <2>2
<1>6a. n \in Nat /\ Len(w) \in Nat /\ (n = Len(w) \/ n + 1 = Len(w)) BY <1>4, <1>6
<1>6b. n <= Len(w) /\ \A k \in 1 .. Len(w) : k \in 1 .. n \/ (k = n + 1 /\ n + 1 = Len(w))
  <2> HIDE DEF n
  <2>. QED BY <1>6a
<1> DEFINE x == IF both THEN Append(Front(w), b) ELSE Append(w, b)
<1>7. /\ x \in Seq(W) /\ Len(x) = n + 1 /\ DOMAIN x = 1 .. n + 1
      /\ \A k \in 1 .. n : x[k] = w[k]
      /\ x[n + 1] = b
  <2>1. CASE both
    <3>1. x = Append(Front(w), b) /\ n = Len(w) - 1 BY <2>1
    <3> DEFINE F == Front(w)
    <3>2. F \in Seq(W) /\ Len(F) = n /\ n \in Nat /\ \A k \in 1 .. n : F[k] = w[k]
      BY <1>5, <2>1, <3>1
    <3>3. x = Append(F, b) BY <3>1
    <3> HIDE DEF both, n, x, F
    <3>. QED BY <1>2, <3>2, <3>3, AppendSet
  <2>2. CASE ~both
    <3>1. x = Append(w, b) /\ n = Len(w) BY <2>2
    <3> HIDE DEF both, n, x
    <3>. QED BY <1>1, <1>2, <1>4, <3>1, AppendSet
  <2>. QED BY <2>1, <2>2
<1> HIDE DEF both, x, n
<1>8. lw = [lv EXCEPT !.readAt = to, !.waiting = x] BY <1>3 DEF x
<1> HIDE DEF lw
<1>9. /\ lw \in LiveIn(L, E) /\ lw.waiting = x
      /\ lw.readAt = to /\ SameRest(lv, lw)
      /\ lw.next = lv.next /\ lw.restart = lv.restart
      /\ lw.open = lv.open /\ lw.committed = lv.committed
  BY <1>7, <1>8 DEF LiveIn, SameRest, WaitingIn, W
<1>10. Messages(lw) = Messages(lv)
  <2>1. ASSUME NEW k \in DOMAIN x, ~IsBarrier(x[k]) PROVE k \in DOMAIN w /\ x[k] = w[k]
    <3>1. k # n + 1 /\ k \in 1 .. n BY <1>2, <1>6, <1>7, <2>1
    <3>. QED BY <1>4, <1>6, <1>7, <3>1
  <2>2. ASSUME NEW k \in DOMAIN w, ~IsBarrier(w[k]) PROVE k \in DOMAIN x /\ x[k] = w[k]
    <3>1. k \in 1 .. n
      <4>1. k \in 1 .. Len(w) BY <1>4
      <4>2. k = n + 1 /\ n + 1 = Len(w) => n # Len(w) BY <1>6a
      <4>. QED BY <1>6, <1>6b, <2>2, <4>1, <4>2
    <3>. QED BY <1>6, <1>7, <3>1
  <2>3. lw.waiting \in WaitingIn(L, E) /\ lv.waiting \in WaitingIn(L, E)
    BY <1>9 DEF LiveIn
  <2>4. Messages(lw) = {x[k] : k \in {j \in DOMAIN x : ~IsBarrier(x[j])}}
    BY <1>9, <2>3, MessageOf
  <2>5. Messages(lv) = {w[k] : k \in {j \in DOMAIN w : ~IsBarrier(w[j])}}
    BY <2>3, MessageOf DEF w
  <2>. QED BY <2>1, <2>2, <2>4, <2>5
<1>11. Opens(lw) \subseteq Opens(lv)
  <2>1. ASSUME NEW k \in DOMAIN x, IsBarrier(x[k])
        PROVE  x[k].open \in Opens(lv)
    <3>1. CASE k = n + 1 BY <1>2, <1>7, <3>1 DEF Opens
    <3>2. CASE k # n + 1
      <4>1. k \in 1 .. n /\ k \in DOMAIN w /\ x[k] = w[k]
        <5>1. k \in 1 .. n BY <1>6, <1>7, <3>2
        <5>2. n <= Len(w) BY <1>6b
        <5>. QED BY <1>4, <1>6, <1>7, <5>1, <5>2
      <4>. QED BY <2>1, <4>1 DEF Opens, w
    <3>. QED BY <3>1, <3>2
  <2>. QED BY <1>9, <2>1 DEF Opens
<1>. QED BY <1>6, <1>7, <1>9, <1>10, <1>11 DEF lw, w, b, BarrierSet

(* What the answers taken off the head leave alone.                        *)
SameAhead(lv, lw) ==
  /\ lw.readAt = lv.readAt /\ lw.reading = lv.reading /\ lw.call = lv.call
  /\ lw.debts = lv.debts /\ lw.held = lv.held /\ lw.ends = lv.ends
  /\ lw.lapsing = lv.lapsing /\ lw.rewind = lv.rewind /\ lw.unpaired = lv.unpaired
  /\ lw.next = lv.next /\ lw.restart = lv.restart /\ lw.open = lv.open

LEMMA PassedIs ==
  ASSUME NEW L, NEW E, NEW lv \in LiveIn(L, E)
  PROVE  LET n == Passed(lv)
             last == LastBarrier(lv)
             w == lv.waiting
         IN /\ n \in 0 .. Len(w) /\ Len(w) \in Nat /\ DOMAIN w = 1 .. Len(w)
            /\ \A k \in 1 .. n : IsBarrier(w[k]) \/ w[k].state = "accepted"
            /\ n < Len(w) => ~IsBarrier(w[n + 1]) /\ w[n + 1].state # "accepted"
            /\ last \in 0 .. n
            /\ last # 0 => IsBarrier(w[last])
            /\ \A k \in last + 1 .. n : ~IsBarrier(w[k])
<1> DEFINE w == lv.waiting
           n == Passed(lv)
           last == LastBarrier(lv)
           open == {k \in DOMAIN w : ~IsBarrier(w[k]) /\ w[k].state # "accepted"}
<1>1. Len(w) \in Nat /\ DOMAIN w = 1 .. Len(w) BY DEF LiveIn, WaitingIn
<1>2. n = IF open = {} THEN Len(w) ELSE Min(open) - 1 BY DEF Passed
<1>3. /\ n \in 0 .. Len(w)
      /\ \A k \in 1 .. n : IsBarrier(w[k]) \/ w[k].state = "accepted"
      /\ n < Len(w) => ~IsBarrier(w[n + 1]) /\ w[n + 1].state # "accepted"
  <2>1. CASE open = {}
    <3>1. n = Len(w) /\ \A k \in 1 .. Len(w) : IsBarrier(w[k]) \/ w[k].state = "accepted"
      BY <1>1, <1>2, <2>1
    <3> HIDE DEF n, w
    <3>. QED BY <1>1, <3>1
  <2>2. CASE open # {}
    <3>1. open \in SUBSET Nat BY <1>1
    <3> DEFINE m == Min(open)
    <3>2. m \in open /\ \A k \in open : m <= k BY <2>2, <3>1, MinIs
    <3>3. n = m - 1 BY <1>2, <2>2
    <3>4. m \in 1 .. Len(w) /\ ~IsBarrier(w[m]) /\ w[m].state # "accepted" BY <1>1, <3>2
    <3>5. \A k \in 1 .. Len(w) : IsBarrier(w[k]) \/ w[k].state = "accepted" \/ m <= k
      BY <1>1, <3>2
    <3> HIDE DEF m, n, w, open
    <3>6. n + 1 = m /\ n \in 0 .. Len(w) BY <1>1, <3>3, <3>4
    <3>7. \A k \in 1 .. n : k \in 1 .. Len(w) /\ ~(m <= k) BY <1>1, <3>4, <3>6
    <3>. QED BY <3>4, <3>5, <3>6, <3>7
  <2>. QED BY <2>1, <2>2
<1> HIDE DEF n, w
<1>4. /\ last \in 0 .. n
      /\ last # 0 => IsBarrier(w[last])
      /\ \A k \in last + 1 .. n : ~IsBarrier(w[k])
  <2> DEFINE S == {0} \cup {k \in 1 .. n : IsBarrier(w[k])}
  <2>1. S \in SUBSET (0 .. n) /\ S # {} /\ n \in Nat BY <1>1, <1>3
  <2>2. last = Max(S) BY DEF LastBarrier, n, w
  <2> HIDE DEF S
  <2>3. Max(S) \in S /\ \A x \in S : x <= Max(S) BY <2>1, MaxIs
  <2> HIDE DEF last
  <2>4. last \in S /\ \A x \in S : x <= last BY <2>2, <2>3
  <2>5. last \in 0 .. n /\ (last # 0 => IsBarrier(w[last])) BY <2>1, <2>4 DEF S
  <2>6. ASSUME NEW k \in last + 1 .. n, IsBarrier(w[k]) PROVE FALSE
    BY <2>5, <2>6, <2>4 DEF S
  <2>. QED BY <2>5, <2>6
<1>. QED BY <1>1, <1>3, <1>4 DEF n, w

AdvancedSet(lv, lw, L, E) ==
  LET n == Passed(lv)
      last == LastBarrier(lv)
      w == lv.waiting
      v == lw.waiting
  IN /\ lw \in LiveIn(L, E) /\ SameAhead(lv, lw)
     /\ lw.committed = IF last = 0 THEN lv.committed ELSE w[last].open
     /\ Len(v) = Len(w) - n /\ DOMAIN v = 1 .. Len(w) - n
     /\ \A k \in 1 .. Len(w) - n : v[k] = w[n + k]
     /\ Messages(lw) \subseteq Messages(lv)
     /\ \A m \in Messages(lv) : m \in Messages(lw) \/ m.state = "accepted"
     /\ Opens(lw) \subseteq Opens(lv)

LEMMA AdvancedIs ==
  ASSUME NEW L, NEW E, NEW lv \in LiveIn(L, E)
  PROVE  AdvancedSet(lv, Advanced(lv), L, E)
<1> DEFINE w == lv.waiting
           n == Passed(lv)
           last == LastBarrier(lv)
           lw == Advanced(lv)
           rest == SubSeq(w, n + 1, Len(w))
           W == MessageIn(L, E) \cup BarrierIn(L)
           sent(m) == UNION {{a.end : a \in ToSet(w[k].answer)} :
                               k \in {j \in m + 1 .. n : ~IsBarrier(w[j])}}
           ends(m) == sent(m) \ {0}
<1>1. /\ n \in 0 .. Len(w) /\ Len(w) \in Nat /\ DOMAIN w = 1 .. Len(w)
      /\ \A k \in 1 .. n : IsBarrier(w[k]) \/ w[k].state = "accepted"
      /\ last \in 0 .. n
      /\ last # 0 => IsBarrier(w[last])
  BY PassedIs
<1>2. w \in WaitingIn(L, E) /\ w \in Seq(W) BY DEF LiveIn, WaitingIn
<1>3. lw = IF last = 0
           THEN [lv EXCEPT !.waiting = rest, !.answeredEnds = lv.answeredEnds \cup ends(0)]
           ELSE [lv EXCEPT !.waiting = rest, !.committed = w[last].open,
                           !.answeredEnds = {e \in lv.answeredEnds \cup ends(0) : e > w[last].to}
                                              \cup ends(last)]
  BY DEF Advanced
<1> HIDE DEF n, last, W
<1>4. ASSUME NEW m \in Nat PROVE ends(m) \subseteq E
  <2> SUFFICES ASSUME NEW e \in ends(m) PROVE e \in E
    OBVIOUS
  <2> HIDE DEF sent
  <2>0. e # 0 /\ e \in sent(m) OBVIOUS
  <2>1. PICK k \in {j \in m + 1 .. n : ~IsBarrier(w[j])} : e \in {a.end : a \in ToSet(w[k].answer)}
    BY <2>0 DEF sent
  <2>2. e # 0 /\ k \in 1 .. Len(w) /\ ~IsBarrier(w[k])
    <3>1. e # 0 /\ k \in m + 1 .. n /\ ~IsBarrier(w[k]) BY <2>0, <2>1
    <3>2. n \in Nat /\ n <= Len(w) BY <1>1
    <3> HIDE DEF w
    <3>. QED BY <1>1, <3>1, <3>2
  <2>3. w[k] \in MessageIn(L, E) BY <1>1, <1>2, <2>2, WaitingType
  <2>4. w[k].answer \in Seq(AnswerIn(E)) BY <2>3 DEF MessageIn
  <2>5. PICK a \in ToSet(w[k].answer) : e = a.end BY <2>1
  <2>6. a \in AnswerIn(E) BY <2>4, <2>5 DEF ToSet
  <2>. QED BY <2>2, <2>5, <2>6 DEF AnswerIn
<1>5. last # 0 => w[last].open \in OpenIn(L) /\ w[last].open \in Opens(lv)
  <2> SUFFICES ASSUME last # 0 PROVE w[last].open \in OpenIn(L) /\ w[last].open \in Opens(lv)
    OBVIOUS
  <2>1. last \in DOMAIN w /\ IsBarrier(w[last]) BY <1>1
  <2>2. w[last] \in BarrierIn(L) BY <1>2, <2>1, WaitingType
  <2>. QED BY <2>1, <2>2 DEF BarrierIn, Opens
<1>6. /\ rest \in Seq(W) /\ Len(rest) = Len(w) - n
      /\ \A k \in 1 .. Len(w) - n : rest[k] = w[n + k]
  <2> HIDE DEF w
  <2>1. \A i \in n + 1 .. Len(w) : w[i] \in W BY <1>1, <1>2
  <2>2. n + 1 \in Int /\ Len(w) \in Int BY <1>1
  <2>3. /\ rest \in Seq(W)
        /\ Len(rest) = IF n + 1 <= Len(w) THEN Len(w) - (n + 1) + 1 ELSE 0
        /\ \A i \in 1 .. Len(w) - (n + 1) + 1 : rest[i] = w[(n + 1) + i - 1]
    BY <2>1, <2>2, SubSeqProperties
  <2> HIDE DEF rest
  <2>4. Len(w) - (n + 1) + 1 = Len(w) - n /\ \A i \in 1 .. Len(w) - n : (n + 1) + i - 1 = n + i
    BY <1>1
  <2>5. Len(rest) = Len(w) - n
    <3>1. \A l, j \in Nat : j <= l => (IF j + 1 <= l THEN l - (j + 1) + 1 ELSE 0) = l - j
      OBVIOUS
    <3>2. n \in Nat /\ n <= Len(w) BY <1>1
    <3>. QED BY <1>1, <2>3, <3>1, <3>2
  <2>6. \A k \in 1 .. Len(w) - n : rest[k] = w[n + k] BY <2>3, <2>4
  <2>. QED BY <2>3, <2>5, <2>6
<1>6a. DOMAIN rest = 1 .. Len(w) - n BY <1>6
<1> HIDE DEF rest
<1>7. /\ lw \in LiveIn(L, E) /\ SameAhead(lv, lw) /\ lw.waiting = rest
      /\ lw.committed = IF last = 0 THEN lv.committed ELSE w[last].open
  <2>1. rest \in WaitingIn(L, E) BY <1>6 DEF WaitingIn, W
  <2>2. ends(0) \subseteq E /\ ends(last) \subseteq E
    <3>1. 0 \in Nat /\ last \in Nat BY <1>1
    <3> HIDE DEF ends
    <3>. QED BY <1>4, <3>1
  <2> DEFINE e0 == ends(0)
             e1 == ends(last)
  <2> HIDE DEF ends, w
  <2>3. CASE last = 0
    <3>1. lw = [lv EXCEPT !.waiting = rest, !.answeredEnds = lv.answeredEnds \cup e0]
      BY <1>3, <2>3
    <3>2. e0 \subseteq E BY <2>2
    <3> HIDE DEF e0, lw
    <3>. QED BY <2>1, <2>3, <3>1, <3>2 DEF LiveIn, SameAhead
  <2>4. CASE last # 0
    <3> DEFINE e2 == {e \in lv.answeredEnds \cup e0 : e > w[last].to} \cup e1
    <3>1. lw = [lv EXCEPT !.waiting = rest, !.committed = w[last].open, !.answeredEnds = e2]
      BY <1>3, <2>4
    <3>2. e2 \subseteq E BY <2>2 DEF LiveIn
    <3> HIDE DEF e0, e2, lw
    <3>. QED BY <1>5, <2>1, <2>4, <3>1, <3>2 DEF LiveIn, SameAhead
  <2>. QED BY <2>3, <2>4
<1> HIDE DEF lw
<1>8. Messages(lw) \subseteq Messages(lv)
      /\ \A m \in Messages(lv) : m \in Messages(lw) \/ m.state = "accepted"
  <2>1. Messages(lw) = {rest[k] : k \in {j \in DOMAIN rest : ~IsBarrier(rest[j])}}
    <3>1. lw.waiting \in WaitingIn(L, E) BY <1>7 DEF LiveIn
    <3>. QED BY <1>7, <3>1, MessageOf
  <2>2. Messages(lv) = {w[k] : k \in {j \in DOMAIN w : ~IsBarrier(w[j])}}
    BY <1>2, MessageOf
  <2> HIDE DEF w
  <2>3. ASSUME NEW k \in DOMAIN rest PROVE n + k \in DOMAIN w /\ rest[k] = w[n + k]
    BY <1>1, <1>6, <1>6a
  <2>4. ASSUME NEW k \in DOMAIN w, ~IsBarrier(w[k])
        PROVE  w[k].state = "accepted" \/ \E j \in DOMAIN rest : rest[j] = w[k]
    <3>1. CASE k <= n BY <1>1, <2>4, <3>1
    <3>2. CASE k > n
      <4>1. k - n \in DOMAIN rest /\ n + (k - n) = k BY <1>1, <1>6a, <3>2
      <4>2. rest[k - n] = w[k] BY <1>6, <1>6a, <4>1
      <4>. QED BY <4>1, <4>2
    <3>. QED BY <1>1, <3>1, <3>2
  <2>. QED BY <2>1, <2>2, <2>3, <2>4
<1>9. Opens(lw) \subseteq Opens(lv)
  <2>1. ASSUME NEW k \in DOMAIN rest, IsBarrier(rest[k]) PROVE rest[k].open \in Opens(lv)
    <3>1. n + k \in DOMAIN w /\ rest[k] = w[n + k]
      <4> HIDE DEF w
      <4>. QED BY <1>1, <1>6, <1>6a
    <3>. QED BY <2>1, <3>1 DEF Opens
  <2>2. lw.open = lv.open /\ lw.committed \in Opens(lv)
    BY <1>5, <1>7 DEF SameAhead, Opens
  <2>. QED BY <1>7, <2>1, <2>2 DEF Opens
<1>. QED BY <1>6, <1>6a, <1>7, <1>8, <1>9 DEF lw, n, last, AdvancedSet

----------------------------------------------------------------------------
(* The invariant.                                                          *)

NoEnds(text, E) == ToSet(text) \cap E = {}

(* A message of the topic that shows no answer.                            *)
Free(t, key, E) == key \in DOMAIN t /\ NoEnds(t[key], E)

IsIn(t, e) == \E m \in DOMAIN t : e \in ToSet(t[m])

(* Messages are numbered in their order.                                   *)
Numbered(lv) ==
  /\ \A j, k \in DOMAIN lv.waiting :
       j < k /\ ~IsBarrier(lv.waiting[j]) /\ ~IsBarrier(lv.waiting[k])
         => lv.waiting[j].number < lv.waiting[k].number
  /\ \A m \in Messages(lv) : m.number <= lv.next /\ m.op.number = m.number

SameWrite(op, q) ==
  q.number = op.number /\ q.text = op.text /\ q.into = op.into /\ q.merge = op.merge

(* What waits is in the scheduler's queue or answered, and only once.      *)
Queued(s) ==
  LET lv == s.live
      q == s.out.queue
      done == s.out.done
  IN /\ \A j, k \in DOMAIN q : j < k => q[j].number < q[k].number
     /\ IsFiniteSet(done)
     /\ \A r, x \in done : r.number = x.number => r = x
     /\ \A k \in DOMAIN q : \A r \in done : r.number # q[k].number
     /\ \A k \in DOMAIN q : \E m \in Messages(lv) : m.state = "waiting" /\ SameWrite(m.op, q[k])
     /\ \A r \in done : \E m \in Messages(lv) : m.state = "waiting" /\ m.number = r.number
     /\ \A m \in Messages(lv) : m.state = "waiting" =>
          (\E k \in DOMAIN q : q[k].number = m.number) \/ (\E r \in done : r.number = m.number)

(* Lines and answers never share a message.                                *)
PlacedMessage(m, t, E) ==
  IF m.answer = <<>>
  THEN NoEnds(m.op.text, E) /\ (m.op.into # 0 => Free(t, m.op.into, E))
  ELSE /\ m.answer = <<m.answer[1]>> /\ m.op.text = <<m.answer[1].answer>>
       /\ m.op.into = 0 /\ ~m.op.merge /\ ~m.absorb

PlacedOpen(o, s, E) ==
  /\ NoEnds(o.text, E)
  /\ o.key # 0 => Free(s.topic, o.key, E)
  /\ o.key = 0 /\ o.number # 0 =>
       \E m \in Messages(s.live) :
         m.number = o.number /\ m.state = "waiting" /\ m.answer = <<>> /\ m.op.into = 0

PlacedReply(r, s, E) ==
  r.key # 0 => /\ r.key \in DOMAIN s.topic
               /\ \A m \in Messages(s.live) :
                    m.number = r.number /\ m.answer = <<>> => Free(s.topic, r.key, E)

Placed(s, E) ==
  /\ \A m \in Messages(s.live) : PlacedMessage(m, s.topic, E)
  /\ \A o \in Opens(s.live) : PlacedOpen(o, s, E)
  /\ \A r \in s.out.done : PlacedReply(r, s, E)

(* Answers on their way to the topic.                                      *)
Answering(lv) == {m \in Messages(lv) : m.state # "accepted" /\ m.answer # <<>>}

(* Telegram took it, or refused it for good.                               *)
Done(s, m) ==
  \E r \in s.out.done : r.number = m.number /\ r.what \in {"sent", "merged", "skipped"}

(* The answers of `B` came; those of `G` went apart or are gone for good.  *)
Kept(s, E, B, G) ==
  LET held == s.live.held
  IN /\ \A j, k \in DOMAIN held : held[j].answer = held[k].answer => j = k
     /\ \A m, n \in Answering(s.live) :
          m.answer[1].answer = n.answer[1].answer => m.number = n.number
     /\ \A m \in Answering(s.live) : \A k \in DOMAIN held : m.answer[1].answer # held[k].answer
     /\ \A m \in Answering(s.live) :
          IF Done(s, m) THEN IsIn(s.topic, m.answer[1].answer) \/ m.answer[1].answer \in G
          ELSE ~IsIn(s.topic, m.answer[1].answer)
     /\ \A k \in DOMAIN held : held[k].answer \in B /\ ~IsIn(s.topic, held[k].answer)
     /\ \A m \in Answering(s.live) : m.answer[1].answer \in B
     /\ \A e \in E : IsIn(s.topic, e) => e \in B
     /\ \A e \in E : \A j, k \in DOMAIN s.topic :
          e \in ToSet(s.topic[j]) /\ e \in ToSet(s.topic[k]) => j = k
     /\ \A e \in B : \/ IsIn(s.topic, e) \/ e \in G
                     \/ \E k \in DOMAIN held : held[k].answer = e
                     \/ \E m \in Answering(s.live) : m.answer[1].answer = e

(* No answer below message `key`, and none on its way.                     *)
Lowest(key, s, E) ==
  /\ \A k \in DOMAIN s.out.queue : NoEnds(s.out.queue[k].text, E)
  /\ \A m \in key + 1 .. Len(s.topic) : NoEnds(s.topic[m], E)

(* No answer below an open message.                                        *)
AboveOpen(o, s, E) ==
  /\ o.key # 0 => Lowest(o.key, s, E)
  /\ o.key = 0 /\ o.number # 0 =>
       /\ \A k \in DOMAIN s.out.queue :
            NoEnds(s.out.queue[k].text, E) \/ s.out.queue[k].number < o.number
       /\ \A r \in s.out.done : r.number = o.number /\ r.key # 0 => Lowest(r.key, s, E)

Above(s, E) == \A o \in Opens(s.live) : AboveOpen(o, s, E)
(* Lines that were read lie before `W`.                                    *)
Bounded(lv, W) == \A k \in DOMAIN lv.waiting : IsBarrier(lv.waiting[k]) => lv.waiting[k].to <= W

(* `a` says whether the session keeps its slot.                            *)
Good(s, L, E, B, G, a, W) ==
  /\ E \subseteq L /\ 0 \notin E /\ s \in StreamIn(L, E)
  /\ Numbered(s.live) /\ Queued(s) /\ Placed(s, E) /\ Kept(s, E, B, G)
  /\ a => Above(s, E)
  /\ Bounded(s.live, W)

LEMMA SameMessage ==
  ASSUME NEW L, NEW E, NEW lv \in LiveIn(L, E), Numbered(lv),
         NEW m \in Messages(lv), NEW n \in Messages(lv), m.number = n.number
  PROVE  m = n
<1> DEFINE w == lv.waiting
<1>1. w \in WaitingIn(L, E) BY DEF LiveIn
<1>2. PICK j \in DOMAIN w : ~IsBarrier(w[j]) /\ m = w[j] BY <1>1, MessageOf
<1>3. PICK k \in DOMAIN w : ~IsBarrier(w[k]) /\ n = w[k] BY <1>1, MessageOf
<1>4. m.number \in Nat /\ j \in Nat /\ k \in Nat
  BY <1>1, <1>2, <1>3, MessageOf, WaitingType DEF MessageIn
<1>5. (j < k => m.number < n.number) /\ (k < j => n.number < m.number)
  BY <1>2, <1>3 DEF Numbered
<1>6. j = k BY <1>4, <1>5
<1>. QED BY <1>2, <1>3, <1>6

LEMMA InStreamType ==
  ASSUME NEW L, NEW E, NEW s \in StreamIn(L, E)
  PROVE  /\ s.live \in LiveIn(L, E) /\ s.out \in OutIn(L) /\ s.topic \in Seq(Seq(L \cup {0}))
         /\ s.out.queue \in Seq(OpIn(L)) /\ s.out.done \in SUBSET ReplyIn
         /\ s.out.broken \in BOOLEAN /\ s.live.next \in Nat /\ s.live.restart \in BOOLEAN
         /\ s.live.waiting \in WaitingIn(L, E) /\ s.live.held \in Seq(AnswerIn(E))
         /\ s.live.open \in OpenIn(L)
         /\ Len(s.topic) \in Nat /\ DOMAIN s.topic = 1 .. Len(s.topic)
         /\ Len(s.out.queue) \in Nat /\ DOMAIN s.out.queue = 1 .. Len(s.out.queue)
         /\ Len(s.live.held) \in Nat /\ DOMAIN s.live.held = 1 .. Len(s.live.held)
         /\ Messages(s.live) \subseteq MessageIn(L, E)
         /\ Opens(s.live) \subseteq OpenIn(L)
<1>1. s.live \in LiveIn(L, E) /\ s.out \in OutIn(L) /\ s.topic \in Seq(Seq(L \cup {0}))
  BY DEF StreamIn
<1>2. /\ s.out.queue \in Seq(OpIn(L)) /\ s.out.done \in SUBSET ReplyIn
      /\ s.out.broken \in BOOLEAN
  BY <1>1 DEF OutIn
<1>3. /\ s.live.next \in Nat /\ s.live.restart \in BOOLEAN
      /\ s.live.waiting \in WaitingIn(L, E) /\ s.live.held \in Seq(AnswerIn(E))
      /\ s.live.open \in OpenIn(L)
  BY <1>1 DEF LiveIn
<1>4. Messages(s.live) \subseteq MessageIn(L, E) /\ Opens(s.live) \subseteq OpenIn(L)
  BY <1>1, <1>3, MessageOf, OpensType
<1>. QED BY <1>1, <1>2, <1>3, <1>4

HeldAnswers(lv) == {lv.held[k].answer : k \in DOMAIN lv.held}

Distinct(held) == \A j, k \in DOMAIN held : held[j].answer = held[k].answer => j = k

(* What is held changes; of what waits only accepted messages go, and each *)
(* open may be replaced by one that is well placed.                        *)
LEMMA Reshaped ==
  ASSUME NEW L, NEW E, NEW B, NEW G, NEW a, NEW W, NEW s, Good(s, L, E, B, G, a, W),
         NEW t \in StreamIn(L, E), t.out = s.out, t.topic = s.topic,
         Numbered(t.live), Bounded(t.live, W), Messages(t.live) \subseteq Messages(s.live),
         \A m \in Messages(s.live) : m \in Messages(t.live) \/ m.state = "accepted",
         \A o \in Opens(t.live) : PlacedOpen(o, s, E) /\ (a => AboveOpen(o, s, E)),
         Distinct(t.live.held),
         HeldAnswers(t.live) \cap (B \ HeldAnswers(s.live)) = {}
  PROVE  Good(t, L, E, (B \ HeldAnswers(s.live)) \cup HeldAnswers(t.live), G, a, W)
<1> DEFINE H == HeldAnswers(s.live)
           K == HeldAnswers(t.live)
           C == (B \ H) \cup K
<1>1. Queued(s) /\ Placed(s, E) /\ Kept(s, E, B, G) /\ (a => Above(s, E)) BY DEF Good
<1>2. Queued(t) BY <1>1 DEF Queued
<1>3. \A o : PlacedOpen(o, s, E) => PlacedOpen(o, t, E) BY DEF PlacedOpen
<1>4. \A o : AboveOpen(o, s, E) => AboveOpen(o, t, E) BY DEF AboveOpen, Lowest
<1>5. \A r : PlacedReply(r, s, E) => PlacedReply(r, t, E) BY DEF PlacedReply
<1>6. Placed(t, E) BY <1>1, <1>3, <1>5 DEF Placed
<1>7. a => Above(t, E) BY <1>4 DEF Above
<1>8. Answering(t.live) = Answering(s.live) BY DEF Answering
<1>9. \A m : Done(t, m) <=> Done(s, m) BY DEF Done
<1>10. Kept(t, E, C, G)
  <2>1. \A k \in DOMAIN s.live.held : s.live.held[k].answer \in H BY DEF HeldAnswers
  <2>2. \A e \in H : \E k \in DOMAIN s.live.held : s.live.held[k].answer = e
    BY DEF HeldAnswers
  <2>3. \A k \in DOMAIN t.live.held : t.live.held[k].answer \in K BY DEF HeldAnswers
  <2>4. \A e \in K : \E k \in DOMAIN t.live.held : t.live.held[k].answer = e
    BY DEF HeldAnswers
  <2>5. \A m \in Answering(s.live) : m.answer[1].answer \in B \ H BY <1>1, <2>2 DEF Kept
  <2>6. \A e \in E : IsIn(s.topic, e) => e \in B \ H BY <1>1, <2>2 DEF Kept
  <2>7. H \subseteq E /\ K \subseteq E
    <3>1. s.live.held \in Seq(AnswerIn(E)) /\ t.live.held \in Seq(AnswerIn(E))
      BY InStreamType DEF Good
    <3>2. \A k \in DOMAIN s.live.held : s.live.held[k] \in AnswerIn(E) BY <3>1
    <3>3. \A k \in DOMAIN t.live.held : t.live.held[k] \in AnswerIn(E) BY <3>1
    <3>. QED BY <3>2, <3>3 DEF HeldAnswers, AnswerIn
  <2> HIDE DEF H, K
  <2>8. K \cap (B \ H) = {} BY DEF H, K
  <2>9. \A m \in Answering(t.live) : \A k \in DOMAIN t.live.held :
          m.answer[1].answer # t.live.held[k].answer
    BY <1>8, <2>3, <2>5, <2>8
  <2>10. \A k \in DOMAIN t.live.held :
           t.live.held[k].answer \in C /\ ~IsIn(t.topic, t.live.held[k].answer)
    BY <2>3, <2>6, <2>7, <2>8
  <2>11. \A m \in Answering(t.live) : m.answer[1].answer \in C BY <1>8, <2>5
  <2>12. \A e \in E : IsIn(t.topic, e) => e \in C BY <2>6
  <2>13. \A e \in C : \/ IsIn(t.topic, e) \/ e \in G
                      \/ \E k \in DOMAIN t.live.held : t.live.held[k].answer = e
                      \/ \E m \in Answering(t.live) : m.answer[1].answer = e
    <3> SUFFICES ASSUME NEW e \in C, e \notin K
                 PROVE  \/ IsIn(s.topic, e) \/ e \in G
                        \/ \E m \in Answering(s.live) : m.answer[1].answer = e
      BY <1>8, <2>4
    <3>1. e \in B /\ ~\E k \in DOMAIN s.live.held : s.live.held[k].answer = e BY <2>1
    <3>. QED BY <1>1, <3>1 DEF Kept
  <2> HIDE DEF C
  <2>14. \A m, n \in Answering(t.live) :
           m.answer[1].answer = n.answer[1].answer => m.number = n.number
    BY <1>1, <1>8 DEF Kept
  <2>15. \A m \in Answering(t.live) :
           IF Done(t, m) THEN IsIn(t.topic, m.answer[1].answer) \/ m.answer[1].answer \in G
           ELSE ~IsIn(t.topic, m.answer[1].answer)
    BY <1>1, <1>8, <1>9 DEF Kept
  <2>16. \A e \in E : \A j, k \in DOMAIN t.topic :
           e \in ToSet(t.topic[j]) /\ e \in ToSet(t.topic[k]) => j = k
    BY <1>1 DEF Kept
  <2>. QED BY <2>9, <2>10, <2>11, <2>12, <2>13, <2>14, <2>15, <2>16 DEF Kept, Distinct
<1>. QED BY <1>2, <1>6, <1>7, <1>10 DEF Good
(* The scheduler gets the write of message `e`, or drops it at once.       *)
Scheduled(s, p, e) ==
  /\ Numbered(p.live) /\ Queued(p)
  /\ \A m \in Messages(s.live) : m.number < e.number
  /\ \A k \in DOMAIN s.out.queue : s.out.queue[k].number < e.number
  /\ \A r \in s.out.done : r.number < e.number
  /\ \A k \in DOMAIN p.out.queue :
       \/ p.out.queue[k] = e.op
       \/ k \in DOMAIN s.out.queue /\ p.out.queue[k] = s.out.queue[k]
  /\ \A r \in p.out.done : r \in s.out.done
       \/ (r.number = e.number /\ r.what = "unsent" /\ r.key = 0)
  /\ s.out.done \subseteq p.out.done

(* A message that is pushed has a number of its own.                       *)
LEMMA PushQueued ==
  ASSUME NEW L, NEW E, NEW s \in StreamIn(L, E), Numbered(s.live), Queued(s),
         NEW answer \in Seq(AnswerIn(E)), NEW text \in Seq(L), NEW into \in Nat,
         NEW merge \in BOOLEAN, NEW absorb \in BOOLEAN
  PROVE  Scheduled(s, Push(s, answer, text, into, merge, absorb),
                   NewEntry(s.live, answer, text, into, merge, absorb))
<1> DEFINE p == Push(s, answer, text, into, merge, absorb)
           e == NewEntry(s.live, answer, text, into, merge, absorb)
           q == s.out.queue
           done == s.out.done
           w == s.live.waiting
           v == p.live.waiting
           W == MessageIn(L, E) \cup BarrierIn(L)
<1>1. /\ p \in StreamIn(L, E) /\ e \in MessageIn(L, E)
      /\ p.out = HandOff(s.out, e.op)
      /\ p.live.waiting = Append(s.live.waiting, e)
      /\ p.live.next = s.live.next + 1
      /\ Messages(p.live) = Messages(s.live) \cup {e}
  <2>1. p \in StreamIn(L, E) /\ e \in MessageIn(L, E) /\ Pushes(s, p, e) BY PushIs
  <2> HIDE DEF p, e
  <2>. QED BY <2>1 DEF Pushes
<1>2. /\ e.number = s.live.next + 1 /\ e.op.number = e.number /\ e.state = "waiting"
      /\ e.op \in OpIn(L)
  BY <1>1 DEF NewEntry, NewOp, MessageIn
<1> HIDE DEF e, p
<1>3. s.live.next \in Nat /\ q \in Seq(OpIn(L)) /\ s.out \in OutIn(L) /\ w \in Seq(W)
      /\ DOMAIN q = 1 .. Len(q) /\ Len(q) \in Nat /\ s.live \in LiveIn(L, E)
      /\ w \in WaitingIn(L, E) /\ DOMAIN w = 1 .. Len(w) /\ Len(w) \in Nat
      /\ Messages(s.live) \subseteq MessageIn(L, E) /\ done \subseteq ReplyIn
  <2>1. w \in WaitingIn(L, E) /\ s.out \in OutIn(L) BY InStreamType
  <2>2. w \in Seq(W) /\ DOMAIN w = 1 .. Len(w) /\ Len(w) \in Nat BY <2>1 DEF WaitingIn
  <2>. QED BY <2>1, <2>2, InStreamType
<1>4. ASSUME NEW m \in Messages(s.live) PROVE m.number < e.number /\ m.number \in Nat
  BY <1>3, <1>2 DEF Numbered, MessageIn
<1>5. ASSUME NEW k \in DOMAIN q PROVE q[k].number < e.number
  <2>1. PICK m \in Messages(s.live) : SameWrite(m.op, q[k]) BY DEF Queued
  <2>2. m.op.number = m.number BY DEF Numbered
  <2>. QED BY <1>4, <2>1, <2>2 DEF SameWrite
<1>6. ASSUME NEW r \in done PROVE r.number < e.number
  <2>1. PICK m \in Messages(s.live) : r.number = m.number BY DEF Queued
  <2>. QED BY <1>4, <2>1
<1>7. Numbered(p.live)
  <2>1. /\ DOMAIN v = 1 .. Len(w) + 1 /\ v[Len(w) + 1] = e
        /\ \A k \in 1 .. Len(w) : v[k] = w[k]
    <3>1. e \in W BY <1>1
    <3> HIDE DEF w, W
    <3>. QED BY <1>1, <1>3, <3>1, AppendSet DEF w
  <2>2. \A k \in DOMAIN w : ~IsBarrier(w[k]) => w[k].number < e.number
    BY <1>3, <1>4, MessageOf
  <2>3. ASSUME NEW j \in DOMAIN v, NEW k \in DOMAIN v, j < k, ~IsBarrier(v[j]), ~IsBarrier(v[k])
        PROVE  v[j].number < v[k].number
    <3>1. j \in 1 .. Len(w) BY <1>3, <2>1, <2>3
    <3>2. CASE k = Len(w) + 1 BY <1>3, <2>1, <2>2, <2>3, <3>1, <3>2
    <3>3. CASE k # Len(w) + 1
      <4>1. k \in 1 .. Len(w) BY <1>3, <2>1, <3>3
      <4>. QED BY <1>3, <2>1, <2>3, <3>1, <4>1 DEF Numbered
    <3>. QED BY <3>2, <3>3
  <2>4. ASSUME NEW m \in Messages(p.live) PROVE m.number <= p.live.next /\ m.op.number = m.number
    BY <1>3, <1>1, <1>2 DEF Numbered, MessageIn
  <2>. QED BY <2>3, <2>4 DEF Numbered
<1>8. \/ /\ p.out.queue = q
         /\ p.out.done = done \cup {[number |-> e.number, what |-> "unsent", key |-> 0]}
      \/ p.out.queue = Append(q, e.op) /\ p.out.done = done
  <2>1. e.op.number = e.number BY <1>2
  <2>2. HandOff(s.out, e.op) = p.out BY <1>1
  <2>3. \/ /\ HandOff(s.out, e.op).queue = s.out.queue
           /\ HandOff(s.out, e.op).done =
                s.out.done \cup {[number |-> e.op.number, what |-> "unsent", key |-> 0]}
        \/ /\ HandOff(s.out, e.op).queue = Append(s.out.queue, e.op)
           /\ HandOff(s.out, e.op).done = s.out.done
    <3>1. s.out \in OutIn(L) /\ e.op \in OpIn(L) BY <1>2, <1>3
    <3>. QED BY <3>1, HandOffType
  <2>. QED BY <2>1, <2>2, <2>3
<1>9. /\ Queued(p)
      /\ \A k \in DOMAIN p.out.queue :
           \/ p.out.queue[k] = e.op
           \/ k \in DOMAIN q /\ p.out.queue[k] = q[k]
      /\ \A r \in p.out.done : r \in done
           \/ (r.number = e.number /\ r.what = "unsent" /\ r.key = 0)
      /\ s.out.done \subseteq p.out.done
  <2> DEFINE u == [number |-> e.number, what |-> "unsent", key |-> 0]
  <2>0. e.number \in Nat /\ SameWrite(e.op, e.op) /\ e \in Messages(p.live)
    BY <1>1, <1>2, <1>3 DEF SameWrite
  <2>1. CASE p.out.queue = q /\ p.out.done = done \cup {u}
    <3>0. u.number = e.number /\ u.what = "unsent" /\ u.key = 0 OBVIOUS
    <3> HIDE DEF u
    <3>1. IsFiniteSet(p.out.done)
      <4>1. IsFiniteSet(done) BY DEF Queued
      <4>. QED BY <2>1, <4>1, FS_AddElement
    <3>2. \A r, x \in p.out.done : r.number = x.number => r = x
      BY <1>6, <1>3, <2>0, <2>1, <3>0 DEF ReplyIn, Queued
    <3>3. \A k \in DOMAIN q : \A r \in p.out.done : r.number # q[k].number
      <4>1. \A k \in DOMAIN q : e.number # q[k].number BY <1>3, <1>5, <2>0 DEF OpIn
      <4>. QED BY <2>1, <3>0, <4>1 DEF Queued
    <3>4. \A k \in DOMAIN q : \E m \in Messages(p.live) : m.state = "waiting" /\ SameWrite(m.op, q[k])
      BY <1>1 DEF Queued
    <3>5. \A r \in p.out.done : \E m \in Messages(p.live) : m.state = "waiting" /\ m.number = r.number
      BY <1>1, <1>2, <2>1, <3>0 DEF Queued
    <3>6. \A m \in Messages(p.live) : m.state = "waiting" =>
          (\E k \in DOMAIN q : q[k].number = m.number) \/ (\E r \in p.out.done : r.number = m.number)
      BY <1>1, <2>1, <3>0 DEF Queued
    <3>7. \A j, k \in DOMAIN q : j < k => q[j].number < q[k].number BY DEF Queued
    <3>. QED BY <2>1, <3>0, <3>1, <3>2, <3>3, <3>4, <3>5, <3>6, <3>7 DEF Queued
  <2>2. CASE p.out.queue = Append(q, e.op) /\ p.out.done = done
    <3> DEFINE x == Append(q, e.op)
    <3>1. DOMAIN x = 1 .. Len(q) + 1 /\ x[Len(q) + 1] = e.op /\ \A k \in 1 .. Len(q) : x[k] = q[k]
      <4> HIDE DEF q
      <4>. QED BY <1>2, <1>3, AppendSet
    <3> HIDE DEF x
    <3>2. \A k \in 1 .. Len(q) + 1 : k \in 1 .. Len(q) \/ k = Len(q) + 1 BY <1>3
    <3>3. ASSUME NEW j \in DOMAIN x, NEW k \in DOMAIN x, j < k PROVE x[j].number < x[k].number
      <4>1. j \in 1 .. Len(q) BY <1>3, <3>1, <3>3
      <4>2. CASE k = Len(q) + 1 BY <1>2, <1>3, <1>5, <3>1, <4>1, <4>2
      <4>3. CASE k \in 1 .. Len(q) BY <1>3, <3>1, <3>3, <4>1, <4>3 DEF Queued
      <4>. QED BY <3>1, <3>2, <4>2, <4>3
    <3>4. \A k \in DOMAIN x : \A r \in done : r.number # x[k].number
      <4>1. \A r \in done : r.number # e.number BY <1>6, <1>3, <2>0 DEF ReplyIn
      <4>. QED BY <1>2, <1>3, <3>1, <3>2, <4>1, SMTT(20) DEF Queued
    <3>5. \A k \in DOMAIN x : \E m \in Messages(p.live) : m.state = "waiting" /\ SameWrite(m.op, x[k])
      BY <1>1, <1>2, <1>3, <2>0, <3>1, <3>2 DEF Queued
    <3>6. \A m \in Messages(p.live) : m.state = "waiting" =>
          (\E k \in DOMAIN x : x[k].number = m.number) \/ (\E r \in done : r.number = m.number)
      <4>1. \A k \in 1 .. Len(q) : k \in DOMAIN x BY <1>3, <3>1
      <4>2. Len(q) + 1 \in DOMAIN x BY <1>3, <3>1
      <4>3. e.op.number = e.number /\ x[Len(q) + 1] = e.op BY <1>2, <3>1
      <4>4. ASSUME NEW m \in Messages(s.live), m.state = "waiting"
            PROVE  (\E k \in DOMAIN x : x[k].number = m.number) \/ (\E r \in done : r.number = m.number)
        <5>1. CASE \E k \in DOMAIN q : q[k].number = m.number
          <6>1. PICK k \in 1 .. Len(q) : q[k].number = m.number BY <1>3, <5>1
          <6>. QED BY <3>1, <4>1, <6>1
        <5>. QED BY <4>4, <5>1 DEF Queued
      <4>. QED BY <1>1, <4>2, <4>3, <4>4
    <3>7. \A r \in done : \E m \in Messages(p.live) : m.state = "waiting" /\ m.number = r.number
      BY <1>1 DEF Queued
    <3>8. /\ IsFiniteSet(done) /\ \A r, y \in done : r.number = y.number => r = y
      BY DEF Queued
    <3>9. Queued(p) BY <2>2, <3>3, <3>4, <3>5, <3>6, <3>7, <3>8, SMTT(20) DEF Queued, x
    <3>. QED BY <1>3, <2>2, <3>1, <3>2, <3>9 DEF x
  <2>. QED BY <1>8, <2>1, <2>2
<1>10. Scheduled(s, p, e) BY <1>4, <1>5, <1>6, <1>7, <1>9 DEF Scheduled
<1>. QED BY <1>10 DEF e, p
LEMMA PushBounded ==
  ASSUME NEW L, NEW E, NEW W, NEW s \in StreamIn(L, E), Bounded(s.live, W),
         NEW p, NEW e \in MessageIn(L, E), Pushes(s, p, e)
  PROVE  Bounded(p.live, W)
<1> DEFINE w == s.live.waiting
           v == p.live.waiting
           S == MessageIn(L, E) \cup BarrierIn(L)
<1>1. w \in Seq(S) /\ e \in S /\ v = Append(w, e) BY InStreamType DEF Pushes, WaitingIn
<1>2. ~IsBarrier(e) BY DEF MessageIn, IsBarrier
<1>3. \A k \in DOMAIN w : IsBarrier(w[k]) => w[k].to <= W BY DEF Bounded
<1> HIDE DEF S, w, v
<1>4. /\ DOMAIN v = 1 .. Len(w) + 1 /\ DOMAIN w = 1 .. Len(w) /\ Len(w) \in Nat
      /\ v[Len(w) + 1] = e /\ \A k \in 1 .. Len(w) : v[k] = w[k]
  BY <1>1, AppendSet
<1>5. \A k \in DOMAIN v : IsBarrier(v[k]) => v[k].to <= W
  <2> SUFFICES ASSUME NEW k \in DOMAIN v, IsBarrier(v[k]) PROVE v[k].to <= W
    OBVIOUS
  <2>1. k # Len(w) + 1 BY <1>2, <1>4
  <2>2. k \in 1 .. Len(w) BY <1>4, <2>1
  <2>. QED BY <1>3, <1>4, <2>2
<1>. QED BY <1>5 DEF Bounded, v

LEMMA KeptSame ==
  ASSUME NEW E, NEW B, NEW G, NEW s, Kept(s, E, B, G), NEW t,
         t.topic = s.topic, t.live.held = s.live.held, Answering(t.live) = Answering(s.live),
         \A m \in Answering(s.live) : Done(t, m) <=> Done(s, m)
  PROVE  Kept(t, E, B, G)
BY DEF Kept

(* Lines are pushed, as message `e`.                                       *)
PieceWent(s, p, e, into, L, E, B, G, a, W) ==
  /\ Good(p, L, E, B, G, a, W) /\ p \in StreamIn(L, E) /\ Pushes(s, p, e)
  /\ e \in MessageIn(L, E) /\ e.number = p.live.next
  /\ e.answer = <<>> /\ e.state = "waiting" /\ e.op.into = into
  /\ \A k \in DOMAIN p.out.queue :
       \/ NoEnds(p.out.queue[k].text, E)
       \/ k \in DOMAIN s.out.queue /\ p.out.queue[k] = s.out.queue[k]
  /\ \A r \in p.out.done : r.number # e.number \/ r.key = 0
  /\ \A k \in DOMAIN p.out.queue :
       NoEnds(p.out.queue[k].text, E) \/ p.out.queue[k].number < e.number

LEMMA PieceGoes ==
  ASSUME NEW L, NEW E, NEW B, NEW G, NEW a, NEW W, NEW s, Good(s, L, E, B, G, a, W),
         NEW text \in Seq(L), NoEnds(text, E), NEW into \in Nat,
         into # 0 => Free(s.topic, into, E), NEW merge \in BOOLEAN, NEW absorb \in BOOLEAN
  PROVE  PieceWent(s, Push(s, <<>>, text, into, merge, absorb),
                   NewEntry(s.live, <<>>, text, into, merge, absorb), into, L, E, B, G, a, W)
<1> DEFINE p == Push(s, <<>>, text, into, merge, absorb)
           e == NewEntry(s.live, <<>>, text, into, merge, absorb)
<1>0. <<>> \in Seq(AnswerIn(E)) OBVIOUS
<1>1. s \in StreamIn(L, E) /\ Numbered(s.live) /\ Queued(s) /\ Placed(s, E) /\ Kept(s, E, B, G)
      /\ (a => Above(s, E)) /\ E \subseteq L /\ 0 \notin E /\ Bounded(s.live, W)
  BY DEF Good
<1>2. p \in StreamIn(L, E) /\ e \in MessageIn(L, E) /\ Pushes(s, p, e)
  BY <1>0, <1>1, PushIs
<1>3. /\ Numbered(p.live) /\ Queued(p)
      /\ \A m \in Messages(s.live) : m.number < e.number
      /\ \A k \in DOMAIN s.out.queue : s.out.queue[k].number < e.number
      /\ \A r \in s.out.done : r.number < e.number
      /\ \A k \in DOMAIN p.out.queue :
           \/ p.out.queue[k] = e.op
           \/ k \in DOMAIN s.out.queue /\ p.out.queue[k] = s.out.queue[k]
      /\ \A r \in p.out.done : r \in s.out.done
           \/ (r.number = e.number /\ r.what = "unsent" /\ r.key = 0)
      /\ s.out.done \subseteq p.out.done
  <2>1. Scheduled(s, p, e) BY <1>0, <1>1, PushQueued
  <2> HIDE DEF p, e
  <2>. QED BY <2>1 DEF Scheduled
<1>4. /\ e.number = s.live.next + 1 /\ e.answer = <<>> /\ e.state = "waiting"
      /\ e.op.text = text /\ e.op.into = into /\ e.op.number = e.number
  BY DEF NewEntry, NewOp
<1> HIDE DEF p, e
<1>5. /\ p.topic = s.topic /\ Messages(p.live) = Messages(s.live) \cup {e}
      /\ Opens(p.live) = Opens(s.live) /\ p.live.held = s.live.held
      /\ p.live.next = e.number
  BY <1>2, <1>4 DEF Pushes, SameReads, SameRest
<1>6. /\ \A k \in DOMAIN p.out.queue : p.out.queue[k].number \in Nat
      /\ \A r \in s.out.done : r.number \in Nat
      /\ e.number \in Nat
  <2>1. p.out.queue \in Seq(OpIn(L)) BY <1>2, InStreamType
  <2>2. \A k \in DOMAIN p.out.queue : p.out.queue[k] \in OpIn(L) BY <2>1
  <2>3. s.out.done \subseteq ReplyIn BY <1>1, InStreamType
  <2>. QED BY <1>2, <2>2, <2>3 DEF OpIn, ReplyIn, MessageIn
<1>7. \A r \in s.out.done : r.number # e.number BY <1>3, <1>6
<1>8. Placed(p, E)
  <2>1. \A m \in Messages(s.live) : PlacedMessage(m, p.topic, E) BY <1>1, <1>5 DEF Placed
  <2>2. PlacedMessage(e, p.topic, E) BY <1>4, <1>5 DEF PlacedMessage
  <2>3. ASSUME NEW o \in Opens(s.live) PROVE PlacedOpen(o, p, E)
    BY <1>1, <1>5 DEF Placed, PlacedOpen
  <2>4. ASSUME NEW r \in p.out.done PROVE PlacedReply(r, p, E)
    BY <1>1, <1>5, <1>7, <1>3 DEF Placed, PlacedReply
  <2>. QED BY <1>5, <2>1, <2>2, <2>3, <2>4 DEF Placed
<1>9. Kept(p, E, B, G) BY <1>4, <1>5, <1>3, <1>1, KeptSame DEF Answering, Done
<1>10. \A k \in DOMAIN p.out.queue :
         \/ NoEnds(p.out.queue[k].text, E)
         \/ k \in DOMAIN s.out.queue /\ p.out.queue[k] = s.out.queue[k]
  BY <1>3, <1>4
<1>11. \A key : Lowest(key, s, E) => Lowest(key, p, E) BY <1>5, <1>10 DEF Lowest
<1>12. a => Above(p, E)
  <2> SUFFICES ASSUME a, NEW o \in Opens(s.live) PROVE AboveOpen(o, p, E)
    BY <1>5 DEF Above
  <2>1. AboveOpen(o, s, E) BY <1>1 DEF Above
  <2>2. o.key # 0 => Lowest(o.key, p, E) BY <1>11, <2>1 DEF AboveOpen
  <2>3. \A k \in DOMAIN p.out.queue :
          o.key = 0 /\ o.number # 0 =>
            NoEnds(p.out.queue[k].text, E) \/ p.out.queue[k].number < o.number
    BY <1>10, <2>1 DEF AboveOpen
  <2>4. \A r \in p.out.done :
          o.key = 0 /\ o.number # 0 /\ r.number = o.number /\ r.key # 0 => Lowest(r.key, p, E)
    BY <1>3, <1>11, <2>1 DEF AboveOpen
  <2>. QED BY <2>2, <2>3, <2>4 DEF AboveOpen
<1>12a. Bounded(p.live, W) BY <1>1, <1>2, PushBounded
<1>13. Good(p, L, E, B, G, a, W) BY <1>1, <1>2, <1>3, <1>8, <1>9, <1>12, <1>12a DEF Good
<1>14. \A r \in p.out.done : r.number # e.number \/ r.key = 0 BY <1>3, <1>7
<1>15. \A k \in DOMAIN p.out.queue :
         NoEnds(p.out.queue[k].text, E) \/ p.out.queue[k].number < e.number
  BY <1>3, <1>10
<1>16. PieceWent(s, p, e, into, L, E, B, G, a, W)
  BY <1>2, <1>4, <1>5, <1>10, <1>13, <1>14, <1>15 DEF PieceWent
<1>. QED BY <1>16 DEF p, e
LEMMA HeldInB ==
  ASSUME NEW E, NEW B, NEW G, NEW s, Kept(s, E, B, G)
  PROVE  /\ HeldAnswers(s.live) \subseteq B /\ Distinct(s.live.held)
         /\ (B \ HeldAnswers(s.live)) \cup HeldAnswers(s.live) = B
BY DEF Kept, HeldAnswers, Distinct

LEMMA ReshapedSame ==
  ASSUME NEW L, NEW E, NEW B, NEW G, NEW a, NEW W, NEW s, Good(s, L, E, B, G, a, W),
         NEW t \in StreamIn(L, E), t.out = s.out, t.topic = s.topic, t.live.held = s.live.held,
         Numbered(t.live), Bounded(t.live, W), Messages(t.live) \subseteq Messages(s.live),
         \A m \in Messages(s.live) : m \in Messages(t.live) \/ m.state = "accepted",
         \A o \in Opens(t.live) : PlacedOpen(o, s, E) /\ (a => AboveOpen(o, s, E))
  PROVE  Good(t, L, E, B, G, a, W)
<1>1. Kept(s, E, B, G) BY DEF Good
<1>2. HeldAnswers(t.live) = HeldAnswers(s.live) /\ Distinct(t.live.held)
  BY <1>1, HeldInB DEF HeldAnswers
<1> DEFINE H == HeldAnswers(s.live)
           K == HeldAnswers(t.live)
<1>3. (B \ H) \cup K = B /\ K \cap (B \ H) = {} BY <1>1, <1>2, HeldInB
<1>4. Good(t, L, E, (B \ H) \cup K, G, a, W) BY <1>2, <1>3, Reshaped
<1>. QED BY <1>3, <1>4

LEMMA NoOpenPlaced ==
  ASSUME NEW s, NEW E
  PROVE  PlacedOpen(NoOpen, s, E) /\ AboveOpen(NoOpen, s, E)
<1>1. NoOpen.key = 0 /\ NoOpen.number = 0 /\ NoOpen.text = <<>> BY DEF NoOpen
<1>2. NoEnds(<<>>, E) BY DEF NoEnds, ToSet
<1> HIDE DEF NoOpen
<1>. QED BY <1>1, <1>2 DEF PlacedOpen, AboveOpen

LEMMA OpensPlaced ==
  ASSUME NEW L, NEW E, NEW B, NEW G, NEW a, NEW W, NEW s, Good(s, L, E, B, G, a, W), NEW o \in Opens(s.live)
  PROVE  PlacedOpen(o, s, E) /\ (a => AboveOpen(o, s, E))
BY DEF Good, Placed, Above

(* Only closing opens, and what is read, changes.                          *)
LEMMA ClosedGood ==
  ASSUME NEW L, NEW E, NEW B, NEW G, NEW a, NEW W, NEW s, Good(s, L, E, B, G, a, W)
  PROVE  LET c == [s EXCEPT !.live = CloseOpen(s.live)]
         IN /\ Good(c, L, E, B, G, a, W) /\ c \in StreamIn(L, E)
            /\ c.live = CloseOpen(s.live) /\ c.topic = s.topic /\ c.out = s.out
<1> DEFINE lw == CloseOpen(s.live)
           c == [s EXCEPT !.live = lw]
<1>1. s \in StreamIn(L, E) /\ s.live \in LiveIn(L, E) /\ Numbered(s.live)
  BY InStreamType DEF Good
<1>2. /\ lw \in LiveIn(L, E)
      /\ lw.next = s.live.next /\ SameReads(s.live, lw)
      /\ DOMAIN lw.waiting = DOMAIN s.live.waiting
      /\ \A k \in DOMAIN s.live.waiting :
           /\ IsBarrier(lw.waiting[k]) <=> IsBarrier(s.live.waiting[k])
           /\ ~IsBarrier(s.live.waiting[k]) => lw.waiting[k] = s.live.waiting[k]
           /\ IsBarrier(s.live.waiting[k]) => lw.waiting[k].to = s.live.waiting[k].to
      /\ Messages(lw) = Messages(s.live)
      /\ Opens(lw) = {NoOpen}
  BY <1>1, CloseOpenIs
<1> HIDE DEF lw
<1>3. c \in StreamIn(L, E) /\ c.live = lw /\ c.topic = s.topic /\ c.out = s.out
  BY <1>1, <1>2 DEF StreamIn
<1>4. Numbered(lw) /\ Bounded(lw, W) BY <1>1, <1>2 DEF Numbered, Bounded, Good
<1>5. lw.held = s.live.held BY <1>2 DEF SameReads, SameRest
<1> HIDE DEF c
<1>6. Good(c, L, E, B, G, a, W) BY <1>2, <1>3, <1>4, <1>5, NoOpenPlaced, ReshapedSame
<1>. QED BY <1>3, <1>6 DEF c, lw

(* An answer goes.                                                         *)
AnswerWent(s, p, an, L, E, B, G, a, W) ==
  /\ Good(p, L, E, B \cup {an.answer}, G, a, W) /\ p \in StreamIn(L, E)
  /\ p.topic = s.topic /\ SameReads(s.live, p.live)
  /\ Opens(p.live) = {NoOpen}

LEMMA AnswerGoesIs ==
  ASSUME NEW L, NEW E, NEW B, NEW G, NEW a, NEW W, NEW s, Good(s, L, E, B, G, a, W),
         NEW an \in AnswerIn(E), an.answer \notin B
  PROVE  AnswerWent(s, AnswerGoes(s, an), an, L, E, B, G, a, W)
<1> DEFINE c == [s EXCEPT !.live = CloseOpen(s.live)]
           p == Push(c, <<an>>, <<an.answer>>, 0, FALSE, FALSE)
           e == NewEntry(c.live, <<an>>, <<an.answer>>, 0, FALSE, FALSE)
           x == an.answer
<1>1. /\ Good(c, L, E, B, G, a, W) /\ c \in StreamIn(L, E)
      /\ c.live = CloseOpen(s.live) /\ c.topic = s.topic /\ c.out = s.out
  BY ClosedGood
<1>2. AnswerGoes(s, an) = p BY DEF AnswerGoes
<1>3. SameReads(s.live, c.live) /\ Opens(c.live) = {NoOpen}
  <2>1. s.live \in LiveIn(L, E) BY InStreamType DEF Good
  <2>2. SameReads(s.live, CloseOpen(s.live)) /\ Opens(CloseOpen(s.live)) = {NoOpen}
    BY <2>1, CloseOpenIs
  <2> HIDE DEF c
  <2>. QED BY <1>1, <2>2
<1> HIDE DEF c
<1>4. /\ Numbered(c.live) /\ Queued(c) /\ Placed(c, E) /\ Kept(c, E, B, G)
      /\ E \subseteq L /\ 0 \notin E /\ Bounded(c.live, W)
  BY <1>1 DEF Good
<1>5. x \in E /\ x \in L /\ <<an>> \in Seq(AnswerIn(E)) /\ <<x>> \in Seq(L)
      /\ an \in AnswerIn(E)
  <2>1. x \in E /\ x \in L BY <1>4 DEF AnswerIn
  <2> HIDE DEF x
  <2>. QED BY <2>1
<1>6. p \in StreamIn(L, E) /\ e \in MessageIn(L, E) /\ Pushes(c, p, e)
  BY <1>1, <1>5, PushIs
<1>7. Scheduled(c, p, e) BY <1>1, <1>4, <1>5, PushQueued
<1>8. /\ e.answer = <<an>> /\ e.state = "waiting" /\ e.op.text = <<x>> /\ e.op.into = 0
      /\ ~e.op.merge /\ ~e.absorb
  BY DEF NewEntry, NewOp
<1> HIDE DEF p, e
<1>9. /\ p.topic = c.topic /\ Messages(p.live) = Messages(c.live) \cup {e}
      /\ Opens(p.live) = {NoOpen} /\ p.live.held = c.live.held
      /\ SameReads(c.live, p.live)
  BY <1>3, <1>6 DEF Pushes, SameReads, SameRest
<1>10. /\ Numbered(p.live) /\ Queued(p)
       /\ \A r \in p.out.done : r \in c.out.done
            \/ (r.number = e.number /\ r.what = "unsent" /\ r.key = 0)
       /\ c.out.done \subseteq p.out.done
  BY <1>7 DEF Scheduled
<1>11. \A r \in c.out.done : r.number # e.number
  BY <1>7, <1>1, InStreamType, <1>6 DEF Scheduled, ReplyIn, MessageIn
<1>12. Placed(p, E)
  <2>1. \A m \in Messages(c.live) : PlacedMessage(m, p.topic, E) BY <1>4, <1>9 DEF Placed
  <2>2. PlacedMessage(e, p.topic, E) BY <1>8 DEF PlacedMessage
  <2>3. ASSUME NEW r \in p.out.done PROVE PlacedReply(r, p, E)
    BY <1>4, <1>9, <1>11, <1>10 DEF Placed, PlacedReply
  <2>. QED BY <1>9, <2>1, <2>2, <2>3, NoOpenPlaced DEF Placed
<1>13. a => Above(p, E) BY <1>9, NoOpenPlaced DEF Above
<1>14. Kept(p, E, B \cup {x}, G)
  <2>1. Answering(p.live) = Answering(c.live) \cup {e}
    <3>1. e.answer # <<>> /\ e.state # "accepted" BY <1>8
    <3>2. Messages(p.live) = Messages(c.live) \cup {e} BY <1>9
    <3>. QED BY <3>1, <3>2 DEF Answering
  <2>2. \A m \in Answering(c.live) : Done(p, m) <=> Done(c, m) BY <1>10 DEF Done
  <2>3. ~Done(p, e) BY <1>10, <1>11 DEF Done
  <2>4. e.answer[1].answer = x BY <1>8
  <2> HIDE DEF x
  <2>5. x \notin B BY DEF x
  <2>6. ~IsIn(c.topic, x) BY <1>4, <1>5, <2>5 DEF Kept
  <2>7. \A m \in Answering(c.live) : m.answer[1].answer # x BY <1>4, <2>5 DEF Kept
  <2>8. \A k \in DOMAIN c.live.held : c.live.held[k].answer # x BY <1>4, <2>5 DEF Kept
  <2>9. \A m, n \in Answering(p.live) :
           m.answer[1].answer = n.answer[1].answer => m.number = n.number
    BY <1>4, <2>1, <2>4, <2>7 DEF Kept
  <2>10. \A m \in Answering(p.live) : \A k \in DOMAIN p.live.held :
           m.answer[1].answer # p.live.held[k].answer
    BY <1>4, <1>9, <2>1, <2>4, <2>8 DEF Kept
  <2>11. \A m \in Answering(p.live) :
           IF Done(p, m) THEN IsIn(p.topic, m.answer[1].answer) \/ m.answer[1].answer \in G
           ELSE ~IsIn(p.topic, m.answer[1].answer)
    BY <1>4, <1>9, <2>1, <2>2, <2>3, <2>4, <2>6 DEF Kept
  <2>12. \A m \in Answering(p.live) : m.answer[1].answer \in B \cup {x}
    BY <1>4, <2>1, <2>4 DEF Kept
  <2>13. \A f \in B \cup {x} :
           \/ IsIn(p.topic, f) \/ f \in G
           \/ \E k \in DOMAIN p.live.held : p.live.held[k].answer = f
           \/ \E m \in Answering(p.live) : m.answer[1].answer = f
    BY <1>4, <1>9, <2>1, <2>4 DEF Kept
  <2>14. /\ \A j, k \in DOMAIN p.live.held : p.live.held[j].answer = p.live.held[k].answer => j = k
         /\ \A k \in DOMAIN p.live.held :
              p.live.held[k].answer \in B \cup {x} /\ ~IsIn(p.topic, p.live.held[k].answer)
         /\ \A f \in E : IsIn(p.topic, f) => f \in B \cup {x}
         /\ \A f \in E : \A j, k \in DOMAIN p.topic :
              f \in ToSet(p.topic[j]) /\ f \in ToSet(p.topic[k]) => j = k
    BY <1>4, <1>9 DEF Kept
  <2>. QED BY <2>9, <2>10, <2>11, <2>12, <2>13, <2>14 DEF Kept
<1>14a. Bounded(p.live, W) BY <1>1, <1>4, <1>6, PushBounded
<1>15. Good(p, L, E, B \cup {x}, G, a, W)
  BY <1>4, <1>6, <1>10, <1>12, <1>13, <1>14, <1>14a DEF Good
<1>16. SameReads(s.live, p.live) BY <1>3, <1>9 DEF SameReads, SameRest
<1>17. AnswerWent(s, p, an, L, E, B, G, a, W)
  BY <1>1, <1>6, <1>9, <1>15, <1>16 DEF AnswerWent
<1>. QED BY <1>2, <1>17
(* The same messages and opens wait.                                       *)
SameWaiting(lv, lw) ==
  /\ lw.waiting = lv.waiting /\ lw.open = lv.open /\ lw.committed = lv.committed
  /\ lw.next = lv.next

(* Only what is held changes, and what no property here looks at.          *)
LEMMA HeldGood ==
  ASSUME NEW L, NEW E, NEW B, NEW G, NEW a, NEW W, NEW s, Good(s, L, E, B, G, a, W),
         NEW lw \in LiveIn(L, E), SameWaiting(s.live, lw), Distinct(lw.held),
         HeldAnswers(lw) \cap (B \ HeldAnswers(s.live)) = {}
  PROVE  LET t == [s EXCEPT !.live = lw]
         IN /\ Good(t, L, E, (B \ HeldAnswers(s.live)) \cup HeldAnswers(lw), G, a, W)
            /\ t \in StreamIn(L, E) /\ t.live = lw /\ t.topic = s.topic /\ t.out = s.out
<1> DEFINE t == [s EXCEPT !.live = lw]
<1>1. s \in StreamIn(L, E) /\ Numbered(s.live) /\ Bounded(s.live, W) BY DEF Good
<1>2. t \in StreamIn(L, E) /\ t.live = lw /\ t.topic = s.topic /\ t.out = s.out
  BY <1>1 DEF StreamIn
<1> HIDE DEF t
<1>3. Messages(lw) = Messages(s.live) /\ Opens(lw) = Opens(s.live)
  BY DEF Messages, Opens, SameWaiting
<1>4. Numbered(lw) /\ Bounded(lw, W) BY <1>1, <1>3 DEF Numbered, Bounded, SameWaiting
<1>5. \A o \in Opens(lw) : PlacedOpen(o, s, E) /\ (a => AboveOpen(o, s, E))
  BY <1>3, OpensPlaced
<1>6. Good(t, L, E, (B \ HeldAnswers(s.live)) \cup HeldAnswers(t.live), G, a, W)
  BY <1>2, <1>3, <1>4, <1>5, Reshaped
<1>. QED BY <1>2, <1>6 DEF t

LEMMA QuietGood ==
  ASSUME NEW L, NEW E, NEW B, NEW G, NEW a, NEW W, NEW s, Good(s, L, E, B, G, a, W),
         NEW lw \in LiveIn(L, E), SameWaiting(s.live, lw), lw.held = s.live.held
  PROVE  LET t == [s EXCEPT !.live = lw]
         IN /\ Good(t, L, E, B, G, a, W)
            /\ t \in StreamIn(L, E) /\ t.live = lw /\ t.topic = s.topic /\ t.out = s.out
<1> DEFINE t == [s EXCEPT !.live = lw]
           H == HeldAnswers(s.live)
<1>1. Kept(s, E, B, G) BY DEF Good
<1>2. HeldAnswers(lw) = H /\ Distinct(lw.held) /\ (B \ H) \cup H = B
  BY <1>1, HeldInB DEF HeldAnswers
<1>3. /\ Good(t, L, E, (B \ H) \cup HeldAnswers(lw), G, a, W)
      /\ t \in StreamIn(L, E) /\ t.live = lw /\ t.topic = s.topic /\ t.out = s.out
  BY <1>2, HeldGood
<1> HIDE DEF t, H
<1>4. Good(t, L, E, B, G, a, W) BY <1>2, <1>3
<1>. QED BY <1>3, <1>4 DEF t

(* Several answers go, one after the other; `A` are those that go.            *)
AnswersWent(s, p, L, E, B, G, a, W) ==
  /\ Good(p, L, E, B, G, a, W) /\ p \in StreamIn(L, E)
  /\ p.topic = s.topic /\ SameReads(s.live, p.live)

LEMMA AnswersGoIs ==
  ASSUME NEW L, NEW E, NEW B, NEW G, NEW a, NEW W, NEW s,
         NEW ans \in Seq(AnswerIn(E)), Distinct(ans),
         NEW A, A = {ans[k].answer : k \in DOMAIN ans}, A \subseteq B,
         Good(s, L, E, B \ A, G, a, W)
  PROVE  AnswersWent(s, AnswersGo(s, ans), L, E, B, G, a, W)
<1> DEFINE n == Len(ans)
           Rest(i) == {ans[k].answer : k \in i + 1 .. n}
           Fits(p, i) == /\ Good(p, L, E, B \ Rest(i), G, a, W)
                         /\ p.topic = s.topic /\ SameReads(s.live, p.live)
           T == [i \in 0 .. n |-> {p \in StreamIn(L, E) : Fits(p, i)}]
<1>1. n \in Nat /\ DOMAIN ans = 1 .. n OBVIOUS
<1>2. s \in T[0]
  <2>1. Rest(0) = A BY <1>1
  <2>2. s \in StreamIn(L, E) BY DEF Good
  <2>3. SameReads(s.live, s.live) BY DEF SameReads, SameRest
  <2>4. Fits(s, 0)
    <3> HIDE DEF Rest
    <3>. QED BY <2>1, <2>3
  <2> HIDE DEF Fits
  <2>. QED BY <1>1, <2>2, <2>4
<1>3. ASSUME NEW i \in 1 .. n, NEW y \in T[i - 1] PROVE AnswerGoes(y, ans[i]) \in T[i]
  <2>1. i - 1 \in 0 .. n /\ i \in 0 .. n /\ (i - 1) + 1 = i BY <1>1
  <2>2. y \in StreamIn(L, E) /\ Fits(y, i - 1)
    <3> HIDE DEF Fits
    <3>. QED BY <1>3, <2>1
  <2> DEFINE x == ans[i].answer
             C == B \ Rest(i - 1)
             p == AnswerGoes(y, ans[i])
  <2>3. Rest(i - 1) = Rest(i) \cup {x} /\ x \notin Rest(i) /\ x \in B /\ ans[i] \in AnswerIn(E)
    BY <1>1, <2>1 DEF Distinct
  <2>4. C \cup {x} = B \ Rest(i) /\ x \notin C
    <3> HIDE DEF Rest
    <3>. QED BY <2>3
  <2>5. Good(y, L, E, C, G, a, W) BY <2>2
  <2>6. AnswerWent(y, p, ans[i], L, E, C, G, a, W)
    <3> HIDE DEF C, Rest, Fits, p
    <3>. QED BY <2>3, <2>4, <2>5, AnswerGoesIs DEF p
  <2> HIDE DEF p
  <2>7. /\ Good(p, L, E, C \cup {x}, G, a, W) /\ p \in StreamIn(L, E)
        /\ p.topic = y.topic /\ SameReads(y.live, p.live)
    BY <2>6 DEF AnswerWent
  <2>8. y.topic = s.topic /\ SameReads(s.live, y.live) BY <2>2
  <2>9. SameReads(s.live, p.live) BY <2>7, <2>8 DEF SameReads, SameRest
  <2>10. Good(p, L, E, B \ Rest(i), G, a, W) BY <2>4, <2>7
  <2>11. Fits(p, i) BY <2>7, <2>8, <2>9, <2>10
  <2> HIDE DEF Fits
  <2>. QED BY <2>1, <2>7, <2>11 DEF p
<1> HIDE DEF T
<1>4. AnswersGo(s, ans) \in T[n] BY <1>1, <1>2, <1>3, AnswersGoReach
<1>5. AnswersGo(s, ans) \in StreamIn(L, E) /\ Fits(AnswersGo(s, ans), n)
  <2> HIDE DEF Fits
  <2>1. n \in 0 .. n BY <1>1
  <2>. QED BY <1>4, <2>1 DEF T
<1>6. B \ Rest(n) = B BY <1>1
<1>. QED BY <1>5, <1>6 DEF AnswersWent

LEMMA NoAnswersGo ==
  ASSUME NEW s
  PROVE  AnswersGo(s, <<>>) = s
<1> DEFINE T == [i \in 0 .. 0 |-> {s}]
<1>1. Len(<<>>) = 0 /\ s \in T[0] OBVIOUS
<1>2. \A i \in 1 .. Len(<<>>) : \A y \in T[i - 1] : AnswerGoes(y, <<>>[i]) \in T[i]
  BY <1>1
<1>3. AnswersGo(s, <<>>) \in T[Len(<<>>)]
  <2> HIDE DEF T
  <2>. QED BY <1>1, <1>2, AnswersGoReach
<1>. QED BY <1>1, <1>3
----------------------------------------------------------------------------
(* The lines of a read.                                                    *)

ChunkIn(L, E) ==
  [st : StreamIn(L, E), posted : Nat, status : BOOLEAN, read : Nat, first : Nat]

NoneQueued(s, E) == \A k \in DOMAIN s.out.queue : NoEnds(s.out.queue[k].text, E)

(* While nothing was posted, the last message of the topic is still last.  *)
GoodChunk(c, L, E, B, G, a, W) ==
  /\ c \in ChunkIn(L, E) /\ Good(c.st, L, E, B, G, a, W)
  /\ a /\ c.status /\ c.posted = 0 => NoneQueued(c.st, E)

LEMMA RemoveIs ==
  ASSUME NEW S, NEW s \in Seq(S), NEW k \in DOMAIN s
  PROVE  /\ RemoveAt(s, k) \in Seq(S) /\ Len(RemoveAt(s, k)) = Len(s) - 1
         /\ DOMAIN RemoveAt(s, k) = 1 .. Len(s) - 1
         /\ \A j \in 1 .. Len(s) - 1 : RemoveAt(s, k)[j] = IF j < k THEN s[j] ELSE s[j + 1]
<1> DEFINE F == SubSeq(s, 1, k - 1)
           R == SubSeq(s, k + 1, Len(s))
<1>1. Len(s) \in Nat /\ k \in 1 .. Len(s) /\ \A i \in 1 .. Len(s) : s[i] \in S OBVIOUS
<1>2. RemoveAt(s, k) = F \o R BY DEF RemoveAt
<1>3. F \in Seq(S) /\ Len(F) = k - 1 /\ \A i \in 1 .. k - 1 : F[i] = s[i]
  <2> DEFINE m == k - 1
  <2>1. m \in Nat /\ m <= Len(s) BY <1>1
  <2> HIDE DEF m
  <2>2. /\ SubSeq(s, 1, m) \in Seq(S) /\ Len(SubSeq(s, 1, m)) = m
        /\ \A i \in 1 .. m : SubSeq(s, 1, m)[i] = s[i]
    BY <1>1, <2>1
  <2>. QED BY <2>2 DEF m
<1>4. R \in Seq(S) /\ Len(R) = Len(s) - k /\ \A i \in 1 .. Len(s) - k : R[i] = s[k + i]
  <2>1. \A i \in k + 1 .. Len(s) : s[i] \in S BY <1>1
  <2>2. k + 1 \in Int /\ Len(s) \in Int BY <1>1
  <2>3. /\ R \in Seq(S)
        /\ Len(R) = IF k + 1 <= Len(s) THEN Len(s) - (k + 1) + 1 ELSE 0
        /\ \A i \in 1 .. Len(s) - (k + 1) + 1 : R[i] = s[(k + 1) + i - 1]
    BY <2>1, <2>2, SubSeqProperties
  <2> HIDE DEF R
  <2>4. Len(s) - (k + 1) + 1 = Len(s) - k /\ \A i \in 1 .. Len(s) - k : (k + 1) + i - 1 = k + i
    BY <1>1
  <2>5. (IF k + 1 <= Len(s) THEN Len(s) - (k + 1) + 1 ELSE 0) = Len(s) - k BY <1>1
  <2>6. \A i \in 1 .. Len(s) - k : R[i] = s[k + i] BY <2>3, <2>4
  <2>7. Len(R) = Len(s) - k BY <2>3, <2>5
  <2>. QED BY <2>3, <2>6, <2>7
<1> HIDE DEF F, R
<1>5. /\ F \o R \in Seq(S) /\ Len(F \o R) = Len(F) + Len(R)
      /\ \A i \in 1 .. Len(F) + Len(R) : (F \o R)[i] = IF i <= Len(F) THEN F[i] ELSE R[i - Len(F)]
  BY <1>3, <1>4, ConcatProperties
<1>6. Len(F) + Len(R) = Len(s) - 1 BY <1>1, <1>3, <1>4
<1>7. ASSUME NEW j \in 1 .. Len(s) - 1 PROVE (F \o R)[j] = IF j < k THEN s[j] ELSE s[j + 1]
  <2>1. (F \o R)[j] = IF j <= k - 1 THEN F[j] ELSE R[j - (k - 1)] BY <1>3, <1>5, <1>6
  <2>2. CASE j < k BY <1>1, <2>2, <1>3, <2>1
  <2>3. CASE ~(j < k)
    <3>1. ~(j <= k - 1) /\ j - (k - 1) \in 1 .. Len(s) - k /\ k + (j - (k - 1)) = j + 1
      BY <1>1, <2>3
    <3>2. R[j - (k - 1)] = s[k + (j - (k - 1))] BY <1>4, <3>1
    <3>. QED BY <2>1, <2>3, <3>1, <3>2
  <2>. QED BY <2>2, <2>3
<1>8. DOMAIN (F \o R) = 1 .. Len(s) - 1 BY <1>5, <1>6
<1>. QED BY <1>2, <1>5, <1>6, <1>7, <1>8

AnswersOf(held) == {held[k].answer : k \in DOMAIN held}

(* What is held but for one answer.                                        *)
LEMMA HeldButOne ==
  ASSUME NEW E, NEW held \in Seq(AnswerIn(E)), Distinct(held), NEW k \in DOMAIN held
  PROVE  /\ RemoveAt(held, k) \in Seq(AnswerIn(E)) /\ Distinct(RemoveAt(held, k))
         /\ AnswersOf(RemoveAt(held, k)) = AnswersOf(held) \ {held[k].answer}
<1> DEFINE r == RemoveAt(held, k)
<1>1. /\ r \in Seq(AnswerIn(E)) /\ DOMAIN r = 1 .. Len(held) - 1
      /\ \A j \in 1 .. Len(held) - 1 : r[j] = IF j < k THEN held[j] ELSE held[j + 1]
      /\ DOMAIN held = 1 .. Len(held) /\ Len(held) \in Nat
  BY RemoveIs
<1> HIDE DEF r
<1> DEFINE at(j) == IF j < k THEN j ELSE j + 1
<1>2. \A j \in DOMAIN r : at(j) \in DOMAIN held /\ at(j) # k /\ r[j] = held[at(j)]
  BY <1>1
<1>3. \A i, j \in DOMAIN r : at(i) = at(j) => i = j BY <1>1
<1>4. \A i \in DOMAIN held : i # k => \E j \in DOMAIN r : at(j) = i
  <2> SUFFICES ASSUME NEW i \in DOMAIN held, i # k PROVE \E j \in DOMAIN r : at(j) = i
    OBVIOUS
  <2>1. CASE i < k BY <1>1, <2>1
  <2>2. CASE i > k
    <3>1. i - 1 \in DOMAIN r /\ at(i - 1) = i BY <1>1, <2>2
    <3>. QED BY <3>1
  <2>. QED BY <1>1, <2>1, <2>2
<1> HIDE DEF at
<1>5. Distinct(r) BY <1>2, <1>3 DEF Distinct
<1> DEFINE H == AnswersOf(held)
           X == {r[j].answer : j \in DOMAIN r}
           Y == H \ {held[k].answer}
<1>6. X = Y
  <2>1. ASSUME NEW x \in X PROVE x \in Y
    <3>1. PICK j \in DOMAIN r : r[j].answer = x OBVIOUS
    <3>2. at(j) \in DOMAIN held /\ at(j) # k /\ x = held[at(j)].answer BY <1>2, <3>1
    <3>. QED BY <3>2 DEF AnswersOf, Distinct
  <2>2. ASSUME NEW x \in Y PROVE x \in X
    <3>1. PICK i \in DOMAIN held : held[i].answer = x BY DEF AnswersOf
    <3>2. i # k BY <3>1
    <3>3. PICK j \in DOMAIN r : at(j) = i BY <1>4, <3>2
    <3>. QED BY <1>2, <3>1, <3>3
  <2> HIDE DEF X, Y
  <2>. QED BY <2>1, <2>2
<1>. QED BY <1>1, <1>5, <1>6 DEF r, AnswersOf

(* The chunk goes on with stream `s`, with `n` messages posted.            *)
ChunkTo(c, d, s, n, L, E) ==
  /\ d \in ChunkIn(L, E) /\ d.st = s /\ d.posted = n
  /\ d.status = c.status /\ d.read = c.read /\ d.first = c.first

LEMMA ChunkWith ==
  ASSUME NEW L, NEW E, NEW c \in ChunkIn(L, E), NEW s \in StreamIn(L, E), NEW n \in Nat
  PROVE  /\ ChunkTo(c, [c EXCEPT !.st = s], s, c.posted, L, E)
         /\ ChunkTo(c, [c EXCEPT !.st = s, !.posted = n], s, n, L, E)
BY DEF ChunkIn, ChunkTo

(* The lines of a chunk are counted apart.                                 *)
SameLines(c, d) == d.read = c.read /\ d.first = c.first

LEMMA QuietChunk ==
  ASSUME NEW L, NEW E, NEW B, NEW G, NEW a, NEW W, NEW c, GoodChunk(c, L, E, B, G, a, W),
         NEW lw \in LiveIn(L, E), SameWaiting(c.st.live, lw), lw.held = c.st.live.held
  PROVE  LET d == [c EXCEPT !.st = [c.st EXCEPT !.live = lw]]
         IN GoodChunk(d, L, E, B, G, a, W) /\ SameLines(c, d) /\ d.st.live = lw
<1> DEFINE t == [c.st EXCEPT !.live = lw]
<1>1. c \in ChunkIn(L, E) /\ Good(c.st, L, E, B, G, a, W) BY DEF GoodChunk
<1>2. Good(t, L, E, B, G, a, W) /\ t \in StreamIn(L, E) /\ t.live = lw /\ t.out = c.st.out
  BY <1>1, QuietGood
<1> HIDE DEF t
<1> DEFINE d == [c EXCEPT !.st = t]
<1>3. /\ d \in ChunkIn(L, E) /\ d.st = t /\ d.posted = c.posted
      /\ d.status = c.status /\ d.read = c.read /\ d.first = c.first
  BY <1>1, <1>2, ChunkWith DEF ChunkIn, ChunkTo
<1> HIDE DEF d
<1>4. NoneQueued(c.st, E) => NoneQueued(d.st, E) BY <1>2, <1>3 DEF NoneQueued
<1>5. GoodChunk(d, L, E, B, G, a, W) /\ SameLines(c, d) /\ d.st.live = lw
  BY <1>2, <1>3, <1>4 DEF GoodChunk, SameLines
<1>. QED BY <1>5 DEF d, t

(* The end of a turn.                                                      *)
LEMMA TurnEndGood ==
  ASSUME NEW L, NEW E, NEW B, NEW G, NEW a, NEW W, NEW c, GoodChunk(c, L, E, B, G, a, W),
         NEW e \in E
  PROVE  GoodChunk(TurnEnd(c, e), L, E, B, G, a, W) /\ SameLines(c, TurnEnd(c, e))
<1> DEFINE st == c.st
           lv == st.live
           k == Min(LetGo(lv, e))
           others == [lv EXCEPT !.held = RemoveAt(lv.held, k)]
           paired == [lv EXCEPT !.unpaired = Tail(lv.unpaired),
                                !.answeredEnds = lv.answeredEnds \cup {e}]
           ended == [lv EXCEPT !.ends = IF Len(lv.ends) < MaxHeld THEN Append(lv.ends, e)
                                        ELSE lv.ends]
           an == [lv.held[k] EXCEPT !.end = e]
           left1 == [st EXCEPT !.live = others]
           went == AnswerGoes(left1, an)
           posted == [c EXCEPT !.st = went, !.posted = c.posted + 1]
<1>1. c \in ChunkIn(L, E) /\ Good(st, L, E, B, G, a, W) BY DEF GoodChunk
<1>2. /\ st \in StreamIn(L, E) /\ lv \in LiveIn(L, E) /\ lv.held \in Seq(AnswerIn(E))
      /\ DOMAIN lv.held = 1 .. Len(lv.held) /\ Len(lv.held) \in Nat
      /\ Kept(st, E, B, G)
  BY <1>1, InStreamType DEF Good
<1>3. TurnEnd(c, e) =
        IF e \in lv.answeredEnds THEN c
        ELSE IF LetGo(lv, e) # {} THEN posted
        ELSE [c EXCEPT !.st = [st EXCEPT !.live = IF lv.unpaired # <<>> THEN paired ELSE ended]]
  BY DEF TurnEnd
<1>4. CASE e \in lv.answeredEnds BY <1>3, <1>4 DEF SameLines
<1>5. CASE e \notin lv.answeredEnds /\ LetGo(lv, e) # {}
  <2>1. LetGo(lv, e) \subseteq DOMAIN lv.held BY DEF LetGo
  <2>2. k \in DOMAIN lv.held BY <1>2, <1>5, <2>1, MinIs
  <2> HIDE DEF k
  <2> DEFINE H == HeldAnswers(lv)
             x == lv.held[k].answer
  <2>3. lv.held[k] \in AnswerIn(E) /\ an \in AnswerIn(E) /\ an.answer = x /\ x \in H
    <3>1. lv.held[k] \in AnswerIn(E) BY <1>2, <2>2
    <3>. QED BY <2>2, <3>1 DEF AnswerIn, HeldAnswers
  <2>4. H \subseteq B /\ Distinct(lv.held) /\ (B \ H) \cup H = B BY <1>2, HeldInB
  <2>5. /\ RemoveAt(lv.held, k) \in Seq(AnswerIn(E)) /\ Distinct(RemoveAt(lv.held, k))
        /\ AnswersOf(RemoveAt(lv.held, k)) = AnswersOf(lv.held) \ {x}
    BY <1>2, <2>2, <2>4, HeldButOne DEF HeldAnswers, AnswersOf
  <2>6. /\ others \in LiveIn(L, E) /\ others.held = RemoveAt(lv.held, k)
        /\ SameWaiting(lv, others)
    BY <1>2, <2>5 DEF LiveIn, SameWaiting
  <2>7. HeldAnswers(others) = H \ {x} /\ Distinct(others.held)
    BY <2>5, <2>6 DEF HeldAnswers, AnswersOf
  <2> HIDE DEF others
  <2>8. HeldAnswers(others) \cap (B \ H) = {} BY <2>7
  <2>9. /\ Good(left1, L, E, (B \ H) \cup HeldAnswers(others), G, a, W)
        /\ left1 \in StreamIn(L, E)
    BY <1>1, <2>6, <2>7, <2>8, HeldGood
  <2>10. (B \ H) \cup HeldAnswers(others) = B \ {x} BY <2>3, <2>4, <2>7
  <2>11. an.answer \notin B \ {x} /\ (B \ {x}) \cup {an.answer} = B BY <2>3, <2>4
  <2>12. Good(left1, L, E, B \ {x}, G, a, W) BY <2>9, <2>10
  <2> HIDE DEF H, left1, an, x
  <2>13. AnswerWent(left1, went, an, L, E, B \ {x}, G, a, W)
    BY <2>3, <2>11, <2>12, AnswerGoesIs
  <2>14. Good(went, L, E, B, G, a, W) /\ went \in StreamIn(L, E)
    BY <2>11, <2>13 DEF AnswerWent
  <2> HIDE DEF went
  <2>15. /\ posted \in ChunkIn(L, E) /\ posted.st = went /\ posted.posted = c.posted + 1
         /\ posted.status = c.status /\ posted.read = c.read /\ posted.first = c.first
    <3>1. c.posted + 1 \in Nat BY <1>1 DEF ChunkIn
    <3>2. ChunkTo(c, posted, went, c.posted + 1, L, E) BY <1>1, <2>14, <3>1, ChunkWith
    <3>. QED BY <3>2 DEF ChunkTo
  <2>16. posted.posted # 0 BY <1>1, <2>15 DEF ChunkIn
  <2> HIDE DEF posted
  <2>17. GoodChunk(posted, L, E, B, G, a, W) /\ SameLines(c, posted)
    BY <2>14, <2>15, <2>16 DEF GoodChunk, SameLines
  <2>. QED BY <1>3, <1>5, <2>17
<1>6. CASE e \notin lv.answeredEnds /\ ~(LetGo(lv, e) # {})
  <2> DEFINE lw == IF lv.unpaired # <<>> THEN paired ELSE ended
  <2>1. lw \in LiveIn(L, E) /\ SameWaiting(lv, lw) /\ lw.held = lv.held
    <3>1. CASE lv.unpaired # <<>>
      <4>1. Tail(lv.unpaired) \in Seq(E) /\ lv.answeredEnds \cup {e} \in SUBSET E
        BY <1>2, <3>1 DEF LiveIn
      <4>. QED BY <1>2, <3>1, <4>1 DEF LiveIn, SameWaiting
    <3>2. CASE ~(lv.unpaired # <<>>)
      <4>1. (IF Len(lv.ends) < MaxHeld THEN Append(lv.ends, e) ELSE lv.ends) \in Seq(E)
        BY <1>2 DEF LiveIn
      <4>. QED BY <1>2, <3>2, <4>1 DEF LiveIn, SameWaiting
    <3>. QED BY <3>1, <3>2
  <2> HIDE DEF lw
  <2>2. /\ GoodChunk([c EXCEPT !.st = [c.st EXCEPT !.live = lw]], L, E, B, G, a, W)
        /\ SameLines(c, [c EXCEPT !.st = [c.st EXCEPT !.live = lw]])
    BY <2>1, QuietChunk
  <2>. QED BY <1>3, <1>6, <2>2 DEF lw
<1>. QED BY <1>4, <1>5, <1>6

(* The turn message becomes `o`.                                           *)
LEMMA OpenGood ==
  ASSUME NEW L, NEW E, NEW B, NEW G, NEW a, NEW W, NEW p, Good(p, L, E, B, G, a, W),
         NEW o \in OpenIn(L), PlacedOpen(o, p, E), a => AboveOpen(o, p, E)
  PROVE  /\ Good(WithOpen(p, o), L, E, B, G, a, W) /\ WithOpen(p, o) \in StreamIn(L, E)
         /\ WithOpen(p, o).out = p.out /\ WithOpen(p, o).topic = p.topic
<1> DEFINE lw == [p.live EXCEPT !.open = o]
           t == WithOpen(p, o)
<1>1. p \in StreamIn(L, E) /\ p.live \in LiveIn(L, E) BY InStreamType DEF Good
<1>2. /\ lw \in LiveIn(L, E) /\ lw.waiting = p.live.waiting /\ lw.committed = p.live.committed
      /\ lw.open = o /\ lw.held = p.live.held /\ lw.next = p.live.next
  BY <1>1 DEF LiveIn
<1>3. t = [p EXCEPT !.live = lw] BY DEF WithOpen
<1> HIDE DEF lw, t
<1>4. t \in StreamIn(L, E) /\ t.live = lw /\ t.out = p.out /\ t.topic = p.topic
  BY <1>1, <1>2, <1>3 DEF StreamIn
<1>5. Messages(lw) = Messages(p.live) BY <1>2 DEF Messages
<1>6. Opens(lw) \subseteq Opens(p.live) \cup {o} BY <1>2 DEF Opens
<1>7. Numbered(lw) /\ Bounded(lw, W) BY <1>2, <1>5 DEF Good, Numbered, Bounded
<1>8. ASSUME NEW x \in Opens(lw) PROVE PlacedOpen(x, p, E) /\ (a => AboveOpen(x, p, E))
  BY OpensPlaced, <1>6
<1>9. Good(t, L, E, B, G, a, W) BY <1>2, <1>4, <1>5, <1>7, <1>8, ReshapedSame
<1>. QED BY <1>4, <1>9 DEF t

(* A message of somebody else becomes the topic's last.                    *)
TopicWent(s, t, L, E, B, G, a, W) ==
  /\ Good(t, L, E, B, G, a, W) /\ t \in StreamIn(L, E)
  /\ t.live = s.live /\ t.out = s.out /\ t.topic = Append(s.topic, <<>>)
  /\ Free(t.topic, Len(s.topic) + 1, E) /\ Len(t.topic) = Len(s.topic) + 1

LEMMA TopicGood ==
  ASSUME NEW L, NEW E, NEW B, NEW G, NEW a, NEW W, NEW s, Good(s, L, E, B, G, a, W)
  PROVE  TopicWent(s, [s EXCEPT !.topic = Append(s.topic, <<>>)], L, E, B, G, a, W)
<1> DEFINE t == [s EXCEPT !.topic = Append(s.topic, <<>>)]
           n == Len(s.topic)
<1>1. /\ s \in StreamIn(L, E) /\ s.topic \in Seq(Seq(L \cup {0})) /\ n \in Nat
      /\ DOMAIN s.topic = 1 .. n /\ Opens(s.live) \subseteq OpenIn(L)
      /\ s.out.done \in SUBSET ReplyIn
  BY InStreamType DEF Good
<1>2. <<>> \in Seq(L \cup {0}) /\ ToSet(<<>>) = {} BY DEF ToSet
<1>3. /\ Append(s.topic, <<>>) \in Seq(Seq(L \cup {0})) /\ Len(Append(s.topic, <<>>)) = n + 1
      /\ DOMAIN Append(s.topic, <<>>) = 1 .. n + 1
      /\ \A i \in 1 .. n : Append(s.topic, <<>>)[i] = s.topic[i]
      /\ Append(s.topic, <<>>)[n + 1] = <<>>
  BY <1>1, <1>2, AppendSet
<1>4. t \in StreamIn(L, E) /\ t.live = s.live /\ t.out = s.out /\ t.topic = Append(s.topic, <<>>)
  BY <1>1, <1>3 DEF StreamIn
<1> HIDE DEF t
<1>5. /\ Len(t.topic) = n + 1 /\ DOMAIN t.topic = 1 .. n + 1
      /\ \A i \in 1 .. n : t.topic[i] = s.topic[i]
      /\ t.topic[n + 1] = <<>>
  BY <1>3, <1>4
<1> HIDE DEF n
<1>6. \A m \in DOMAIN t.topic :
        (m \in DOMAIN s.topic /\ t.topic[m] = s.topic[m]) \/ t.topic[m] = <<>>
  BY <1>1, <1>5
<1>7. \A m \in DOMAIN s.topic : m \in DOMAIN t.topic /\ t.topic[m] = s.topic[m]
  BY <1>1, <1>5
<1>8. \A key : Free(s.topic, key, E) => Free(t.topic, key, E) BY <1>7 DEF Free
<1>9. \A e : IsIn(t.topic, e) <=> IsIn(s.topic, e) BY <1>2, <1>6, <1>7 DEF IsIn
<1>10. NoEnds(<<>>, E) BY <1>2 DEF NoEnds
<1>11. ASSUME NEW key \in Nat, Lowest(key, s, E) PROVE Lowest(key, t, E)
  BY <1>1, <1>5, <1>10, <1>11, <1>4 DEF Lowest, n
<1>12. Placed(t, E)
  BY <1>8, <1>4, <1>7 DEF Good, PlacedMessage, PlacedOpen, PlacedReply, Placed
<1>13. Kept(t, E, B, G) BY <1>4, <1>2, <1>6, <1>9 DEF Good, Done, Kept
<1>14. a => Above(t, E)
  <2> SUFFICES ASSUME a, NEW o \in Opens(s.live) PROVE AboveOpen(o, t, E)
    BY <1>4 DEF Above
  <2>1. AboveOpen(o, s, E) BY DEF Good, Above
  <2>2. o.key \in Nat BY <1>1 DEF OpenIn
  <2>3. \A r \in s.out.done : r.key \in Nat BY <1>1 DEF ReplyIn
  <2>. QED BY <1>4, <1>11, <2>1, <2>2, <2>3 DEF AboveOpen
<1>15. Queued(t) BY <1>4 DEF Good, Queued
<1>16. Good(t, L, E, B, G, a, W) BY <1>4, <1>12, <1>13, <1>14, <1>15 DEF Good
<1>17. Free(t.topic, n + 1, E) BY <1>1, <1>5, <1>10 DEF Free
<1>. QED BY <1>4, <1>5, <1>16, <1>17 DEF t, n, TopicWent

(* One more line shows no answer either.                                   *)
LEMMA LineMore ==
  ASSUME NEW L, NEW E, NEW text \in Seq(L), NEW i \in L, i \notin E, NoEnds(text, E)
  PROVE  /\ Append(text, i) \in Seq(L) /\ NoEnds(Append(text, i), E)
         /\ <<i>> \in Seq(L) /\ NoEnds(<<i>>, E)
BY AppendSet DEF ToSet, NoEnds

(* A piece goes into the turn message.                                     *)
LEMMA GrownGood ==
  ASSUME NEW L, NEW E, NEW B, NEW G, NEW a, NEW W, NEW s, Good(s, L, E, B, G, a, W),
         NEW i \in L, i \notin E, Grows(s.live.open)
  PROVE  LET open == s.live.open
             more == Append(open.text, i)
             t == WithOpen(Push(s, <<>>, more, open.key, TRUE, FALSE), [open EXCEPT !.text = more])
         IN /\ Good(t, L, E, B, G, a, W) /\ t \in StreamIn(L, E)
            /\ NoneQueued(s, E) => NoneQueued(t, E)
<1> DEFINE open == s.live.open
           more == Append(open.text, i)
           p == Push(s, <<>>, more, open.key, TRUE, FALSE)
           e == NewEntry(s.live, <<>>, more, open.key, TRUE, FALSE)
           new == [open EXCEPT !.text = more]
           t == WithOpen(p, new)
<1>1. open \in Opens(s.live) /\ open \in OpenIn(L) /\ s \in StreamIn(L, E)
  BY InStreamType DEF Good, Opens
<1>2. PlacedOpen(open, s, E) /\ (a => AboveOpen(open, s, E)) BY <1>1, OpensPlaced
<1>3. open.key \in Nat /\ open.text \in Seq(L) /\ open.number \in Nat /\ open.key # 0
  BY <1>1 DEF OpenIn, Grows
<1> HIDE DEF open
<1>4. NoEnds(open.text, E) /\ Free(s.topic, open.key, E) BY <1>2, <1>3 DEF PlacedOpen
<1>5. more \in Seq(L) /\ NoEnds(more, E) BY <1>3, <1>4, LineMore
<1> HIDE DEF more
<1>6. new \in OpenIn(L) /\ new.key = open.key /\ new.text = more /\ new.number = open.number
  BY <1>1, <1>5 DEF OpenIn
<1>7. PieceWent(s, p, e, open.key, L, E, B, G, a, W) BY <1>3, <1>4, <1>5, PieceGoes
<1> HIDE DEF p, e, new
<1>8. /\ Good(p, L, E, B, G, a, W) /\ Pushes(s, p, e)
      /\ \A k \in DOMAIN p.out.queue :
           \/ NoEnds(p.out.queue[k].text, E)
           \/ k \in DOMAIN s.out.queue /\ p.out.queue[k] = s.out.queue[k]
  BY <1>7 DEF PieceWent
<1>9. p.topic = s.topic /\ Opens(p.live) = Opens(s.live) BY <1>8 DEF Pushes
<1>10. PlacedOpen(new, p, E) BY <1>3, <1>4, <1>5, <1>6, <1>9 DEF PlacedOpen
<1>11. ASSUME a PROVE AboveOpen(new, p, E)
  BY <1>1, <1>8, <1>9, <1>11, OpensPlaced, <1>3, <1>6 DEF AboveOpen
<1>12. /\ Good(t, L, E, B, G, a, W) /\ t \in StreamIn(L, E) /\ t.out = p.out
  BY <1>6, <1>8, <1>10, <1>11, OpenGood
<1> HIDE DEF t
<1>13. NoneQueued(s, E) => NoneQueued(t, E) BY <1>8, <1>12 DEF NoneQueued
<1>. QED BY <1>12, <1>13 DEF t, new, p, more, open

(* A piece becomes a message of its own, or message `key` of the topic.    *)
LEMMA NewPieceGood ==
  ASSUME NEW L, NEW E, NEW B, NEW G, NEW a, NEW W, NEW s, Good(s, L, E, B, G, a, W),
         NEW i \in L, i \notin E, NEW key \in Nat, NEW merge \in BOOLEAN, NEW absorb \in BOOLEAN,
         key # 0 => key = Len(s.topic) /\ Free(s.topic, key, E) /\ (a => NoneQueued(s, E)),
         NEW quiet \in BOOLEAN
  PROVE  LET p == Push(s, <<>>, <<i>>, key, merge, absorb)
             o == IF quiet THEN [key |-> key, number |-> p.live.next, text |-> <<i>>] ELSE NoOpen
         IN Good(WithOpen(p, o), L, E, B, G, a, W) /\ WithOpen(p, o) \in StreamIn(L, E)
<1> DEFINE text == <<i>>
           p == Push(s, <<>>, text, key, merge, absorb)
           e == NewEntry(s.live, <<>>, text, key, merge, absorb)
           mine == [key |-> key, number |-> p.live.next, text |-> text]
           o == IF quiet THEN mine ELSE NoOpen
<1>1. text \in Seq(L) /\ NoEnds(text, E) BY LineMore DEF NoEnds, ToSet
<1> HIDE DEF text
<1>2. PieceWent(s, p, e, key, L, E, B, G, a, W) BY <1>1, PieceGoes
<1> HIDE DEF p, e
<1>3. /\ Good(p, L, E, B, G, a, W) /\ p \in StreamIn(L, E) /\ Pushes(s, p, e)
      /\ e.number = p.live.next /\ e.answer = <<>> /\ e.state = "waiting" /\ e.op.into = key
      /\ \A k \in DOMAIN p.out.queue :
           \/ NoEnds(p.out.queue[k].text, E)
           \/ k \in DOMAIN s.out.queue /\ p.out.queue[k] = s.out.queue[k]
      /\ \A r \in p.out.done : r.number # e.number \/ r.key = 0
      /\ \A k \in DOMAIN p.out.queue :
           NoEnds(p.out.queue[k].text, E) \/ p.out.queue[k].number < e.number
  BY <1>2 DEF PieceWent
<1>4. p.topic = s.topic /\ e \in Messages(p.live) BY <1>3 DEF Pushes
<1>5. p.live.next \in Nat BY <1>3, InStreamType
<1>6. NoOpen \in OpenIn(L) BY DEF NoOpen, OpenIn
<1>7. /\ mine \in OpenIn(L) /\ mine.key = key /\ mine.number = p.live.next /\ mine.text = text
  BY <1>1, <1>5 DEF OpenIn
<1> HIDE DEF mine
<1>8. PlacedOpen(mine, p, E) BY <1>4, <1>3, <1>7, <1>1 DEF PlacedOpen
<1>9. ASSUME a PROVE AboveOpen(mine, p, E)
  BY <1>4, <1>3, <1>9, <1>7 DEF NoneQueued, Lowest, AboveOpen
<1>10. o \in OpenIn(L) /\ PlacedOpen(o, p, E) /\ (a => AboveOpen(o, p, E))
  BY <1>6, <1>7, <1>8, <1>9, NoOpenPlaced
<1> HIDE DEF o
<1>11. Good(WithOpen(p, o), L, E, B, G, a, W) /\ WithOpen(p, o) \in StreamIn(L, E)
  BY <1>3, <1>10, OpenGood
<1>. QED BY <1>11 DEF o, mine, p, text

(* A line that shows a piece.                                              *)
LEMMA ShownGood ==
  ASSUME NEW L, NEW E, NEW B, NEW G, NEW a, NEW W, NEW c, GoodChunk(c, L, E, B, G, a, W),
         NEW i \in L, i \notin E
  PROVE  GoodChunk(Shown(c, i), L, E, B, G, a, W) /\ SameLines(c, Shown(c, i))
<1> DEFINE st == c.st
           open == st.live.open
           quiet == Script[i] # "prompt"
           absorb == c.status /\ c.posted = 0
           key == IF absorb THEN Len(st.topic) + 1 ELSE 0
           under == [st EXCEPT !.topic = IF absorb THEN Append(st.topic, <<>>) ELSE st.topic]
           pushed == Push(under, <<>>, <<i>>, key, quiet /\ ~absorb, absorb)
           opened == IF quiet THEN [key |-> key, number |-> pushed.live.next, text |-> <<i>>]
                     ELSE NoOpen
           more == Append(open.text, i)
           grown == Push(st, <<>>, more, open.key, TRUE, FALSE)
           in == WithOpen(grown, [open EXCEPT !.text = more])
           new == WithOpen(pushed, opened)
           n == IF absorb THEN c.posted ELSE c.posted + 1
           d == [c EXCEPT !.st = new, !.status = c.status /\ ~absorb, !.posted = n]
<1>1. c \in ChunkIn(L, E) /\ Good(st, L, E, B, G, a, W) /\ st \in StreamIn(L, E)
  BY DEF GoodChunk, Good
<1>2. Shown(c, i) = IF quiet /\ Grows(open) THEN [c EXCEPT !.st = in] ELSE d BY DEF Shown
<1>3. CASE quiet /\ Grows(open)
  <2>1. /\ Good(in, L, E, B, G, a, W) /\ in \in StreamIn(L, E)
        /\ NoneQueued(st, E) => NoneQueued(in, E)
    BY <1>1, <1>3, GrownGood
  <2> HIDE DEF in
  <2> DEFINE x == [c EXCEPT !.st = in]
  <2>2. c.posted \in Nat BY <1>1 DEF ChunkIn
  <2>3. ChunkTo(c, x, in, c.posted, L, E) BY <1>1, <2>1, <2>2, ChunkWith
  <2> HIDE DEF x
  <2>4. GoodChunk(x, L, E, B, G, a, W) /\ SameLines(c, x)
    BY <2>1, <2>3 DEF ChunkTo, GoodChunk, SameLines
  <2>. QED BY <1>2, <1>3, <2>4 DEF x
<1>4. CASE ~(quiet /\ Grows(open))
  <2>1. /\ Good(under, L, E, B, G, a, W)
        /\ key \in Nat
        /\ key # 0 => key = Len(under.topic) /\ Free(under.topic, key, E)
        /\ absorb /\ a => NoneQueued(under, E)
    <3>1. CASE absorb
      <4> DEFINE t == [st EXCEPT !.topic = Append(st.topic, <<>>)]
      <4>1. /\ Good(t, L, E, B, G, a, W) /\ t.out = st.out
            /\ Free(t.topic, Len(st.topic) + 1, E) /\ Len(t.topic) = Len(st.topic) + 1
        <5>1. TopicWent(st, t, L, E, B, G, a, W) BY <1>1, TopicGood
        <5>. QED BY <5>1 DEF TopicWent
      <4>2. Len(st.topic) \in Nat BY <1>1, InStreamType
      <4>3. a => NoneQueued(st, E) BY <3>1 DEF GoodChunk
      <4>4. under = t /\ key = Len(st.topic) + 1 BY <3>1
      <4> HIDE DEF t, under, key
      <4>5. key = Len(under.topic) /\ Free(under.topic, key, E) /\ Good(under, L, E, B, G, a, W)
        BY <4>1, <4>4
      <4>6. a => NoneQueued(under, E) BY <4>1, <4>3, <4>4 DEF NoneQueued
      <4>7. key \in Nat BY <4>2, <4>4
      <4>. QED BY <4>5, <4>6, <4>7
    <3>2. CASE ~absorb BY <1>1, <3>2 DEF StreamIn
    <3>. QED BY <3>1, <3>2
  <2>2. key # 0 => absorb OBVIOUS
  <2>3. Good(new, L, E, B, G, a, W) /\ new \in StreamIn(L, E)
    <3>1. quiet \in BOOLEAN /\ (quiet /\ ~absorb) \in BOOLEAN /\ absorb \in BOOLEAN
      OBVIOUS
    <3>2. key # 0 => key = Len(under.topic) /\ Free(under.topic, key, E)
                     /\ (a => NoneQueued(under, E))
      BY <2>1, <2>2
    <3> HIDE DEF quiet, absorb, key, under
    <3>. QED BY <2>1, <3>1, <3>2, NewPieceGood, ZenonT(40)
  <2>4. /\ d \in ChunkIn(L, E) /\ d.st = new /\ d.posted = n /\ SameLines(c, d)
        /\ d.status => ~absorb
    <3>1. c.posted \in Nat /\ n \in Nat /\ (c.status /\ ~absorb) \in BOOLEAN
      BY <1>1 DEF ChunkIn
    <3> HIDE DEF n, absorb, new
    <3>. QED BY <1>1, <2>3, <3>1 DEF ChunkIn, SameLines
  <2>5. ~absorb => n # 0 BY <1>1 DEF ChunkIn
  <2> HIDE DEF d, n, absorb, new
  <2>6. GoodChunk(d, L, E, B, G, a, W) BY <2>3, <2>4, <2>5 DEF GoodChunk
  <2>. QED BY <1>2, <1>4, <2>4, <2>6
<1>. QED BY <1>3, <1>4

(* Any line.                                                               *)
LEMMA AppliedGood ==
  ASSUME NEW L, NEW E, NEW B, NEW G, NEW a, NEW W, NEW c, GoodChunk(c, L, E, B, G, a, W),
         NEW i \in L, Script[i] \in {"text", "prompt", "call", "result", "end"},
         i \in E <=> Script[i] = "end"
  PROVE  GoodChunk(Applied(c, i), L, E, B, G, a, W) /\ SameLines(c, Applied(c, i))
<1> DEFINE st == c.st
           lv == st.live
           with(now) == [c EXCEPT !.st = [st EXCEPT !.live = now]]
           quietLive == [lv EXCEPT !.call = FALSE]
           promptLive == [lv EXCEPT !.call = FALSE, !.lapsing = lv.lapsing \/ lv.ends # <<>>]
           callLive == [lv EXCEPT !.call = TRUE]
<1>1. lv \in LiveIn(L, E) BY InStreamType DEF GoodChunk, Good
<1>2. ASSUME NEW lw \in {quietLive, promptLive, callLive}
      PROVE  GoodChunk(with(lw), L, E, B, G, a, W) /\ SameLines(c, with(lw))
  <2>1. lw \in LiveIn(L, E) /\ SameWaiting(lv, lw) /\ lw.held = lv.held
    BY <1>1, ZenonT(40) DEF LiveIn, SameWaiting
  <2>. QED BY <2>1, QuietChunk
<1> DEFINE flushed == with(quietLive)
           prompted == with(promptLive)
           called == with(callLive)
<1>3. /\ GoodChunk(flushed, L, E, B, G, a, W) /\ SameLines(c, flushed)
      /\ GoodChunk(prompted, L, E, B, G, a, W) /\ SameLines(c, prompted)
      /\ GoodChunk(called, L, E, B, G, a, W) /\ SameLines(c, called)
  BY <1>2
<1>4. Applied(c, i) =
        CASE Script[i] = "text" -> Shown(flushed, i)
          [] Script[i] = "prompt" -> Shown(prompted, i)
          [] Script[i] = "call" -> called
          [] Script[i] = "result" -> (IF lv.call THEN Shown(flushed, i) ELSE c)
          [] Script[i] = "end" -> TurnEnd(flushed, i)
  BY DEF Applied
<1> HIDE DEF flushed, prompted, called, lv, st
<1>5. ASSUME NEW x, GoodChunk(x, L, E, B, G, a, W), SameLines(c, x)
      PROVE  /\ i \notin E => GoodChunk(Shown(x, i), L, E, B, G, a, W) /\ SameLines(c, Shown(x, i))
             /\ i \in E => GoodChunk(TurnEnd(x, i), L, E, B, G, a, W) /\ SameLines(c, TurnEnd(x, i))
  BY <1>5, ShownGood, TurnEndGood DEF SameLines
<1>6. GoodChunk(c, L, E, B, G, a, W) /\ SameLines(c, c) BY DEF SameLines
<1>7. CASE Script[i] = "text" BY <1>3, <1>4, <1>5, <1>7
<1>8. CASE Script[i] = "prompt" BY <1>3, <1>4, <1>5, <1>8
<1>9. CASE Script[i] = "call" BY <1>3, <1>4, <1>9
<1>10. CASE Script[i] = "result" BY <1>3, <1>4, <1>5, <1>6, <1>10
<1>11. CASE Script[i] = "end" BY <1>3, <1>4, <1>5, <1>11
<1>. QED BY <1>7, <1>8, <1>9, <1>10, <1>11

(* The lines `is` are lines of the transcript.                             *)
AreLines(is, L, E) ==
  \A i \in is : /\ i \in L /\ Script[i] \in {"text", "prompt", "call", "result", "end"}
                /\ i \in E <=> Script[i] = "end"

LEMMA TakenLineGood ==
  ASSUME NEW L, NEW E, NEW B, NEW G, NEW a, NEW W, NEW c, GoodChunk(c, L, E, B, G, a, W),
         NEW i \in Nat, AreLines({i}, L, E)
  PROVE  /\ GoodChunk(TakenLine(c, i), L, E, B, G, a, W)
         /\ TakenLine(c, i).read \in {c.read, i}
<1> DEFINE x == Applied(c, i)
           d == [x EXCEPT !.read = i]
<1>1. GoodChunk(x, L, E, B, G, a, W) /\ SameLines(c, x) BY AppliedGood DEF AreLines
<1> HIDE DEF x
<1>2. d \in ChunkIn(L, E) /\ d.st = x.st /\ d.posted = x.posted /\ d.status = x.status /\ d.read = i
  BY <1>1 DEF GoodChunk, ChunkIn
<1> HIDE DEF d
<1>3. GoodChunk(d, L, E, B, G, a, W) BY <1>1, <1>2 DEF GoodChunk
<1>4. TakenLine(c, i) = c \/ TakenLine(c, i) = d BY DEF TakenLine, d, x
<1>. QED BY <1>2, <1>3, <1>4

LEMMA LinesReadGood ==
  ASSUME NEW L, NEW E, NEW B, NEW G, NEW a, NEW W, NEW c, GoodChunk(c, L, E, B, G, a, W),
         NEW from \in Nat, NEW to \in Nat, from <= to, c.read <= from,
         AreLines(from + 1 .. to, L, E)
  PROVE  /\ GoodChunk(LinesRead(c, from, to), L, E, B, G, a, W)
         /\ LinesRead(c, from, to).read <= to
<1> DEFINE T == [i \in from .. to |->
                   {d \in ChunkIn(L, E) : GoodChunk(d, L, E, B, G, a, W) /\ d.read <= i}]
<1>1. c \in T[from] BY DEF GoodChunk
<1>2. ASSUME NEW i \in from + 1 .. to, NEW y \in T[i - 1] PROVE TakenLine(y, i) \in T[i]
  <2>1. i - 1 \in from .. to /\ i \in from .. to /\ i \in Nat OBVIOUS
  <2>2. y \in ChunkIn(L, E) /\ GoodChunk(y, L, E, B, G, a, W) /\ y.read <= i - 1
    BY <1>2, <2>1
  <2>3. AreLines({i}, L, E) BY DEF AreLines
  <2> DEFINE d == TakenLine(y, i)
  <2>4. GoodChunk(d, L, E, B, G, a, W) /\ d.read \in {y.read, i}
    BY <2>1, <2>2, <2>3, TakenLineGood
  <2> HIDE DEF d
  <2>5. y.read \in Nat BY <2>2 DEF ChunkIn
  <2>6. d.read <= i BY <2>1, <2>2, <2>4, <2>5
  <2>7. d \in T[i] BY <2>1, <2>4, <2>6 DEF GoodChunk
  <2>. QED BY <2>7 DEF d
<1>3. to \in from .. to OBVIOUS
<1> HIDE DEF T
<1>4. LinesRead(c, from, to) \in T[to] BY <1>1, <1>2, LinesReadReach
<1>. QED BY <1>3, <1>4 DEF T

(* What is held, cut in two.                                               *)
HeldParts(held, head, tail, E) ==
  /\ head \in Seq(AnswerIn(E)) /\ tail \in Seq(AnswerIn(E)) /\ Distinct(head) /\ Distinct(tail)
  /\ AnswersOf(head) \subseteq AnswersOf(held)
  /\ AnswersOf(tail) = AnswersOf(held) \ AnswersOf(head)

LEMMA HeldSplit ==
  ASSUME NEW E, NEW held \in Seq(AnswerIn(E)), Distinct(held), NEW n \in 0 .. Len(held)
  PROVE  HeldParts(held, SubSeq(held, 1, n), SubSeq(held, n + 1, Len(held)), E)
<1> DEFINE head == SubSeq(held, 1, n)
           tail == SubSeq(held, n + 1, Len(held))
           l == Len(held)
<1>1. l \in Nat /\ n \in Nat /\ n <= l /\ DOMAIN held = 1 .. l
      /\ \A i \in 1 .. l : held[i] \in AnswerIn(E)
  OBVIOUS
<1>2. /\ head \in Seq(AnswerIn(E)) /\ DOMAIN head = 1 .. n
      /\ \A i \in 1 .. n : head[i] = held[i]
  BY <1>1
<1>3. /\ tail \in Seq(AnswerIn(E)) /\ DOMAIN tail = 1 .. l - n
      /\ \A i \in 1 .. l - n : tail[i] = held[n + i]
  <2>1. \A i \in n + 1 .. l : held[i] \in AnswerIn(E) BY <1>1
  <2>2. n + 1 \in Int /\ l \in Int BY <1>1
  <2>3. /\ tail \in Seq(AnswerIn(E))
        /\ Len(tail) = IF n + 1 <= l THEN l - (n + 1) + 1 ELSE 0
        /\ \A i \in 1 .. l - (n + 1) + 1 : tail[i] = held[(n + 1) + i - 1]
    BY <2>1, <2>2, SubSeqProperties
  <2> HIDE DEF tail, l
  <2>4. l - (n + 1) + 1 = l - n /\ \A i \in 1 .. l - n : (n + 1) + i - 1 = n + i BY <1>1
  <2>5. (IF n + 1 <= l THEN l - (n + 1) + 1 ELSE 0) = l - n BY <1>1
  <2>6. \A i \in 1 .. l - n : tail[i] = held[n + i] BY <2>3, <2>4
  <2>7. Len(tail) = l - n BY <2>3, <2>5
  <2>. QED BY <2>3, <2>6, <2>7
<1> HIDE DEF head, tail, l
<1>4. Distinct(head) BY <1>1, <1>2 DEF Distinct
<1>5. Distinct(tail)
  <2>1. \A i \in 1 .. l - n : n + i \in DOMAIN held BY <1>1
  <2>2. \A i, j \in 1 .. l - n : n + i = n + j => i = j BY <1>1
  <2>. QED BY <1>3, <2>1, <2>2 DEF Distinct
<1> DEFINE A == AnswersOf(head)
           R == AnswersOf(tail)
           H == AnswersOf(held)
<1>6. \A x \in A : x \in H /\ x \notin R
  <2> SUFFICES ASSUME NEW i \in DOMAIN head PROVE head[i].answer \in H /\ head[i].answer \notin R
    BY DEF AnswersOf
  <2>1. i \in DOMAIN held /\ head[i] = held[i] BY <1>1, <1>2
  <2>2. ASSUME NEW j \in DOMAIN tail PROVE tail[j].answer # head[i].answer
    <3>1. n + j \in DOMAIN held /\ n + j # i /\ tail[j] = held[n + j] BY <1>1, <1>2, <1>3
    <3>. QED BY <2>1, <3>1 DEF Distinct
  <2>. QED BY <2>1, <2>2 DEF AnswersOf
<1>7. \A x \in R : x \in H
  <2> SUFFICES ASSUME NEW j \in DOMAIN tail PROVE tail[j].answer \in H
    BY DEF AnswersOf
  <2>1. n + j \in DOMAIN held /\ tail[j] = held[n + j] BY <1>1, <1>3
  <2>. QED BY <2>1 DEF AnswersOf
<1>8. \A x \in H : x \in A \/ x \in R
  <2> SUFFICES ASSUME NEW i \in DOMAIN held PROVE held[i].answer \in A \/ held[i].answer \in R
    BY DEF AnswersOf
  <2>1. CASE i <= n BY <1>1, <1>2, <2>1 DEF AnswersOf
  <2>2. CASE ~(i <= n)
    <3>1. i - n \in DOMAIN tail /\ tail[i - n] = held[n + (i - n)] /\ n + (i - n) = i
      BY <1>1, <1>3, <2>2
    <3>. QED BY <3>1 DEF AnswersOf
  <2>. QED BY <1>1, <2>1, <2>2
<1> HIDE DEF A, R, H
<1>9. A \subseteq H /\ R = H \ A BY <1>6, <1>7, <1>8
<1>. QED BY <1>2, <1>3, <1>4, <1>5, <1>9 DEF HeldParts, A, R, H, head, tail, l

(* Some of the held answers go.                                            *)
HeldWent(s, lw, p, head, L, E, B, G, a, W) ==
  /\ Good(p, L, E, B, G, a, W) /\ p \in StreamIn(L, E) /\ p.topic = s.topic
  /\ SameReads(lw, p.live)
  /\ head = <<>> => p.out = s.out

LEMMA HeldGo ==
  ASSUME NEW L, NEW E, NEW B, NEW G, NEW a, NEW W, NEW s, Good(s, L, E, B, G, a, W),
         NEW head, NEW tail, HeldParts(s.live.held, head, tail, E),
         NEW lw \in LiveIn(L, E), SameWaiting(s.live, lw), lw.held = tail
  PROVE  HeldWent(s, lw, AnswersGo([s EXCEPT !.live = lw], head), head, L, E, B, G, a, W)
<1> DEFINE A == AnswersOf(head)
           H == HeldAnswers(s.live)
           t == [s EXCEPT !.live = lw]
           p == AnswersGo(t, head)
<1>1. Kept(s, E, B, G) BY InStreamType DEF Good
<1>2. H \subseteq B /\ (B \ H) \cup H = B BY <1>1, HeldInB
<1>4. H = AnswersOf(s.live.held) /\ HeldAnswers(lw) = AnswersOf(tail)
  BY DEF HeldAnswers, AnswersOf
<1> HIDE DEF A, H
<1>6. /\ head \in Seq(AnswerIn(E)) /\ Distinct(head) /\ Distinct(lw.held)
      /\ A \subseteq H /\ HeldAnswers(lw) = H \ A
  BY <1>4 DEF HeldParts, A
<1>8. HeldAnswers(lw) \cap (B \ H) = {} /\ (B \ H) \cup HeldAnswers(lw) = B \ A
  BY <1>2, <1>6
<1>9. /\ Good(t, L, E, (B \ H) \cup HeldAnswers(lw), G, a, W)
      /\ t \in StreamIn(L, E) /\ t.live = lw /\ t.topic = s.topic /\ t.out = s.out
  <2>1. Good(t, L, E, (B \ H) \cup HeldAnswers(lw), G, a, W) /\ t \in StreamIn(L, E)
    BY <1>6, <1>8, HeldGood DEF H
  <2>2. s \in StreamIn(L, E) BY DEF Good
  <2>3. t.live = lw /\ t.topic = s.topic /\ t.out = s.out BY <2>2 DEF StreamIn
  <2>. QED BY <2>1, <2>3
<1>10. Good(t, L, E, B \ A, G, a, W) /\ A \subseteq B BY <1>2, <1>6, <1>8, <1>9
<1> HIDE DEF t
<1>11. /\ Good(p, L, E, B, G, a, W) /\ p \in StreamIn(L, E) /\ p.topic = t.topic
       /\ SameReads(t.live, p.live)
  <2>1. A = {head[k].answer : k \in DOMAIN head} BY DEF A, AnswersOf
  <2>2. AnswersWent(t, p, L, E, B, G, a, W) BY <1>6, <1>10, <2>1, AnswersGoIs
  <2>. QED BY <2>2 DEF AnswersWent
<1>12. ASSUME head = <<>> PROVE p.out = s.out BY <1>9, <1>12, NoAnswersGo
<1>. QED BY <1>9, <1>11, <1>12 DEF p, t, HeldWent

(* The overdue answers go first.                                           *)
LEMMA OverdueGood ==
  ASSUME NEW L, NEW E, NEW B, NEW G, NEW a, NEW W, NEW c, GoodChunk(c, L, E, B, G, a, W),
         NEW from \in Nat
  PROVE  GoodChunk(Overdue(c, from), L, E, B, G, a, W) /\ SameLines(c, Overdue(c, from))
<1> DEFINE st == c.st
           lv == st.live
           held == lv.held
           K == {k \in DOMAIN held : \A j \in 1 .. k : held[j].end \in 1 .. from}
           due == Cardinality(K)
           head == SubSeq(held, 1, due)
           tail == SubSeq(held, due + 1, Len(held))
           lw == [lv EXCEPT !.held = tail]
           t == [st EXCEPT !.live = lw]
           p == AnswersGo(t, head)
           d == [c EXCEPT !.st = p, !.posted = c.posted + due]
<1>1. /\ c \in ChunkIn(L, E) /\ Good(st, L, E, B, G, a, W) /\ st \in StreamIn(L, E)
      /\ c.posted \in Nat
  BY DEF GoodChunk, Good, ChunkIn
<1>2. /\ lv \in LiveIn(L, E) /\ held \in Seq(AnswerIn(E)) /\ Len(held) \in Nat
      /\ DOMAIN held = 1 .. Len(held) /\ Kept(st, E, B, G)
  BY <1>1, InStreamType DEF Good
<1>3. due \in 0 .. Len(held)
  <2>1. IsFiniteSet(1 .. Len(held)) /\ Cardinality(1 .. Len(held)) = Len(held)
    <3>1. 1 \in Int /\ Len(held) \in Int BY <1>2
    <3>2. /\ IsFiniteSet(1 .. Len(held))
          /\ Cardinality(1 .. Len(held)) = IF 1 > Len(held) THEN 0 ELSE Len(held) - 1 + 1
      BY <3>1, FS_Interval
    <3>. QED BY <1>2, <3>2
  <2>2. K \subseteq 1 .. Len(held) BY <1>2
  <2> HIDE DEF K
  <2>3. IsFiniteSet(K) /\ Cardinality(K) <= Len(held) BY <2>1, <2>2, FS_Subset
  <2>4. Cardinality(K) \in Nat BY <2>3, FS_CardinalityType
  <2>. QED BY <1>2, <2>3, <2>4
<1>4. Overdue(c, from) = d BY DEF Overdue
<1>5. Distinct(held) BY <1>2, HeldInB
<1> HIDE DEF due
<1>6. HeldParts(held, head, tail, E) BY <1>2, <1>3, <1>5, HeldSplit
<1>7. due = 0 => head = <<>> BY <1>2
<1> HIDE DEF head, tail
<1>8. tail \in Seq(AnswerIn(E)) BY <1>6 DEF HeldParts
<1>9. lw \in LiveIn(L, E) /\ SameWaiting(lv, lw) /\ lw.held = tail
  BY <1>2, <1>8 DEF LiveIn, SameWaiting
<1> HIDE DEF lw
<1>10. HeldWent(st, lw, p, head, L, E, B, G, a, W) BY <1>1, <1>6, <1>9, HeldGo
<1> HIDE DEF p
<1>11. Good(p, L, E, B, G, a, W) /\ p \in StreamIn(L, E) /\ (due = 0 => p.out = st.out)
  BY <1>7, <1>10 DEF HeldWent
<1>12. ChunkTo(c, d, p, c.posted + due, L, E)
  <2>1. c.posted + due \in Nat BY <1>1, <1>2, <1>3
  <2> DEFINE n == c.posted + due
  <2> HIDE DEF n
  <2>2. n \in Nat BY <2>1 DEF n
  <2>3. ChunkTo(c, [c EXCEPT !.st = p, !.posted = n], p, n, L, E)
    BY <1>1, <1>11, <2>2, ChunkWith
  <2>. QED BY <2>3 DEF n
<1> HIDE DEF d
<1>13. /\ d \in ChunkIn(L, E) /\ d.st = p /\ d.posted = c.posted + due
       /\ d.status = c.status /\ SameLines(c, d)
  BY <1>12 DEF ChunkTo, SameLines
<1>14. d.posted = 0 => c.posted = 0 /\ due = 0 BY <1>1, <1>2, <1>3, <1>13
<1>15. ASSUME a, d.status, d.posted = 0 PROVE NoneQueued(d.st, E)
  BY <1>13, <1>14, <1>15, <1>11 DEF GoodChunk, NoneQueued
<1>16. GoodChunk(d, L, E, B, G, a, W) BY <1>11, <1>13, <1>15 DEF GoodChunk
<1>. QED BY <1>4, <1>13, <1>16

(* A barrier after what was read.                                          *)
LEMMA BarrierGood ==
  ASSUME NEW L, NEW E, NEW B, NEW G, NEW a, NEW W, NEW s, Good(s, L, E, B, G, a, W),
         NEW to \in Nat, to <= W
  PROVE  /\ Good([s EXCEPT !.live = Barrier(s.live, to)], L, E, B, G, a, W)
         /\ [s EXCEPT !.live = Barrier(s.live, to)] \in StreamIn(L, E)
<1> DEFINE lv == s.live
           lw == Barrier(lv, to)
           t == [s EXCEPT !.live = lw]
<1>1. s \in StreamIn(L, E) /\ lv \in LiveIn(L, E) /\ Numbered(lv) /\ Bounded(lv, W)
  BY InStreamType DEF Good
<1> HIDE DEF lw
<1>0. BarrierSet(lv, lw, to, L, E) BY <1>1, BarrierIs DEF lw
<1>2. /\ lw \in LiveIn(L, E) /\ lw.next = lv.next /\ SameRest(lv, lw)
      /\ Messages(lw) = Messages(lv) /\ Opens(lw) \subseteq Opens(lv)
  BY <1>0 DEF BarrierSet
<1>3. PICK n \in Nat :
        /\ n = Len(lv.waiting) \/ n + 1 = Len(lv.waiting)
        /\ DOMAIN lw.waiting = 1 .. n + 1
        /\ \A k \in 1 .. n : lw.waiting[k] = lv.waiting[k]
        /\ lw.waiting[n + 1] = [number |-> 0, to |-> to, call |-> lv.call, open |-> lv.open]
  BY <1>0 DEF BarrierSet
<1>4. DOMAIN lv.waiting = 1 .. Len(lv.waiting) /\ Len(lv.waiting) \in Nat
  BY <1>1, PassedIs
<1>5. \A k \in DOMAIN lw.waiting :
        (k \in DOMAIN lv.waiting /\ lw.waiting[k] = lv.waiting[k]) \/ k = n + 1
  BY <1>3, <1>4
<1>6. IsBarrier(lw.waiting[n + 1]) /\ lw.waiting[n + 1].to = to BY <1>3 DEF IsBarrier
<1>7. Bounded(lw, W) BY <1>1, <1>5, <1>6 DEF Bounded
<1>8. Numbered(lw) BY <1>1, <1>5, <1>6, <1>2 DEF Numbered
<1>9. t \in StreamIn(L, E) /\ t.live = lw /\ t.out = s.out /\ t.topic = s.topic
  BY <1>1, <1>2 DEF StreamIn
<1> HIDE DEF t
<1>10. /\ t.live.held = s.live.held /\ Messages(t.live) \subseteq Messages(s.live)
       /\ Numbered(t.live) /\ Bounded(t.live, W)
       /\ \A m \in Messages(s.live) : m \in Messages(t.live) \/ m.state = "accepted"
       /\ \A x \in Opens(t.live) : PlacedOpen(x, s, E) /\ (a => AboveOpen(x, s, E))
  BY OpensPlaced, <1>2, <1>7, <1>8, <1>9 DEF SameRest
<1>11. Good(t, L, E, B, G, a, W) BY <1>9, <1>10, ReshapedSame
<1>. QED BY <1>9, <1>11 DEF t, lw

(* The lines of a read, taken.                                             *)
LinesWent(p, to, L, E, B, G, a, W) ==
  Good(p, L, E, B, G, a, W) /\ p \in StreamIn(L, E) /\ p.live.readAt \in 0 .. to

LEMMA LinesTakenGood ==
  ASSUME NEW L, NEW E, NEW B, NEW G, NEW a, NEW W, NEW lv, NEW s,
         s = [live |-> lv, out |-> out, topic |-> topic], Good(s, L, E, B, G, a, W),
         NEW from \in Nat, NEW to \in Nat, from <= to, to <= W, W \in Nat,
         AreLines(from + 1 .. to, L, E), NEW more \in BOOLEAN, NEW status \in BOOLEAN,
         a /\ status => NoneQueued(s, E)
  PROVE  LinesWent(LinesTaken(lv, from, to, more, status), to, L, E, B, G, a, W)
<1> DEFINE start == [st |-> s, posted |-> 0, status |-> status, read |-> from, first |-> from + 1]
           first == Overdue(start, from)
           done == LinesRead(first, from, to)
           unpaired == done.st.live.unpaired
           debts == {k \in DOMAIN unpaired : unpaired[k] \in lv.debts}
           paid == IF more \/ done.read # to THEN done.st.live
                   ELSE [done.st.live EXCEPT !.unpaired = Picked(unpaired, DOMAIN unpaired \ debts)]
           u == [done.st EXCEPT !.live = paid]
           p == [done.st EXCEPT !.live = Barrier(paid, done.read)]
<1>1. start \in ChunkIn(L, E) /\ start.st = s /\ start.read = from /\ start.status = status
  BY DEF ChunkIn, Good
<1>2. GoodChunk(start, L, E, B, G, a, W)
  <2> HIDE DEF start
  <2>. QED BY <1>1 DEF GoodChunk
<1>3. LinesTaken(lv, from, to, more, status) = p BY DEF LinesTaken
<1> HIDE DEF start
<1>4. GoodChunk(first, L, E, B, G, a, W) /\ first.read = from
  <2>1. SameLines(start, first) BY <1>2, OverdueGood
  <2>. QED BY <1>1, <1>2, <2>1, OverdueGood DEF SameLines
<1> HIDE DEF first
<1>5. GoodChunk(done, L, E, B, G, a, W) /\ done.read <= to BY <1>4, LinesReadGood
<1> HIDE DEF done
<1>6. /\ Good(done.st, L, E, B, G, a, W) /\ done.st \in StreamIn(L, E) /\ done.read \in Nat
      /\ done.st.live \in LiveIn(L, E) /\ unpaired \in Seq(E)
  BY <1>5, InStreamType DEF GoodChunk, Good, ChunkIn, LiveIn
<1>7. Picked(unpaired, DOMAIN unpaired \ debts) \in Seq(E) BY <1>6, PickedSet
<1> HIDE DEF debts
<1>8. paid \in LiveIn(L, E) /\ SameWaiting(done.st.live, paid) /\ paid.held = done.st.live.held
  BY <1>6, <1>7 DEF LiveIn, SameWaiting
<1> HIDE DEF paid
<1>9. Good(u, L, E, B, G, a, W) /\ u \in StreamIn(L, E) BY <1>6, <1>8, QuietGood
<1>10. u.live = paid /\ u.out = done.st.out /\ u.topic = done.st.topic
       /\ p = [u EXCEPT !.live = Barrier(paid, done.read)]
  BY <1>6 DEF StreamIn
<1> HIDE DEF u
<1>11. done.read <= W BY <1>5, <1>6
<1>12. Good(p, L, E, B, G, a, W) /\ p \in StreamIn(L, E)
  <2>1. p = [u EXCEPT !.live = Barrier(u.live, done.read)] BY <1>10
  <2> HIDE DEF p
  <2>. QED BY <1>6, <1>9, <1>11, <2>1, BarrierGood
<1>13. p.live.readAt = done.read
  <2>1. p.live = Barrier(paid, done.read) BY <1>6 DEF StreamIn
  <2> HIDE DEF p
  <2>2. BarrierSet(paid, Barrier(paid, done.read), done.read, L, E)
    BY <1>6, <1>8, BarrierIs
  <2>. QED BY <2>1, <2>2 DEF BarrierSet
<1> HIDE DEF p
<1>. QED BY <1>3, <1>5, <1>6, <1>12, <1>13 DEF LinesWent

(* What Telegram took is dropped.                                          *)
LEMMA AdvancedGood ==
  ASSUME NEW L, NEW E, NEW B, NEW G, NEW a, NEW W, NEW s, Good(s, L, E, B, G, a, W)
  PROVE  /\ Good([s EXCEPT !.live = Advanced(s.live)], L, E, B, G, a, W)
         /\ [s EXCEPT !.live = Advanced(s.live)] \in StreamIn(L, E)
         /\ Advanced(s.live) \in LiveIn(L, E) /\ Advanced(s.live).readAt = s.live.readAt
<1> DEFINE lv == s.live
           lw == Advanced(lv)
           n == Passed(lv)
           w == lv.waiting
           t == [s EXCEPT !.live = lw]
<1>1. s \in StreamIn(L, E) /\ lv \in LiveIn(L, E) /\ Numbered(lv) /\ Bounded(lv, W)
  BY InStreamType DEF Good
<1>2. AdvancedSet(lv, lw, L, E) BY <1>1, AdvancedIs
<1>3. n \in 0 .. Len(w) /\ Len(w) \in Nat /\ DOMAIN w = 1 .. Len(w) BY <1>1, PassedIs
<1> HIDE DEF lw
<1>4. /\ lw \in LiveIn(L, E) /\ lw.held = lv.held /\ lw.readAt = lv.readAt /\ lw.next = lv.next
      /\ Messages(lw) \subseteq Messages(lv)
      /\ \A m \in Messages(lv) : m \in Messages(lw) \/ m.state = "accepted"
      /\ Opens(lw) \subseteq Opens(lv)
      /\ DOMAIN lw.waiting = 1 .. Len(w) - n
      /\ \A k \in 1 .. Len(w) - n : lw.waiting[k] = w[n + k]
  BY <1>2 DEF AdvancedSet, SameAhead
<1> HIDE DEF n, w
<1>5. \A k \in DOMAIN lw.waiting : n + k \in DOMAIN lv.waiting /\ lw.waiting[k] = lv.waiting[n + k]
  BY <1>3, <1>4 DEF w
<1>6. \A j, k \in DOMAIN lw.waiting : j < k => n + j < n + k BY <1>3, <1>4
<1>7. Bounded(lw, W) BY <1>1, <1>5 DEF Bounded
<1>8. Numbered(lw) BY <1>1, <1>5, <1>6, <1>4 DEF Numbered
<1>9. t \in StreamIn(L, E) /\ t.live = lw /\ t.out = s.out /\ t.topic = s.topic
  BY <1>1, <1>4 DEF StreamIn
<1> HIDE DEF t
<1>10. /\ t.live.held = s.live.held /\ Messages(t.live) \subseteq Messages(s.live)
       /\ Numbered(t.live) /\ Bounded(t.live, W)
       /\ \A m \in Messages(s.live) : m \in Messages(t.live) \/ m.state = "accepted"
       /\ \A x \in Opens(t.live) : PlacedOpen(x, s, E) /\ (a => AboveOpen(x, s, E))
  BY OpensPlaced, <1>4, <1>7, <1>8, <1>9
<1>11. Good(t, L, E, B, G, a, W) BY <1>9, <1>10, ReshapedSame
<1>. QED BY <1>4, <1>9, <1>11 DEF t, lw

PlaceIn(W) == {p \in [to : Nat, call : BOOLEAN] : p.to <= W}

(* The offset goes to what was read.                                       *)
LEMMA CommittedIs ==
  ASSUME NEW L, NEW E, NEW W, NEW lv \in LiveIn(L, E), Bounded(lv, W), offset \in PlaceIn(W)
  PROVE  Committed(lv) \in PlaceIn(W)
<1> DEFINE last == LastBarrier(lv)
<1>1. last \in 0 .. Passed(lv) /\ Passed(lv) \in 0 .. Len(lv.waiting) /\ Len(lv.waiting) \in Nat
      /\ DOMAIN lv.waiting = 1 .. Len(lv.waiting) /\ (last # 0 => IsBarrier(lv.waiting[last]))
  BY PassedIs
<1>2. Committed(lv) = IF last = 0 THEN offset
                      ELSE [to |-> lv.waiting[last].to, call |-> lv.waiting[last].call]
  BY DEF Committed
<1> HIDE DEF last
<1>3. CASE last = 0 BY <1>2, <1>3
<1>4. CASE last # 0
  BY <1>1, <1>4, WaitingType, <1>2, SMTT(30) DEF LiveIn, Bounded, BarrierIn, PlaceIn
<1>. QED BY <1>3, <1>4

LEMMA GoodLater ==
  ASSUME NEW L, NEW E, NEW B, NEW G, NEW a, NEW W \in Nat, NEW V \in Nat, W <= V,
         NEW s, Good(s, L, E, B, G, a, W)
  PROVE  Good(s, L, E, B, G, a, V)
<1>1. s.live.waiting \in WaitingIn(L, E) BY InStreamType DEF Good
<1>2. \A k \in DOMAIN s.live.waiting :
        IsBarrier(s.live.waiting[k]) => s.live.waiting[k].to \in Nat
  BY <1>1, WaitingType DEF BarrierIn
<1>3. Bounded(s.live, V) BY <1>2 DEF Good, Bounded
<1>. QED BY <1>3 DEF Good
----------------------------------------------------------------------------
(* The scheduler and Telegram.                                             *)

(* The scheduler answers all but the writes at places `R`.                 *)
Replies(s, t, R, rep) ==
  LET q == s.out.queue
      gone == DOMAIN q \ R
  IN /\ t.live = s.live
     /\ t.out.queue = Picked(q, R)
     /\ t.out.done = s.out.done \cup {rep[j] : j \in gone}
     /\ \A j \in gone : rep[j] \in ReplyIn /\ rep[j].number = q[j].number

LEMMA RepliesQueued ==
  ASSUME NEW L, NEW E, NEW s \in StreamIn(L, E), Numbered(s.live), Queued(s),
         NEW t, NEW R, NEW rep,
         Replies(s, t, R, rep)
  PROVE  /\ Queued(t)
         /\ \A k \in DOMAIN t.out.queue : \E j \in R \cap DOMAIN s.out.queue :
              t.out.queue[k] = s.out.queue[j]
         /\ \A x \in t.out.done : x \in s.out.done \/ \E j \in DOMAIN s.out.queue \ R : x = rep[j]
         /\ t.out.queue \in Seq(OpIn(L)) /\ t.out.done \in SUBSET ReplyIn
<1> DEFINE q == s.out.queue
           r == t.out.queue
           gone == DOMAIN q \ R
           N == {rep[j] : j \in gone}
<1>1. /\ q \in Seq(OpIn(L)) /\ Len(q) \in Nat /\ DOMAIN q = 1 .. Len(q)
      /\ s.out.done \in SUBSET ReplyIn
  BY InStreamType
<1>2. PICK g : PicksOf(q, R, r, g) BY <1>1, PickedIs DEF Replies
<1>3. r \in Seq(OpIn(L)) BY <1>1, PickedIs DEF Replies
<1>4. /\ t.live = s.live /\ t.out.done = s.out.done \cup N
      /\ \A j \in gone : rep[j] \in ReplyIn /\ rep[j].number = q[j].number
  BY DEF Replies
<1> HIDE DEF r
<1>5. /\ \A k \in DOMAIN r : g[k] \in DOMAIN q /\ g[k] \in R /\ r[k] = q[g[k]]
      /\ \A j, k \in DOMAIN r : j < k => g[j] < g[k]
      /\ \A i \in DOMAIN q : i \in R => \E k \in DOMAIN r : g[k] = i
  BY <1>2 DEF PicksOf
<1>6. DOMAIN r \subseteq Nat BY <1>3
<1>7. IsFiniteSet(N)
  <2>1. IsFiniteSet(1 .. Len(q)) BY <1>1, FS_Interval
  <2>2. gone \subseteq 1 .. Len(q) BY <1>1
  <2> DEFINE f == [j \in gone |-> rep[j]]
  <2> HIDE DEF gone
  <2>3. IsFiniteSet(gone) BY <2>1, <2>2, FS_Subset
  <2>4. f \in Surjection(gone, N) BY DEF Surjection
  <2>. QED BY <2>3, <2>4, FS_Surjection
<1> HIDE DEF N, gone
<1>8. \A x \in N : \E j \in DOMAIN q : j \notin R /\ x = rep[j] /\ x.number = q[j].number
  BY <1>4 DEF N, gone
<1>9. \A j \in DOMAIN q : j \notin R => rep[j] \in N /\ rep[j].number = q[j].number
  BY <1>4 DEF N, gone
<1> HIDE DEF q
<1>10. /\ \A j, k \in DOMAIN q : j < k => q[j].number < q[k].number
       /\ IsFiniteSet(s.out.done)
       /\ \A x, y \in s.out.done : x.number = y.number => x = y
       /\ \A k \in DOMAIN q : \A x \in s.out.done : x.number # q[k].number
       /\ \A k \in DOMAIN q :
            \E m \in Messages(s.live) : m.state = "waiting" /\ SameWrite(m.op, q[k])
       /\ \A x \in s.out.done :
            \E m \in Messages(s.live) : m.state = "waiting" /\ m.number = x.number
       /\ \A m \in Messages(s.live) : m.state = "waiting" =>
            (\E k \in DOMAIN q : q[k].number = m.number)
              \/ (\E x \in s.out.done : x.number = m.number)
  BY DEF Queued, q
<1>11. \A j, k \in DOMAIN q : q[j].number = q[k].number => j = k
  <2>1. DOMAIN q \subseteq Nat /\ \A j \in DOMAIN q : q[j].number \in Nat
    <3>1. \A j \in DOMAIN q : q[j] \in OpIn(L) /\ j \in Nat BY <1>1 DEF q
    <3>. QED BY <3>1 DEF OpIn
  <2>. QED BY <1>10, <2>1
<1>12. \A x, y \in N : x.number = y.number => x = y BY <1>8, <1>11
<1>13. \A x, y \in t.out.done : x.number = y.number => x = y BY <1>8, <1>10, <1>4, <1>12
<1>14. \A k \in DOMAIN r : \A x \in t.out.done : x.number # r[k].number
  BY <1>5, <1>8, <1>11, <1>4, <1>10
<1>15. \A m \in Messages(t.live) : m.state = "waiting" =>
         (\E k \in DOMAIN r : r[k].number = m.number)
           \/ (\E x \in t.out.done : x.number = m.number)
  <2> SUFFICES ASSUME NEW m \in Messages(s.live), m.state = "waiting"
               PROVE  (\E k \in DOMAIN r : r[k].number = m.number)
                        \/ (\E x \in t.out.done : x.number = m.number)
    BY <1>4
  <2>1. CASE \E x \in s.out.done : x.number = m.number BY <1>4, <2>1
  <2>2. CASE \E k \in DOMAIN q : q[k].number = m.number
    <3>1. PICK i \in DOMAIN q : q[i].number = m.number BY <2>2
    <3>2. CASE i \in R BY <1>5, <3>1, <3>2
    <3>3. CASE i \notin R BY <1>4, <1>9, <3>1, <3>3
    <3>. QED BY <3>2, <3>3
  <2>. QED BY <1>10, <2>1, <2>2
<1>16. \A x \in t.out.done :
         \E m \in Messages(t.live) : m.state = "waiting" /\ m.number = x.number
  <2>1. ASSUME NEW x \in N
        PROVE  \E m \in Messages(s.live) : m.state = "waiting" /\ m.number = x.number
    <3>1. PICK j \in DOMAIN q : x.number = q[j].number BY <1>8, <2>1
    <3>2. PICK m \in Messages(s.live) : m.state = "waiting" /\ SameWrite(m.op, q[j])
      BY <1>10
    <3>3. m.number = m.op.number BY DEF Numbered
    <3>. QED BY <3>1, <3>2, <3>3 DEF SameWrite
  <2>. QED BY <1>4, <1>10, <2>1
<1>17. \A k \in DOMAIN r :
         \E m \in Messages(t.live) : m.state = "waiting" /\ SameWrite(m.op, r[k])
  BY <1>4, <1>5, <1>10
<1>18. \A j, k \in DOMAIN r : j < k => r[j].number < r[k].number BY <1>5, <1>10
<1>19. IsFiniteSet(t.out.done)
  <2>1. IsFiniteSet(s.out.done \cup N) BY <1>7, <1>10, FS_Union
  <2>. QED BY <1>4, <2>1
<1>20. Queued(t) BY <1>13, <1>14, <1>15, <1>16, <1>17, <1>18, <1>19 DEF Queued, r
<1>21. t.out.done \in SUBSET ReplyIn BY <1>1, <1>4 DEF N
<1>22. \A k \in DOMAIN r : \E j \in R \cap DOMAIN q : r[k] = q[j] BY <1>5
<1>23. \A x \in t.out.done : x \in s.out.done \/ \E j \in DOMAIN q \ R : x = rep[j]
  BY <1>4, <1>8
<1>. QED BY <1>3, <1>20, <1>21, <1>22, <1>23 DEF r, q

(* What stands in the queue is a message that waits.                       *)
QueuedMessage(s, j, m, E) ==
  /\ m \in Messages(s.live) /\ m.state = "waiting" /\ m.number = s.out.queue[j].number
  /\ SameWrite(m.op, s.out.queue[j]) /\ PlacedMessage(m, s.topic, E)

LEMMA QueuedIs ==
  ASSUME NEW L, NEW E, NEW B, NEW G, NEW a, NEW W, NEW s, Good(s, L, E, B, G, a, W),
         NEW j \in DOMAIN s.out.queue
  PROVE  /\ \E m : QueuedMessage(s, j, m, E)
         /\ \A m \in Messages(s.live) :
              m.number = s.out.queue[j].number => QueuedMessage(s, j, m, E) /\ ~Done(s, m)
<1>1. s.live \in LiveIn(L, E) /\ Numbered(s.live) /\ Queued(s) /\ Placed(s, E)
  BY InStreamType DEF Good
<1>2. PICK m \in Messages(s.live) : m.state = "waiting" /\ SameWrite(m.op, s.out.queue[j])
  BY <1>1 DEF Queued
<1>3. m.number = s.out.queue[j].number BY <1>1, <1>2 DEF Numbered, SameWrite
<1>4. QueuedMessage(s, j, m, E) BY <1>1, <1>2, <1>3 DEF QueuedMessage, Placed
<1>5. ASSUME NEW n \in Messages(s.live), n.number = s.out.queue[j].number
      PROVE  QueuedMessage(s, j, n, E) /\ ~Done(s, n)
  BY <1>1, <1>3, <1>5, SameMessage, <1>4 DEF Done, Queued
<1>. QED BY <1>4, <1>5

(* One answer is the whole text of a message of its own.                   *)
IsAnswer(m, E) ==
  /\ m.answer[1].answer \in E /\ m.op.text = <<m.answer[1].answer>>
  /\ ToSet(m.op.text) = {m.answer[1].answer} /\ m.op.into = 0 /\ ~m.op.merge /\ ~m.absorb
  /\ m.answer = <<m.answer[1]>> /\ m.answer[1] \in AnswerIn(E)

LEMMA AnswerIs ==
  ASSUME NEW L, NEW E, NEW B, NEW G, NEW a, NEW W, NEW s, Good(s, L, E, B, G, a, W),
         NEW m \in Messages(s.live), m.answer # <<>>
  PROVE  IsAnswer(m, E)
<1>1. PlacedMessage(m, s.topic, E) /\ m \in MessageIn(L, E)
  BY InStreamType DEF Good, Placed
<1>2. m.answer = <<m.answer[1]>> /\ m.answer \in Seq(AnswerIn(E))
  BY <1>1 DEF PlacedMessage, MessageIn
<1>3. m.answer[1] \in AnswerIn(E) BY <1>2
<1>4. \A x : ToSet(<<x>>) = {x} BY DEF ToSet
<1>5. m.op.text = <<m.answer[1].answer>> /\ m.op.into = 0 /\ ~m.op.merge /\ ~m.absorb
  BY <1>1 DEF PlacedMessage
<1>6. ToSet(m.op.text) = {m.answer[1].answer} BY <1>4, <1>5
<1>7. m.answer[1].answer \in E BY <1>3 DEF AnswerIn
<1>. QED BY <1>2, <1>3, <1>5, <1>6, <1>7 DEF IsAnswer

(* Messages of the topic that show no answer change or come.               *)
LEMMA TopicEdited ==
  ASSUME NEW L, NEW E, NEW B, NEW G, NEW a, NEW W, NEW s, Good(s, L, E, B, G, a, W), B \subseteq E,
         NEW t \in StreamIn(L, E), t.live = s.live, t.out = s.out,
         \A m \in DOMAIN s.topic :
           /\ m \in DOMAIN t.topic
           /\ t.topic[m] = s.topic[m] \/ (NoEnds(s.topic[m], E) /\ NoEnds(t.topic[m], E)),
         \A m \in DOMAIN t.topic : m \in DOMAIN s.topic \/ NoEnds(t.topic[m], E)
  PROVE  Good(t, L, E, B, G, a, W)
<1>1. \A key : Free(s.topic, key, E) => Free(t.topic, key, E) BY DEF Free
<1>2. \A e \in E : \A m : m \in DOMAIN t.topic /\ e \in ToSet(t.topic[m])
                          <=> m \in DOMAIN s.topic /\ e \in ToSet(s.topic[m])
  BY DEF NoEnds
<1>3. \A e \in E : IsIn(t.topic, e) <=> IsIn(s.topic, e) BY <1>2 DEF IsIn
<1>4. /\ DOMAIN t.topic = 1 .. Len(t.topic) /\ Len(t.topic) \in Nat /\ Opens(s.live) \subseteq OpenIn(L)
      /\ DOMAIN s.topic = 1 .. Len(s.topic) /\ Len(s.topic) \in Nat
      /\ s.out.done \in SUBSET ReplyIn /\ s.live.held \in Seq(AnswerIn(E))
  BY InStreamType DEF Good
<1>5. ASSUME NEW key \in Nat, Lowest(key, s, E) PROVE Lowest(key, t, E)
  <2> SUFFICES ASSUME NEW m \in key + 1 .. Len(t.topic) PROVE NoEnds(t.topic[m], E)
    BY <1>5 DEF Lowest
  <2>1. m \in DOMAIN t.topic BY <1>4
  <2>2. m \in DOMAIN s.topic => m \in key + 1 .. Len(s.topic) BY <1>4
  <2>3. m \in DOMAIN s.topic => NoEnds(s.topic[m], E) BY <1>5, <2>2 DEF Lowest
  <2>. QED BY <2>1, <2>3
<1>6. Placed(t, E) BY <1>1 DEF Good, PlacedMessage, PlacedOpen, PlacedReply, Placed
<1>7. Kept(t, E, B, G)
  <2>1. Kept(s, E, B, G) BY DEF Good
  <2>2. \A m : Done(t, m) <=> Done(s, m) BY DEF Done
  <2>3. \A e \in E : \A j, k \in DOMAIN t.topic :
          e \in ToSet(t.topic[j]) /\ e \in ToSet(t.topic[k]) => j = k
    BY <1>2, <2>1 DEF Kept
  <2>4. \A m \in Answering(s.live) : m.answer[1].answer \in E
    BY AnswerIs DEF Answering, IsAnswer
  <2>5. \A k \in DOMAIN s.live.held : s.live.held[k].answer \in E
    <3>1. \A k \in DOMAIN s.live.held : s.live.held[k] \in AnswerIn(E) BY <1>4
    <3>. QED BY <3>1 DEF AnswerIn
  <2>6. /\ \A m \in Answering(t.live) :
             IF Done(t, m) THEN IsIn(t.topic, m.answer[1].answer) \/ m.answer[1].answer \in G
             ELSE ~IsIn(t.topic, m.answer[1].answer)
        /\ \A k \in DOMAIN t.live.held :
             t.live.held[k].answer \in B /\ ~IsIn(t.topic, t.live.held[k].answer)
        /\ \A e \in E : IsIn(t.topic, e) => e \in B
        /\ \A e \in B : \/ IsIn(t.topic, e) \/ e \in G
                        \/ \E k \in DOMAIN t.live.held : t.live.held[k].answer = e
                        \/ \E m \in Answering(t.live) : m.answer[1].answer = e
    BY <1>3, <2>1, <2>2, <2>4, <2>5 DEF Kept
  <2>. QED BY <2>1, <2>3, <2>6 DEF Kept
<1>8. a => Above(t, E)
  <2> SUFFICES ASSUME a, NEW o \in Opens(s.live) PROVE AboveOpen(o, t, E)
    BY DEF Above
  <2>1. AboveOpen(o, s, E) BY DEF Good, Above
  <2>2. o.key \in Nat BY <1>4 DEF OpenIn
  <2>3. \A r \in s.out.done : r.key \in Nat BY <1>4 DEF ReplyIn
  <2>. QED BY <1>5, <2>1, <2>2, <2>3 DEF AboveOpen
<1>9. Queued(t) BY DEF Good, Queued
<1>. QED BY <1>6, <1>7, <1>8, <1>9 DEF Good

(* Writes leave the queue, but no answer gets into the topic.              *)
LEMMA QueueGood ==
  ASSUME NEW L, NEW E, NEW B, NEW G, NEW C, NEW a, NEW W, NEW s, Good(s, L, E, B, G, a, W),
         G \subseteq C, NEW t \in StreamIn(L, E), t.topic = s.topic,
         NEW R, NEW rep, Replies(s, t, R, rep),
         \A j \in DOMAIN s.out.queue \ R :
           /\ rep[j].what \in {"sent", "merged", "skipped"} =>
                \A e \in E : e \in ToSet(s.out.queue[j].text) => e \in C
           /\ rep[j].key # 0 =>
                /\ rep[j].key = Len(s.topic) /\ Free(s.topic, rep[j].key, E)
                /\ \A i \in R \cap DOMAIN s.out.queue :
                     \/ NoEnds(s.out.queue[i].text, E)
                     \/ s.out.queue[i].number > s.out.queue[j].number
  PROVE  Good(t, L, E, B, C, a, W)
<1> DEFINE q == s.out.queue
<1>1. /\ s \in StreamIn(L, E) /\ s.live \in LiveIn(L, E) /\ Len(s.topic) \in Nat
      /\ DOMAIN s.topic = 1 .. Len(s.topic)
      /\ Opens(s.live) \subseteq OpenIn(L) /\ s.out.done \in SUBSET ReplyIn
      /\ q \in Seq(OpIn(L)) /\ Numbered(s.live) /\ Queued(s) /\ Placed(s, E) /\ Kept(s, E, B, G)
  BY InStreamType DEF Good
<1>2. /\ Queued(t)
      /\ \A k \in DOMAIN t.out.queue : \E j \in R \cap DOMAIN q : t.out.queue[k] = q[j]
      /\ \A x \in t.out.done : x \in s.out.done \/ \E j \in DOMAIN q \ R : x = rep[j]
  BY <1>1, RepliesQueued
<1>3. t.live = s.live /\ s.out.done \subseteq t.out.done BY DEF Replies
<1>4. \A j \in DOMAIN q \ R : rep[j].number = q[j].number BY DEF Replies
<1> HIDE DEF q
<1>5. \A j \in DOMAIN q : q[j].number \in Nat
  <2>1. \A j \in DOMAIN q : q[j] \in OpIn(L) BY <1>1
  <2>. QED BY <2>1 DEF OpIn
<1>6. Placed(t, E)
  <2>1. \A o \in Opens(t.live) : PlacedOpen(o, t, E) BY <1>1, <1>3 DEF Placed, PlacedOpen
  <2>2. ASSUME NEW r \in t.out.done PROVE PlacedReply(r, t, E)
    BY <1>1, <1>3, <1>2 DEF Placed, PlacedReply, q, Free
  <2>. QED BY <1>1, <1>3, <2>1, <2>2 DEF Placed
<1>7. Kept(t, E, B, C)
  <2>1. ASSUME NEW m \in Answering(s.live), Done(t, m), ~Done(s, m)
        PROVE  m.answer[1].answer \in C
    <3>1. m \in Messages(s.live) /\ m.answer # <<>> BY DEF Answering
    <3>2. PICK r \in t.out.done : r.number = m.number /\ r.what \in {"sent", "merged", "skipped"}
      BY <2>1 DEF Done
    <3>3. r \notin s.out.done BY <2>1, <3>2 DEF Done
    <3>4. PICK j \in DOMAIN q \ R : r = rep[j] BY <1>2, <3>3
    <3>5. m.number = q[j].number BY <1>4, <3>2, <3>4
    <3>6. SameWrite(m.op, q[j]) BY <3>1, <3>5, QueuedIs DEF QueuedMessage, q
    <3>7. m.answer[1].answer \in E /\ m.answer[1].answer \in ToSet(m.op.text)
      <4>1. m.answer[1].answer \in E /\ ToSet(m.op.text) = {m.answer[1].answer}
        BY <3>1, AnswerIs, SMTT(30) DEF IsAnswer
      <4>. QED BY <4>1
    <3>8. m.answer[1].answer \in ToSet(q[j].text) BY <3>6, <3>7 DEF SameWrite
    <3>. QED BY <3>2, <3>4, <3>7, <3>8 DEF q
  <2>2. \A m : Done(s, m) => Done(t, m) BY <1>3 DEF Done
  <2>3. \A m \in Answering(t.live) :
          IF Done(t, m) THEN IsIn(t.topic, m.answer[1].answer) \/ m.answer[1].answer \in C
          ELSE ~IsIn(t.topic, m.answer[1].answer)
    BY <1>1, <1>3, <2>1, <2>2 DEF Kept
  <2>4. \A e \in B : \/ IsIn(t.topic, e) \/ e \in C
                     \/ \E k \in DOMAIN t.live.held : t.live.held[k].answer = e
                     \/ \E m \in Answering(t.live) : m.answer[1].answer = e
    BY <1>1, <1>3 DEF Kept
  <2>. QED BY <1>1, <1>3, <2>3, <2>4 DEF Kept
<1>8. ASSUME a PROVE Above(t, E)
  <2> SUFFICES ASSUME NEW o \in Opens(s.live) PROVE AboveOpen(o, t, E)
    BY <1>3 DEF Above
  <2>1. AboveOpen(o, s, E) BY <1>8 DEF Good, Above
  <2>2. \A key : Lowest(key, s, E) => Lowest(key, t, E) BY <1>2 DEF Lowest, q
  <2>3. o.number \in Nat BY <1>1 DEF OpenIn
  <2>4. ASSUME o.key = 0, o.number # 0, NEW r \in t.out.done, r.number = o.number, r.key # 0
        PROVE  Lowest(r.key, t, E)
    <3>1. CASE r \in s.out.done BY <2>1, <2>2, <2>4, <3>1 DEF AboveOpen
    <3>2. CASE \E j \in DOMAIN q \ R : r = rep[j]
      <4>1. PICK j \in DOMAIN q \ R : r = rep[j] BY <3>2
      <4>2. /\ r.key = Len(s.topic) /\ q[j].number = o.number
            /\ \A i \in R \cap DOMAIN q : NoEnds(q[i].text, E) \/ q[i].number > o.number
        BY <1>4, <2>4, <4>1 DEF q
      <4>3. \A i \in DOMAIN q : NoEnds(q[i].text, E) \/ q[i].number < o.number
        BY <2>1, <2>4 DEF AboveOpen, q
      <4>4. \A i \in R \cap DOMAIN q : NoEnds(q[i].text, E) BY <1>5, <2>3, <4>2, <4>3
      <4>5. r.key + 1 .. Len(t.topic) = {} BY <1>1, <4>2
      <4>. QED BY <1>2, <4>4, <4>5 DEF Lowest
    <3>. QED BY <1>2, <3>1, <3>2
  <2>5. \A k \in DOMAIN t.out.queue : \E j \in DOMAIN s.out.queue : t.out.queue[k] = s.out.queue[j]
    BY <1>2 DEF q
  <2>6. o.key = 0 /\ o.number # 0 =>
          \A k \in DOMAIN t.out.queue :
            NoEnds(t.out.queue[k].text, E) \/ t.out.queue[k].number < o.number
    BY <2>1, <2>5 DEF AboveOpen
  <2>. QED BY <2>1, <2>2, <2>4, <2>6 DEF AboveOpen
<1>. QED BY <1>2, <1>3, <1>6, <1>7, <1>8 DEF Good

(* An answer gets into the topic.                                          *)
LEMMA AnswerSent ==
  ASSUME NEW L, NEW E, NEW B, NEW G, NEW a, NEW W, NEW s, Good(s, L, E, B, G, a, W),
         NEW k \in DOMAIN s.out.queue, NEW m \in Messages(s.live), m.answer # <<>>,
         m.number = s.out.queue[k].number,
         NEW text \in Seq(L \cup {0}), ToSet(text) = ToSet(s.out.queue[k].text),
         NEW t \in StreamIn(L, E), t.topic = Append(s.topic, text),
         NEW rep, Replies(s, t, DOMAIN s.out.queue \ {k}, rep), rep[k].what = "sent",
         rep[k].key = Len(s.topic) + 1
  PROVE  Good(t, L, E, B, G, a, W)
<1> DEFINE q == s.out.queue
           e == m.answer[1].answer
           n == Len(s.topic)
           R == DOMAIN q \ {k}
<1>1. /\ s \in StreamIn(L, E) /\ s.live \in LiveIn(L, E) /\ n \in Nat
      /\ DOMAIN s.topic = 1 .. n /\ s.topic \in Seq(Seq(L \cup {0}))
      /\ Opens(s.live) \subseteq OpenIn(L) /\ s.out.done \in SUBSET ReplyIn
      /\ q \in Seq(OpIn(L)) /\ Numbered(s.live) /\ Queued(s) /\ Placed(s, E) /\ Kept(s, E, B, G)
      /\ E \subseteq L /\ s.live.held \in Seq(AnswerIn(E))
  BY InStreamType DEF Good
<1>2. /\ Queued(t)
      /\ \A i \in DOMAIN t.out.queue : \E j \in R \cap DOMAIN q : t.out.queue[i] = q[j]
      /\ \A x \in t.out.done : x \in s.out.done \/ \E j \in DOMAIN q \ R : x = rep[j]
  BY <1>1, RepliesQueued
<1>3. t.live = s.live /\ s.out.done \subseteq t.out.done /\ rep[k] \in t.out.done
      /\ rep[k].number = q[k].number
  BY DEF Replies
<1>4. \A x \in t.out.done : x \in s.out.done \/ x = rep[k] BY <1>2
<1>5. QueuedMessage(s, k, m, E) /\ ~Done(s, m) BY QueuedIs
<1>6. e \in E /\ ToSet(m.op.text) = {e}
  <2>1. IsAnswer(m, E) BY AnswerIs
  <2>. QED BY <2>1 DEF IsAnswer
<1>7. ToSet(q[k].text) = {e} /\ ToSet(text) = {e}
  BY <1>5, <1>6 DEF QueuedMessage, SameWrite
<1>8. ~NoEnds(q[k].text, E) BY <1>6, <1>7 DEF NoEnds
<1>9. m \in Answering(s.live) BY <1>5 DEF QueuedMessage, Answering
<1> HIDE DEF q, e, n, R
<1>10. /\ Len(t.topic) = n + 1 /\ DOMAIN t.topic = 1 .. n + 1
       /\ \A i \in 1 .. n : t.topic[i] = s.topic[i]
       /\ t.topic[n + 1] = text
  BY <1>1, AppendSet DEF n
<1>11. \A i \in DOMAIN t.topic : (i \in DOMAIN s.topic /\ t.topic[i] = s.topic[i]) \/ i = n + 1
  BY <1>1, <1>10
<1>12. \A i \in DOMAIN s.topic : i \in DOMAIN t.topic /\ t.topic[i] = s.topic[i]
  BY <1>1, <1>10
<1>13. n + 1 \in DOMAIN t.topic /\ n + 1 \notin DOMAIN s.topic BY <1>1, <1>10
<1>14. \A x : IsIn(t.topic, x) <=> IsIn(s.topic, x) \/ x = e
  BY <1>7, <1>10, <1>11, <1>12, <1>13 DEF IsIn
<1>15. ~IsIn(s.topic, e) BY <1>1, <1>5, <1>9 DEF Kept, e
<1>16. \A key : Free(s.topic, key, E) => Free(t.topic, key, E) BY <1>12 DEF Free
<1>17. Placed(t, E)
  <2>1. \A x : PlacedMessage(x, s.topic, E) => PlacedMessage(x, t.topic, E)
    BY <1>16 DEF PlacedMessage
  <2>2. \A o : PlacedOpen(o, s, E) => PlacedOpen(o, t, E) BY <1>3, <1>16 DEF PlacedOpen
  <2>3. \A r : PlacedReply(r, s, E) => PlacedReply(r, t, E)
    BY <1>3, <1>12, <1>16 DEF PlacedReply
  <2>4. PlacedReply(rep[k], t, E) BY <1>1, <1>3, SameMessage, <1>13 DEF q, n, PlacedReply
  <2>. QED BY <1>1, <1>3, <1>4, <2>1, <2>2, <2>3, <2>4 DEF Placed
<1>18. Kept(t, E, B, G)
  <2>1. /\ \A x, y \in Answering(s.live) :
             x.answer[1].answer = y.answer[1].answer => x.number = y.number
        /\ \A x \in Answering(s.live) : \A i \in DOMAIN s.live.held :
             x.answer[1].answer # s.live.held[i].answer
        /\ \A x \in Answering(s.live) :
             IF Done(s, x) THEN IsIn(s.topic, x.answer[1].answer) \/ x.answer[1].answer \in G
             ELSE ~IsIn(s.topic, x.answer[1].answer)
        /\ \A x \in Answering(s.live) : x.answer[1].answer \in B
        /\ \A i \in DOMAIN s.live.held :
             s.live.held[i].answer \in B /\ ~IsIn(s.topic, s.live.held[i].answer)
    BY <1>1 DEF Kept
  <2>2. \A x : x.number # m.number => (Done(t, x) <=> Done(s, x))
    BY <1>3, <1>4 DEF Done, q
  <2>3. \A x \in Messages(s.live) : x.number = m.number => x = m BY <1>1, SameMessage
  <2>4. Done(t, m) BY <1>3 DEF Done, q
  <2>5. ASSUME NEW x \in Answering(s.live)
        PROVE  IF Done(t, x) THEN IsIn(t.topic, x.answer[1].answer) \/ x.answer[1].answer \in G
               ELSE ~IsIn(t.topic, x.answer[1].answer)
    BY <2>3, <1>14, <2>4, <1>9, <2>1, <2>2 DEF Answering, e
  <2>6. \A i \in DOMAIN s.live.held : ~IsIn(t.topic, s.live.held[i].answer)
    BY <1>9, <1>14, <2>1 DEF e
  <2>7. e \in B BY <1>9, <2>1 DEF e
  <2>8. \A x \in E : \A i, j \in DOMAIN t.topic :
          x \in ToSet(t.topic[i]) /\ x \in ToSet(t.topic[j]) => i = j
    BY <1>1, <1>15, <1>7, <1>10, <1>11 DEF Kept, IsIn
  <2>9. \A x \in E : IsIn(t.topic, x) => x \in B BY <1>1, <1>14, <2>7 DEF Kept
  <2>10. \A x \in B : \/ IsIn(t.topic, x) \/ x \in G
                      \/ \E i \in DOMAIN t.live.held : t.live.held[i].answer = x
                      \/ \E y \in Answering(t.live) : y.answer[1].answer = x
    <3>1. \A x \in B : \/ IsIn(s.topic, x) \/ x \in G
                       \/ \E i \in DOMAIN s.live.held : s.live.held[i].answer = x
                       \/ \E y \in Answering(s.live) : y.answer[1].answer = x
      BY <1>1 DEF Kept
    <3>. QED BY <1>3, <1>14, <3>1
  <2>11. \A i, j \in DOMAIN s.live.held :
           s.live.held[i].answer = s.live.held[j].answer => i = j
    BY <1>1 DEF Kept
  <2>12. Answering(t.live) = Answering(s.live) /\ t.live.held = s.live.held BY <1>3
  <2>. QED BY <2>1, <2>5, <2>6, <2>8, <2>9, <2>10, <2>11, <2>12 DEF Kept
<1>19. ASSUME a PROVE Above(t, E)
  <2> SUFFICES ASSUME NEW o \in Opens(s.live) PROVE AboveOpen(o, t, E)
    BY <1>3 DEF Above
  <2>1. AboveOpen(o, s, E) BY <1>19 DEF Good, Above
  <2>2. \A key : ~Lowest(key, s, E) BY <1>8 DEF Lowest, q
  <2>3. o.key = 0 BY <2>1, <2>2 DEF AboveOpen
  <2>4. o.number # 0 => q[k].number < o.number BY <1>8, <2>1, <2>3 DEF AboveOpen, q
  <2>5. o.number \in Nat /\ q[k].number \in Nat
    <3>1. q[k] \in OpIn(L) BY <1>1 DEF q
    <3>. QED BY <1>1, <3>1 DEF OpenIn, OpIn
  <2>6. o.number # 0 => \A r \in t.out.done : r.number = o.number => r.key = 0
    BY <1>3, <1>4, <2>1, <2>2, <2>3, <2>4, <2>5 DEF AboveOpen
  <2>7. \A i \in DOMAIN t.out.queue : \E j \in DOMAIN s.out.queue : t.out.queue[i] = s.out.queue[j]
    BY <1>2 DEF q
  <2>8. o.number # 0 =>
          \A i \in DOMAIN t.out.queue :
            NoEnds(t.out.queue[i].text, E) \/ t.out.queue[i].number < o.number
    BY <2>1, <2>3, <2>7 DEF AboveOpen
  <2>. QED BY <2>3, <2>6, <2>8 DEF AboveOpen
<1>. QED BY <1>2, <1>3, <1>17, <1>18, <1>19 DEF Good

(* A reader of the topic deletes a message.                                *)
LEMMA DeletedGood ==
  ASSUME NEW L, NEW E, NEW B, NEW G, NEW a, NEW W, NEW s, Good(s, L, E, B, G, a, W),
         NEW d \in DOMAIN s.topic, NEW t, t = [s EXCEPT !.topic = [s.topic EXCEPT ![d] = Gone]]
  PROVE  Good(t, L, E, B, G \cup ToSet(s.topic[d]), a, W)
<1> DEFINE C == G \cup ToSet(s.topic[d])
<1>1. /\ s \in StreamIn(L, E) /\ 0 \notin E /\ s.topic \in Seq(Seq(L \cup {0}))
      /\ DOMAIN s.topic = 1 .. Len(s.topic) /\ Len(s.topic) \in Nat /\ Placed(s, E)
      /\ Kept(s, E, B, G) /\ s.live.held \in Seq(AnswerIn(E))
  BY InStreamType DEF Good
<1>2. Gone \in Seq(L \cup {0}) /\ ToSet(Gone) = {0} /\ NoEnds(Gone, E)
  BY <1>1 DEF ToSet, Gone, NoEnds
<1>3. [s.topic EXCEPT ![d] = Gone] \in Seq(Seq(L \cup {0})) BY <1>1, <1>2
<1>4. /\ t \in StreamIn(L, E) /\ t.live = s.live /\ t.out = s.out
      /\ t.topic = [s.topic EXCEPT ![d] = Gone]
  BY <1>1, <1>3 DEF StreamIn
<1>5. /\ Len(t.topic) = Len(s.topic) /\ DOMAIN t.topic = DOMAIN s.topic
      /\ \A i \in DOMAIN s.topic : t.topic[i] = IF i = d THEN Gone ELSE s.topic[i]
  BY <1>1, <1>4
<1>6. \A key : Free(s.topic, key, E) => Free(t.topic, key, E) BY <1>2, <1>5 DEF Free
<1>7. \A e \in E : IsIn(t.topic, e) => IsIn(s.topic, e) BY <1>1, <1>2, <1>5 DEF IsIn
<1>8. \A e : IsIn(s.topic, e) => IsIn(t.topic, e) \/ e \in C BY <1>5 DEF IsIn
<1> HIDE DEF C
<1>9. Placed(t, E)
  BY <1>6, <1>4, <1>5, <1>1 DEF PlacedMessage, PlacedOpen, PlacedReply, Placed
<1>10. Kept(t, E, B, C)
  <2>1. G \subseteq C BY DEF C
  <2>2. \A m \in Answering(s.live) : m.answer[1].answer \in E
    BY AnswerIs DEF Answering, IsAnswer
  <2>3. \A k \in DOMAIN s.live.held : s.live.held[k].answer \in E
    <3>1. \A k \in DOMAIN s.live.held : s.live.held[k] \in AnswerIn(E) BY <1>1
    <3>. QED BY <3>1 DEF AnswerIn
  <2>4. \A m : Done(t, m) <=> Done(s, m) BY <1>4 DEF Done
  <2>5. \A e \in E : \A j, k \in DOMAIN t.topic :
          e \in ToSet(t.topic[j]) /\ e \in ToSet(t.topic[k]) => j = k
    <3>1. \A e \in E : \A j, k \in DOMAIN s.topic :
            e \in ToSet(s.topic[j]) /\ e \in ToSet(s.topic[k]) => j = k
      BY <1>1 DEF Kept
    <3>2. \A e \in E : e \notin ToSet(Gone) BY <1>1, <1>2
    <3>. QED BY <1>5, <3>1, <3>2
  <2>6. \A m \in Answering(s.live) :
          IF Done(t, m) THEN IsIn(t.topic, m.answer[1].answer) \/ m.answer[1].answer \in C
          ELSE ~IsIn(t.topic, m.answer[1].answer)
    BY <1>1, <1>7, <1>8, <2>1, <2>2, <2>4 DEF Kept
  <2>7. \A k \in DOMAIN s.live.held :
          s.live.held[k].answer \in B /\ ~IsIn(t.topic, s.live.held[k].answer)
    BY <1>1, <1>7, <2>3 DEF Kept
  <2>8. /\ \A e \in E : IsIn(t.topic, e) => e \in B
        /\ \A e \in B : \/ IsIn(t.topic, e) \/ e \in C
                        \/ \E k \in DOMAIN s.live.held : s.live.held[k].answer = e
                        \/ \E m \in Answering(s.live) : m.answer[1].answer = e
    BY <1>1, <1>7, <1>8, <2>1 DEF Kept
  <2>9. /\ \A i, j \in DOMAIN s.live.held :
             s.live.held[i].answer = s.live.held[j].answer => i = j
        /\ \A x, y \in Answering(s.live) :
             x.answer[1].answer = y.answer[1].answer => x.number = y.number
        /\ \A x \in Answering(s.live) : \A i \in DOMAIN s.live.held :
             x.answer[1].answer # s.live.held[i].answer
        /\ \A x \in Answering(s.live) : x.answer[1].answer \in B
    BY <1>1 DEF Kept
  <2>10. Answering(t.live) = Answering(s.live) /\ t.live.held = s.live.held BY <1>4
  <2>. QED BY <2>5, <2>6, <2>7, <2>8, <2>9, <2>10 DEF Kept
<1>11. \A key : Lowest(key, s, E) => Lowest(key, t, E)
  <2> SUFFICES ASSUME NEW key, Lowest(key, s, E), NEW m \in key + 1 .. Len(t.topic)
               PROVE  NoEnds(t.topic[m], E)
    BY <1>4 DEF Lowest
  <2>1. NoEnds(s.topic[m], E) BY <1>5 DEF Lowest
  <2>2. t.topic[m] = s.topic[m] \/ t.topic[m] = Gone BY <1>4
  <2>. QED BY <1>2, <2>1, <2>2
<1>12. a => Above(t, E) BY <1>4, <1>11 DEF Good, Above, AboveOpen
<1>13. Queued(t) BY <1>4 DEF Good, Queued
<1>. QED BY <1>4, <1>9, <1>10, <1>12, <1>13 DEF Good, C
----------------------------------------------------------------------------
(* The invariant of the stream and of everything around it.                *)

Came == {e \in Ends : e <= stopped}

Given == fate.skipped \cup fate.apart

IsFate(f) ==
  f = [skipped |-> f.skipped, apart |-> f.apart, early |-> f.early, ahead |-> f.ahead,
       mended |-> f.mended, lapsed |-> f.lapsed, stale |-> f.stale]

Asked == \A n \in DOMAIN asks : asks[n].from <= asks[n].len /\ asks[n].len <= written

Around ==
  /\ plan \in Plans /\ written \in 0 .. Len(Script) /\ stopped \in 0 .. Len(Script)
  /\ agent \in Nat /\ asks \in Seq([from : Nat, len : Nat]) /\ Asked
  /\ offset \in PlaceIn(written) /\ live.readAt <= written
  /\ left \in {"no", "draining", "settled", "givenUp"} /\ resends \in 0 .. MaxResends
  /\ used \in [Trouble -> Nat] /\ IsFate(fate)

StreamInv == Around /\ Good(St, Line, Ends, Came, Given, left = "no", written)

LEMMA Transcript ==
  ASSUME plan \in Plans
  PROVE  /\ Script \in Seq({"text", "prompt", "call", "result", "end"})
         /\ Len(Script) \in Nat /\ Line = 1 .. Len(Script)
         /\ Ends \subseteq Line /\ 0 \notin Ends /\ AreLines(Line, Line, Ends)
BY StreamAssumption DEF Script, Line, Ends, AreLines

LEMMA SameScript ==
  ASSUME plan' = plan
  PROVE  Script' = Script /\ Line' = Line /\ Ends' = Ends
BY DEF Script, Line, Ends

LEMMA StIs ==
  /\ St.live = live /\ St.out = out /\ St.topic = topic
BY DEF St

(* A write into a message, or one that others may join, shows no answer.   *)
LEMMA QueueText ==
  ASSUME NEW L, NEW E, NEW B, NEW G, NEW a, NEW W, NEW s, Good(s, L, E, B, G, a, W),
         NEW j \in DOMAIN s.out.queue
  PROVE  /\ s.out.queue[j].merge \/ s.out.queue[j].into # 0 => NoEnds(s.out.queue[j].text, E)
         /\ s.out.queue[j].into # 0 => Free(s.topic, s.out.queue[j].into, E)
         /\ \A m \in Messages(s.live) : m.number = s.out.queue[j].number =>
              /\ m.answer = <<>> => NoEnds(s.out.queue[j].text, E)
              /\ m.answer # <<>> => ~s.out.queue[j].merge /\ s.out.queue[j].into = 0
         /\ \E m \in Messages(s.live) : m.number = s.out.queue[j].number
<1>1. PICK m : QueuedMessage(s, j, m, E) BY QueuedIs
<1>2. \A n \in Messages(s.live) : n.number = s.out.queue[j].number => QueuedMessage(s, j, n, E)
  BY QueuedIs
<1>3. ASSUME NEW n, QueuedMessage(s, j, n, E)
      PROVE  /\ n.answer = <<>> => NoEnds(s.out.queue[j].text, E)
             /\ n.answer # <<>> => ~s.out.queue[j].merge /\ s.out.queue[j].into = 0
             /\ n.answer = <<>> /\ s.out.queue[j].into # 0 => Free(s.topic, s.out.queue[j].into, E)
  BY <1>3 DEF QueuedMessage, SameWrite, PlacedMessage
<1>4. m \in Messages(s.live) /\ m.number = s.out.queue[j].number
  BY <1>1 DEF QueuedMessage
<1>. QED BY <1>1, <1>2, <1>3, <1>4

(* The answers to a write and to those that joined it.                     *)
Reply(q, k, what, key, others) ==
  [j \in DOMAIN q |-> IF j = k THEN [number |-> q[k].number, what |-> what, key |-> key]
                      ELSE [number |-> q[j].number, what |-> others, key |-> 0]]

LEMMA RepliedIs ==
  ASSUME NEW L, NEW E, St \in StreamIn(L, E), NEW k \in DOMAIN out.queue,
         NEW joined \in SUBSET DOMAIN out.queue, k \notin joined,
         NEW what \in {"sent", "skipped", "gone"}, NEW key \in Nat,
         NEW others \in {"merged", "unsent"}, Replied(k, joined, what, key, others),
         NEW s, s.live = live, s.out = out, NEW t, t.live = live, t.out = out'
  PROVE  /\ Replies(s, t, DOMAIN out.queue \ ({k} \cup joined),
                    Reply(out.queue, k, what, key, others))
         /\ out'.broken = out.broken /\ DOMAIN out' = DOMAIN out
<1> DEFINE q == out.queue
           rep == Reply(q, k, what, key, others)
           R == DOMAIN q \ ({k} \cup joined)
           N == {[number |-> q[k].number, what |-> what, key |-> key]}
                  \cup {[number |-> q[j].number, what |-> others, key |-> 0] : j \in joined}
<1>1. out \in OutIn(L) /\ q \in Seq(OpIn(L)) BY InStreamType, StIs
<1>2. \A j \in DOMAIN q : q[j].number \in Nat \ {0}
  <2>1. \A j \in DOMAIN q : q[j] \in OpIn(L) BY <1>1
  <2>. QED BY <2>1 DEF OpIn
<1>3. out' = [out EXCEPT !.queue = Picked(q, R), !.done = out.done \cup N] BY DEF Replied
<1>4. DOMAIN q \ R = {k} \cup joined OBVIOUS
<1> HIDE DEF R
<1>5. \A j \in DOMAIN q \ R : rep[j] \in ReplyIn /\ rep[j].number = q[j].number
  BY <1>2, <1>4 DEF Reply, ReplyIn
<1>6. {rep[j] : j \in DOMAIN q \ R} = N BY <1>4, ZenonT(40) DEF Reply
<1> HIDE DEF rep, N
<1>7. /\ out'.queue = Picked(q, R) /\ out'.done = out.done \cup N /\ out'.broken = out.broken
      /\ DOMAIN out' = DOMAIN out
  BY <1>1, <1>3 DEF OutIn
<1> HIDE DEF q
<1>8. s.out.queue = q /\ s.out.done = out.done /\ t.out.queue = out'.queue /\ t.out.done = out'.done
  BY DEF q
<1>9. Replies(s, t, R, rep) BY <1>5, <1>6, <1>7, <1>8 DEF Replies
<1>. QED BY <1>7, <1>9 DEF R, rep, q

(* What joins a write shows no answer; an answer that stays is behind it.  *)
SendFacts(k, joined) ==
  LET q == out.queue
  IN /\ joined \subseteq DOMAIN q /\ k \notin joined
     /\ \A j \in joined : NoEnds(q[j].text, Ends)
     /\ joined # {} => NoEnds(q[k].text, Ends)
     /\ q[k].into # 0 => NoEnds(q[k].text, Ends) /\ Free(topic, q[k].into, Ends)
     /\ q[k].into = 0 =>
          \A i \in DOMAIN q \ ({k} \cup joined) :
            NoEnds(q[i].text, Ends) \/ q[i].number > q[k].number

LEMMA SendingIs ==
  ASSUME StreamInv, NEW k \in DOMAIN out.queue, NEW joined \in {{}, Joins(k)}, Sending(k, joined)
  PROVE  SendFacts(k, joined)
<1> DEFINE q == out.queue
<1>1. Good(St, Line, Ends, Came, Given, left = "no", written) /\ St.out.queue = q /\ St.topic = topic
  BY StIs DEF StreamInv
<1>2. q \in Seq(OpIn(Line)) /\ DOMAIN q = 1 .. Len(q) /\ Len(q) \in Nat
  BY <1>1, InStreamType DEF Good
<1>3. \A j \in DOMAIN q : /\ q[j].merge \/ q[j].into # 0 => NoEnds(q[j].text, Ends)
                          /\ q[j].into # 0 => Free(topic, q[j].into, Ends)
  BY <1>1, QueueText
<1>4. joined \subseteq Joins(k) OBVIOUS
<1>5. \A j \in Joins(k) : j \in k + 1 .. Len(q) /\ q[k].merge /\ q[j].merge
  BY <1>2 DEF Joins, After
<1>6. \A j \in k + 1 .. Len(q) : j \in DOMAIN q /\ j # k BY <1>2
<1>7. \A j \in joined : j \in DOMAIN q /\ j # k /\ q[k].merge /\ q[j].merge
  BY <1>4, <1>5, <1>6
<1>8. ASSUME q[k].into = 0, NEW i \in DOMAIN q, i # k, ~NoEnds(q[i].text, Ends)
      PROVE  q[i].number > q[k].number
  <2>1. q[i].into = 0 BY <1>3, <1>8
  <2>2. ~(i < k) BY <1>2, <1>8, <2>1 DEF Sending, After
  <2>3. k < i BY <1>2, <1>8, <2>2
  <2>4. q[k].number < q[i].number BY <1>1, <2>3 DEF Good, Queued
  <2>5. q[k] \in OpIn(Line) /\ q[i] \in OpIn(Line) BY <1>2
  <2>. QED BY <2>4, <2>5 DEF OpIn
<1> HIDE DEF q
<1>9. \A j \in joined : NoEnds(q[j].text, Ends) BY <1>3, <1>7
<1>10. joined # {} => NoEnds(q[k].text, Ends) BY <1>3, <1>7 DEF q
<1>11. q[k].into # 0 => NoEnds(q[k].text, Ends) /\ Free(topic, q[k].into, Ends)
  BY <1>3 DEF q
<1>12. q[k].into = 0 =>
         \A i \in DOMAIN q \ ({k} \cup joined) :
           NoEnds(q[i].text, Ends) \/ q[i].number > q[k].number
  BY <1>8
<1>. QED BY <1>7, <1>9, <1>10, <1>11, <1>12 DEF SendFacts, q

(* A step that leaves the stream's reader alone.                           *)
LEMMA InvAfter ==
  ASSUME StreamInv, plan' = plan, written' = written, stopped' = stopped, agent' = agent,
         asks' = asks, offset' = offset, left' = left, resends' = resends, live' = live,
         used' \in [Trouble -> Nat], IsFate(fate'),
         Good(St', Line, Ends, Came, Given', left = "no", written)
  PROVE  StreamInv'
BY SameScript DEF Came, StreamInv, Around, Asked

LEMMA GoesIs ==
  ASSUME used \in [Trouble -> Nat], NEW what \in Trouble, Goes(what)
  PROVE  used' \in [Trouble -> Nat]
BY DEF Goes

(* The stream after an answer of Telegram.                                 *)
Onward(o, t) == [live |-> live, out |-> o, topic |-> t]

LEMMA SentType ==
  ASSUME NEW L, NEW E, St \in StreamIn(L, E), NEW o, NEW t \in Seq(Seq(L \cup {0})),
         o = [queue |-> o.queue, broken |-> o.broken, done |-> o.done],
         o.queue \in Seq(OpIn(L)), o.broken \in BOOLEAN, o.done \in SUBSET ReplyIn
  PROVE  Onward(o, t) \in StreamIn(L, E)
BY InStreamType, StIs DEF OutIn, Onward, StreamIn

(* Telegram refuses a write: what joined it is not sent.                   *)
LEMMA RepliedGood ==
  ASSUME StreamInv, NEW k \in DOMAIN out.queue, NEW joined \in {{}, Joins(k)}, Sending(k, joined),
         NEW what \in {"skipped", "gone"}, Replied(k, joined, what, 0, "unsent"),
         live' = live, topic' = topic, NEW C, Given \subseteq C,
         what = "skipped" => \A e \in Ends : e \in ToSet(out.queue[k].text) => e \in C
  PROVE  Good(St', Line, Ends, Came, C, left = "no", written)
<1> DEFINE R == DOMAIN out.queue \ ({k} \cup joined)
           rep == Reply(out.queue, k, what, 0, "unsent")
           t == St'
<1>1. /\ Good(St, Line, Ends, Came, Given, left = "no", written)
      /\ St \in StreamIn(Line, Ends) /\ Numbered(St.live) /\ Queued(St)
  BY DEF StreamInv, Good
<1>2. SendFacts(k, joined) BY SendingIs
<1>3. St.live = live /\ St.out = out /\ St.topic = topic BY StIs
<1>4. t.live = live /\ t.out = out' /\ t.topic = topic /\ t = Onward(out', topic)
  BY DEF St, Onward
<1> HIDE DEF t
<1>5. /\ Replies(St, t, R, rep) /\ out'.broken = out.broken /\ DOMAIN out' = DOMAIN out
  <2>1. joined \in SUBSET DOMAIN out.queue /\ k \notin joined BY <1>2 DEF SendFacts
  <2>2. 0 \in Nat /\ what \in {"sent", "skipped", "gone"} /\ "unsent" \in {"merged", "unsent"}
    OBVIOUS
  <2>. QED BY <1>1, <1>3, <1>4, <2>1, <2>2, RepliedIs, ZenonT(40)
<1> HIDE DEF R
<1>6. t.out.queue \in Seq(OpIn(Line)) /\ t.out.done \in SUBSET ReplyIn
  BY <1>1, <1>5, RepliesQueued
<1>7. t \in StreamIn(Line, Ends)
  <2>1. topic \in Seq(Seq(Line \cup {0})) /\ out \in OutIn(Line)
    BY <1>1, <1>3, InStreamType
  <2>2. out'.queue \in Seq(OpIn(Line)) /\ out'.done \in SUBSET ReplyIn /\ out'.broken \in BOOLEAN
    BY <1>4, <1>5, <1>6, <2>1 DEF OutIn
  <2>3. out' = [queue |-> out'.queue, broken |-> out'.broken, done |-> out'.done]
    BY <1>5, <2>1 DEF OutIn, Replied
  <2>. QED BY <1>1, <1>4, <2>1, <2>2, <2>3, SentType
<1>8. \A j \in DOMAIN out.queue \ R :
        /\ rep[j].key = 0
        /\ rep[j].what \in {"sent", "merged", "skipped"} => j = k /\ what = "skipped"
  BY DEF Reply
<1> HIDE DEF rep
<1>9. \A j \in DOMAIN St.out.queue \ R :
        /\ rep[j].what \in {"sent", "merged", "skipped"} =>
             \A e \in Ends : e \in ToSet(St.out.queue[j].text) => e \in C
        /\ rep[j].key # 0 =>
             /\ rep[j].key = Len(St.topic) /\ Free(St.topic, rep[j].key, Ends)
             /\ \A i \in R \cap DOMAIN St.out.queue :
                  \/ NoEnds(St.out.queue[i].text, Ends)
                  \/ St.out.queue[i].number > St.out.queue[j].number
  BY <1>3, <1>8
<1>10. t.topic = St.topic BY <1>3, <1>4
<1>. QED BY <1>1, <1>5, <1>7, <1>9, <1>10, QueueGood DEF t

LEMMA EditGoneKeeps ==
  ASSUME StreamInv, NEW k \in DOMAIN out.queue, NEW joined \in {{}, Joins(k)}, EditGone(k, joined)
  PROVE  StreamInv'
BY RepliedGood, InvAfter DEF EditGone, Given, StreamInv, Around

LEMMA RefusedKeeps ==
  ASSUME StreamInv, NEW k \in DOMAIN out.queue, NEW joined \in {{}, Joins(k)}, Refused(k, joined)
  PROVE  StreamInv'
BY RepliedGood, GoesIs, InvAfter DEF Refused, StreamInv, Around, IsFate, Given, Trouble

(* A break.                                                                *)
LEMMA FailedKeeps ==
  ASSUME StreamInv, NEW k \in DOMAIN out.queue, NEW joined \in {{}, Joins(k)}, Failed(k, joined)
  PROVE  StreamInv'
<1> DEFINE q == out.queue
           rest == DOMAIN q \ ({k} \cup joined)
           kept == {j \in rest : \E h \in rest : h <= j /\ q[h].restart}
           gone == DOMAIN q \ kept
           rep == [j \in DOMAIN q |-> [number |-> q[j].number, what |-> "unsent", key |-> 0]]
           t == St'
           mended == fate.mended \/ \E j \in rest : j < k /\ out.queue[j].restart
<1>1. /\ Goes("failed") /\ live' = live /\ topic' = topic /\ plan' = plan /\ written' = written
      /\ stopped' = stopped /\ agent' = agent /\ asks' = asks /\ offset' = offset
      /\ left' = left /\ resends' = resends
      /\ out' = [queue |-> Picked(q, kept), broken |-> kept = {},
                 done |-> out.done \cup Unsent({q[j] : j \in gone})]
      /\ fate' = [fate EXCEPT !.mended = mended]
  BY DEF Failed
<1>2. Given' = Given /\ IsFate(fate') BY <1>1 DEF StreamInv, Around, IsFate, Given
<1>3. used' \in [Trouble -> Nat] BY <1>1, GoesIs DEF StreamInv, Around, Trouble
<1>4. /\ Good(St, Line, Ends, Came, Given, left = "no", written)
      /\ St \in StreamIn(Line, Ends) /\ Numbered(St.live) /\ Queued(St)
  BY DEF StreamInv, Good
<1>5. St.live = live /\ St.out = out /\ St.topic = topic /\ St.out.queue = q BY StIs
<1>6. t.live = live /\ t.out = out' /\ t.topic = topic /\ t = Onward(out', topic)
  BY <1>1 DEF St, Onward
<1> HIDE DEF t
<1>7. q \in Seq(OpIn(Line)) BY <1>4, <1>5, InStreamType
<1> HIDE DEF kept
<1>8. \A j \in gone : rep[j] \in ReplyIn /\ rep[j].number = q[j].number
  <2>1. \A j \in DOMAIN q : q[j] \in OpIn(Line) BY <1>7
  <2>. QED BY <2>1 DEF OpIn, ReplyIn
<1>9. Unsent({q[j] : j \in gone}) = {rep[j] : j \in gone} BY DEF Unsent
<1>10. \A j \in DOMAIN q : rep[j].key = 0 /\ rep[j].what = "unsent" OBVIOUS
<1> HIDE DEF gone, rep, q
<1>11. /\ out'.queue = Picked(q, kept) /\ out'.broken \in BOOLEAN
       /\ out'.done = out.done \cup {rep[j] : j \in gone}
       /\ out' = [queue |-> out'.queue, broken |-> out'.broken, done |-> out'.done]
  BY <1>1, <1>9
<1>12. Replies(St, t, kept, rep) BY <1>5, <1>6, <1>8, <1>11 DEF Replies, gone
<1>13. t.out.queue \in Seq(OpIn(Line)) /\ t.out.done \in SUBSET ReplyIn
  BY <1>4, <1>12, RepliesQueued
<1>14. topic \in Seq(Seq(Line \cup {0})) BY <1>4, <1>5, InStreamType
<1>15. t \in StreamIn(Line, Ends) BY <1>4, <1>6, <1>11, <1>13, <1>14, SentType, SMTT(20)
<1>16. \A j \in DOMAIN St.out.queue \ kept :
         /\ rep[j].what \in {"sent", "merged", "skipped"} =>
              \A e \in Ends : e \in ToSet(St.out.queue[j].text) => e \in Given
         /\ rep[j].key # 0 =>
              /\ rep[j].key = Len(St.topic) /\ Free(St.topic, rep[j].key, Ends)
              /\ \A i \in kept \cap DOMAIN St.out.queue :
                   \/ NoEnds(St.out.queue[i].text, Ends)
                   \/ St.out.queue[i].number > St.out.queue[j].number
  BY <1>5, <1>10
<1>17. t.topic = St.topic /\ Given \subseteq Given BY <1>5, <1>6
<1>18. Good(t, Line, Ends, Came, Given, left = "no", written)
  BY <1>4, <1>12, <1>15, <1>16, <1>17, QueueGood
<1>. QED BY <1>1, <1>2, <1>3, <1>18, InvAfter DEF t

LEMMA DeleteMessageKeeps ==
  ASSUME StreamInv, DeleteMessage
  PROVE  StreamInv'
<1>1. PICK m \in DOMAIN topic :
        /\ Goes("deleted") /\ topic' = [topic EXCEPT ![m] = Gone]
        /\ fate' = [fate EXCEPT !.skipped = fate.skipped \cup ToSet(topic[m])]
        /\ live' = live /\ out' = out /\ plan' = plan /\ written' = written
        /\ stopped' = stopped /\ agent' = agent /\ asks' = asks /\ offset' = offset
        /\ left' = left /\ resends' = resends
  BY DEF DeleteMessage
<1>2. Given' = Given \cup ToSet(topic[m]) /\ IsFate(fate')
  BY <1>1 DEF StreamInv, Around, IsFate, Given
<1>3. used' \in [Trouble -> Nat] BY <1>1, GoesIs DEF StreamInv, Around, Trouble
<1>4. Good(St, Line, Ends, Came, Given, left = "no", written) /\ St.topic = topic
  BY StIs DEF StreamInv
<1>5. St' = [St EXCEPT !.topic = [St.topic EXCEPT ![m] = Gone]] BY <1>1 DEF St
<1>6. Good(St', Line, Ends, Came, Given', left = "no", written)
  BY <1>2, <1>4, <1>5, DeletedGood
<1>. QED BY <1>1, <1>2, <1>3, <1>6, InvAfter

(* The text that goes when the writes at places `ks` go as one.            *)
SentText(q, ks, into) ==
  LET ops == Picked(q, ks)
  IN IF into # 0 THEN Last(ops).text ELSE FlattenSeq([n \in DOMAIN ops |-> ops[n].text])

LEMMA SentTextIs ==
  ASSUME NEW L, NEW q \in Seq(OpIn(L)), NEW ks \in SUBSET DOMAIN q, ks # {}, NEW into
  PROVE  /\ SentText(q, ks, into) \in Seq(L)
         /\ \A x \in ToSet(SentText(q, ks, into)) : \E j \in ks : x \in ToSet(q[j].text)
         /\ into = 0 =>
              \A j \in ks : \A x \in ToSet(q[j].text) : x \in ToSet(SentText(q, ks, into))
<1> DEFINE ops == Picked(q, ks)
           texts == [n \in DOMAIN ops |-> ops[n].text]
<1>1. ops \in Seq(OpIn(L)) /\ ToSet(ops) = {q[k] : k \in ks \cap DOMAIN q} BY PickedSet
<1>2. ks \cap DOMAIN q = ks OBVIOUS
<1> HIDE DEF ops
<1>3. Len(ops) \in Nat /\ DOMAIN ops = 1 .. Len(ops) /\ \A n \in DOMAIN ops : ops[n] \in OpIn(L)
  BY <1>1
<1>4. \A n \in DOMAIN ops : \E j \in ks : ops[n] = q[j] BY <1>1, <1>2 DEF ToSet
<1>5. \A j \in ks : \E n \in DOMAIN ops : ops[n] = q[j] BY <1>1, <1>2 DEF ToSet
<1>6. Last(ops) = ops[Len(ops)] /\ Len(ops) \in DOMAIN ops BY <1>3, <1>5 DEF Last
<1>7. \A n \in DOMAIN ops : ops[n].text \in Seq(L) BY <1>3 DEF OpIn
<1>8. texts \in Seq(Seq(L)) /\ DOMAIN texts = DOMAIN ops
  <2>1. texts = [n \in 1 .. Len(ops) |-> texts[n]] /\ \A n \in 1 .. Len(ops) : texts[n] \in Seq(L)
    BY <1>3, <1>7
  <2>2. DOMAIN texts = DOMAIN ops OBVIOUS
  <2> HIDE DEF texts
  <2>. QED BY <1>3, <2>1, <2>2, IsSeqOf
<1>9. \A n \in DOMAIN ops : texts[n] = ops[n].text OBVIOUS
<1>10. SentText(q, ks, into) = IF into # 0 THEN Last(ops).text ELSE FlattenSeq(texts)
  BY DEF SentText, ops
<1> HIDE DEF texts
<1>11. CASE into # 0 BY <1>4, <1>6, <1>7, <1>10, <1>11
<1>12. CASE into = 0
  <2>1. FlattenSeq(texts) \in Seq(L)
        /\ ToSet(FlattenSeq(texts)) = UNION {ToSet(texts[i]) : i \in DOMAIN texts}
    BY <1>8, FlatSet
  <2>2. SentText(q, ks, into) = FlattenSeq(texts) BY <1>10, <1>12
  <2>3. \A x \in ToSet(FlattenSeq(texts)) : \E i \in DOMAIN texts : x \in ToSet(texts[i])
    BY <2>1
  <2>4. \A i \in DOMAIN texts : \A x \in ToSet(texts[i]) : x \in ToSet(FlattenSeq(texts))
    BY <2>1
  <2>5. \A x \in ToSet(FlattenSeq(texts)) : \E j \in ks : x \in ToSet(q[j].text)
    BY <1>4, <1>8, <1>9, <2>3, SMTT(30)
  <2>6. \A j \in ks : \A x \in ToSet(q[j].text) : x \in ToSet(FlattenSeq(texts))
    BY <1>5, <1>8, <1>9, <2>4
  <2>. QED BY <2>1, <2>2, <2>5, <2>6
<1>. QED BY <1>11, <1>12

LEMMA AppendTopic ==
  ASSUME NEW L, NEW t \in Seq(Seq(L \cup {0})), NEW text \in Seq(L)
  PROVE  /\ Append(t, text) \in Seq(Seq(L \cup {0})) /\ Len(Append(t, text)) = Len(t) + 1
         /\ DOMAIN t = 1 .. Len(t) /\ Len(t) \in Nat /\ text \in Seq(L \cup {0})
         /\ DOMAIN Append(t, text) = 1 .. Len(t) + 1
         /\ \A m \in DOMAIN t : Append(t, text)[m] = t[m]
         /\ Append(t, text)[Len(t) + 1] = text
BY AppendSet

(* Lines get into the topic: as a message of their own, or into one.       *)
LinesPut(t, into, text) ==
  IF into = 0 THEN Append(t, text) ELSE [t EXCEPT ![into] = text]

LinesWere(s, t, into, L, E, B, G, a, W) ==
  /\ Good(t, L, E, B, G, a, W) /\ t.topic \in Seq(Seq(L \cup {0}))
  /\ into = 0 => Free(t.topic, Len(t.topic), E) /\ Len(t.topic) = Len(s.topic) + 1

LEMMA LinesPutGood ==
  ASSUME NEW L, NEW E, NEW B, NEW G, NEW a, NEW W, NEW s, Good(s, L, E, B, G, a, W), B \subseteq E,
         NEW text \in Seq(L), NoEnds(text, E), NEW into \in Nat,
         into # 0 => Free(s.topic, into, E),
         NEW t, t.live = s.live, t.out = s.out, t.topic = LinesPut(s.topic, into, text),
         t = [live |-> t.live, out |-> t.out, topic |-> t.topic]
  PROVE  LinesWere(s, t, into, L, E, B, G, a, W)
<1>1. s \in StreamIn(L, E) /\ s.topic \in Seq(Seq(L \cup {0})) /\ s.live \in LiveIn(L, E)
      /\ s.out \in OutIn(L)
  BY InStreamType DEF Good
<1>2. text \in Seq(L \cup {0}) /\ DOMAIN s.topic = 1 .. Len(s.topic) /\ Len(s.topic) \in Nat
  BY <1>1, AppendTopic
<1>3. /\ t.topic \in Seq(Seq(L \cup {0}))
      /\ \A m \in DOMAIN s.topic :
           /\ m \in DOMAIN t.topic
           /\ t.topic[m] = s.topic[m] \/ (NoEnds(s.topic[m], E) /\ NoEnds(t.topic[m], E))
      /\ \A m \in DOMAIN t.topic : m \in DOMAIN s.topic \/ NoEnds(t.topic[m], E)
      /\ into = 0 => Free(t.topic, Len(t.topic), E) /\ Len(t.topic) = Len(s.topic) + 1
  <2>1. CASE into = 0 BY <2>1, <1>1, AppendTopic, <1>2 DEF LinesPut, Free
  <2>2. CASE into # 0 BY <2>2, <1>1, <1>2 DEF LinesPut, Free
  <2>. QED BY <2>1, <2>2
<1>4. t \in StreamIn(L, E) BY <1>1, <1>3 DEF StreamIn
<1>5. Good(t, L, E, B, G, a, W) BY <1>3, <1>4, TopicEdited
<1>. QED BY <1>3, <1>5 DEF LinesWere

(* Telegram takes a write.                                                 *)
LEMMA TakenGood ==
  ASSUME StreamInv, NEW k \in DOMAIN out.queue, NEW joined \in {{}, Joins(k)}, Taken(k, joined)
  PROVE  Good(St', Line, Ends, Came, Given, left = "no", written)
<1> DEFINE q == out.queue
           ks == {k} \cup joined
           into == q[k].into
           text == SentText(q, ks, into)
           key == IF into = 0 THEN Len(topic) + 1 ELSE 0
           R == DOMAIN q \ ks
           rep == Reply(q, k, "sent", key, "merged")
           t == St'
           u == Onward(out, topic')
           a == left = "no"
<1>1. /\ Good(St, Line, Ends, Came, Given, a, written)
      /\ St \in StreamIn(Line, Ends) /\ Numbered(St.live) /\ Queued(St)
  BY DEF StreamInv, Good
<1>2. St.live = live /\ St.out = out /\ St.topic = topic /\ St.out.queue = q BY StIs
<1>3. /\ Sending(k, joined) /\ topic' = LinesPut(topic, into, text) /\ live' = live
      /\ Replied(k, joined, "sent", key, "merged")
  BY DEF Taken, LinesPut, SentText
<1>4. SendFacts(k, joined) BY <1>3, SendingIs
<1>5. q \in Seq(OpIn(Line)) /\ topic \in Seq(Seq(Line \cup {0})) /\ Len(topic) \in Nat
      /\ out \in OutIn(Line)
  BY <1>1, <1>2, InStreamType
<1>6. joined \subseteq DOMAIN q /\ k \notin joined /\ ks \in SUBSET DOMAIN q /\ ks # {}
  BY <1>4 DEF SendFacts
<1>7. q[k] \in OpIn(Line) BY <1>5
<1>8. into \in Nat /\ key \in Nat BY <1>5, <1>7 DEF OpIn
<1>9. t.live = live /\ t.out = out' /\ t.topic = topic' /\ t = Onward(out', topic')
      /\ u.live = live /\ u.out = out /\ u.topic = topic'
      /\ u = [live |-> u.live, out |-> u.out, topic |-> u.topic]
  BY <1>3 DEF St, Onward
<1>10. text \in Seq(Line) BY <1>5, <1>6, SentTextIs
<1>11. \A x \in ToSet(text) : \E j \in ks : x \in ToSet(q[j].text)
  BY <1>5, <1>6, SentTextIs
<1> HIDE DEF t, u
<1>12. ASSUME NEW s, s.live = live, s.out = out
       PROVE  Replies(s, t, R, rep) /\ out'.broken = out.broken /\ DOMAIN out' = DOMAIN out
  <2>1. "sent" \in {"sent", "skipped", "gone"} /\ "merged" \in {"merged", "unsent"}
    OBVIOUS
  <2> HIDE DEF key
  <2>. QED BY <1>1, <1>3, <1>6, <1>8, <1>9, <1>12, <2>1, RepliedIs
<1>13. Replies(St, t, R, rep) /\ out'.broken = out.broken /\ DOMAIN out' = DOMAIN out
  BY <1>2, <1>12
<1>14. t.out.queue \in Seq(OpIn(Line)) /\ t.out.done \in SUBSET ReplyIn
  BY <1>1, <1>13, RepliesQueued
<1>15. topic' \in Seq(Seq(Line \cup {0}))
  <2>1. CASE into = 0 BY <1>3, <1>5, <1>10, <2>1, AppendTopic DEF LinesPut
  <2>2. CASE into # 0
    <3>1. into \in DOMAIN topic BY <1>4, <2>2 DEF SendFacts, Free
    <3>2. text \in Seq(Line \cup {0}) BY <1>5, <1>10, AppendTopic
    <3> HIDE DEF text, into
    <3>. QED BY <1>3, <1>5, <2>2, <3>1, <3>2 DEF LinesPut
  <2>. QED BY <2>1, <2>2
<1>16. t \in StreamIn(Line, Ends)
  <2>1. out'.broken \in BOOLEAN /\ out'.queue \in Seq(OpIn(Line)) /\ out'.done \in SUBSET ReplyIn
    BY <1>5, <1>9, <1>13, <1>14 DEF OutIn
  <2>2. out' = [queue |-> out'.queue, broken |-> out'.broken, done |-> out'.done]
    BY <1>5, <1>13, <1>3 DEF OutIn, Replied
  <2>. QED BY <1>1, <1>9, <1>15, <2>1, <2>2, SentType
<1>17. PICK m : QueuedMessage(St, k, m, Ends) BY <1>1, <1>2, QueuedIs
<1>18. m \in Messages(St.live) /\ m.number = q[k].number /\ SameWrite(m.op, q[k])
       /\ PlacedMessage(m, St.topic, Ends)
  BY <1>2, <1>17 DEF QueuedMessage
<1>19. CASE m.answer # <<>>
  <2>1. IsAnswer(m, Ends) BY <1>1, <1>18, <1>19, AnswerIs
  <2>2. into = 0 /\ ~NoEnds(q[k].text, Ends)
    BY <1>18, <2>1 DEF SameWrite, IsAnswer, NoEnds
  <2>3. joined = {} BY <1>4, <2>2 DEF SendFacts
  <2>4. ToSet(text) = ToSet(q[k].text)
    <3>1. ks = {k} BY <2>3
    <3>2. \A x \in ToSet(q[k].text) : x \in ToSet(text)
      BY <1>5, <1>6, <2>2, <3>1, SentTextIs
    <3>. QED BY <1>11, <3>1, <3>2
  <2>5. t.topic = Append(St.topic, text) BY <1>2, <1>3, <1>9, <2>2 DEF LinesPut
  <2>6. R = DOMAIN St.out.queue \ {k} BY <1>2, <2>3
  <2>7. rep[k].what = "sent" /\ rep[k].key = Len(St.topic) + 1 BY <1>2, <2>2 DEF Reply
  <2>8. text \in Seq(Line \cup {0}) BY <1>5, <1>10, AppendTopic
  <2>10. m \in Messages(St.live) /\ m.number = St.out.queue[k].number
         /\ k \in DOMAIN St.out.queue /\ ToSet(text) = ToSet(St.out.queue[k].text)
    BY <1>2, <1>18, <2>4
  <2>11. Replies(St, t, DOMAIN St.out.queue \ {k}, rep) BY <1>13, <2>6
  <2> HIDE DEF rep, R, text, into, key, ks, q, a
  <2>9. Good(t, Line, Ends, Came, Given, a, written)
    BY <1>1, <1>16, <1>19, <2>5, <2>7, <2>8, <2>10, <2>11, AnswerSent
  <2>. QED BY <2>9 DEF t, a
<1>20. CASE m.answer = <<>>
  <2>1. NoEnds(q[k].text, Ends) BY <1>18, <1>20 DEF SameWrite, PlacedMessage
  <2>2. \A j \in ks : NoEnds(q[j].text, Ends) BY <1>4, <2>1 DEF SendFacts
  <2>3. NoEnds(text, Ends) BY <1>11, <2>2 DEF NoEnds
  <2>4. into # 0 => Free(topic, into, Ends) BY <1>4 DEF SendFacts
  <2>5. Came \subseteq Ends BY DEF Came
  <2>6. /\ u.topic = LinesPut(St.topic, into, text) /\ u.live = St.live /\ u.out = St.out
        /\ into # 0 => Free(St.topic, into, Ends)
    BY <1>2, <1>3, <1>9, <2>4
  <2> HIDE DEF text, into, a
  <2>7. /\ Good(u, Line, Ends, Came, Given, a, written)
        /\ into = 0 => Free(u.topic, Len(u.topic), Ends) /\ Len(u.topic) = Len(St.topic) + 1
    <3>1. LinesWere(St, u, into, Line, Ends, Came, Given, a, written)
      BY <1>1, <1>8, <1>9, <1>10, <2>3, <2>5, <2>6, LinesPutGood
    <3>. QED BY <3>1 DEF LinesWere
  <2> USE DEF into, a
  <2>9. Replies(u, t, R, rep) BY <1>9, <1>12
  <2>10. \A j \in ks : NoEnds(u.out.queue[j].text, Ends) BY <1>9, <2>2
  <2>11. DOMAIN u.out.queue \ R = ks BY <1>6, <1>9
  <2>12. \A j \in ks : rep[j].key # 0 => j = k /\ into = 0 /\ rep[j].key = Len(topic) + 1
    BY <1>6 DEF Reply
  <2>13. into = 0 => \A i \in R \cap DOMAIN u.out.queue :
            \/ NoEnds(u.out.queue[i].text, Ends)
            \/ u.out.queue[i].number > u.out.queue[k].number
    BY <1>4, <1>9 DEF SendFacts
  <2> HIDE DEF ks, rep, R, into, key, a
  <2>14. \A j \in DOMAIN u.out.queue \ R :
           /\ rep[j].what \in {"sent", "merged", "skipped"} =>
                \A e \in Ends : e \in ToSet(u.out.queue[j].text) => e \in Given
           /\ rep[j].key # 0 =>
                /\ rep[j].key = Len(u.topic) /\ Free(u.topic, rep[j].key, Ends)
                /\ \A i \in R \cap DOMAIN u.out.queue :
                     \/ NoEnds(u.out.queue[i].text, Ends)
                     \/ u.out.queue[i].number > u.out.queue[j].number
    BY <2>10, <1>2, <2>7, <2>11, <2>12, <2>13 DEF NoEnds
  <2>15. t.topic = u.topic /\ Given \subseteq Given BY <1>9
  <2>16. Good(t, Line, Ends, Came, Given, a, written)
    BY <1>16, <2>7, <2>9, <2>14, <2>15, QueueGood
  <2>. QED BY <2>16 DEF t, a
<1>. QED BY <1>19, <1>20

LEMMA TakenKeeps ==
  ASSUME StreamInv, NEW k \in DOMAIN out.queue, NEW joined \in {{}, Joins(k)}, Taken(k, joined)
  PROVE  StreamInv'
BY TakenGood, InvAfter DEF Taken, Given, StreamInv, Around, IsFate

LEMMA SendKeeps ==
  ASSUME StreamInv, Send
  PROVE  StreamInv'
BY TakenKeeps, EditGoneKeeps, RefusedKeeps, FailedKeeps DEF Send
----------------------------------------------------------------------------
(* The steps of the agent, the hub and the Stop hook.                      *)
LEMMA GoodMore ==
  ASSUME NEW L, NEW E, NEW B, NEW G, NEW a, NEW W, NEW s, Good(s, L, E, B, G, a, W),
         NEW C, NEW H, B \subseteq C, G \subseteq H, C \subseteq B \cup H,
         NEW b, b => a
  PROVE  Good(s, L, E, C, H, b, W)
<1>1. Kept(s, E, B, G) /\ (a => Above(s, E)) BY DEF Good
<1>2. Kept(s, E, C, H)
  <2> DEFINE held == s.live.held
  <2>1. \A j, k \in DOMAIN held : held[j].answer = held[k].answer => j = k
    BY <1>1 DEF Kept
  <2>2. \A m, n \in Answering(s.live) :
          m.answer[1].answer = n.answer[1].answer => m.number = n.number
    BY <1>1 DEF Kept
  <2>3. \A m \in Answering(s.live) : \A k \in DOMAIN held : m.answer[1].answer # held[k].answer
    BY <1>1 DEF Kept
  <2>4. \A m \in Answering(s.live) :
          IF Done(s, m) THEN IsIn(s.topic, m.answer[1].answer) \/ m.answer[1].answer \in H
          ELSE ~IsIn(s.topic, m.answer[1].answer)
    BY <1>1 DEF Kept
  <2>5. \A k \in DOMAIN held : held[k].answer \in C /\ ~IsIn(s.topic, held[k].answer)
    BY <1>1 DEF Kept
  <2>6. \A m \in Answering(s.live) : m.answer[1].answer \in C BY <1>1 DEF Kept
  <2>7. \A e \in E : IsIn(s.topic, e) => e \in C BY <1>1 DEF Kept
  <2>8. \A e \in E : \A j, k \in DOMAIN s.topic :
          e \in ToSet(s.topic[j]) /\ e \in ToSet(s.topic[k]) => j = k
    BY <1>1 DEF Kept
  <2>9. \A e \in C : \/ IsIn(s.topic, e) \/ e \in H
                     \/ \E k \in DOMAIN held : held[k].answer = e
                     \/ \E m \in Answering(s.live) : m.answer[1].answer = e
    BY <1>1 DEF Kept
  <2>. QED BY <2>1, <2>2, <2>3, <2>4, <2>5, <2>6, <2>7, <2>8, <2>9 DEF Kept
<1>. QED BY <1>1, <1>2 DEF Good

LEMMA InvThen ==
  ASSUME plan' = plan, Around',
         Good(St', Line, Ends, Came', Given', left' = "no", written')
  PROVE  StreamInv'
BY SameScript DEF StreamInv

(* What else there is around the stream stays, but for the agent's reads.  *)
LEMMA AroundAfter ==
  ASSUME Around, plan' = plan, written' = written, stopped' = stopped, offset' = offset,
         left' = left, resends' = resends, agent' \in Nat,
         asks' \in Seq([from : Nat, len : Nat]), Asked', used' \in [Trouble -> Nat],
         IsFate(fate'), live'.readAt = live.readAt
  PROVE  Around'
BY SameScript DEF Around

LEMMA CameSame ==
  ASSUME plan' = plan, stopped' = stopped
  PROVE  Came' = Came
BY SameScript DEF Came

LEMMA QuietStep ==
  ASSUME StreamInv, live' \in LiveIn(Line, Ends), SameWaiting(live, live'),
         live'.held = live.held, live'.readAt = live.readAt, out' = out, topic' = topic,
         plan' = plan, written' = written, stopped' = stopped, offset' = offset, left' = left,
         resends' = resends, fate' = fate, agent' \in Nat,
         asks' \in Seq([from : Nat, len : Nat]), Asked', used' \in [Trouble -> Nat]
  PROVE  StreamInv'
<1> DEFINE lw == live'
           a == left = "no"
<1>1. Good(St, Line, Ends, Came, Given, a, written) /\ Around BY DEF StreamInv
<1>2. St.live = live /\ St' = [St EXCEPT !.live = lw] BY DEF St
<1>3. Came' = Came /\ Given' = Given /\ IsFate(fate') BY <1>1, CameSame DEF Given, Around
<1>4. Around' BY <1>1, <1>3, AroundAfter
<1>5. lw \in LiveIn(Line, Ends) /\ SameWaiting(St.live, lw) /\ lw.held = St.live.held
  BY <1>2
<1> HIDE DEF lw, a
<1>6. Good(St', Line, Ends, Came, Given, a, written) BY <1>1, <1>2, <1>5, QuietGood
<1>7. Good(St', Line, Ends, Came', Given', left' = "no", written') BY <1>3, <1>6 DEF a
<1>. QED BY <1>4, <1>7, InvThen

LEMMA InvTypes ==
  ASSUME StreamInv
  PROVE  /\ live \in LiveIn(Line, Ends) /\ out \in OutIn(Line)
         /\ topic \in Seq(Seq(Line \cup {0})) /\ Len(topic) \in Nat
         /\ live.held \in Seq(AnswerIn(Ends)) /\ live.readAt \in Nat /\ live.next \in Nat
         /\ live.waiting \in WaitingIn(Line, Ends) /\ St \in StreamIn(Line, Ends)
         /\ plan \in Plans /\ agent \in Nat /\ asks \in Seq([from : Nat, len : Nat]) /\ Asked
         /\ used \in [Trouble -> Nat] /\ written \in Nat /\ IsFate(fate)
         /\ offset \in PlaceIn(written) /\ offset.to \in Nat /\ offset.call \in BOOLEAN
<1>1. St \in StreamIn(Line, Ends) BY DEF StreamInv, Good
<1>2. live \in LiveIn(Line, Ends) BY <1>1, InStreamType, StIs
<1>3. live.held \in Seq(AnswerIn(Ends)) /\ live.readAt \in Nat /\ live.next \in Nat
  BY <1>2 DEF LiveIn
<1>4. live.waiting \in WaitingIn(Line, Ends) BY <1>2 DEF LiveIn
<1>5. plan \in Plans /\ agent \in Nat /\ asks \in Seq([from : Nat, len : Nat]) /\ Asked
      /\ used \in [Trouble -> Nat] /\ written \in Nat /\ IsFate(fate)
      /\ offset \in PlaceIn(written)
  BY Transcript DEF StreamInv, Around
<1>6. offset.to \in Nat /\ offset.call \in BOOLEAN BY <1>5 DEF PlaceIn
<1>7. out \in OutIn(Line) /\ topic \in Seq(Seq(Line \cup {0})) /\ Len(topic) \in Nat
  BY <1>1, InStreamType, StIs
<1>. QED BY <1>1, <1>2, <1>3, <1>4, <1>5, <1>6, <1>7

LEMMA AgentGoesKeeps ==
  ASSUME StreamInv, AgentGoes
  PROVE  StreamInv'
BY InvTypes, GoesIs, QuietStep DEF AgentGoes, Trouble, Asked, SameWaiting

LEMMA AgentComesKeeps ==
  ASSUME StreamInv, AgentComes
  PROVE  StreamInv'
BY InvTypes, QuietStep DEF AgentComes, Trouble, Asked, SameWaiting

LEMMA ReadForgottenKeeps ==
  ASSUME StreamInv, ReadForgotten
  PROVE  StreamInv'
BY InvTypes, GoesIs, QuietStep DEF ReadForgotten, Trouble, LiveIn, SameWaiting, Asked

LEMMA AskReadKeeps ==
  ASSUME StreamInv, AskRead
  PROVE  StreamInv'
<1> DEFINE ask == [from |-> IF live.rewind THEN offset.to ELSE live.readAt, len |-> written]
<1>1. /\ live' = [live EXCEPT !.reading = agent, !.debts = ToSet(live.unpaired)]
      /\ asks' = Append(asks, ask) /\ agent' = agent /\ plan' = plan
      /\ written' = written /\ stopped' = stopped /\ offset' = offset
      /\ out' = out /\ topic' = topic /\ left' = left /\ resends' = resends /\ fate' = fate
      /\ used' = used
  BY DEF AskRead
<1>2. used \in [Trouble -> Nat] /\ asks \in Seq([from : Nat, len : Nat]) /\ Asked
      /\ live \in LiveIn(Line, Ends) /\ agent \in Nat /\ written \in Nat
      /\ offset \in PlaceIn(written) /\ live.readAt \in Nat /\ live.readAt <= written
  BY InvTypes DEF StreamInv, Around
<1>3. ask \in [from : Nat, len : Nat] /\ ask.from <= ask.len /\ ask.len <= written
  BY <1>2 DEF PlaceIn
<1>4. ToSet(live.unpaired) \in SUBSET Ends BY <1>2 DEF LiveIn, ToSet
<1>5. /\ live' \in LiveIn(Line, Ends) /\ SameWaiting(live, live') /\ live'.held = live.held
      /\ live'.readAt = live.readAt
  BY <1>1, <1>2, <1>4 DEF LiveIn, SameWaiting
<1> HIDE DEF ask
<1>6. asks' \in Seq([from : Nat, len : Nat]) BY <1>1, <1>2, <1>3
<1>7. Asked' BY <1>1, <1>2, <1>3 DEF Asked
<1>. QED BY <1>1, <1>2, <1>5, <1>6, <1>7, QuietStep

LEMMA OtherPostKeeps ==
  ASSUME StreamInv, OtherPost
  PROVE  StreamInv'
<1> DEFINE a == left = "no"
<1>1. /\ Goes("post") /\ live' = CloseOpen(live) /\ agent' = agent /\ asks' = asks /\ plan' = plan
      /\ written' = written /\ stopped' = stopped /\ offset' = offset
      /\ out' = out /\ topic' = topic /\ left' = left /\ resends' = resends /\ fate' = fate
  BY DEF OtherPost
<1>2. used \in [Trouble -> Nat] /\ asks \in Seq([from : Nat, len : Nat]) /\ Asked
      /\ live \in LiveIn(Line, Ends) /\ agent \in Nat /\ IsFate(fate)
  BY InvTypes
<1>3. used' \in [Trouble -> Nat] BY <1>1, <1>2, GoesIs DEF Trouble
<1>4. Good(St, Line, Ends, Came, Given, a, written) /\ Around BY DEF StreamInv
<1>5. St.live = live /\ St' = [St EXCEPT !.live = CloseOpen(St.live)] BY <1>1 DEF St
<1>6. live'.readAt = live.readAt BY <1>1, <1>2, CloseOpenIs DEF SameReads
<1>7. Asked' BY <1>1, <1>2 DEF Asked
<1>8. Around' BY <1>1, <1>2, <1>3, <1>4, <1>6, <1>7, AroundAfter
<1>9. Came' = Came /\ Given' = Given BY <1>1, CameSame DEF Given
<1> HIDE DEF a
<1>10. Good(St', Line, Ends, Came, Given, a, written) BY <1>4, <1>5, ClosedGood
<1>11. Good(St', Line, Ends, Came', Given', left' = "no", written')
  BY <1>1, <1>9, <1>10 DEF a
<1>. QED BY <1>1, <1>8, <1>11, InvThen
(* What stays of the answers on their way, in their order.                 *)
AnswersAre(lv, again, E) ==
  /\ again \in Seq(AnswerIn(E)) /\ Distinct(again)
  /\ ToSet(again) = {m.answer[1] : m \in Answering(lv)}

LEMMA AnswersIs ==
  ASSUME NEW L, NEW E, NEW B, NEW G, NEW a, NEW W, NEW s, Good(s, L, E, B, G, a, W)
  PROVE  AnswersAre(s.live, Answers(s.live), E)
<1> DEFINE lv == s.live
           w == lv.waiting
           ss == [k \in DOMAIN w |-> IF IsBarrier(w[k]) \/ w[k].state = "accepted" THEN <<>>
                                     ELSE w[k].answer]
           S == AnswerIn(E)
           again == FlattenSeq(ss)
<1>1. s \in StreamIn(L, E) /\ Numbered(lv) /\ Placed(s, E) /\ Kept(s, E, B, G)
  BY DEF Good
<1>2. w \in WaitingIn(L, E) /\ lv \in LiveIn(L, E) BY <1>1, InStreamType
<1>3. Len(w) \in Nat /\ DOMAIN w = 1 .. Len(w) BY <1>2 DEF WaitingIn
<1>4. Answers(lv) = again BY DEF Answers
<1>5. Messages(lv) = {w[k] : k \in {j \in DOMAIN w : ~IsBarrier(w[j])}}
  BY <1>2, MessageOf
<1>6. ASSUME NEW k \in DOMAIN w
      PROVE  /\ ss[k] \in Seq(S) /\ Len(ss[k]) <= 1
             /\ ss[k] # <<>> =>
                  w[k] \in Answering(lv) /\ ss[k] = <<w[k].answer[1]>> /\ ~IsBarrier(w[k])
  <2>1. CASE IsBarrier(w[k]) \/ w[k].state = "accepted"
    <3>1. ss[k] = <<>> BY <2>1
    <3> HIDE DEF ss
    <3>. QED BY <3>1
  <2>2. CASE ~IsBarrier(w[k]) /\ w[k].state # "accepted"
    <3>1. ss[k] = w[k].answer /\ w[k] \in Messages(lv) BY <1>5, <2>2
    <3> HIDE DEF ss
    <3>2. w[k].answer \in Seq(S) BY <1>2, <2>2, WaitingType DEF MessageIn
    <3>3. PlacedMessage(w[k], s.topic, E) BY <1>1, <3>1 DEF Placed
    <3>4. w[k].answer = <<>> \/ w[k].answer = <<w[k].answer[1]>>
      BY <3>3 DEF PlacedMessage
    <3>5. Len(w[k].answer) <= 1
      <4>1. \A x : Len(<<x>>) <= 1 /\ Len(<<>>) <= 1 OBVIOUS
      <4>. QED BY <3>4, <4>1
    <3>6. w[k].answer # <<>> => w[k] \in Answering(lv) BY <2>2, <3>1 DEF Answering
    <3>. QED BY <2>2, <3>1, <3>2, <3>4, <3>5, <3>6
  <2>. QED BY <2>1, <2>2
<1>7. ASSUME NEW m \in Answering(lv)
      PROVE  \E k \in DOMAIN w : m = w[k] /\ ss[k] = <<m.answer[1]>> /\ ss[k] # <<>>
  <2>1. m \in Messages(lv) /\ m.state # "accepted" /\ m.answer # <<>> BY DEF Answering
  <2>2. PICK k \in DOMAIN w : m = w[k] /\ ~IsBarrier(w[k]) BY <1>5, <2>1
  <2>3. ss[k] = m.answer BY <2>1, <2>2
  <2> HIDE DEF ss
  <2>. QED BY <1>6, <2>1, <2>2, <2>3
<1>8. DOMAIN ss = DOMAIN w /\ ss = [k \in 1 .. Len(w) |-> ss[k]] BY <1>3
<1> HIDE DEF ss, S
<1>9. Short(S, ss) BY <1>3, <1>6, <1>8, IsSeqOf DEF Short
<1>10. PICK g : Picks(again, ss, Len(ss), g) BY <1>9, Flattened
<1>11. again \in Seq(S) BY <1>9, Flattened
<1>12. Len(ss) = Len(w) /\ 1 .. Len(ss) = DOMAIN w BY <1>3, <1>8, <1>9 DEF Short
<1> HIDE DEF again, w, lv
<1>13. \A k \in DOMAIN again : g[k] \in DOMAIN w /\ ss[g[k]] = <<again[k]>>
  BY <1>10, <1>12 DEF Picks
<1>14. \A k \in DOMAIN again :
         /\ w[g[k]] \in Answering(lv) /\ again[k] = w[g[k]].answer[1] /\ ~IsBarrier(w[g[k]])
  BY <1>6, <1>13
<1>15. ToSet(again) = {m.answer[1] : m \in Answering(lv)}
  <2>1. \A x \in ToSet(again) : x \in {m.answer[1] : m \in Answering(lv)}
    BY <1>14 DEF ToSet
  <2>2. ASSUME NEW m \in Answering(lv) PROVE m.answer[1] \in ToSet(again)
    <3>1. PICK k \in DOMAIN w : m = w[k] /\ ss[k] = <<m.answer[1]>> /\ ss[k] # <<>>
      BY <1>7
    <3>2. \A i \in 1 .. Len(ss) : ss[i] # <<>> => \E j \in DOMAIN again : g[j] = i
      BY <1>10 DEF Picks
    <3>3. PICK j \in DOMAIN again : g[j] = k BY <1>12, <3>1, <3>2
    <3>4. again[j] = m.answer[1] BY <1>14, <3>1, <3>3
    <3>. QED BY <3>4 DEF ToSet
  <2>. QED BY <2>1, <2>2
<1>16. Distinct(again)
  <2>1. ASSUME NEW j \in DOMAIN again, NEW k \in DOMAIN again, j < k
        PROVE  again[j].answer # again[k].answer
    <3>1. g[j] < g[k] BY <1>10, <2>1 DEF Picks
    <3>2. w[g[j]].number < w[g[k]].number BY <1>1, <1>13, <1>14, <3>1 DEF Numbered, w
    <3>3. w[g[j]].number # w[g[k]].number
      BY <1>2, <1>13, <1>14, WaitingType, <3>2 DEF w, MessageIn
    <3>4. \A m, n \in Answering(lv) :
            m.answer[1].answer = n.answer[1].answer => m.number = n.number
      BY <1>1 DEF Kept, lv
    <3>. QED BY <1>14, <3>3, <3>4
  <2>2. \A j, k \in DOMAIN again : j < k \/ k < j \/ j = k BY <1>11
  <2>. QED BY <2>1, <2>2 DEF Distinct
<1>17. again \in Seq(AnswerIn(E)) BY <1>11 DEF S
<1>. QED BY <1>4, <1>15, <1>16, <1>17 DEF AnswersAre, lv

(* The stream with nothing on its way.                                     *)
LEMMA EmptyGood ==
  ASSUME NEW L, NEW E, E \subseteq L, 0 \notin E, NEW s \in StreamIn(L, E),
         s.live.waiting = <<>>, s.out.queue = <<>>, s.out.done = {}, NEW B, NEW G, NEW a, NEW W,
         \A o \in Opens(s.live) : PlacedOpen(o, s, E) /\ (a => AboveOpen(o, s, E)),
         Distinct(s.live.held), HeldAnswers(s.live) \subseteq B,
         \A e \in HeldAnswers(s.live) : ~IsIn(s.topic, e),
         \A e \in E : IsIn(s.topic, e) => e \in B,
         \A e \in E : \A j, k \in DOMAIN s.topic :
           e \in ToSet(s.topic[j]) /\ e \in ToSet(s.topic[k]) => j = k,
         \A e \in B : IsIn(s.topic, e) \/ e \in G \/ e \in HeldAnswers(s.live)
  PROVE  Good(s, L, E, B, G, a, W)
<1> DEFINE lv == s.live
           held == lv.held
<1>1. lv \in LiveIn(L, E) BY InStreamType
<1>2. Messages(lv) = {} BY <1>1, MessageOf DEF LiveIn
<1>4. Answering(lv) = {} BY <1>2 DEF Answering
<1>5. Numbered(lv) BY <1>2 DEF Numbered
<1>6. Queued(s) BY FS_EmptySet, <1>2 DEF Queued
<1>7. Placed(s, E) BY <1>2 DEF Placed
<1>8. a => Above(s, E) BY DEF Above
<1>9. Kept(s, E, B, G) BY <1>4 DEF Kept, Distinct, HeldAnswers
<1>10. Bounded(lv, W) BY DEF Bounded
<1>. QED BY <1>5, <1>6, <1>7, <1>8, <1>9, <1>10 DEF Good

LEMMA NewLiveIs ==
  ASSUME NEW L, NEW E, NEW at \in [to : Nat, call : BOOLEAN]
  PROVE  /\ NewLive(at) \in LiveIn(L, E) /\ NewLive(at).waiting = <<>>
         /\ NewLive(at).open = NoOpen /\ NewLive(at).committed = NoOpen
         /\ NewLive(at).held = <<>> /\ NewLive(at).readAt = at.to /\ NewLive(at).next = 0
BY DEF NoOpen, OpenIn, WaitingIn, NewLive, LiveIn

LEMMA HubRestartKeeps ==
  ASSUME StreamInv, HubRestart
  PROVE  StreamInv'
<1> DEFINE a == left = "no"
           gone == {x.answer : x \in InStream(live)}
<1>1. /\ left = "no" /\ Goes("restart") /\ live' = NewLive(offset)
      /\ out' = [queue |-> <<>>, broken |-> FALSE, done |-> {}] /\ agent' = 0 /\ asks' = <<>>
      /\ plan' = plan /\ written' = written /\ stopped' = stopped /\ offset' = offset
      /\ topic' = topic /\ left' = left /\ resends' = resends
      /\ \E r : fate' = [fate EXCEPT !.apart = @ \cup gone, !.lapsed = r]
  BY DEF HubRestart
<1>2. used \in [Trouble -> Nat] /\ IsFate(fate) /\ plan \in Plans
      /\ offset \in PlaceIn(written) /\ written \in Nat
      /\ live \in LiveIn(Line, Ends) /\ topic \in Seq(Seq(Line \cup {0}))
  BY InvTypes
<1>3. used' \in [Trouble -> Nat] BY <1>1, <1>2, GoesIs DEF Trouble
<1>4. Good(St, Line, Ends, Came, Given, a, written) /\ Around BY DEF StreamInv
<1>5. offset \in [to : Nat, call : BOOLEAN] /\ offset.to <= written BY <1>2 DEF PlaceIn
<1>6. /\ live' \in LiveIn(Line, Ends) /\ live'.waiting = <<>> /\ live'.open = NoOpen
      /\ live'.committed = NoOpen /\ live'.held = <<>> /\ live'.readAt = offset.to
  BY <1>1, <1>5, NewLiveIs
<1>7. Given' = Given \cup gone /\ IsFate(fate') /\ Came' = Came
  BY <1>1, <1>2, CameSame DEF Given, IsFate
<1>8. out' \in OutIn(Line) /\ out'.queue = <<>> /\ out'.done = {} BY <1>1 DEF OutIn
<1>9. St'.live = live' /\ St'.out = out' /\ St'.topic = topic /\ St' \in StreamIn(Line, Ends)
  BY <1>1, <1>2, <1>6, <1>8 DEF St, StreamIn
<1>10. Around' BY <1>1, <1>5, <1>6, <1>3, <1>4, <1>7, SameScript DEF Asked, Around
<1>11. Kept(St, Ends, Came, Given) /\ St.live = live /\ St.topic = topic
       /\ Ends \subseteq Line /\ 0 \notin Ends
  BY <1>4, StIs DEF Good
<1>12. ASSUME NEW e \in Came PROVE IsIn(topic, e) \/ e \in Given \cup gone
  <2>1. \/ IsIn(topic, e) \/ e \in Given
        \/ \E k \in DOMAIN live.held : live.held[k].answer = e
        \/ \E m \in Answering(live) : m.answer[1].answer = e
    BY <1>11 DEF Kept
  <2>2. \A k \in DOMAIN live.held : live.held[k].answer \in gone BY DEF InStream, ToSet
  <2>3. ToSet(Answers(live)) = {m.answer[1] : m \in Answering(live)}
    BY <1>4, AnswersIs, <1>11 DEF AnswersAre
  <2>4. \A m \in Answering(live) : m.answer[1].answer \in gone BY <2>3 DEF InStream
  <2>. QED BY <2>1, <2>2, <2>4
<1> DEFINE t == St'
<1>13. Good(t, Line, Ends, Came, Given \cup gone, a, written)
  <2>1. \A e \in Ends : IsIn(topic, e) => e \in Came BY <1>11 DEF Kept
  <2>2. \A e \in Ends : \A j, k \in DOMAIN topic :
          e \in ToSet(topic[j]) /\ e \in ToSet(topic[k]) => j = k
    BY <1>11 DEF Kept
  <2>3. t.live = live' /\ t.out = out' /\ t.topic = topic /\ t \in StreamIn(Line, Ends)
    BY <1>9
  <2> HIDE DEF t, a, gone
  <2>4. Distinct(t.live.held) /\ HeldAnswers(t.live) = {}
    BY <1>6, <2>3 DEF Distinct, HeldAnswers
  <2>5. /\ t.live.waiting = <<>> /\ t.out.queue = <<>> /\ t.out.done = {}
        /\ \A o \in Opens(t.live) : PlacedOpen(o, t, Ends) /\ (a => AboveOpen(o, t, Ends))
    BY <1>6, <1>8, <2>3, NoOpenPlaced DEF Opens
  <2>6. /\ \A e \in Ends : IsIn(t.topic, e) => e \in Came
        /\ \A e \in Ends : \A j, k \in DOMAIN t.topic :
             e \in ToSet(t.topic[j]) /\ e \in ToSet(t.topic[k]) => j = k
        /\ \A e \in Came :
             IsIn(t.topic, e) \/ e \in Given \cup gone \/ e \in HeldAnswers(t.live)
        /\ HeldAnswers(t.live) \subseteq Came
        /\ \A e \in HeldAnswers(t.live) : ~IsIn(t.topic, e)
    BY <1>12, <2>1, <2>2, <2>3, <2>4
  <2>. QED BY <1>11, <2>3, <2>4, <2>5, <2>6, EmptyGood
<1>14. Good(St', Line, Ends, Came', Given', left' = "no", written') BY <1>1, <1>7, <1>13
<1>. QED BY <1>1, <1>10, <1>14, InvThen
(* An answer goes before its turn end was read.                            *)
EarlyWent(lv, an, r, L, E) ==
  /\ r.live \in LiveIn(L, E) /\ SameWaiting(lv, r.live) /\ r.live.held = lv.held
  /\ r.live.readAt = lv.readAt
  /\ r.answer \in AnswerIn(E) /\ r.answer.answer = an.answer

LEMMA EarlyIs ==
  ASSUME NEW L, NEW E, NEW lv \in LiveIn(L, E), NEW an \in AnswerIn(E)
  PROVE  EarlyWent(lv, an, AnsweredEarly(lv, an), L, E)
<1>1. an.answer \in E /\ an.end \in E \cup {0} BY DEF AnswerIn
<1>2. CASE an.end = 0
  <2> DEFINE lw == [lv EXCEPT !.unpaired = Append(lv.unpaired, an.answer)]
             ax == [an EXCEPT !.gone = TRUE]
  <2>1. AnsweredEarly(lv, an) = [live |-> lw, answer |-> ax] BY <1>2 DEF AnsweredEarly
  <2>2. Append(lv.unpaired, an.answer) \in Seq(E) BY <1>1 DEF LiveIn
  <2>3. lw \in LiveIn(L, E) /\ SameWaiting(lv, lw) /\ lw.held = lv.held /\ lw.readAt = lv.readAt
    BY <2>2 DEF LiveIn, SameWaiting
  <2>4. ax \in AnswerIn(E) /\ ax.answer = an.answer BY DEF AnswerIn
  <2> HIDE DEF lw, ax
  <2>. QED BY <2>1, <2>3, <2>4 DEF EarlyWent
<1>3. CASE an.end # 0
  <2> DEFINE lw == IF lv.readAt < an.end
                   THEN [lv EXCEPT !.answeredEnds = lv.answeredEnds \cup {an.end}] ELSE lv
  <2>1. AnsweredEarly(lv, an) = [live |-> lw, answer |-> an] BY <1>3 DEF AnsweredEarly
  <2>2. lv.answeredEnds \cup {an.end} \in SUBSET E BY <1>1, <1>3 DEF LiveIn
  <2>3. lw \in LiveIn(L, E) /\ SameWaiting(lv, lw) /\ lw.held = lv.held /\ lw.readAt = lv.readAt
    BY <2>2 DEF LiveIn, SameWaiting
  <2> HIDE DEF lw
  <2>. QED BY <2>1, <2>3 DEF EarlyWent
<1>. QED BY <1>2, <1>3

LEMMA HeldHead ==
  ASSUME NEW E, NEW held \in Seq(AnswerIn(E)), Distinct(held), held # <<>>
  PROVE  /\ Tail(held) \in Seq(AnswerIn(E)) /\ Distinct(Tail(held)) /\ Head(held) \in AnswerIn(E)
         /\ AnswersOf(Tail(held)) = AnswersOf(held) \ {Head(held).answer}
         /\ Head(held).answer \in AnswersOf(held)
<1>1. /\ Len(held) \in Nat \ {0} /\ DOMAIN held = 1 .. Len(held) /\ 1 \in DOMAIN held
      /\ Head(held) = held[1]
      /\ Tail(held) \in Seq(AnswerIn(E)) /\ Len(Tail(held)) = Len(held) - 1
      /\ \A j \in 1 .. Len(held) - 1 : Tail(held)[j] = held[j + 1]
  OBVIOUS
<1>2. DOMAIN Tail(held) = 1 .. Len(held) - 1 BY <1>1
<1>3. Distinct(Tail(held)) BY <1>1, <1>2 DEF Distinct
<1>4. AnswersOf(Tail(held)) = AnswersOf(held) \ {Head(held).answer}
  <2>1. ASSUME NEW x \in AnswersOf(Tail(held)) PROVE x \in AnswersOf(held) /\ x # held[1].answer
    <3>1. PICK j \in DOMAIN Tail(held) : x = Tail(held)[j].answer BY <2>1 DEF AnswersOf
    <3>2. j + 1 \in DOMAIN held /\ j + 1 # 1 /\ x = held[j + 1].answer
      BY <1>1, <1>2, <3>1
    <3>3. held[j + 1].answer # held[1].answer BY <1>1, <3>2 DEF Distinct
    <3>. QED BY <3>2, <3>3 DEF AnswersOf
  <2>2. ASSUME NEW x \in AnswersOf(held), x # held[1].answer PROVE x \in AnswersOf(Tail(held))
    <3>1. PICK j \in DOMAIN held : x = held[j].answer BY <2>2 DEF AnswersOf
    <3>2. j # 1 BY <2>2, <3>1
    <3>3. j - 1 \in DOMAIN Tail(held) /\ Tail(held)[j - 1] = held[j] BY <1>1, <1>2, <3>2
    <3>. QED BY <3>1, <3>3 DEF AnswersOf
  <2>. QED BY <1>1, <2>1, <2>2
<1>5. Head(held) \in AnswerIn(E) /\ Head(held).answer \in AnswersOf(held)
  BY <1>1 DEF AnswersOf
<1>. QED BY <1>1, <1>3, <1>4, <1>5

LEMMA HeldMore ==
  ASSUME NEW E, NEW held \in Seq(AnswerIn(E)), Distinct(held), NEW e \in E, e \notin AnswersOf(held)
  PROVE  /\ Append(held, Answer(e)) \in Seq(AnswerIn(E)) /\ Distinct(Append(held, Answer(e)))
         /\ AnswersOf(Append(held, Answer(e))) = AnswersOf(held) \cup {e}
<1> DEFINE an == Answer(e)
           more == Append(held, an)
<1>1. an \in AnswerIn(E) /\ an.answer = e BY DEF Answer, AnswerIn
<1> HIDE DEF an
<1>2. /\ more \in Seq(AnswerIn(E)) /\ Len(held) \in Nat /\ DOMAIN held = 1 .. Len(held)
      /\ DOMAIN more = 1 .. Len(held) + 1
      /\ \A i \in 1 .. Len(held) : more[i] = held[i]
      /\ more[Len(held) + 1] = an
  BY <1>1, AppendSet
<1> HIDE DEF more
<1>3. \A i \in DOMAIN more : (i \in DOMAIN held /\ more[i] = held[i]) \/ i = Len(held) + 1
  BY <1>2
<1>4. \A i \in DOMAIN held : held[i].answer # e BY DEF AnswersOf
<1>5. Distinct(more) BY <1>2, <1>1, <1>3, <1>4 DEF Distinct
<1>6. AnswersOf(more) = AnswersOf(held) \cup {e} BY <1>1, <1>2, <1>3 DEF AnswersOf
<1>. QED BY <1>2, <1>5, <1>6 DEF more, an

(* What is held changes to `H`, and answer `an` goes.                      *)
LEMMA ReleaseIs ==
  ASSUME NEW L, NEW E, NEW B, NEW G, NEW a, NEW W, NEW s, Good(s, L, E, B, G, a, W),
         NEW lw \in LiveIn(L, E), SameWaiting(s.live, lw), Distinct(lw.held),
         NEW H, H = AnswersOf(lw.held), H \cap (B \ AnswersOf(s.live.held)) = {},
         NEW an \in AnswerIn(E), an.answer \notin H, NEW C,
         C = (B \ AnswersOf(s.live.held)) \cup H, an.answer \notin C
  PROVE  AnswerWent([s EXCEPT !.live = lw], AnswerGoes([s EXCEPT !.live = lw], an), an,
                    L, E, C, G, a, W)
<1> DEFINE t == [s EXCEPT !.live = lw]
<1>1. HeldAnswers(lw) = H /\ HeldAnswers(s.live) = AnswersOf(s.live.held)
  BY DEF HeldAnswers, AnswersOf
<1>2. Good(t, L, E, (B \ HeldAnswers(s.live)) \cup HeldAnswers(lw), G, a, W)
  BY <1>1, HeldGood
<1>3. Good(t, L, E, C, G, a, W) BY <1>1, <1>2
<1> HIDE DEF t
<1>4. AnswerWent(t, AnswerGoes(t, an), an, L, E, C, G, a, W) BY <1>3, AnswerGoesIs
<1>. QED BY <1>4 DEF t

LEMMA CameNext ==
  ASSUME plan' = plan, NEW e, stopped \in Nat, plan \in Plans,
         e = Min({x \in Ends \cup {Len(Script) + 1} : x > stopped}), e <= Len(Script), stopped' = e,
         stopped <= Len(Script)
  PROVE  e \in Ends /\ e \notin Came /\ Came' = Came \cup {e} /\ e \in 0 .. Len(Script)
<1> DEFINE S == {x \in Ends \cup {Len(Script) + 1} : x > stopped}
<1>1. /\ Len(Script) \in Nat /\ Ends \subseteq 1 .. Len(Script) BY Transcript
<1>2. S \in SUBSET Nat /\ S # {}
  <2>1. Len(Script) + 1 \in S BY <1>1
  <2>2. \A x \in S : x \in Nat BY <1>1
  <2>. QED BY <2>1, <2>2
<1>3. e \in S /\ \A x \in S : e <= x BY <1>2, MinIs
<1>4. e \in Ends /\ e > stopped /\ e \in 1 .. Len(Script) BY <1>1, <1>3
<1>5. e \notin Came BY <1>1, <1>4 DEF Came
<1>6. \A x \in Ends : x <= e <=> x <= stopped \/ x = e BY <1>1, <1>3, <1>4
<1>7. Came' = {x \in Ends : x <= e} BY SameScript DEF Came
<1>8. Came' = Came \cup {e} BY <1>6, <1>7, <1>4 DEF Came
<1>. QED BY <1>4, <1>5, <1>8
(* The first turn end that waits for its answer has it.                    *)
Claimed(ends) ==
  [live EXCEPT !.ends = IF ends = <<>> THEN ends ELSE Tail(ends),
               !.lapsing = live.lapsing /\ Len(ends) > 1]

LEMMA ClaimedIs ==
  ASSUME NEW L, NEW E, live \in LiveIn(L, E), NEW ends \in Seq(E)
  PROVE  /\ Claimed(ends) \in LiveIn(L, E) /\ SameWaiting(live, Claimed(ends))
         /\ Claimed(ends).held = live.held /\ Claimed(ends).readAt = live.readAt
<1> DEFINE rest == IF ends = <<>> THEN ends ELSE Tail(ends)
<1>1. rest \in Seq(E) /\ (live.lapsing /\ Len(ends) > 1) \in BOOLEAN OBVIOUS
<1>2. Claimed(ends) = [live EXCEPT !.ends = rest, !.lapsing = live.lapsing /\ Len(ends) > 1]
  BY DEF Claimed
<1> HIDE DEF rest
<1>. QED BY <1>1, <1>2 DEF LiveIn, SameWaiting

(* The states a Stop leaves the stream in.                                 *)
ClaimedWent(ends, e) ==
  AnswerGoes([St EXCEPT !.live = Claimed(ends)], [Answer(e) EXCEPT !.end = Head(ends)])
HeldFull(ends) == AnsweredEarly([Claimed(ends) EXCEPT !.held = Tail(live.held)], Head(live.held))
FullWent(ends, e) ==
  LET early == HeldFull(ends)
  IN AnswerGoes([St EXCEPT !.live = [early.live EXCEPT !.held = Append(early.live.held, Answer(e))]],
                early.answer)
HeldIs(ends, e) ==
  [St EXCEPT !.live = [Claimed(ends) EXCEPT !.held = Append(Claimed(ends).held, Answer(e))]]

(* The stream after a Stop that brought the answer of `e`.                 *)
StopWent(t, e, a) ==
  /\ Good(t, Line, Ends, Came \cup {e}, Given, a, written) /\ t.live.readAt = live.readAt

LEMMA StopHeld ==
  ASSUME StreamInv, NEW a, Good(St, Line, Ends, Came, Given, a, written),
         NEW ends \in Seq(Ends), NEW e \in Ends, e \notin Came
  PROVE  /\ ends # <<>> => StopWent(ClaimedWent(ends, e), e, a)
         /\ live.held # <<>> => StopWent(FullWent(ends, e), e, a)
         /\ StopWent(HeldIs(ends, e), e, a)
<1> DEFINE cl == Claimed(ends)
<1>1. live \in LiveIn(Line, Ends) /\ live.held \in Seq(AnswerIn(Ends)) /\ St.live = live
  BY InvTypes, StIs
<1>2. /\ cl \in LiveIn(Line, Ends) /\ SameWaiting(live, cl)
      /\ cl.held = live.held /\ cl.readAt = live.readAt
  BY <1>1, ClaimedIs
<1>3. Distinct(live.held) /\ AnswersOf(live.held) \subseteq Came
  BY <1>1, HeldInB DEF Good, HeldAnswers, AnswersOf
<1>4. e \notin AnswersOf(live.held) BY <1>3
<1> HIDE DEF cl
<1>5. ASSUME ends # <<>> PROVE StopWent(ClaimedWent(ends, e), e, a)
  <2> DEFINE an == [Answer(e) EXCEPT !.end = Head(ends)]
             t == [St EXCEPT !.live = cl]
             p == AnswerGoes(t, an)
  <2>1. Head(ends) \in Ends BY <1>5
  <2>2. an \in AnswerIn(Ends) /\ an.answer = e BY <2>1 DEF Answer, AnswerIn
  <2>3. ClaimedWent(ends, e) = p BY DEF ClaimedWent, cl
  <2> HIDE DEF an
  <2>4. AnswerWent(t, p, an, Line, Ends, Came, Given, a, written)
    <3>1. Good(t, Line, Ends, Came, Given, a, written) BY <1>1, <1>2, QuietGood
    <3> HIDE DEF t
    <3>. QED BY <2>2, <3>1, AnswerGoesIs
  <2>5. t.live = cl BY DEF St
  <2> HIDE DEF p, t
  <2>. QED BY <1>2, <2>2, <2>3, <2>4, <2>5 DEF AnswerWent, StopWent, SameReads
<1>6. ASSUME live.held # <<>> PROVE StopWent(FullWent(ends, e), e, a)
  <2> DEFINE h == Head(live.held)
             lt == [cl EXCEPT !.held = Tail(live.held)]
             early == AnsweredEarly(lt, h)
             lw == [early.live EXCEPT !.held = Append(early.live.held, Answer(e))]
             t == [St EXCEPT !.live = lw]
             p == AnswerGoes(t, early.answer)
  <2>1. /\ Tail(live.held) \in Seq(AnswerIn(Ends)) /\ Distinct(Tail(live.held))
        /\ h \in AnswerIn(Ends)
        /\ AnswersOf(Tail(live.held)) = AnswersOf(live.held) \ {h.answer}
        /\ h.answer \in AnswersOf(live.held)
    BY <1>1, <1>3, <1>6, HeldHead
  <2> HIDE DEF h
  <2>2. /\ lt \in LiveIn(Line, Ends) /\ SameWaiting(live, lt) /\ lt.held = Tail(live.held)
        /\ lt.readAt = live.readAt
    BY <1>2, <2>1 DEF LiveIn, SameWaiting
  <2>3. FullWent(ends, e) = p BY DEF FullWent, HeldFull, h, cl
  <2> HIDE DEF lt
  <2>4. EarlyWent(lt, h, early, Line, Ends) BY <2>1, <2>2, EarlyIs
  <2> HIDE DEF early
  <2>5. /\ early.live \in LiveIn(Line, Ends) /\ SameWaiting(live, early.live)
        /\ early.live.held = Tail(live.held) /\ early.live.readAt = live.readAt
        /\ early.answer \in AnswerIn(Ends) /\ early.answer.answer = h.answer
    BY <2>2, <2>4 DEF EarlyWent, SameWaiting
  <2>6. e \notin AnswersOf(Tail(live.held)) BY <1>4, <2>1
  <2> DEFINE held == Append(Tail(live.held), Answer(e))
  <2>7. /\ held \in Seq(AnswerIn(Ends)) /\ Distinct(held)
        /\ AnswersOf(held) = (AnswersOf(live.held) \ {h.answer}) \cup {e}
    BY <2>1, <2>6, HeldMore, ZenonT(40)
  <2>8. lw = [early.live EXCEPT !.held = held] BY <2>5
  <2> HIDE DEF held, lw
  <2>9. /\ lw \in LiveIn(Line, Ends) /\ SameWaiting(St.live, lw) /\ lw.held = held
        /\ lw.readAt = live.readAt
    BY <1>1, <2>5, <2>7, <2>8 DEF LiveIn, SameWaiting
  <2> DEFINE H == AnswersOf(held)
             C == (Came \ AnswersOf(St.live.held)) \cup H
  <2>10. /\ H = AnswersOf(lw.held) /\ Distinct(lw.held)
         /\ H \cap (Came \ AnswersOf(St.live.held)) = {}
    BY <1>1, <2>7, <2>9
  <2>11. /\ early.answer.answer \notin H /\ early.answer.answer \notin C
         /\ C \cup {early.answer.answer} = Came \cup {e}
    BY <1>1, <1>3, <1>4, <2>1, <2>5, <2>7
  <2>12. AnswerWent(t, p, early.answer, Line, Ends, C, Given, a, written)
    <3> HIDE DEF H
    <3>. QED BY <2>5, <2>9, <2>10, <2>11, ReleaseIs DEF H
  <2>13. t.live = lw BY DEF St
  <2> HIDE DEF p, t, C
  <2>. QED BY <2>3, <2>9, <2>11, <2>12, <2>13 DEF AnswerWent, StopWent, SameReads
<1>7. StopWent(HeldIs(ends, e), e, a)
  <2> DEFINE held == Append(live.held, Answer(e))
             lw == [cl EXCEPT !.held = held]
             t == [St EXCEPT !.live = lw]
  <2>1. /\ held \in Seq(AnswerIn(Ends)) /\ Distinct(held)
        /\ AnswersOf(held) = AnswersOf(live.held) \cup {e}
    BY <1>1, <1>3, <1>4, HeldMore
  <2>2. HeldIs(ends, e) = t BY <1>2 DEF HeldIs, cl
  <2> HIDE DEF held
  <2>3. /\ lw \in LiveIn(Line, Ends) /\ SameWaiting(St.live, lw) /\ lw.held = held
        /\ lw.readAt = live.readAt
    BY <1>1, <1>2, <2>1 DEF LiveIn, SameWaiting
  <2>4. t.live = lw BY DEF St
  <2> HIDE DEF lw
  <2>5. /\ Distinct(lw.held) /\ HeldAnswers(lw) = AnswersOf(live.held) \cup {e}
        /\ HeldAnswers(St.live) = AnswersOf(live.held)
    BY <1>1, <2>1, <2>3 DEF HeldAnswers, AnswersOf
  <2>6. HeldAnswers(lw) \cap (Came \ HeldAnswers(St.live)) = {} BY <1>3, <2>5
  <2>7. Good(t, Line, Ends, (Came \ HeldAnswers(St.live)) \cup HeldAnswers(lw), Given, a, written)
    BY <2>3, <2>5, <2>6, HeldGood
  <2>8. (Came \ HeldAnswers(St.live)) \cup HeldAnswers(lw) = Came \cup {e} BY <1>3, <2>5
  <2> HIDE DEF t
  <2>. QED BY <2>2, <2>3, <2>4, <2>7, <2>8 DEF StopWent
<1>. QED BY <1>5, <1>6, <1>7
(* More lines of the transcript, and answers, came.                        *)
LEMMA AroundMore ==
  ASSUME Around, plan' = plan, written' \in 0 .. Len(Script), written <= written',
         stopped' \in 0 .. Len(Script), agent' = agent, asks' = asks, offset' = offset,
         left' = left, resends' = resends, used' = used, IsFate(fate'),
         live'.readAt = live.readAt, live.readAt \in Nat, Len(Script) \in Nat
  PROVE  Around'
<1>1. Script' = Script BY SameScript
<1>2. written \in Nat /\ written' \in Nat /\ offset \in PlaceIn(written) BY DEF Around
<1>3. offset \in PlaceIn(written') BY <1>2 DEF PlaceIn
<1>4. Asked'
  <2> DEFINE R == [from : Nat, len : Nat]
  <2>1. asks \in Seq(R) BY DEF Around
  <2>2. \A n \in DOMAIN asks : asks[n] \in R
    <3> HIDE DEF R
    <3>. QED BY <2>1
  <2>3. \A n \in DOMAIN asks : asks[n].len \in Nat /\ asks[n].len <= written
                              /\ asks[n].from <= asks[n].len
    BY <2>2 DEF Asked, Around
  <2>4. \A n \in DOMAIN asks : asks[n].len <= written' /\ asks[n].from <= asks[n].len
    BY <1>2, <2>3
  <2>. QED BY <2>4 DEF Asked
<1>5. live'.readAt <= written' BY <1>2 DEF Around
<1>. QED BY <1>1, <1>3, <1>4, <1>5 DEF Around

(* What one Stop does, with the turn ends `ends` free to claim.            *)
StopDoes(e, ends) ==
  IF ~Streamed
  THEN /\ live' = IF left = "no" THEN CloseOpen(live) ELSE live
       /\ out' = out /\ topic' = topic
       /\ fate' = [fate EXCEPT !.apart = fate.apart \cup {e}]
  ELSE /\ IF ends # <<>>
          THEN Becomes(Released(Claimed(ends), [Answer(e) EXCEPT !.end = Head(ends)]))
          ELSE IF Len(live.held) >= MaxHeld
          THEN Becomes(Released([HeldFull(ends).live EXCEPT
                                   !.held = Append(HeldFull(ends).live.held, Answer(e))],
                                HeldFull(ends).answer))
          ELSE Becomes(HeldIs(ends, e))
       /\ \E c, l : fate' = [fate EXCEPT !.early = c, !.lapsed = l]

LEMMA StopIs ==
  ASSUME Stop
  PROVE  \E e, ends :
           /\ e = Min({x \in Ends \cup {Len(Script) + 1} : x > stopped})
           /\ ends \in {live.ends, <<>>} /\ e <= Len(Script)
           /\ stopped' = e /\ written' = Max({written, e}) /\ StopDoes(e, ends)
           /\ plan' = plan /\ agent' = agent /\ asks' = asks /\ offset' = offset
           /\ left' = left /\ resends' = resends /\ used' = used
<1>1. PICK e \in {Min({x \in Ends \cup {Len(Script) + 1} : x > stopped})},
           lapsed \in {FALSE, live.lapsing} :
        LET ends == Claimable(lapsed)
            claimed == [live EXCEPT !.ends = IF ends = <<>> THEN ends ELSE Tail(ends),
                                    !.lapsing = @ /\ Len(ends) > 1]
            full == Len(live.held) >= MaxHeld
            early == AnsweredEarly([claimed EXCEPT !.held = Tail(@)], Head(live.held))
        IN /\ e <= Len(Script)
           /\ stopped' = e /\ written' = Max({written, e})
           /\ IF ~Streamed
              THEN /\ Becomes([St EXCEPT !.live = IF left = "no" THEN CloseOpen(@) ELSE @])
                   /\ fate' = [fate EXCEPT !.apart = @ \cup {e}]
              ELSE /\ IF ends # <<>>
                      THEN Becomes(Released(claimed, [Answer(e) EXCEPT !.end = Head(ends)]))
                      ELSE IF full
                      THEN Becomes(Released([early.live EXCEPT !.held = Append(@, Answer(e))],
                                            early.answer))
                      ELSE Becomes([St EXCEPT !.live =
                                      [claimed EXCEPT !.held = Append(@, Answer(e))]])
                   /\ fate' = [Fated(IF ends = <<>> /\ full THEN {Head(live.held).answer} ELSE {})
                                 EXCEPT !.lapsed = @ \/ lapsed]
           /\ UNCHANGED <<plan, agent, asks, offset, left, resends, used>>
  BY DEF Stop
<1> DEFINE ends == Claimable(lapsed)
           claimed == [live EXCEPT !.ends = IF ends = <<>> THEN ends ELSE Tail(ends),
                                   !.lapsing = live.lapsing /\ Len(ends) > 1]
           full == Len(live.held) >= MaxHeld
           early == AnsweredEarly([claimed EXCEPT !.held = Tail(claimed.held)], Head(live.held))
<1>2. ends \in {live.ends, <<>>} BY DEF Claimable
<1>3. claimed = Claimed(ends) /\ claimed.held = live.held BY DEF Claimed
<1>4. early = HeldFull(ends) BY <1>3 DEF HeldFull
<1>5. /\ e <= Len(Script) /\ stopped' = e /\ written' = Max({written, e})
      /\ plan' = plan /\ agent' = agent /\ asks' = asks /\ offset' = offset
      /\ left' = left /\ resends' = resends /\ used' = used
  BY <1>1
<1>6. CASE ~Streamed BY <1>1, <1>6, <1>2, <1>5 DEF StopDoes, Becomes, St
<1>7. CASE Streamed
  <2>1. IF ends # <<>>
        THEN Becomes(Released(claimed, [Answer(e) EXCEPT !.end = Head(ends)]))
        ELSE IF full
        THEN Becomes(Released([early.live EXCEPT !.held = Append(early.live.held, Answer(e))],
                              early.answer))
        ELSE Becomes([St EXCEPT !.live =
                        [claimed EXCEPT !.held = Append(claimed.held, Answer(e))]])
    BY <1>1, <1>7
  <2>2. \E c, l : fate' = [fate EXCEPT !.early = c, !.lapsed = l] BY <1>1, <1>7 DEF Fated
  <2> HIDE DEF claimed, early, ends
  <2>3. StopDoes(e, ends) BY <1>3, <1>4, <1>7, <2>1, <2>2 DEF StopDoes, HeldIs
  <2>. QED BY <1>1, <1>2, <1>5, <2>3
<1>. QED BY <1>6, <1>7

LEMMA MaxTwo ==
  ASSUME NEW m \in Nat, NEW n \in Nat
  PROVE  Max({m, n}) \in {m, n} /\ m <= Max({m, n}) /\ n <= Max({m, n})
<1>1. PICK k \in Nat : m <= k /\ n <= k OBVIOUS
<1>2. {m, n} \in SUBSET (0 .. k) /\ {m, n} # {} BY <1>1
<1>. QED BY <1>1, <1>2, MaxIs

LEMMA StreamRecord ==
  ASSUME NEW L, NEW E, NEW t \in StreamIn(L, E), Becomes(t)
  PROVE  St' = t /\ live' = t.live
BY DEF StreamIn, Becomes, St
(* The stream after the states above.                                      *)
LEMMA StopBecomes ==
  ASSUME StreamInv, NEW e, NEW a, NEW t, StopWent(t, e, a), Becomes(t)
  PROVE  Good(St', Line, Ends, Came \cup {e}, Given, a, written) /\ live'.readAt = live.readAt
BY StreamRecord DEF StopWent, Good

LEMMA StopKeeps ==
  ASSUME StreamInv, Stop
  PROVE  StreamInv'
<1>1. PICK e, ends :
        /\ e = Min({x \in Ends \cup {Len(Script) + 1} : x > stopped})
        /\ ends \in {live.ends, <<>>} /\ e <= Len(Script)
        /\ stopped' = e /\ written' = Max({written, e}) /\ StopDoes(e, ends)
        /\ plan' = plan /\ agent' = agent /\ asks' = asks /\ offset' = offset
        /\ left' = left /\ resends' = resends /\ used' = used
  BY StopIs
<1> DEFINE a == left = "no"
<1>2. Good(St, Line, Ends, Came, Given, a, written) /\ Around BY DEF StreamInv
<1>3. /\ plan \in Plans /\ stopped \in 0 .. Len(Script) /\ written \in 0 .. Len(Script)
      /\ Len(Script) \in Nat /\ stopped \in Nat /\ stopped <= Len(Script) /\ written \in Nat
  BY Transcript DEF StreamInv, Around
<1>4. e \in Ends /\ e \notin Came /\ Came' = Came \cup {e} /\ e \in 0 .. Len(Script)
  BY <1>1, <1>3, CameNext
<1>5. written' \in 0 .. Len(Script) /\ written <= written' BY <1>3, <1>4, <1>1, MaxTwo
<1>6. /\ live \in LiveIn(Line, Ends) /\ IsFate(fate) /\ live.readAt \in Nat
      /\ live.held \in Seq(AnswerIn(Ends)) /\ out \in OutIn(Line)
      /\ topic \in Seq(Seq(Line \cup {0}))
  BY InvTypes
<1>7. ends \in Seq(Ends)
  <2>1. live.ends \in Seq(Ends) /\ <<>> \in Seq(Ends) BY <1>6 DEF LiveIn
  <2>. QED BY <1>1, <2>1
<1>8. /\ Good(St', Line, Ends, Came \cup {e}, Given', a, written)
      /\ live'.readAt = live.readAt /\ IsFate(fate')
  <2>1. CASE ~Streamed
    <3>1. /\ live' = IF left = "no" THEN CloseOpen(live) ELSE live
          /\ out' = out /\ topic' = topic
          /\ fate' = [fate EXCEPT !.apart = fate.apart \cup {e}]
      BY <1>1, <2>1 DEF StopDoes
    <3>2. Given' = Given \cup {e} /\ IsFate(fate') BY <1>6, <3>1 DEF Given, IsFate
    <3>3. Good(St', Line, Ends, Came, Given, a, written) /\ live'.readAt = live.readAt
      <4>1. CASE left = "no"
        <5>1. St' = [St EXCEPT !.live = CloseOpen(St.live)] /\ live' = CloseOpen(live)
          BY <3>1, <4>1 DEF St
        <5>2. live'.readAt = live.readAt BY <1>6, <5>1, CloseOpenIs DEF SameReads
        <5> HIDE DEF a
        <5>3. Good(St', Line, Ends, Came, Given, a, written) BY <1>2, <5>1, ClosedGood
        <5>. QED BY <5>2, <5>3
      <4>2. CASE left # "no" BY <3>1, <4>2, <1>2 DEF St
      <4>. QED BY <4>1, <4>2
    <3> DEFINE t == St'
               C == Came \cup {e}
               H == Given \cup {e}
    <3>4. Came \subseteq C /\ Given \subseteq H /\ C \subseteq Came \cup H OBVIOUS
    <3> HIDE DEF a, t, C, H
    <3>5. Good(t, Line, Ends, Came, Given, a, written) BY <3>3 DEF t
    <3>6. Good(t, Line, Ends, C, H, a, written) BY <3>4, <3>5, GoodMore
    <3>. QED BY <3>2, <3>3, <3>6 DEF t, C, H
  <2>2. CASE Streamed
    <3>1. /\ IF ends # <<>>
             THEN Becomes(Released(Claimed(ends), [Answer(e) EXCEPT !.end = Head(ends)]))
             ELSE IF Len(live.held) >= MaxHeld
             THEN Becomes(Released([HeldFull(ends).live EXCEPT
                                      !.held = Append(HeldFull(ends).live.held, Answer(e))],
                                   HeldFull(ends).answer))
             ELSE Becomes(HeldIs(ends, e))
          /\ \E c, l : fate' = [fate EXCEPT !.early = c, !.lapsed = l]
      BY <1>1, <2>2 DEF StopDoes
    <3>2. Given' = Given /\ IsFate(fate') BY <1>6, <3>1 DEF Given, IsFate
    <3>3. \E t : StopWent(t, e, a) /\ Becomes(t)
      <4> HIDE DEF a
      <4>1. /\ ends # <<>> => StopWent(ClaimedWent(ends, e), e, a)
            /\ live.held # <<>> => StopWent(FullWent(ends, e), e, a)
            /\ StopWent(HeldIs(ends, e), e, a)
        BY <1>2, <1>4, <1>7, StopHeld
      <4>2. CASE ends # <<>> BY <3>1, <4>2, <2>2, <4>1 DEF Released, ClaimedWent
      <4>3. CASE ends = <<>> /\ Len(live.held) >= MaxHeld
        BY <3>1, <4>3, <2>2, StreamAssumption, <4>1 DEF Released, FullWent
      <4>4. CASE ends = <<>> /\ ~(Len(live.held) >= MaxHeld) BY <3>1, <4>1, <4>4
      <4>. QED BY <4>2, <4>3, <4>4
    <3> HIDE DEF a
    <3>4. Good(St', Line, Ends, Came \cup {e}, Given, a, written) /\ live'.readAt = live.readAt
      BY <3>3, StopBecomes
    <3>. QED BY <3>2, <3>4
  <2>. QED BY <2>1, <2>2
<1>9. Around' BY <1>1, <1>2, <1>3, <1>4, <1>5, <1>6, <1>8, AroundMore
<1>10. Good(St', Line, Ends, Came \cup {e}, Given', a, written')
  <2> DEFINE t == St'
             H == Given'
             V == written'
             C == Came \cup {e}
  <2>1. Good(t, Line, Ends, C, H, a, written) /\ V \in Nat /\ written \in Nat /\ written <= V
    BY <1>3, <1>5, <1>8
  <2> HIDE DEF t, H, V, C, a
  <2>2. Good(t, Line, Ends, C, H, a, V) BY <2>1, GoodLater
  <2>. QED BY <2>2 DEF t, H, V, C
<1>11. Good(St', Line, Ends, Came', Given', left' = "no", written') BY <1>1, <1>4, <1>10
<1>. QED BY <1>1, <1>9, <1>11, InvThen
LEMMA HoldOverKeeps ==
  ASSUME StreamInv, HoldOver
  PROVE  StreamInv'
<1> DEFINE a == left = "no"
           h == Head(live.held)
           lt == [live EXCEPT !.held = Tail(live.held)]
           early == AnsweredEarly(lt, h)
           lw == early.live
           t == [St EXCEPT !.live = lw]
<1>1. /\ left = "no" /\ live.held # <<>> /\ (used' = used \/ Goes("hold"))
      /\ Becomes(Released(lw, early.answer))
      /\ \E c : fate' = [fate EXCEPT !.early = c, !.apart = fate.apart \cup Apart(early.answer)]
      /\ plan' = plan /\ written' = written /\ stopped' = stopped /\ agent' = agent
      /\ asks' = asks /\ offset' = offset /\ left' = left /\ resends' = resends
  <2>1. /\ left = "no" /\ live.held # <<>> /\ (used' = used \/ Goes("hold"))
        /\ Becomes(Released(lw, early.answer))
        /\ fate' = [Fated({early.answer.answer}) EXCEPT !.apart = @ \cup Apart(early.answer)]
        /\ plan' = plan /\ written' = written /\ stopped' = stopped /\ agent' = agent
        /\ asks' = asks /\ offset' = offset /\ left' = left /\ resends' = resends
    BY DEF HoldOver
  <2> HIDE DEF early
  <2>. QED BY <2>1 DEF Fated
<1>2. Good(St, Line, Ends, Came, Given, a, written) /\ Around BY DEF StreamInv
<1>3. /\ live \in LiveIn(Line, Ends) /\ IsFate(fate) /\ live.held \in Seq(AnswerIn(Ends))
      /\ asks \in Seq([from : Nat, len : Nat]) /\ Asked /\ used \in [Trouble -> Nat]
      /\ agent \in Nat /\ St.live = live
  BY InvTypes, StIs
<1>4. Distinct(live.held) /\ AnswersOf(live.held) \subseteq Came
  BY <1>2, <1>3, HeldInB DEF Good, HeldAnswers, AnswersOf
<1>5. /\ Tail(live.held) \in Seq(AnswerIn(Ends)) /\ Distinct(Tail(live.held))
      /\ h \in AnswerIn(Ends)
      /\ AnswersOf(Tail(live.held)) = AnswersOf(live.held) \ {h.answer}
      /\ h.answer \in AnswersOf(live.held)
  BY <1>1, <1>3, <1>4, HeldHead
<1> HIDE DEF h
<1>6. /\ lt \in LiveIn(Line, Ends) /\ SameWaiting(live, lt) /\ lt.held = Tail(live.held)
      /\ lt.readAt = live.readAt
  BY <1>3, <1>5 DEF LiveIn, SameWaiting
<1> HIDE DEF lt
<1>7. EarlyWent(lt, h, early, Line, Ends) BY <1>5, <1>6, EarlyIs
<1> DEFINE an == early.answer
<1>8. /\ lw \in LiveIn(Line, Ends) /\ SameWaiting(St.live, lw)
      /\ lw.held = Tail(live.held) /\ lw.readAt = live.readAt
      /\ an \in AnswerIn(Ends) /\ an.answer = h.answer
  BY <1>3, <1>6, <1>7 DEF EarlyWent, SameWaiting
<1> HIDE DEF early
<1>9. t.live = lw /\ t.out = out /\ t.topic = topic BY DEF St
<1> DEFINE H == AnswersOf(Tail(live.held))
           C == (Came \ AnswersOf(St.live.held)) \cup H
           x == h.answer
<1>10. /\ H = AnswersOf(lw.held) /\ Distinct(lw.held)
       /\ H \cap (Came \ AnswersOf(St.live.held)) = {}
       /\ an.answer \notin H /\ an.answer \notin C /\ C \cup {x} = Came /\ C \subseteq Came
       /\ C \cup {an.answer} = Came /\ Came \subseteq C \cup {x}
  BY <1>3, <1>4, <1>5, <1>8
<1>11. /\ Good(St', Line, Ends, Came, Given', a, written)
       /\ live'.readAt = live.readAt /\ IsFate(fate')
  <2>1. CASE Streamed
    <3> DEFINE p == AnswerGoes(t, an)
    <3>1. Becomes(p) /\ Given' = Given /\ IsFate(fate')
      BY <1>1, <1>3, <2>1 DEF Released, Given, IsFate, Apart
    <3>2. AnswerWent(t, p, an, Line, Ends, C, Given, a, written)
      <4> HIDE DEF H, lw, an, a
      <4>. QED BY <1>2, <1>8, <1>10, ReleaseIs DEF H
    <3> HIDE DEF p
    <3>3. p \in StreamIn(Line, Ends) /\ Good(p, Line, Ends, Came, Given, a, written)
          /\ p.live.readAt = t.live.readAt
      <4> HIDE DEF C, t
      <4>. QED BY <1>10, <3>2 DEF AnswerWent, SameReads
    <3>4. St' = p /\ live' = p.live BY <3>1, <3>3, StreamRecord
    <3>. QED BY <1>8, <1>9, <3>1, <3>3, <3>4
  <2>2. CASE ~Streamed
    <3> DEFINE p == [St EXCEPT !.live = CloseOpen(lw)]
    <3>1. Becomes(p) /\ Given' = Given \cup {x} /\ IsFate(fate')
      BY <1>1, <1>3, <1>8, <2>2 DEF Released, Given, IsFate, Apart
    <3>2. Good(t, Line, Ends, C, Given, a, written)
      <4>1. HeldAnswers(lw) = H /\ HeldAnswers(St.live) = AnswersOf(St.live.held)
        BY <1>10 DEF HeldAnswers, AnswersOf
      <4>2. HeldAnswers(lw) \cap (Came \ HeldAnswers(St.live)) = {} BY <1>10, <4>1
      <4> HIDE DEF H, lw, an, a
      <4>3. Good(t, Line, Ends, (Came \ HeldAnswers(St.live)) \cup HeldAnswers(lw),
                 Given, a, written)
        BY <1>2, <1>8, <1>10, <4>2, HeldGood
      <4>. QED BY <4>1, <4>3
    <3>3. p = [t EXCEPT !.live = CloseOpen(t.live)] BY <1>9 DEF St
    <3> HIDE DEF t, C, p
    <3>4. Good(p, Line, Ends, C, Given, a, written)
      <4> HIDE DEF a
      <4>. QED BY <3>2, <3>3, ClosedGood
    <3>5. p \in StreamIn(Line, Ends) /\ p.live = CloseOpen(lw) BY <3>4 DEF Good, p, St
    <3>6. St' = p /\ live' = p.live BY <3>1, <3>5, StreamRecord
    <3>7. live'.readAt = live.readAt BY <1>8, <3>5, <3>6, CloseOpenIs DEF SameReads
    <3> DEFINE K == Given \cup {x}
    <3>8. C \subseteq Came /\ Given \subseteq K /\ Came \subseteq C \cup K BY <1>10
    <3> HIDE DEF K, a
    <3>9. Good(p, Line, Ends, Came, K, a, written) BY <3>4, <3>8, GoodMore
    <3>. QED BY <3>1, <3>6, <3>7, <3>9 DEF K
  <2>. QED BY <2>1, <2>2
<1>12. used' \in [Trouble -> Nat] /\ Asked' BY <1>1, <1>3, GoesIs DEF Trouble, Asked
<1>13. Around' BY <1>1, <1>2, <1>3, <1>11, <1>12, AroundAfter
<1>14. Good(St', Line, Ends, Came', Given', left' = "no", written')
  BY <1>1, <1>11, CameSame
<1>. QED BY <1>1, <1>13, <1>14, InvThen

LEMMA LeaveKeeps ==
  ASSUME StreamInv, Leave
  PROVE  StreamInv'
<1> DEFINE a == left = "no"
           lw == [live EXCEPT !.reading = 0, !.held = <<>>]
           p == AnswersGo([St EXCEPT !.live = lw], live.held)
<1>1. /\ Goes("leave") /\ left' = "draining" /\ Becomes(p)
      /\ \E c : fate' = [fate EXCEPT !.early = c]
      /\ plan' = plan /\ written' = written /\ stopped' = stopped /\ agent' = agent
      /\ asks' = asks /\ offset' = offset /\ resends' = resends
  BY DEF Leave, Fated
<1>2. Good(St, Line, Ends, Came, Given, a, written) /\ Around BY DEF StreamInv
<1>3. /\ live \in LiveIn(Line, Ends) /\ IsFate(fate) /\ live.held \in Seq(AnswerIn(Ends))
      /\ asks \in Seq([from : Nat, len : Nat]) /\ Asked /\ used \in [Trouble -> Nat]
      /\ agent \in Nat /\ St.live = live
  BY InvTypes, StIs
<1>4. Distinct(live.held) BY <1>2, <1>3, HeldInB DEF Good, HeldAnswers, AnswersOf
<1>5. HeldParts(St.live.held, live.held, <<>>, Ends)
  BY <1>3, <1>4 DEF Distinct, AnswersOf, HeldParts
<1>6. /\ lw \in LiveIn(Line, Ends) /\ SameWaiting(St.live, lw) /\ lw.held = <<>>
      /\ lw.readAt = live.readAt
  <2>1. <<>> \in Seq(AnswerIn(Ends)) /\ 0 \in Nat OBVIOUS
  <2>. QED BY <1>3, <2>1 DEF LiveIn, SameWaiting
<1> HIDE DEF lw
<1>7. HeldWent(St, lw, p, live.held, Line, Ends, Came, Given, a, written)
  <2> HIDE DEF a
  <2>. QED BY <1>2, <1>5, <1>6, HeldGo
<1> HIDE DEF p
<1>8. /\ Good(p, Line, Ends, Came, Given, a, written) /\ p \in StreamIn(Line, Ends)
      /\ p.live.readAt = live.readAt
  BY <1>6, <1>7 DEF HeldWent, SameReads
<1>9. St' = p /\ live' = p.live BY <1>1, <1>8, StreamRecord
<1>10. Good(p, Line, Ends, Came, Given, FALSE, written)
  <2> HIDE DEF a
  <2>. QED BY <1>8, GoodMore
<1>11. Given' = Given /\ IsFate(fate') /\ Came' = Came
  BY <1>1, <1>3, CameSame DEF Given, IsFate
<1>12. used' \in [Trouble -> Nat] /\ Asked' BY <1>1, <1>3, GoesIs DEF Trouble, Asked
<1>13. Around' BY <1>1, <1>2, <1>8, <1>9, <1>3, <1>11, <1>12, SameScript DEF Around
<1>14. Good(St', Line, Ends, Came', Given', left' = "no", written')
  BY <1>1, <1>9, <1>10, <1>11
<1>. QED BY <1>1, <1>13, <1>14, InvThen
----------------------------------------------------------------------------
(* The answers of Telegram reach the stream.                               *)
(* The same answers are on their way, but for some that are in the topic.  *)
LEMMA KeptLike ==
  ASSUME NEW E, NEW B, NEW G, NEW s, Kept(s, E, B, G), NEW t,
         t.topic = s.topic, t.live.held = s.live.held,
         \A m \in Answering(t.live) : \E n \in Answering(s.live) :
           n.number = m.number /\ n.answer = m.answer /\ (Done(t, m) <=> Done(s, n)),
         \A n \in Answering(s.live) :
           \/ \E m \in Answering(t.live) : m.answer = n.answer
           \/ IsIn(s.topic, n.answer[1].answer) \/ n.answer[1].answer \in G
  PROVE  Kept(t, E, B, G)
<1> DEFINE held == s.live.held
<1>1. \A j, k \in DOMAIN held : held[j].answer = held[k].answer => j = k BY DEF Kept
<1>2. \A m, n \in Answering(t.live) :
        m.answer[1].answer = n.answer[1].answer => m.number = n.number
  BY DEF Kept
<1>3. \A m \in Answering(t.live) : \A k \in DOMAIN held : m.answer[1].answer # held[k].answer
  BY DEF Kept
<1>4. \A m \in Answering(t.live) :
        IF Done(t, m) THEN IsIn(s.topic, m.answer[1].answer) \/ m.answer[1].answer \in G
        ELSE ~IsIn(s.topic, m.answer[1].answer)
  <2>1. \A m \in Answering(s.live) :
          IF Done(s, m) THEN IsIn(s.topic, m.answer[1].answer) \/ m.answer[1].answer \in G
          ELSE ~IsIn(s.topic, m.answer[1].answer)
    BY DEF Kept
  <2>2. ASSUME NEW m \in Answering(t.live)
        PROVE  IF Done(t, m) THEN IsIn(s.topic, m.answer[1].answer) \/ m.answer[1].answer \in G
               ELSE ~IsIn(s.topic, m.answer[1].answer)
    <3>1. PICK n \in Answering(s.live) :
            n.number = m.number /\ n.answer = m.answer /\ (Done(t, m) <=> Done(s, n))
      OBVIOUS
    <3>2. IF Done(s, n) THEN IsIn(s.topic, n.answer[1].answer) \/ n.answer[1].answer \in G
          ELSE ~IsIn(s.topic, n.answer[1].answer)
      BY <2>1, <3>1
    <3>. QED BY <3>1, <3>2
  <2>. QED BY <2>2
<1>5. \A k \in DOMAIN held : held[k].answer \in B /\ ~IsIn(s.topic, held[k].answer)
  BY DEF Kept
<1>6. \A m \in Answering(t.live) : m.answer[1].answer \in B BY DEF Kept
<1>7. \A e \in E : IsIn(s.topic, e) => e \in B BY DEF Kept
<1>8. \A e \in E : \A j, k \in DOMAIN s.topic :
        e \in ToSet(s.topic[j]) /\ e \in ToSet(s.topic[k]) => j = k
  BY DEF Kept
<1>9. \A e \in B : \/ IsIn(s.topic, e) \/ e \in G
                   \/ \E k \in DOMAIN held : held[k].answer = e
                   \/ \E m \in Answering(t.live) : m.answer[1].answer = e
  BY DEF Kept
<1> HIDE DEF held
<1>10. t.live.held = held /\ t.topic = s.topic BY DEF held
<1>. QED BY <1>1, <1>2, <1>3, <1>4, <1>5, <1>6, <1>7, <1>8, <1>9, <1>10 DEF Kept

(* Answer `r` to message `entry` is taken, which is then `now`.            *)
ReplyTaken(s, t, r, entry, now) ==
  /\ t.topic = s.topic /\ t.out.queue = s.out.queue /\ t.out.done = s.out.done \ {r}
  /\ t.live.held = s.live.held /\ t.live.next = s.live.next
  /\ DOMAIN t.live.waiting = DOMAIN s.live.waiting
  /\ \A k \in DOMAIN s.live.waiting :
       /\ IsBarrier(t.live.waiting[k]) <=> IsBarrier(s.live.waiting[k])
       /\ t.live.waiting[k].number = s.live.waiting[k].number
       /\ IsBarrier(s.live.waiting[k]) => t.live.waiting[k].to = s.live.waiting[k].to
  /\ Messages(t.live) = (Messages(s.live) \ {entry}) \cup {now}
  /\ Opens(t.live) = {OpenedTo(o, r.number, r.key) : o \in Opens(s.live)}

NowIs(entry, now, r) ==
  /\ now.number = entry.number /\ now.answer = entry.answer /\ now.op = entry.op
  /\ now.absorb = entry.absorb
  /\ now.state = IF r.what \in {"sent", "merged", "skipped"} THEN "accepted" ELSE "refused"

LEMMA EntryIs ==
  ASSUME NEW L, NEW E, NEW B, NEW G, NEW a, NEW W, NEW s, Good(s, L, E, B, G, a, W),
         NEW r \in s.out.done
  PROVE  /\ r \in ReplyIn
         /\ \E m \in Messages(s.live) : m.number = r.number
         /\ \A m \in Messages(s.live) : m.number = r.number =>
              m.state = "waiting" /\ m \in MessageIn(L, E)
<1>1. s \in StreamIn(L, E) /\ Numbered(s.live) /\ Queued(s) BY DEF Good
<1>2. s.live \in LiveIn(L, E) /\ s.out.done \in SUBSET ReplyIn
      /\ Messages(s.live) \subseteq MessageIn(L, E)
  BY <1>1, InStreamType
<1>3. PICK m \in Messages(s.live) : m.state = "waiting" /\ m.number = r.number
  BY <1>1 DEF Queued
<1>4. \A n \in Messages(s.live) : n.number = r.number => n = m
  BY <1>1, <1>2, <1>3, SameMessage
<1>. QED BY <1>2, <1>3, <1>4

LEMMA AnsweredGood ==
  ASSUME NEW L, NEW E, NEW B, NEW G, NEW a, NEW W, NEW s, Good(s, L, E, B, G, a, W),
         NEW r \in s.out.done, NEW entry \in Messages(s.live), entry.number = r.number,
         NEW now, NowIs(entry, now, r), NEW t \in StreamIn(L, E), ReplyTaken(s, t, r, entry, now)
  PROVE  Good(t, L, E, B, G, a, W)
<1>1. /\ s \in StreamIn(L, E) /\ Numbered(s.live) /\ Queued(s) /\ Placed(s, E)
      /\ Kept(s, E, B, G) /\ (a => Above(s, E)) /\ Bounded(s.live, W)
      /\ E \subseteq L /\ 0 \notin E
  BY DEF Good
<1>2. /\ t.topic = s.topic /\ t.out.queue = s.out.queue /\ t.out.done = s.out.done \ {r}
      /\ t.live.held = s.live.held /\ t.live.next = s.live.next
      /\ DOMAIN t.live.waiting = DOMAIN s.live.waiting
      /\ \A k \in DOMAIN s.live.waiting :
           /\ IsBarrier(t.live.waiting[k]) <=> IsBarrier(s.live.waiting[k])
           /\ t.live.waiting[k].number = s.live.waiting[k].number
           /\ IsBarrier(s.live.waiting[k]) => t.live.waiting[k].to = s.live.waiting[k].to
      /\ Messages(t.live) = (Messages(s.live) \ {entry}) \cup {now}
      /\ Opens(t.live) = {OpenedTo(o, r.number, r.key) : o \in Opens(s.live)}
  BY DEF ReplyTaken
<1>3. /\ now.number = entry.number /\ now.answer = entry.answer /\ now.op = entry.op
      /\ now.absorb = entry.absorb
      /\ now.state = IF r.what \in {"sent", "merged", "skipped"} THEN "accepted" ELSE "refused"
  BY DEF NowIs
<1>4. r \in ReplyIn /\ entry.state = "waiting" BY EntryIs
<1>5. s.live \in LiveIn(L, E) /\ Messages(s.live) \subseteq MessageIn(L, E)
      /\ Opens(s.live) \subseteq OpenIn(L)
  BY <1>1, InStreamType
<1>6. \A m \in Messages(s.live) : m # entry => m.number # r.number
  BY <1>1, <1>5, SameMessage
<1>7. Numbered(t.live) BY <1>1, <1>2, <1>3 DEF Numbered
<1>8. Queued(t)
  <2> DEFINE q == s.out.queue
             done == s.out.done
  <2>1. /\ \A j, k \in DOMAIN q : j < k => q[j].number < q[k].number
        /\ IsFiniteSet(done)
        /\ \A x, y \in done : x.number = y.number => x = y
        /\ \A k \in DOMAIN q : \A x \in done : x.number # q[k].number
    BY <1>1 DEF Queued
  <2>2. \A k \in DOMAIN q : \E m \in Messages(s.live) : m.state = "waiting" /\ SameWrite(m.op, q[k])
    BY <1>1 DEF Queued
  <2>3. \A x \in done : \E m \in Messages(s.live) : m.state = "waiting" /\ m.number = x.number
    BY <1>1 DEF Queued
  <2>4. \A m \in Messages(s.live) : m.state = "waiting" =>
          (\E k \in DOMAIN q : q[k].number = m.number) \/ (\E x \in done : x.number = m.number)
    BY <1>1 DEF Queued
  <2>5. \A m \in Messages(s.live) : m.op.number = m.number BY <1>1 DEF Numbered
  <2>6. \A k \in DOMAIN q : \E m \in Messages(t.live) : m.state = "waiting" /\ SameWrite(m.op, q[k])
    <3>1. ASSUME NEW k \in DOMAIN q
          PROVE  \E m \in Messages(t.live) : m.state = "waiting" /\ SameWrite(m.op, q[k])
      <4>1. PICK m \in Messages(s.live) : m.state = "waiting" /\ SameWrite(m.op, q[k])
        BY <2>2
      <4>2. m.number = q[k].number BY <2>5, <4>1 DEF SameWrite
      <4>3. m # entry BY <2>1, <4>2
      <4>. QED BY <1>2, <4>1, <4>3
    <3>. QED BY <3>1
  <2>7. \A x \in done \ {r} : \E m \in Messages(t.live) : m.state = "waiting" /\ m.number = x.number
    <3>1. ASSUME NEW x \in done \ {r}
          PROVE  \E m \in Messages(t.live) : m.state = "waiting" /\ m.number = x.number
      <4>1. PICK m \in Messages(s.live) : m.state = "waiting" /\ m.number = x.number
        BY <2>3
      <4>2. m # entry BY <2>1, <4>1
      <4>. QED BY <1>2, <4>1, <4>2
    <3>. QED BY <3>1
  <2>8. \A m \in Messages(t.live) : m.state = "waiting" =>
          (\E k \in DOMAIN q : q[k].number = m.number)
            \/ (\E x \in done \ {r} : x.number = m.number)
    BY <1>3, <1>2, <1>6, <2>4
  <2>9. IsFiniteSet(done \ {r}) BY <2>1, FS_Subset
  <2> HIDE DEF q, done
  <2>10. t.out.queue = q /\ t.out.done = done \ {r} BY <1>2 DEF q, done
  <2>. QED BY <2>1, <2>6, <2>7, <2>8, <2>9, <2>10 DEF Queued
<1>9. \A m \in Messages(t.live) : PlacedMessage(m, t.topic, E)
  BY <1>1, <1>3, <1>2 DEF Placed, PlacedMessage
<1>10. ASSUME NEW o \in Opens(s.live)
       PROVE  LET n == OpenedTo(o, r.number, r.key)
              IN PlacedOpen(n, t, E) /\ (a => AboveOpen(n, t, E))
  <2> DEFINE n == OpenedTo(o, r.number, r.key)
  <2>1. PlacedOpen(o, s, E) /\ (a => AboveOpen(o, s, E)) BY <1>1 DEF Placed, Above
  <2>2. o \in OpenIn(L) /\ r.number \in Nat /\ r.key \in Nat /\ r.number # 0
    BY <1>4, <1>5 DEF ReplyIn
  <2>3. CASE o.key # 0 BY <2>3, <1>2, <2>1 DEF OpenedTo, PlacedOpen, AboveOpen, Lowest
  <2>4. CASE o.key = 0 /\ o.number # r.number
    <3>1. n = o BY <2>4 DEF OpenedTo
    <3>2. PlacedOpen(o, t, E)
      <4>1. ASSUME o.number # 0
            PROVE  \E m \in Messages(t.live) :
                     m.number = o.number /\ m.state = "waiting" /\ m.answer = <<>> /\ m.op.into = 0
        <5>1. PICK m \in Messages(s.live) :
                m.number = o.number /\ m.state = "waiting" /\ m.answer = <<>> /\ m.op.into = 0
          BY <2>1, <2>4, <4>1 DEF PlacedOpen
        <5>2. m # entry BY <2>4, <5>1
        <5>. QED BY <1>2, <5>1, <5>2
      <4>. QED BY <2>1, <2>4, <4>1 DEF PlacedOpen
    <3>3. a => AboveOpen(o, t, E) BY <1>2, <2>1, <2>4 DEF AboveOpen, Lowest
    <3>. QED BY <3>1, <3>2, <3>3
  <2>5. CASE o.key = 0 /\ o.number = r.number
    <3>1. PICK m \in Messages(s.live) :
            m.number = o.number /\ m.state = "waiting" /\ m.answer = <<>> /\ m.op.into = 0
      BY <2>1, <2>2, <2>5 DEF PlacedOpen
    <3>2. CASE r.key = 0 BY <2>5, <3>2, NoOpenPlaced DEF OpenedTo
    <3>3. CASE r.key # 0
      <4>1. n = [o EXCEPT !.key = r.key] BY <2>5, <3>3 DEF OpenedTo
      <4>2. n.key = r.key /\ n.number = o.number /\ n.text = o.text
        BY <2>2, <4>1 DEF OpenIn
      <4> HIDE DEF n
      <4>3. Free(s.topic, r.key, E) BY <1>1, <2>5, <3>1, <3>3 DEF Placed, PlacedReply
      <4>4. PlacedOpen(n, t, E) BY <1>2, <2>1, <3>3, <4>2, <4>3 DEF PlacedOpen
      <4>5. a => Lowest(r.key, s, E) BY <2>1, <2>2, <2>5, <3>3 DEF AboveOpen
      <4>6. a => AboveOpen(n, t, E) BY <1>2, <3>3, <4>2, <4>5 DEF AboveOpen, Lowest
      <4>. QED BY <4>4, <4>6 DEF n
    <3>. QED BY <3>2, <3>3
  <2>. QED BY <2>3, <2>4, <2>5
<1>11. \A o \in Opens(t.live) : PlacedOpen(o, t, E) /\ (a => AboveOpen(o, t, E))
  BY <1>2, <1>10
<1>12. \A x \in t.out.done : PlacedReply(x, t, E)
  BY <1>1, <1>2, <1>3 DEF Placed, PlacedReply
<1>13. Placed(t, E) BY <1>9, <1>11, <1>12 DEF Placed
<1>14. a => Above(t, E) BY <1>11 DEF Above
<1>15. Kept(t, E, B, G)
  <2>1. ASSUME NEW m, m.number # r.number PROVE Done(t, m) <=> Done(s, m)
    BY <1>2, <2>1 DEF Done
  <2>2. \A m \in Messages(t.live) : Done(t, m) =>
          \E x \in s.out.done : x # r /\ x.number = m.number
    BY <1>2 DEF Done
  <2>3. \A x \in s.out.done : x.number = r.number => x = r BY <1>1 DEF Queued
  <2>4. ASSUME NEW m \in Answering(t.live)
        PROVE  \E n \in Answering(s.live) :
                 n.number = m.number /\ n.answer = m.answer /\ (Done(t, m) <=> Done(s, n))
    BY <1>3, <1>4, <2>3, <2>2, <1>2, <1>6, <2>1 DEF Answering, Done
  <2>5. ASSUME NEW n \in Answering(s.live)
        PROVE  \/ \E m \in Answering(t.live) : m.answer = n.answer
               \/ IsIn(s.topic, n.answer[1].answer) \/ n.answer[1].answer \in G
    <3>1. n \in Messages(s.live) /\ n.state # "accepted" /\ n.answer # <<>>
      BY DEF Answering
    <3>2. CASE n = entry BY <1>1, <3>2, <1>2, <1>3, <3>1 DEF Done, Kept, Answering
    <3>3. CASE n # entry BY <1>2, <3>1, <3>3 DEF Answering
    <3>. QED BY <3>2, <3>3
  <2>. QED BY <1>1, <1>2, <2>4, <2>5, KeptLike
<1>16. Bounded(t.live, W) BY <1>1, <1>2 DEF Bounded
<1>. QED BY <1>1, <1>7, <1>8, <1>13, <1>14, <1>15, <1>16 DEF Good
(* The message numbered `number` is answered.                              *)
Stated(lv, number, state) ==
  LET w == lv.waiting
  IN [lv EXCEPT !.waiting = [k \in DOMAIN w |-> IF w[k].number # number THEN w[k]
                                               ELSE [w[k] EXCEPT !.state = state]]]

StatedSet(lv, lw, entry, now, L, E) ==
  /\ lw \in LiveIn(L, E) /\ SameReads(lv, lw) /\ lw.next = lv.next
  /\ lw.open = lv.open /\ lw.committed = lv.committed
  /\ DOMAIN lw.waiting = DOMAIN lv.waiting
  /\ \A k \in DOMAIN lv.waiting :
       /\ IsBarrier(lw.waiting[k]) <=> IsBarrier(lv.waiting[k])
       /\ lw.waiting[k].number = lv.waiting[k].number
       /\ IsBarrier(lv.waiting[k]) => lw.waiting[k] = lv.waiting[k]
  /\ Messages(lw) = (Messages(lv) \ {entry}) \cup {now}
  /\ Opens(lw) = Opens(lv)

LEMMA StatedIs ==
  ASSUME NEW L, NEW E, NEW lv \in LiveIn(L, E), Numbered(lv), NEW entry \in Messages(lv),
         NEW state \in {"waiting", "accepted", "refused"}
  PROVE  StatedSet(lv, Stated(lv, entry.number, state), entry, [entry EXCEPT !.state = state], L, E)
<1> DEFINE w == lv.waiting
           v == [k \in DOMAIN w |-> IF w[k].number # entry.number THEN w[k]
                                    ELSE [w[k] EXCEPT !.state = state]]
           lw == [lv EXCEPT !.waiting = v]
           now == [entry EXCEPT !.state = state]
<1>1. Stated(lv, entry.number, state) = lw BY DEF Stated
<1>2. w \in WaitingIn(L, E) /\ Len(w) \in Nat /\ DOMAIN w = 1 .. Len(w)
  BY DEF LiveIn, WaitingIn
<1>3. Messages(lv) \subseteq MessageIn(L, E)
      /\ Messages(lv) = {w[k] : k \in {j \in DOMAIN w : ~IsBarrier(w[j])}}
  BY <1>2, MessageOf
<1>4. entry \in MessageIn(L, E) /\ entry.number \in Nat \ {0} BY <1>3 DEF MessageIn
<1>5. now \in MessageIn(L, E) /\ now.number = entry.number /\ ~IsBarrier(now)
  BY <1>4 DEF MessageIn, IsBarrier
<1>6. ASSUME NEW k \in DOMAIN w
      PROVE  /\ w[k].number = entry.number => w[k] = entry /\ ~IsBarrier(w[k])
             /\ w[k] = entry => w[k].number = entry.number
             /\ w[k] \in MessageIn(L, E) \cup BarrierIn(L)
  BY <1>4, <1>3, SameMessage, <1>2, WaitingType DEF IsBarrier
<1>7. DOMAIN v = DOMAIN w /\ v = [k \in 1 .. Len(w) |-> v[k]] BY <1>2
<1>8. \A k \in DOMAIN w : v[k] = IF w[k].number = entry.number THEN now ELSE w[k] BY <1>6
<1> HIDE DEF v, now
<1>9. v \in WaitingIn(L, E)
  <2>1. \A k \in 1 .. Len(w) : v[k] \in MessageIn(L, E) \cup BarrierIn(L)
    BY <1>2, <1>5, <1>6, <1>8
  <2>. QED BY <1>2, <1>7, <2>1, IsSeqOf DEF WaitingIn
<1>10. /\ lw \in LiveIn(L, E) /\ SameReads(lv, lw) /\ lw.next = lv.next /\ lw.open = lv.open
       /\ lw.committed = lv.committed /\ lw.waiting = v
  BY <1>9 DEF LiveIn, SameReads, SameRest
<1> HIDE DEF lw
<1>11. \A k \in DOMAIN w : /\ IsBarrier(v[k]) <=> IsBarrier(w[k])
                           /\ v[k].number = w[k].number
                           /\ IsBarrier(w[k]) => v[k] = w[k]
  BY <1>5, <1>6, <1>8 DEF IsBarrier
<1>12. Messages(lw) = {v[k] : k \in {j \in DOMAIN v : ~IsBarrier(v[j])}}
  BY <1>9, <1>10, MessageOf
<1>13. Messages(lw) = (Messages(lv) \ {entry}) \cup {now}
  <2>1. ASSUME NEW m \in Messages(lw) PROVE m \in (Messages(lv) \ {entry}) \cup {now}
    <3>1. PICK k \in DOMAIN w : m = v[k] /\ ~IsBarrier(w[k]) BY <1>7, <1>11, <1>12
    <3>2. w[k] \in Messages(lv) BY <1>3, <3>1
    <3>. QED BY <1>6, <1>8, <3>1, <3>2
  <2>2. ASSUME NEW m \in Messages(lv), m # entry PROVE m \in Messages(lw)
    <3>1. PICK k \in DOMAIN w : m = w[k] /\ ~IsBarrier(w[k]) BY <1>3
    <3>2. v[k] = w[k] /\ ~IsBarrier(v[k]) BY <1>6, <1>8, <1>11, <2>2, <3>1
    <3>. QED BY <1>7, <1>12, <3>1, <3>2
  <2>3. now \in Messages(lw)
    <3>1. PICK k \in DOMAIN w : entry = w[k] /\ ~IsBarrier(w[k]) BY <1>3
    <3>2. v[k] = now /\ ~IsBarrier(v[k]) BY <1>8, <1>11, <3>1
    <3>. QED BY <1>7, <1>12, <3>2
  <2>. QED BY <2>1, <2>2, <2>3
<1>14. Opens(lw) = Opens(lv)
  <2>1. {j \in DOMAIN v : IsBarrier(v[j])} = {j \in DOMAIN w : IsBarrier(w[j])}
    BY <1>7, <1>11
  <2>2. {v[k].open : k \in {j \in DOMAIN v : IsBarrier(v[j])}}
          = {w[k].open : k \in {j \in DOMAIN w : IsBarrier(w[j])}}
    BY <1>11, <2>1
  <2>. QED BY <1>10, <2>2 DEF Opens
<1> HIDE DEF w
<1>15. DOMAIN lw.waiting = DOMAIN lv.waiting
       /\ \A k \in DOMAIN lv.waiting :
            /\ IsBarrier(lw.waiting[k]) <=> IsBarrier(lv.waiting[k])
            /\ lw.waiting[k].number = lv.waiting[k].number
            /\ IsBarrier(lv.waiting[k]) => lw.waiting[k] = lv.waiting[k]
  BY <1>7, <1>10, <1>11 DEF w
<1>. QED BY <1>1, <1>10, <1>13, <1>14, <1>15 DEF StatedSet, now

(* The stream that takes answer `r`.                                       *)
Noted(lv, r, entry) ==
  LET answered == Stated(lv, r.number, IF r.what \in {"sent", "merged", "skipped"}
                                       THEN "accepted" ELSE "refused")
  IN IF entry.op.into = 0 THEN Opened(answered, r.number, r.key) ELSE answered

NotedWent(s, t, L, E, B, G, a, W) ==
  /\ Good(t, L, E, B, G, a, W) /\ t \in StreamIn(L, E) /\ t.live.readAt = s.live.readAt
  /\ Opens(t.live) \subseteq OpenIn(L)

LEMMA NotedGood ==
  ASSUME NEW L, NEW E, NEW B, NEW G, NEW a, NEW W, NEW s, Good(s, L, E, B, G, a, W),
         NEW r \in s.out.done, NEW entry \in Messages(s.live), entry.number = r.number,
         NEW t, t = [s EXCEPT !.live = Noted(s.live, r, entry),
                              !.out = [s.out EXCEPT !.done = s.out.done \ {r}]]
  PROVE  NotedWent(s, t, L, E, B, G, a, W)
<1> DEFINE state == IF r.what \in {"sent", "merged", "skipped"} THEN "accepted" ELSE "refused"
           now == [entry EXCEPT !.state = state]
           answered == Stated(s.live, r.number, state)
           lw == Noted(s.live, r, entry)
<1>1. s \in StreamIn(L, E) /\ Numbered(s.live) /\ Placed(s, E) BY DEF Good
<1>2. /\ s.live \in LiveIn(L, E) /\ s.out \in OutIn(L) /\ s.topic \in Seq(Seq(L \cup {0}))
      /\ Opens(s.live) \subseteq OpenIn(L)
  BY <1>1, InStreamType
<1>3. r \in ReplyIn /\ entry \in MessageIn(L, E) /\ r.number \in Nat \ {0} /\ r.key \in Nat
  BY EntryIs DEF ReplyIn
<1>4. NowIs(entry, now, r) BY <1>3 DEF NowIs, MessageIn
<1>5. state \in {"waiting", "accepted", "refused"} OBVIOUS
<1>6. lw = IF entry.op.into = 0 THEN Opened(answered, r.number, r.key) ELSE answered
  BY DEF Noted
<1> HIDE DEF state
<1>7. StatedSet(s.live, answered, entry, now, L, E) BY <1>1, <1>2, <1>5, StatedIs
<1> HIDE DEF now, answered, lw
<1>8. /\ answered \in LiveIn(L, E) /\ answered.held = s.live.held /\ answered.next = s.live.next
      /\ answered.readAt = s.live.readAt
      /\ DOMAIN answered.waiting = DOMAIN s.live.waiting
      /\ \A k \in DOMAIN s.live.waiting :
           /\ IsBarrier(answered.waiting[k]) <=> IsBarrier(s.live.waiting[k])
           /\ answered.waiting[k].number = s.live.waiting[k].number
           /\ IsBarrier(s.live.waiting[k]) => answered.waiting[k] = s.live.waiting[k]
      /\ Messages(answered) = (Messages(s.live) \ {entry}) \cup {now}
      /\ Opens(answered) = Opens(s.live)
  BY <1>7 DEF StatedSet, SameReads, SameRest
<1>9. /\ lw \in LiveIn(L, E) /\ lw.held = s.live.held /\ lw.next = s.live.next
      /\ lw.readAt = s.live.readAt
      /\ DOMAIN lw.waiting = DOMAIN s.live.waiting
      /\ \A k \in DOMAIN s.live.waiting :
           /\ IsBarrier(lw.waiting[k]) <=> IsBarrier(s.live.waiting[k])
           /\ lw.waiting[k].number = s.live.waiting[k].number
           /\ IsBarrier(s.live.waiting[k]) => lw.waiting[k].to = s.live.waiting[k].to
      /\ Messages(lw) = (Messages(s.live) \ {entry}) \cup {now}
      /\ Opens(lw) = {OpenedTo(o, r.number, r.key) : o \in Opens(s.live)}
  <2>1. CASE entry.op.into = 0
    <3>1. lw = Opened(answered, r.number, r.key) BY <1>6, <2>1
    <3>2. OpenedSet(answered, lw, r.number, r.key, L, E) BY <1>3, <1>8, <3>1, OpenedIs
    <3>3. /\ lw \in LiveIn(L, E) /\ lw.held = answered.held /\ lw.next = answered.next
          /\ lw.readAt = answered.readAt /\ DOMAIN lw.waiting = DOMAIN answered.waiting
          /\ \A k \in DOMAIN answered.waiting :
               /\ IsBarrier(lw.waiting[k]) <=> IsBarrier(answered.waiting[k])
               /\ ~IsBarrier(answered.waiting[k]) => lw.waiting[k] = answered.waiting[k]
               /\ IsBarrier(answered.waiting[k]) => lw.waiting[k].to = answered.waiting[k].to
          /\ Messages(lw) = Messages(answered)
          /\ Opens(lw) = {OpenedTo(o, r.number, r.key) : o \in Opens(answered)}
      BY <3>2 DEF OpenedSet, SameReads, SameRest
    <3>4. \A k \in DOMAIN s.live.waiting :
            /\ IsBarrier(lw.waiting[k]) <=> IsBarrier(s.live.waiting[k])
            /\ lw.waiting[k].number = s.live.waiting[k].number
            /\ IsBarrier(s.live.waiting[k]) => lw.waiting[k].to = s.live.waiting[k].to
      <4>1. ASSUME NEW k \in DOMAIN s.live.waiting
            PROVE  /\ IsBarrier(lw.waiting[k]) <=> IsBarrier(s.live.waiting[k])
                   /\ lw.waiting[k].number = s.live.waiting[k].number
                   /\ IsBarrier(s.live.waiting[k]) => lw.waiting[k].to = s.live.waiting[k].to
        BY <1>8, <3>3 DEF IsBarrier
      <4>. QED BY <4>1
    <3>. QED BY <1>8, <3>3, <3>4
  <2>2. CASE entry.op.into # 0
    <3>1. lw = answered BY <1>6, <2>2
    <3>2. ASSUME NEW o \in Opens(s.live) PROVE OpenedTo(o, r.number, r.key) = o
      <4>1. ~(o.key = 0 /\ o.number = r.number)
        <5>1. SUFFICES ASSUME o.key = 0, o.number = r.number PROVE FALSE
          OBVIOUS
        <5>2. PlacedOpen(o, s, E) BY <1>1 DEF Placed
        <5>3. PICK m \in Messages(s.live) : m.number = o.number /\ m.op.into = 0
          BY <1>3, <5>1, <5>2 DEF PlacedOpen
        <5>4. m = entry BY <1>1, <1>2, <5>1, <5>3, SameMessage
        <5>. QED BY <2>2, <5>3, <5>4
      <4>. QED BY <4>1 DEF OpenedTo
    <3>3. {OpenedTo(o, r.number, r.key) : o \in Opens(s.live)} = Opens(s.live) BY <3>2
    <3>. QED BY <1>8, <3>1, <3>3
  <2>. QED BY <2>1, <2>2
<1>10. /\ t.live = lw /\ t.topic = s.topic /\ t.out = [s.out EXCEPT !.done = s.out.done \ {r}]
       /\ t = [live |-> t.live, out |-> t.out, topic |-> t.topic]
  BY <1>1 DEF StreamIn, lw
<1>11. /\ t.out.queue = s.out.queue /\ t.out.done = s.out.done \ {r} /\ t.out \in OutIn(L)
  BY <1>2, <1>10 DEF OutIn
<1>12. t \in StreamIn(L, E) BY <1>2, <1>9, <1>10, <1>11 DEF StreamIn
<1>13. ReplyTaken(s, t, r, entry, now) BY <1>9, <1>10, <1>11 DEF ReplyTaken
<1>14. Good(t, L, E, B, G, a, W) BY <1>4, <1>12, <1>13, AnsweredGood
<1>15. Opens(t.live) \subseteq OpenIn(L) BY <1>9, <1>10, OpensType
<1>. QED BY <1>9, <1>10, <1>12, <1>14, <1>15 DEF NotedWent
(* The stream moves on.                                                    *)
LEMMA MovedGood ==
  ASSUME NEW B, NEW G, NEW a, NEW W, NEW t, Good(t, Line, Ends, B, G, a, W), Moved(t.live),
         out' = t.out, topic' = t.topic, offset \in PlaceIn(W)
  PROVE  /\ Good(St', Line, Ends, B, G, a, W)
         /\ offset' \in PlaceIn(W) /\ live'.readAt = t.live.readAt
<1>1. t \in StreamIn(Line, Ends) /\ Bounded(t.live, W) BY DEF Good
<1>2. t.live \in LiveIn(Line, Ends) /\ t = [live |-> t.live, out |-> t.out, topic |-> t.topic]
  BY <1>1 DEF StreamIn
<1>3. live' = Advanced(t.live) /\ offset' = Committed(t.live) BY DEF Moved
<1>4. offset' \in PlaceIn(W) BY <1>1, <1>2, <1>3, CommittedIs
<1>5. St' = [t EXCEPT !.live = Advanced(t.live)] BY <1>2, <1>3 DEF St
<1>6. Good(St', Line, Ends, B, G, a, W) /\ live'.readAt = t.live.readAt
  BY <1>3, <1>5, AdvancedGood
<1>. QED BY <1>4, <1>6

LEMMA OnStreamSentGood ==
  ASSUME StreamInv, NEW r \in out.done, OnStreamSent(r)
  PROVE  /\ Good(St', Line, Ends, Came, Given, left = "no", written)
         /\ offset' \in PlaceIn(written) /\ live'.readAt = live.readAt
<1> DEFINE a == left = "no"
           entry == CHOOSE m \in Messages(live) : m.number = r.number
           accepted == r.what \in {"sent", "merged", "skipped"}
           o == [out EXCEPT !.done = out.done \ {r}]
           t1 == [St EXCEPT !.live = Noted(live, r, entry), !.out = o]
           closed == IF r.what = "gone" THEN CloseOpen(t1.live) ELSE t1.live
           t2 == [t1 EXCEPT !.live = closed]
           stuck == Stuck(closed) /\ ~live.rewind
           lw == IF stuck THEN [closed EXCEPT !.rewind = TRUE, !.reading = 0] ELSE closed
           t3 == [t2 EXCEPT !.live = lw]
           t4 == [t3 EXCEPT !.topic = topic']
<1>1. /\ Good(St, Line, Ends, Came, Given, a, written) /\ offset \in PlaceIn(written)
      /\ Ends \subseteq Line /\ 0 \notin Ends
  BY DEF StreamInv, Around, Good
<1>2. St.live = live /\ St.out = out /\ St.topic = topic BY StIs
<1> USE <1>2
<1>3. entry \in Messages(live) /\ entry.number = r.number /\ r \in St.out.done
  BY <1>1, EntryIs
<1>4. /\ t1.live = Noted(live, r, entry) /\ t1.out = o /\ t1.topic = topic
      /\ t1 = [St EXCEPT !.live = Noted(St.live, r, entry),
                         !.out = [St.out EXCEPT !.done = St.out.done \ {r}]]
  BY DEF St
<1>5. /\ Moved(lw) /\ out' = o
      /\ topic' = IF entry.absorb /\ ~accepted THEN [topic EXCEPT ![entry.op.into] = Gone]
                  ELSE topic
  <2> DEFINE w == live.waiting
             answered == [live EXCEPT !.waiting = [k \in DOMAIN w |->
                            IF w[k].number # r.number THEN w[k]
                            ELSE [w[k] EXCEPT !.state = IF accepted THEN "accepted" ELSE "refused"]]]
             opened == IF entry.op.into = 0 THEN Opened(answered, r.number, r.key) ELSE answered
             closing == IF r.what = "gone" THEN CloseOpen(opened) ELSE opened
             last == Stuck(closing) /\ ~live.rewind
  <2>1. /\ Moved(IF last THEN [closing EXCEPT !.rewind = TRUE, !.reading = 0] ELSE closing)
        /\ out' = o
        /\ topic' = IF entry.absorb /\ ~accepted THEN [topic EXCEPT ![entry.op.into] = Gone]
                    ELSE topic
    BY DEF OnStreamSent
  <2>2. Noted(live, r, entry) = opened BY DEF Noted, Stated
  <2>3. t1.live = Noted(live, r, entry) BY <1>4
  <2> HIDE DEF opened, t1, entry
  <2>4. closed = closing BY <2>2, <2>3
  <2>. QED BY <2>1, <2>4
<1>6. \A m \in Messages(live) : PlacedMessage(m, topic, Ends) BY <1>1 DEF Good, Placed
<1> HIDE DEF a, o
<1>7. NotedWent(St, t1, Line, Ends, Came, Given, a, written)
  <2> HIDE DEF entry, t1
  <2>. QED BY <1>1, <1>3, <1>4, NotedGood
<1>8. Good(t1, Line, Ends, Came, Given, a, written) /\ t1.live.readAt = live.readAt
  BY <1>7 DEF NotedWent
<1> HIDE DEF t1
<1>9. Good(t2, Line, Ends, Came, Given, a, written) /\ t2.live = closed /\ t2.out = o
      /\ t2.topic = topic /\ t2.live.readAt = live.readAt
  <2>1. t1 \in StreamIn(Line, Ends) /\ t1.live \in LiveIn(Line, Ends)
    BY <1>8, InStreamType DEF Good
  <2>2. t2.live = closed /\ t2.out = o /\ t2.topic = topic BY <1>4, <2>1 DEF StreamIn
  <2>3. CASE r.what = "gone"
    BY <2>3, <2>1, CloseOpenIs, <1>8, ClosedGood, <2>2 DEF SameReads
  <2>4. CASE r.what # "gone" BY <2>1, <2>4, <1>8, <2>2 DEF StreamIn
  <2>. QED BY <2>3, <2>4
<1> HIDE DEF t2, closed
<1>10. t2 \in StreamIn(Line, Ends) /\ closed \in LiveIn(Line, Ends)
  BY <1>9, InStreamType DEF Good
<1>11. /\ lw \in LiveIn(Line, Ends) /\ SameWaiting(closed, lw) /\ lw.held = closed.held
       /\ lw.readAt = closed.readAt
  BY <1>10 DEF LiveIn, SameWaiting
<1> HIDE DEF lw, stuck
<1>12. Good(t3, Line, Ends, Came, Given, a, written) /\ t3.live = lw /\ t3.out = o
       /\ t3.topic = topic /\ t3.live.readAt = live.readAt
  BY <1>9, <1>11, QuietGood
<1> HIDE DEF t3
<1>13. t3 \in StreamIn(Line, Ends) /\ topic \in Seq(Seq(Line \cup {0}))
  BY <1>12, InStreamType, ZenonT(40) DEF Good
<1>14. t4.live = lw /\ t4.out = o /\ t4.topic = topic' BY <1>12, <1>13 DEF StreamIn
<1>15. Good(t4, Line, Ends, Came, Given, a, written)
  <2> DEFINE into == entry.op.into
  <2>1. CASE entry.absorb /\ ~accepted /\ into \in DOMAIN topic
    <3>1. topic' = [topic EXCEPT ![into] = Gone] BY <1>5, <2>1
    <3>2. NoEnds(topic[into], Ends) BY <1>13, <2>1, <1>3, <1>6 DEF PlacedMessage, Free
    <3>3. NoEnds(Gone, Ends) BY <1>1 DEF NoEnds, Gone, ToSet
    <3> HIDE DEF into, entry
    <3>4. Gone \in Seq(Line \cup {0}) BY DEF Gone
    <3>5. topic' \in Seq(Seq(Line \cup {0})) BY <1>13, <2>1, <3>1, <3>4
    <3>6. t4 \in StreamIn(Line, Ends) BY <1>13, <3>5 DEF StreamIn
    <3>7. DOMAIN topic' = DOMAIN topic /\ topic'[into] = Gone
          /\ \A m \in DOMAIN topic : m # into => topic'[m] = topic[m]
      BY <2>1, <3>1
    <3> HIDE DEF t4
    <3>8. /\ \A m \in DOMAIN t3.topic :
               /\ m \in DOMAIN t4.topic
               /\ t4.topic[m] = t3.topic[m]
                    \/ (NoEnds(t3.topic[m], Ends) /\ NoEnds(t4.topic[m], Ends))
          /\ \A m \in DOMAIN t4.topic : m \in DOMAIN t3.topic \/ NoEnds(t4.topic[m], Ends)
          /\ t4.live = t3.live /\ t4.out = t3.out
      BY <1>12, <1>14, <3>2, <3>3, <3>7
    <3>9. Came \subseteq Ends BY DEF Came
    <3>. QED BY <1>12, <3>6, <3>8, <3>9, TopicEdited
  <2>2. CASE ~(entry.absorb /\ ~accepted /\ into \in DOMAIN topic)
    <3>1. topic' = topic BY <1>5, <1>13, <2>2
    <3>2. t4 = t3 BY <1>12, <1>13, <3>1 DEF StreamIn
    <3>. QED BY <1>12, <3>2
  <2>. QED BY <2>1, <2>2
<1> HIDE DEF t4, entry
<1>16. /\ Good(St', Line, Ends, Came, Given, a, written) /\ offset' \in PlaceIn(written)
       /\ live'.readAt = t4.live.readAt
  BY <1>5, <1>14, <1>1, <1>15, MovedGood
<1>. QED BY <1>12, <1>14, <1>16 DEF a

LEMMA ResultsKeep ==
  ASSUME StreamInv, Results
  PROVE  StreamInv'
<1>1. PICK r \in out.done : OnStreamSent(r) BY DEF Results
<1>2. /\ \E c : fate' = [fate EXCEPT !.early = c]
      /\ plan' = plan /\ written' = written /\ stopped' = stopped /\ agent' = agent
      /\ asks' = asks /\ left' = left /\ resends' = resends /\ used' = used
  BY <1>1 DEF OnStreamSent, Fated
<1>3. /\ Good(St', Line, Ends, Came, Given, left = "no", written)
      /\ offset' \in PlaceIn(written) /\ live'.readAt = live.readAt
  BY <1>1, OnStreamSentGood
<1>4. Given' = Given /\ IsFate(fate') /\ Came' = Came
  BY <1>2, InvTypes, CameSame DEF Given, IsFate
<1>5. Asked' BY <1>2, InvTypes DEF Asked
<1>6. Around' BY <1>2, <1>3, <1>4, <1>5, SameScript DEF StreamInv, Around
<1>7. Good(St', Line, Ends, Came', Given', left' = "no", written') BY <1>2, <1>3, <1>4
<1>. QED BY <1>2, <1>6, <1>7, InvThen
----------------------------------------------------------------------------
(* A read is answered.                                                     *)
(* Nothing waits: what Telegram did not take was all refused.              *)
LEMMA StuckIs ==
  ASSUME NEW L, NEW E, NEW B, NEW G, NEW a, NEW W, NEW s, Good(s, L, E, B, G, a, W), Stuck(s.live)
  PROVE  /\ \A m \in Messages(s.live) : m.state # "waiting"
         /\ s.out.queue = <<>> /\ s.out.done = {}
<1>1. s \in StreamIn(L, E) /\ Queued(s) BY DEF Good
<1>2. /\ s.out.queue \in Seq(OpIn(L)) /\ s.live.waiting \in WaitingIn(L, E)
      /\ Messages(s.live) = {s.live.waiting[k] :
                               k \in {j \in DOMAIN s.live.waiting : ~IsBarrier(s.live.waiting[j])}}
      /\ Len(s.live.waiting) \in Nat /\ DOMAIN s.live.waiting = 1 .. Len(s.live.waiting)
  <2>1. s.live \in LiveIn(L, E) /\ s.out.queue \in Seq(OpIn(L)) BY <1>1, InStreamType
  <2>2. s.live.waiting \in WaitingIn(L, E) BY <1>1, InStreamType
  <2>3. Messages(s.live) = {s.live.waiting[k] :
                              k \in {j \in DOMAIN s.live.waiting : ~IsBarrier(s.live.waiting[j])}}
    BY <2>2, MessageOf
  <2>4. Len(s.live.waiting) \in Nat /\ DOMAIN s.live.waiting = 1 .. Len(s.live.waiting)
    BY <2>2 DEF WaitingIn
  <2>. QED BY <2>1, <2>2, <2>3, <2>4
<1>3. {m \in Messages(s.live) : m.state = "waiting"} = {}
  <2> DEFINE M == {m \in Messages(s.live) : m.state = "waiting"}
  <2>1. Cardinality(M) = 0 BY DEF Stuck, Unanswered
  <2>2. IsFiniteSet(M)
    <3> DEFINE D == {j \in DOMAIN s.live.waiting : ~IsBarrier(s.live.waiting[j])}
               f == [k \in D |-> s.live.waiting[k]]
    <3>1. IsFiniteSet(1 .. Len(s.live.waiting)) BY <1>2, FS_Interval
    <3>2. IsFiniteSet(D) BY <1>2, <3>1, FS_Subset
    <3>3. f \in Surjection(D, Messages(s.live)) BY <1>2 DEF Surjection
    <3>4. IsFiniteSet(Messages(s.live)) BY <3>2, <3>3, FS_Surjection
    <3>. QED BY <3>4, FS_Subset
  <2>. QED BY <2>1, <2>2, FS_EmptySet
<1>4. \A m \in Messages(s.live) : m.state # "waiting" BY <1>3
<1>5. s.out.done = {} BY <1>1, <1>4 DEF Queued
<1>6. s.out.queue = <<>>
  <2>1. DOMAIN s.out.queue = {} BY <1>1, <1>4 DEF Queued
  <2> DEFINE O == OpIn(L)
  <2>2. s.out.queue \in Seq(O) BY <1>2
  <2> HIDE DEF O
  <2>3. Len(s.out.queue) \in Nat /\ DOMAIN s.out.queue = 1 .. Len(s.out.queue) BY <2>2
  <2> DEFINE n == Len(s.out.queue)
  <2>5. n \in Nat /\ 1 \notin 1 .. n BY <2>1, <2>3
  <2> HIDE DEF n
  <2>6. n = 0 BY <2>5
  <2>4. Len(s.out.queue) = 0 BY <2>6 DEF n
  <2>. QED BY <2>2, <2>4, EmptySeq
<1>. QED BY <1>4, <1>5, <1>6

(* What a rewind holds: the answers that were on their way, and the rest.  *)
Again(lv) ==
  LET again == Answers(lv)
  IN [k \in DOMAIN again |-> [again[k] EXCEPT !.gone = FALSE]] \o lv.held

LEMMA AgainIs ==
  ASSUME NEW L, NEW E, NEW B, NEW G, NEW a, NEW W, NEW s, Good(s, L, E, B, G, a, W)
  PROVE  /\ Again(s.live) \in Seq(AnswerIn(E)) /\ Distinct(Again(s.live))
         /\ AnswersOf(Again(s.live)) =
              {m.answer[1].answer : m \in Answering(s.live)} \cup AnswersOf(s.live.held)
<1> DEFINE again == Answers(s.live)
           held == s.live.held
           free == [k \in DOMAIN again |-> [again[k] EXCEPT !.gone = FALSE]]
           all == free \o held
           S == AnswerIn(E)
<1>1. AnswersAre(s.live, again, E) BY AnswersIs
<1>2. s \in StreamIn(L, E) /\ Kept(s, E, B, G) BY DEF Good
<1>3. held \in Seq(S) /\ Len(held) \in Nat /\ DOMAIN held = 1 .. Len(held)
  BY <1>2, InStreamType
<1>4. Again(s.live) = all BY DEF Again
<1>5. again \in Seq(S) /\ Distinct(again) /\ ToSet(again) = {m.answer[1] : m \in Answering(s.live)}
  BY <1>1 DEF AnswersAre
<1>6. \A m \in Answering(s.live) : \A k \in DOMAIN held : m.answer[1].answer # held[k].answer
  BY <1>2 DEF Kept
<1>7. Distinct(held) BY <1>2 DEF Kept, Distinct
<1> HIDE DEF again, held
<1>8. Len(again) \in Nat /\ DOMAIN again = 1 .. Len(again) /\ \A k \in DOMAIN again : again[k] \in S
  BY <1>5
<1>9. \A k \in DOMAIN again : free[k] \in S /\ free[k].answer = again[k].answer
  BY <1>8 DEF AnswerIn
<1>10. DOMAIN free = DOMAIN again /\ free = [k \in 1 .. Len(again) |-> free[k]] BY <1>8
<1> HIDE DEF free, S
<1>11. free \in Seq(S) /\ Len(free) = Len(again) BY <1>8, <1>9, <1>10, IsSeqOf
<1>12. /\ all \in Seq(S) /\ Len(all) = Len(again) + Len(held)
       /\ DOMAIN all = 1 .. Len(again) + Len(held)
       /\ \A k \in 1 .. Len(again) : all[k] = free[k]
       /\ \A k \in 1 .. Len(held) : all[Len(again) + k] = held[k]
  BY <1>3, <1>8, <1>11
<1> HIDE DEF all
<1>13. \A k \in DOMAIN all : (k \in DOMAIN again /\ all[k].answer = again[k].answer)
          \/ (k - Len(again) \in DOMAIN held /\ all[k] = held[k - Len(again)])
  BY <1>3, <1>8, <1>12, <1>9
<1>14. \A k \in DOMAIN again : \E m \in Answering(s.live) : m.answer[1] = again[k]
  BY <1>5 DEF ToSet
<1>15. \A m \in Answering(s.live) : \E k \in DOMAIN again : m.answer[1] = again[k]
  BY <1>5 DEF ToSet
<1>16. \A j \in DOMAIN again : \A k \in DOMAIN held : again[j].answer # held[k].answer
  BY <1>6, <1>14 DEF held
<1>17. Distinct(all)
  <2>1. ASSUME NEW j \in DOMAIN all, NEW k \in DOMAIN all, all[j].answer = all[k].answer
        PROVE  j = k
    <3>1. CASE j \in DOMAIN again /\ all[j].answer = again[j].answer
               /\ k \in DOMAIN again /\ all[k].answer = again[k].answer
      BY <1>5, <2>1, <3>1 DEF Distinct
    <3>2. CASE j - Len(again) \in DOMAIN held /\ all[j] = held[j - Len(again)]
               /\ k - Len(again) \in DOMAIN held /\ all[k] = held[k - Len(again)]
      BY <1>7, <2>1, <3>2, <1>3, <1>8, <1>12 DEF Distinct
    <3>. QED BY <1>13, <1>16, <2>1, <3>1, <3>2
  <2>. QED BY <2>1 DEF Distinct
<1>18. AnswersOf(all) = {m.answer[1].answer : m \in Answering(s.live)} \cup AnswersOf(held)
  <2>1. ASSUME NEW x \in AnswersOf(all)
        PROVE  x \in {m.answer[1].answer : m \in Answering(s.live)} \cup AnswersOf(held)
    <3>1. PICK k \in DOMAIN all : x = all[k].answer BY DEF AnswersOf
    <3>. QED BY <1>13, <1>14, <3>1 DEF AnswersOf
  <2>2. ASSUME NEW m \in Answering(s.live) PROVE m.answer[1].answer \in AnswersOf(all)
    <3>1. PICK k \in DOMAIN again : m.answer[1] = again[k] BY <1>15
    <3>2. k \in DOMAIN all /\ all[k].answer = again[k].answer BY <1>3, <1>8, <1>9, <1>12
    <3>. QED BY <3>1, <3>2 DEF AnswersOf
  <2>3. ASSUME NEW x \in AnswersOf(held) PROVE x \in AnswersOf(all)
    <3>1. PICK k \in DOMAIN held : x = held[k].answer BY DEF AnswersOf
    <3>2. Len(again) + k \in DOMAIN all /\ all[Len(again) + k] = held[k]
      BY <1>3, <1>8, <1>12
    <3>. QED BY <3>1, <3>2 DEF AnswersOf
  <2>. QED BY <2>1, <2>2, <2>3
<1>. QED BY <1>4, <1>12, <1>17, <1>18 DEF S, held

(* The stream is read again from the offset.                               *)
RewoundSet(lv, lw, L, E) ==
  /\ lw \in LiveIn(L, E) /\ lw.waiting = <<>> /\ lw.held = Again(lv)
  /\ lw.open = lv.committed /\ lw.committed = lv.committed /\ lw.readAt = offset.to

LEMMA RewoundIs ==
  ASSUME NEW L, NEW E, NEW B, NEW G, NEW a, NEW W, NEW s, Good(s, L, E, B, G, a, W),
         offset \in [to : Nat, call : BOOLEAN]
  PROVE  RewoundSet(s.live, Rewound(s.live), L, E)
<1> DEFINE lv == s.live
           again == Answers(lv)
           owed == {x.answer : x \in {y \in ToSet(again) : y.gone}}
           inTopic == {e \in UNION {{x.end : x \in ToSet(m.answer)} :
                                      m \in {y \in Messages(lv) : y.state = "accepted"}} :
                         e > offset.to}
           unpaired == {k \in DOMAIN lv.unpaired : lv.unpaired[k] \notin owed}
           ends == EndsBefore(lv)
           answered == ({e \in lv.answeredEnds : e > offset.to} \cup inTopic)
                         \ {x.end : x \in ToSet(again)}
           kept == Picked(lv.unpaired, unpaired)
           lapsing == lv.lapsing /\ ends # <<>>
<1>1. s \in StreamIn(L, E) BY DEF Good
<1>2. lv \in LiveIn(L, E) /\ Messages(lv) \subseteq MessageIn(L, E) BY <1>1, InStreamType
<1>3. NewLive(offset) \in LiveIn(L, E) /\ NewLive(offset).readAt = offset.to
      /\ NewLive(offset).waiting = <<>>
  BY NewLiveIs
<1>4. Again(lv) \in Seq(AnswerIn(E)) BY AgainIs
<1>5. lv.unpaired \in Seq(E) /\ lv.ends \in Seq(E) /\ lv.answeredEnds \in SUBSET E
      /\ lv.committed \in OpenIn(L) /\ lv.lapsing \in BOOLEAN
  BY <1>2 DEF LiveIn
<1>6. kept \in Seq(E) BY <1>5, PickedIs
<1>7. ends \in Seq(E) BY <1>5, PickedIs DEF EndsBefore
<1>8. \A e \in inTopic : e \in E
  <2>1. ASSUME NEW m \in Messages(lv), NEW x \in ToSet(m.answer), x.end > offset.to
        PROVE  x.end \in E
    <3>1. m.answer \in Seq(AnswerIn(E)) BY <1>2 DEF MessageIn
    <3> DEFINE S == AnswerIn(E)
    <3>2. m.answer \in Seq(S) BY <3>1
    <3> HIDE DEF S
    <3>3. x \in S BY <3>2 DEF ToSet
    <3>4. x.end \in E \cup {0} BY <3>3 DEF S, AnswerIn
    <3>5. x.end # 0 BY <2>1
    <3>. QED BY <3>4, <3>5
  <2>. QED BY <2>1
<1>9. answered \in SUBSET E BY <1>5, <1>8
<1>10. lapsing \in BOOLEAN OBVIOUS
<1>11. Rewound(lv) = [NewLive(offset) EXCEPT
          !.open = lv.committed, !.committed = lv.committed, !.held = Again(lv),
          !.answeredEnds = answered, !.unpaired = kept, !.ends = ends, !.lapsing = lapsing]
  BY DEF Rewound, Again
<1> HIDE DEF answered, kept, ends, lapsing, lv
<1>. QED
  BY <1>3, <1>4, <1>5, <1>6, <1>7, <1>9, <1>10, <1>11, ZenonT(40) DEF RewoundSet, LiveIn, lv

(* A rewind: nothing else was on its way.                                  *)
RewoundWent(s, t, L, E, B, G, a, W) ==
  /\ Good(t, L, E, B, G, a, W) /\ t \in StreamIn(L, E)
  /\ t.live.readAt = offset.to /\ t.out.queue = <<>>

LEMMA RewoundGood ==
  ASSUME NEW L, NEW E, NEW B, NEW G, NEW a, NEW W, NEW s, Good(s, L, E, B, G, a, W),
         Stuck(s.live), offset \in [to : Nat, call : BOOLEAN],
         NEW t, t = [s EXCEPT !.live = Rewound(s.live)]
  PROVE  RewoundWent(s, t, L, E, B, G, a, W)
<1> DEFINE lw == Rewound(s.live)
<1>1. s \in StreamIn(L, E) /\ Kept(s, E, B, G) /\ E \subseteq L /\ 0 \notin E BY DEF Good
<1>2. RewoundSet(s.live, lw, L, E) BY RewoundIs
<1>3. /\ Again(s.live) \in Seq(AnswerIn(E)) /\ Distinct(Again(s.live))
      /\ AnswersOf(Again(s.live)) =
           {m.answer[1].answer : m \in Answering(s.live)} \cup AnswersOf(s.live.held)
  BY AgainIs
<1>4. /\ \A m \in Messages(s.live) : m.state # "waiting"
      /\ s.out.queue = <<>> /\ s.out.done = {}
  BY StuckIs
<1> HIDE DEF lw
<1>5. t.live = lw /\ t.out = s.out /\ t.topic = s.topic /\ t \in StreamIn(L, E)
  BY <1>1, <1>2 DEF StreamIn, RewoundSet, lw
<1>6. t.live.waiting = <<>> /\ t.live.held = Again(s.live) /\ t.live.readAt = offset.to
      /\ Opens(t.live) = {s.live.committed}
  BY <1>2, <1>5 DEF RewoundSet, Opens
<1>7. \A o \in Opens(t.live) : PlacedOpen(o, t, E) /\ (a => AboveOpen(o, t, E))
  <2> DEFINE o == s.live.committed
  <2>1. o \in Opens(s.live) BY DEF Opens
  <2>2. PlacedOpen(o, s, E) /\ (a => AboveOpen(o, s, E)) BY <2>1, OpensPlaced
  <2> HIDE DEF o
  <2>3. PlacedOpen(o, t, E) BY <1>4, <1>5, <2>2 DEF PlacedOpen
  <2>4. AboveOpen(o, s, E) => AboveOpen(o, t, E) BY <1>5 DEF AboveOpen, Lowest
  <2>. QED BY <1>6, <2>2, <2>3, <2>4 DEF o
<1>8. HeldAnswers(t.live) =
        {m.answer[1].answer : m \in Answering(s.live)} \cup AnswersOf(s.live.held)
  BY <1>3, <1>6 DEF HeldAnswers, AnswersOf
<1>9. \A m \in Answering(s.live) : ~Done(s, m) BY <1>4 DEF Done
<1>10. \A e \in HeldAnswers(t.live) : e \in B /\ ~IsIn(t.topic, e)
  BY <1>1, <1>9, <1>5, <1>8 DEF Kept, AnswersOf
<1>11. \A e \in E : IsIn(t.topic, e) => e \in B BY <1>1, <1>5 DEF Kept
<1>12. \A e \in E : \A j, k \in DOMAIN t.topic :
         e \in ToSet(t.topic[j]) /\ e \in ToSet(t.topic[k]) => j = k
  BY <1>1, <1>5 DEF Kept
<1>13. \A e \in B : IsIn(t.topic, e) \/ e \in G \/ e \in HeldAnswers(t.live)
  BY <1>1, <1>5, <1>8 DEF Kept, AnswersOf
<1>14. Distinct(t.live.held) BY <1>3, <1>6
<1>15. HeldAnswers(t.live) \subseteq B /\ \A e \in HeldAnswers(t.live) : ~IsIn(t.topic, e)
  BY <1>10
<1>16. t.out.queue = <<>> /\ t.out.done = {} BY <1>4, <1>5
<1>17. Good(t, L, E, B, G, a, W)
  BY <1>1, <1>5, <1>6, <1>7, <1>11, <1>12, <1>13, <1>14, <1>15, <1>16, EmptyGood
<1>. QED BY <1>5, <1>6, <1>16, <1>17 DEF RewoundWent

(* What a read's answer leaves around the stream.                          *)
ChunkAround(to) ==
  /\ plan' = plan /\ stopped' = stopped /\ agent' = agent /\ left' = left /\ resends' = resends
  /\ used' = used /\ IsFate(fate') /\ Given' = Given /\ Came' = Came
  /\ asks' \in Seq([from : Nat, len : Nat]) /\ Asked'
  /\ written' \in 0 .. Len(Script) /\ written' \in Nat /\ written \in Nat
  /\ written <= written' /\ to <= written'
  /\ Head(asks).from \in Nat /\ Head(asks).from <= to /\ to \in Nat

LEMMA OnChunkAround ==
  ASSUME StreamInv, NEW to \in 0 .. Len(Script), NEW more \in BOOLEAN, NEW status \in BOOLEAN,
         OnChunk(to, more, status)
  PROVE  ChunkAround(to)
<1> DEFINE R == [from : Nat, len : Nat]
           n == to + IF more THEN 1 ELSE 0
<1>1. /\ \E c : fate' = [fate EXCEPT !.early = c]
      /\ plan' = plan /\ stopped' = stopped /\ agent' = agent /\ left' = left
      /\ resends' = resends /\ used' = used /\ asks' = Tail(asks) /\ asks # <<>>
      /\ written' = Max({written, n})
      /\ IF more THEN Head(asks).from < to /\ to < Len(Script) ELSE Head(asks).len <= to
  BY DEF OnChunk, Fated
<1>2. /\ plan \in Plans /\ written \in 0 .. Len(Script) /\ Len(Script) \in Nat
      /\ asks \in Seq(R) /\ Asked /\ IsFate(fate)
  BY Transcript DEF StreamInv, Around
<1> HIDE DEF R
<1>3. /\ Head(asks) \in R /\ 1 \in DOMAIN asks /\ Head(asks) = asks[1]
      /\ Tail(asks) \in Seq(R) /\ DOMAIN Tail(asks) = 1 .. Len(asks) - 1 /\ Len(asks) \in Nat
      /\ DOMAIN asks = 1 .. Len(asks)
      /\ \A j \in 1 .. Len(asks) - 1 : Tail(asks)[j] = asks[j + 1]
  BY <1>1, <1>2, HeadTailProperties, SeqDef
<1>4. Head(asks).from \in Nat /\ Head(asks).len \in Nat /\ Head(asks).from <= Head(asks).len
      /\ Head(asks).len <= written
  BY <1>2, <1>3 DEF R, Asked
<1>5. n \in Nat /\ to <= n /\ n <= Len(Script) /\ to \in Nat BY <1>1, <1>2
<1> HIDE DEF n
<1>6. /\ written' \in {written, n} /\ written <= written' /\ n <= written'
  BY <1>1, <1>2, <1>5, MaxTwo
<1>7. written' \in 0 .. Len(Script) /\ written' \in Nat /\ written \in Nat /\ to <= written'
  BY <1>2, <1>5, <1>6
<1>8. Head(asks).from <= to BY <1>1, <1>4, <1>5
<1>9. Asked'
  <2>1. ASSUME NEW k \in DOMAIN Tail(asks)
        PROVE  Tail(asks)[k].from <= Tail(asks)[k].len /\ Tail(asks)[k].len <= written'
    <3>1. k + 1 \in DOMAIN asks /\ Tail(asks)[k] = asks[k + 1] /\ asks[k + 1] \in R
      BY <1>2, <1>3
    <3>2. asks[k + 1].len \in Nat /\ asks[k + 1].len <= written
          /\ asks[k + 1].from <= asks[k + 1].len
      BY <1>2, <3>1 DEF R, Asked
    <3>. QED BY <1>6, <1>7, <3>1, <3>2
  <2>. QED BY <1>1, <2>1 DEF Asked
<1>10. IsFate(fate') /\ Given' = Given BY <1>1, <1>2 DEF IsFate, Given
<1>11. Came' = Came BY <1>1, CameSame
<1>12. asks' \in Seq([from : Nat, len : Nat]) BY <1>1, <1>3 DEF R
<1>. QED BY <1>1, <1>4, <1>5, <1>6, <1>7, <1>8, <1>9, <1>10, <1>11, <1>12 DEF ChunkAround

(* The stream that takes a read, after a rewind if it waits for one.       *)
Reading == IF live.rewind THEN Rewound(live) ELSE [live EXCEPT !.reading = 0]

LEMMA ReadingGood ==
  ASSUME StreamInv, live.rewind => Stuck(live), NEW a, a = (left = "no"),
         NEW t, t = [St EXCEPT !.live = Reading]
  PROVE  /\ Good(t, Line, Ends, Came, Given, a, written) /\ t \in StreamIn(Line, Ends)
         /\ t.live = Reading /\ t.out = out /\ t.topic = topic
         /\ Reading.readAt \in Nat /\ Reading.readAt <= written
         /\ live.rewind => out.queue = <<>>
<1>1. Good(St, Line, Ends, Came, Given, a, written) /\ offset \in PlaceIn(written)
      /\ live.readAt <= written
  BY DEF StreamInv, Around
<1>2. live \in LiveIn(Line, Ends) /\ live.readAt \in Nat /\ offset.to \in Nat
      /\ offset \in [to : Nat, call : BOOLEAN] /\ St \in StreamIn(Line, Ends)
      /\ offset.to <= written
  BY <1>1, InvTypes DEF PlaceIn
<1>3. St.live = live /\ St.out = out /\ St.topic = topic BY StIs
<1>4. CASE live.rewind
  BY <1>3, <1>4, <1>1, <1>2, RewoundGood DEF Reading, St, RewoundWent
<1>5. CASE ~live.rewind
  <2>1. Reading = [live EXCEPT !.reading = 0] BY <1>5 DEF Reading
  <2>2. Reading \in LiveIn(Line, Ends) /\ SameWaiting(live, Reading) /\ Reading.held = live.held
        /\ Reading.readAt = live.readAt
    BY <1>2, <2>1 DEF LiveIn, SameWaiting
  <2> HIDE DEF Reading
  <2>3. /\ Good(t, Line, Ends, Came, Given, a, written)
        /\ t \in StreamIn(Line, Ends) /\ t.live = Reading /\ t.topic = topic /\ t.out = out
    BY <1>1, <1>3, <2>2, QuietGood
  <2>. QED BY <1>1, <1>2, <1>5, <2>2, <2>3
<1>. QED BY <1>4, <1>5

(* What stands before the status message shows no answer on its way.       *)
LEMMA StatusIs ==
  ASSUME StreamInv, Absorbable
  PROVE  NoneQueued(St, Ends)
<1> DEFINE a == left = "no"
<1>1. Good(St, Line, Ends, Came, Given, a, written) BY DEF StreamInv
<1> HIDE DEF a
<1>2. ASSUME NEW k \in DOMAIN St.out.queue
      PROVE  NoEnds(St.out.queue[k].text, Ends)
  BY <1>1, QueuedIs, StIs, QueueText DEF QueuedMessage, Absorbable, SameWrite
<1>. QED BY <1>2 DEF NoneQueued

(* The stream after the answer.                                            *)
ChunkWent(a) ==
  /\ Good(St', Line, Ends, Came, Given, a, written')
  /\ offset' \in PlaceIn(written') /\ live'.readAt <= written'

LEMMA ChunkLines ==
  ASSUME StreamInv, NEW to \in 0 .. Len(Script), NEW more \in BOOLEAN, NEW status \in BOOLEAN,
         ChunkAround(to), NEW a, a = (left = "no"), live.rewind => Stuck(live),
         Reading.readAt = Head(asks).from, status => Absorbable,
         NEW st, st = LinesTaken(Reading, Head(asks).from, to, more, status),
         Moved(st.live), out' = st.out, topic' = st.topic
  PROVE  ChunkWent(a)
<1> DEFINE t == [St EXCEPT !.live = Reading]
           from == Head(asks).from
           W == written'
<1>1. /\ Good(t, Line, Ends, Came, Given, a, written) /\ t \in StreamIn(Line, Ends)
      /\ t.live = Reading /\ t.out = out /\ t.topic = topic
      /\ live.rewind => out.queue = <<>>
  BY ReadingGood
<1>2. t = [live |-> Reading, out |-> out, topic |-> topic] BY <1>1 DEF StreamIn
<1>3. W \in Nat /\ written \in Nat /\ written <= W /\ from \in Nat /\ to \in Nat /\ from <= to
      /\ to <= W
  BY DEF ChunkAround
<1>4. AreLines(from + 1 .. to, Line, Ends)
  <2>1. plan \in Plans BY InvTypes
  <2>2. AreLines(Line, Line, Ends) /\ Line = 1 .. Len(Script) /\ Len(Script) \in Nat
    BY <2>1, Transcript
  <2>3. from + 1 .. to \subseteq Line BY <1>3, <2>2
  <2>. QED BY <2>2, <2>3 DEF AreLines
<1>5. status => NoneQueued(t, Ends) BY <1>1, StatusIs, StIs DEF NoneQueued
<1> HIDE DEF t, from, W, Reading
<1>6. Good(t, Line, Ends, Came, Given, a, W) BY <1>1, <1>3, GoodLater
<1>7. LinesWent(st, to, Line, Ends, Came, Given, a, W)
  BY <1>2, <1>3, <1>4, <1>5, <1>6, LinesTakenGood DEF from
<1>8. Good(st, Line, Ends, Came, Given, a, W) /\ st.live.readAt \in 0 .. to
  BY <1>7 DEF LinesWent
<1>9. offset \in PlaceIn(W) BY <1>3 DEF StreamInv, Around, PlaceIn
<1>10. Good(St', Line, Ends, Came, Given, a, W) /\ offset' \in PlaceIn(W)
       /\ live'.readAt = st.live.readAt
  BY <1>8, <1>9, MovedGood
<1>11. live'.readAt <= W BY <1>3, <1>8, <1>10
<1>. QED BY <1>10, <1>11 DEF ChunkWent, W

LEMMA OnChunkGood ==
  ASSUME StreamInv, NEW to \in 0 .. Len(Script), NEW more \in BOOLEAN, NEW status \in BOOLEAN,
         OnChunk(to, more, status), NEW a, a = (left = "no")
  PROVE  ChunkWent(a)
<1>1. ChunkAround(to) BY OnChunkAround
<1>2. \/ live' = live /\ offset' = offset /\ out' = out /\ topic' = topic
      \/ /\ live.rewind /\ live' = [live EXCEPT !.reading = 0]
         /\ offset' = offset /\ out' = out /\ topic' = topic
      \/ /\ live.rewind => Stuck(live)
         /\ live' = Reading /\ offset' = offset /\ out' = out /\ topic' = topic
      \/ /\ live.rewind => Stuck(live)
         /\ Reading.readAt = Head(asks).from /\ (status => Absorbable)
         /\ \E st : /\ st = LinesTaken(Reading, Head(asks).from, to, more, status)
                    /\ Moved(st.live) /\ out' = st.out /\ topic' = st.topic
  BY DEF OnChunk, Reading
<1>3. Good(St, Line, Ends, Came, Given, a, written) /\ offset \in PlaceIn(written)
      /\ live.readAt <= written
  BY DEF StreamInv, Around
<1>4. /\ live \in LiveIn(Line, Ends) /\ live.readAt \in Nat /\ written \in Nat /\ written' \in Nat
      /\ written <= written'
  BY <1>1, InvTypes DEF ChunkAround
<1>5. offset \in PlaceIn(written') BY <1>3, <1>4 DEF PlaceIn
<1>6. ASSUME offset' = offset, live'.readAt <= written, live'.readAt \in Nat,
             Good(St', Line, Ends, Came, Given, a, written)
      PROVE  ChunkWent(a)
  <2> DEFINE t == St'
             W == written'
  <2>1. Good(t, Line, Ends, Came, Given, a, written) /\ W \in Nat /\ written <= W
    BY <1>4, <1>6
  <2> HIDE DEF t, W
  <2>2. Good(t, Line, Ends, Came, Given, a, W) BY <1>4, <2>1, GoodLater
  <2>3. live'.readAt <= written' BY <1>4, <1>6
  <2>. QED BY <1>5, <1>6, <2>2, <2>3 DEF ChunkWent, t, W
<1>7. CASE live' = live /\ offset' = offset /\ out' = out /\ topic' = topic
  BY <1>7, <1>3, <1>4, <1>6 DEF St
<1>8. CASE /\ live.rewind /\ live' = [live EXCEPT !.reading = 0]
           /\ offset' = offset /\ out' = out /\ topic' = topic
  <2> DEFINE lw == [live EXCEPT !.reading = 0]
  <2>1. /\ lw \in LiveIn(Line, Ends) /\ SameWaiting(live, lw) /\ lw.held = live.held
        /\ lw.readAt = live.readAt
    BY <1>4 DEF LiveIn, SameWaiting
  <2>2. St' = [St EXCEPT !.live = lw] /\ live' = lw BY <1>8 DEF St
  <2> HIDE DEF lw
  <2>3. Good(St', Line, Ends, Came, Given, a, written)
    BY <1>3, <2>1, <2>2, StIs, QuietGood
  <2>. QED BY <1>3, <1>4, <1>6, <1>8, <2>1, <2>2, <2>3
<1>9. CASE /\ live.rewind => Stuck(live)
           /\ live' = Reading /\ offset' = offset /\ out' = out /\ topic' = topic
  <2> DEFINE t == [St EXCEPT !.live = Reading]
  <2>1. Good(t, Line, Ends, Came, Given, a, written)
        /\ Reading.readAt \in Nat /\ Reading.readAt <= written
    BY <1>9, ReadingGood
  <2>2. St' = t BY <1>9 DEF St
  <2> HIDE DEF t
  <2>. QED BY <1>6, <1>9, <2>1, <2>2
<1>10. CASE /\ live.rewind => Stuck(live)
            /\ Reading.readAt = Head(asks).from /\ (status => Absorbable)
            /\ \E st : /\ st = LinesTaken(Reading, Head(asks).from, to, more, status)
                       /\ Moved(st.live) /\ out' = st.out /\ topic' = st.topic
  BY <1>1, <1>10, ChunkLines
<1>. QED BY <1>2, <1>7, <1>8, <1>9, <1>10

LEMMA ChunkKeeps ==
  ASSUME StreamInv, Chunk
  PROVE  StreamInv'
<1>1. PICK to \in 0 .. Len(Script), more \in BOOLEAN, status \in BOOLEAN :
        OnChunk(to, more, status)
  BY DEF Chunk
<1> DEFINE a == left = "no"
<1>2. ChunkAround(to) BY <1>1, OnChunkAround
<1>3. ChunkWent(a) BY <1>1, OnChunkGood
<1>4. Around' BY <1>2, <1>3, SameScript DEF Around, ChunkAround, ChunkWent, StreamInv
<1>5. Good(St', Line, Ends, Came', Given', left' = "no", written')
  BY <1>2, <1>3 DEF ChunkAround, ChunkWent
<1>6. plan' = plan BY <1>2 DEF ChunkAround
<1>. QED BY <1>4, <1>5, <1>6, InvThen
----------------------------------------------------------------------------
(* A session that left its slot sends again what was refused.              *)

(* What a refused write becomes before it goes again.                      *)
FoldedEntry(w, k, x) ==
  \/ x = w[k]
  \/ /\ ~IsBarrier(w[k]) /\ w[k].state = "refused" /\ w[k].op.into # 0
     /\ x = [w[k] EXCEPT !.state = "accepted"]
  \/ /\ ~IsBarrier(w[k]) /\ w[k].state = "refused" /\ w[k].op.into # 0
     /\ \E j \in DOMAIN w :
          /\ ~IsBarrier(w[j]) /\ w[j].op.into # 0
          /\ x = [w[k] EXCEPT !.absorb = FALSE,
                              !.op = [w[k].op EXCEPT !.into = 0, !.text = w[j].op.text]]

FoldedSet(lv, lw, L, E) ==
  /\ lw \in LiveIn(L, E) /\ lw = [lv EXCEPT !.waiting = lw.waiting]
  /\ DOMAIN lw.waiting = DOMAIN lv.waiting
  /\ \A k \in DOMAIN lv.waiting :
       /\ FoldedEntry(lv.waiting, k, lw.waiting[k])
       /\ IsBarrier(lw.waiting[k]) <=> IsBarrier(lv.waiting[k])

LEMMA FoldedType ==
  ASSUME NEW L, NEW E, NEW w \in WaitingIn(L, E), NEW k \in DOMAIN w, NEW x, FoldedEntry(w, k, x)
  PROVE  /\ x \in MessageIn(L, E) \cup BarrierIn(L)
         /\ IsBarrier(x) <=> IsBarrier(w[k])
         /\ x.number = w[k].number
<1>1. /\ IsBarrier(w[k]) => w[k] \in BarrierIn(L)
      /\ ~IsBarrier(w[k]) => w[k] \in MessageIn(L, E)
  BY WaitingType
<1>2. CASE x = w[k] BY <1>1, <1>2
<1>3. CASE ~IsBarrier(w[k]) /\ x = [w[k] EXCEPT !.state = "accepted"]
  BY <1>1, <1>3 DEF MessageIn, IsBarrier
<1>4. CASE ~IsBarrier(w[k]) /\ \E j \in DOMAIN w :
             /\ ~IsBarrier(w[j]) /\ w[j].op.into # 0
             /\ x = [w[k] EXCEPT !.absorb = FALSE,
                                 !.op = [w[k].op EXCEPT !.into = 0, !.text = w[j].op.text]]
  <2>1. PICK j \in DOMAIN w :
          /\ ~IsBarrier(w[j]) /\ w[j].op.into # 0
          /\ x = [w[k] EXCEPT !.absorb = FALSE,
                              !.op = [w[k].op EXCEPT !.into = 0, !.text = w[j].op.text]]
    BY <1>4
  <2>2. w[j] \in MessageIn(L, E) /\ w[k] \in MessageIn(L, E)
    BY <1>1, <1>4, <2>1, WaitingType
  <2> DEFINE o == [w[k].op EXCEPT !.into = 0, !.text = w[j].op.text]
  <2>3. o \in OpIn(L) BY <2>2 DEF MessageIn, OpIn
  <2>4. x = [w[k] EXCEPT !.absorb = FALSE, !.op = o] BY <2>1
  <2> HIDE DEF o
  <2>. QED BY <1>4, <2>2, <2>3, <2>4 DEF MessageIn, IsBarrier
<1>. QED BY <1>2, <1>3, <1>4 DEF FoldedEntry

LEMMA FoldedIs ==
  ASSUME NEW L, NEW E, NEW lv \in LiveIn(L, E)
  PROVE  FoldedSet(lv, Folded(lv), L, E)
<1> DEFINE w == lv.waiting
           refused == {k \in DOMAIN w : /\ ~IsBarrier(w[k]) /\ w[k].state = "refused"
                                        /\ w[k].op.into # 0}
           absorb == {k \in refused : w[k].absorb}
           into(k) == {j \in refused : w[j].op.into = w[k].op.into /\ j >= k}
           folded == UNION {into(k) \ {k} : k \in absorb}
           v == [k \in DOMAIN w |->
                  IF k \in folded THEN [w[k] EXCEPT !.state = "accepted"]
                  ELSE IF k \in absorb
                  THEN [w[k] EXCEPT !.absorb = FALSE, !.op.into = 0,
                                    !.op.text = w[Max(into(k))].op.text]
                  ELSE w[k]]
<1>1. w \in WaitingIn(L, E) BY DEF LiveIn
<1>2. Len(w) \in Nat /\ DOMAIN w = 1 .. Len(w) BY <1>1 DEF WaitingIn
<1>3. Folded(lv) = [lv EXCEPT !.waiting = v] BY DEF Folded
<1>4. \A k \in folded : k \in refused OBVIOUS
<1>5. ASSUME NEW k \in absorb PROVE Max(into(k)) \in refused
  <2>1. k \in into(k) /\ into(k) \subseteq 0 .. Len(w) BY <1>2, <1>5
  <2> DEFINE S == into(k)
  <2> HIDE DEF S
  <2>2. Max(S) \in S BY <1>2, <2>1, MaxIs DEF S
  <2>. QED BY <2>2 DEF S
<1>6. ASSUME NEW k \in DOMAIN w
      PROVE  FoldedEntry(w, k, v[k])
  <2>1. CASE k \in folded BY <1>4, <2>1, <1>6 DEF FoldedEntry
  <2>2. CASE k \notin folded /\ k \in absorb
    <3> DEFINE j == Max(into(k))
    <3>1. j \in refused /\ j \in DOMAIN w BY <1>5, <2>2
    <3>2. w[k] \in MessageIn(L, E) BY <1>1, <1>6, <2>2, WaitingType
    <3>3. v[k] = [w[k] EXCEPT !.absorb = FALSE, !.op.into = 0, !.op.text = w[j].op.text]
      BY <1>6, <2>2
    <3>4. ~IsBarrier(w[k]) /\ w[k].state = "refused" /\ w[k].op.into # 0
          /\ ~IsBarrier(w[j]) /\ w[j].op.into # 0
      BY <2>2, <3>1
    <3> HIDE DEF j, v
    <3>5. v[k] = [w[k] EXCEPT !.absorb = FALSE,
                              !.op = [w[k].op EXCEPT !.into = 0, !.text = w[j].op.text]]
      BY <3>2, <3>3 DEF MessageIn, OpIn
    <3>. QED BY <3>1, <3>4, <3>5 DEF FoldedEntry
  <2>3. CASE k \notin folded /\ k \notin absorb BY <1>6, <2>3 DEF FoldedEntry
  <2>. QED BY <2>1, <2>2, <2>3
<1>7. DOMAIN v = DOMAIN w /\ v = [k \in 1 .. Len(w) |-> v[k]] BY <1>2
<1> HIDE DEF v
<1>8. \A k \in DOMAIN w : /\ v[k] \in MessageIn(L, E) \cup BarrierIn(L)
                          /\ IsBarrier(v[k]) <=> IsBarrier(w[k])
  BY <1>1, <1>6, FoldedType
<1>9. v \in WaitingIn(L, E)
  <2> DEFINE S == MessageIn(L, E) \cup BarrierIn(L)
  <2>1. \A k \in 1 .. Len(w) : v[k] \in S BY <1>2, <1>8
  <2> HIDE DEF S
  <2>2. v \in Seq(S) BY <1>2, <1>7, <2>1, IsSeqOf
  <2>. QED BY <2>2 DEF WaitingIn, S
<1>10. Folded(lv) \in LiveIn(L, E) /\ Folded(lv).waiting = v BY <1>3, <1>9 DEF LiveIn
<1> HIDE DEF w
<1>. QED BY <1>3, <1>6, <1>7, <1>8, <1>10 DEF FoldedSet, w

(* A refused message waits again.                                          *)
ResentEntry(w, k, x) ==
  \E y : /\ FoldedEntry(w, k, y)
         /\ x = IF ~IsBarrier(y) /\ y.state = "refused" THEN [y EXCEPT !.state = "waiting"] ELSE y

(* What goes again is what waits, in its order.                            *)
ResentQueue(q, v, g) ==
  /\ g \in [DOMAIN q -> {k \in DOMAIN v : ~IsBarrier(v[k]) /\ v[k].state = "waiting"}]
  /\ \A j \in DOMAIN q : SameWrite(v[g[j]].op, q[j])
  /\ \A j, k \in DOMAIN q : j < k => g[j] < g[k]
  /\ \A i \in DOMAIN v : ~IsBarrier(v[i]) /\ v[i].state = "waiting" => \E k \in DOMAIN q : g[k] = i

ResentSet(s, t, L, E) ==
  /\ t \in StreamIn(L, E) /\ t.topic = s.topic /\ t.out.done = {}
  /\ t.live.held = s.live.held /\ t.live.next = s.live.next /\ t.live.readAt = s.live.readAt
  /\ t.live.open = s.live.open /\ t.live.committed = s.live.committed
  /\ DOMAIN t.live.waiting = DOMAIN s.live.waiting
  /\ \A k \in DOMAIN s.live.waiting :
       /\ ResentEntry(s.live.waiting, k, t.live.waiting[k])
       /\ IsBarrier(t.live.waiting[k]) <=> IsBarrier(s.live.waiting[k])
  /\ \E g : ResentQueue(t.out.queue, t.live.waiting, g)

LEMMA HandOffTaken ==
  ASSUME NEW L, NEW o \in OutIn(L), NEW op \in OpIn(L), ~(o.broken /\ ~op.restart)
  PROVE  LET z == HandOff(o, op)
         IN z \in OutIn(L) /\ z.queue = Append(o.queue, op) /\ z.done = o.done /\ ~z.broken
<1>1. HandOff(o, op) = [o EXCEPT !.queue = Append(o.queue, op), !.broken = FALSE]
  BY DEF HandOff
<1>2. Append(o.queue, op) \in Seq(OpIn(L))
  <2> DEFINE O == OpIn(L)
  <2>1. o.queue \in Seq(O) /\ op \in O BY DEF OutIn
  <2> HIDE DEF O
  <2>2. Append(o.queue, op) \in Seq(O) BY <2>1
  <2>. QED BY <2>2 DEF O
<1> DEFINE q == Append(o.queue, op)
<1> HIDE DEF q
<1>. QED BY <1>1, <1>2 DEF OutIn, q

(* The scheduler takes them all, since the first one ends the break.       *)
LEMMA HandedIs ==
  ASSUME NEW L, NEW o \in OutIn(L), o.queue = <<>>, o.done = {}, NEW ops \in Seq(OpIn(L)),
         ops # <<>> => ops[1].restart
  PROVE  /\ HandedOff(o, ops) \in OutIn(L) /\ HandedOff(o, ops).done = {}
         /\ DOMAIN HandedOff(o, ops).queue = DOMAIN ops
         /\ \A j \in DOMAIN ops : HandedOff(o, ops).queue[j] = ops[j]
<1> DEFINE O == OpIn(L)
           N(n) == {x \in OutIn(L) : /\ x.done = {} /\ DOMAIN x.queue = 1 .. n
                                     /\ \A j \in 1 .. n : x.queue[j] = ops[j]
                                     /\ n # 0 => ~x.broken}
           T == [n \in 0 .. Len(ops) |-> N(n)]
<1>1. ops \in Seq(O) OBVIOUS
<1>2. Len(ops) \in Nat /\ DOMAIN ops = 1 .. Len(ops) /\ \A i \in 1 .. Len(ops) : ops[i] \in O
  <2> HIDE DEF O
  <2>. QED BY <1>1
<1>3. o \in N(0) OBVIOUS
<1>4. o \in T[0] BY <1>2, <1>3
<1>5. ASSUME NEW i \in 1 .. Len(ops), NEW y \in T[i - 1]
      PROVE  HandOff(y, ops[i]) \in T[i]
  <2> DEFINE op == ops[i]
             z == HandOff(y, op)
  <2>1. i \in Nat /\ i - 1 \in 0 .. Len(ops) /\ i \in 0 .. Len(ops) /\ i # 0 BY <1>2
  <2>2. y \in OutIn(L) /\ y.done = {} /\ DOMAIN y.queue = 1 .. i - 1
        /\ (\A j \in 1 .. i - 1 : y.queue[j] = ops[j]) /\ (i - 1 # 0 => ~y.broken)
    BY <2>1
  <2>3. op \in O BY <1>2
  <2>4. ~(y.broken /\ ~op.restart) BY <1>2, <2>1, <2>2
  <2> HIDE DEF T, N, op
  <2>5. z \in OutIn(L) /\ z.queue = Append(y.queue, op) /\ z.done = {} /\ ~z.broken
    <3>1. op \in OpIn(L) BY <2>3
    <3> HIDE DEF O
    <3>. QED BY <2>2, <2>4, <3>1, HandOffTaken
  <2>6. y.queue \in Seq(O) BY <2>2 DEF OutIn
  <2> HIDE DEF z, O
  <2>7. Len(y.queue) = i - 1 BY <2>6, <2>1, <2>2
  <2>8. /\ DOMAIN z.queue = 1 .. i /\ z.queue[i] = op
        /\ \A j \in 1 .. i - 1 : z.queue[j] = y.queue[j]
    BY <2>1, <2>3, <2>5, <2>6, <2>7
  <2>9. \A j \in 1 .. i : z.queue[j] = ops[j] BY <2>1, <2>2, <2>8 DEF op
  <2>10. z \in N(i) BY <2>5, <2>8, <2>9 DEF N
  <2>. QED BY <2>1, <2>10 DEF T, z, op
<1> HIDE DEF N
<1>6. HandedOff(o, ops) \in T[Len(ops)]
  <2> HIDE DEF T, O
  <2>. QED BY <1>2, <1>4, <1>5, HandedOffReach
<1>7. HandedOff(o, ops) \in N(Len(ops)) BY <1>2, <1>6
<1>. QED BY <1>2, <1>7 DEF N

LEMMA ResentIs ==
  ASSUME NEW L, NEW E, NEW s \in StreamIn(L, E), s.out.queue = <<>>, s.out.done = {},
         \A m \in Messages(s.live) : m.state # "waiting"
  PROVE  ResentSet(s, Resent(s), L, E)
<1> DEFINE lv == Folded(s.live)
           w == s.live.waiting
           u == lv.waiting
           refused == {k \in DOMAIN lv.waiting : /\ ~IsBarrier(lv.waiting[k])
                                                 /\ lv.waiting[k].state = "refused"}
           again == Picked(lv.waiting, refused)
           ops == [k \in DOMAIN again |->
                     [again[k].op EXCEPT !.restart = again[k].op.restart \/ k = 1]]
           v == [k \in DOMAIN lv.waiting |->
                   IF k \in refused THEN [lv.waiting[k] EXCEPT !.state = "waiting"]
                   ELSE lv.waiting[k]]
           lw == [lv EXCEPT !.rewind = FALSE, !.waiting = v]
           S == MessageIn(L, E) \cup BarrierIn(L)
           O == OpIn(L)
<1>1. s.live \in LiveIn(L, E) /\ s.out \in OutIn(L) BY InStreamType
<1>2. FoldedSet(s.live, lv, L, E) BY <1>1, FoldedIs
<1>3. Resent(s) = [s EXCEPT !.live = lw, !.out = HandedOff(s.out, ops)] BY DEF Resent
<1> HIDE DEF lv
<1>4. /\ lv \in LiveIn(L, E) /\ u \in WaitingIn(L, E) /\ u \in Seq(S)
      /\ Len(u) \in Nat /\ DOMAIN u = 1 .. Len(u) /\ DOMAIN u = DOMAIN w
      /\ lv = [s.live EXCEPT !.waiting = u]
  BY <1>2 DEF FoldedSet, LiveIn, WaitingIn
<1>5. \A k \in refused : u[k] \in MessageIn(L, E) BY <1>4, WaitingType
<1>6. again \in Seq(S) /\ \E g : PicksOf(u, refused, again, g)
  <2> HIDE DEF S, refused
  <2>. QED BY <1>4, PickedIs
<1>7. PICK g : PicksOf(u, refused, again, g) BY <1>6
<1>8. /\ g \in [DOMAIN again -> refused]
      /\ \A k \in DOMAIN again : again[k] = u[g[k]]
      /\ \A j, k \in DOMAIN again : j < k => g[j] < g[k]
      /\ \A i \in refused : \E k \in DOMAIN again : g[k] = i
  <2>1. refused \cap DOMAIN u = refused OBVIOUS
  <2> HIDE DEF refused, again
  <2>. QED BY <1>7, <2>1 DEF PicksOf
<1>9. Len(again) \in Nat /\ DOMAIN again = 1 .. Len(again)
  <2> HIDE DEF S, again
  <2>. QED BY <1>6
<1> HIDE DEF again
<1>10. \A k \in DOMAIN again : again[k].op \in OpIn(L) BY <1>5, <1>8 DEF MessageIn
<1>11. \A k \in DOMAIN again : ops[k] \in OpIn(L) /\ SameWrite(u[g[k]].op, ops[k])
  <2>1. ASSUME NEW k \in DOMAIN again PROVE ops[k] \in OpIn(L) /\ SameWrite(again[k].op, ops[k])
    <3> DEFINE p == again[k].op
    <3>1. ops[k] = [p EXCEPT !.restart = p.restart \/ k = 1] OBVIOUS
    <3>2. p \in OpIn(L) BY <1>10
    <3> HIDE DEF p, ops
    <3>. QED BY <3>1, <3>2 DEF OpIn, SameWrite, p
  <2>. QED BY <1>8, <2>1
<1>12. /\ ops \in Seq(O) /\ DOMAIN ops = DOMAIN again
       /\ ops # <<>> => ops[1].restart
  <2>1. DOMAIN ops = DOMAIN again /\ ops = [k \in 1 .. Len(again) |-> ops[k]] BY <1>9
  <2>2. ASSUME ops # <<>> PROVE ops[1].restart
    <3>1. 1 \in DOMAIN again BY <1>9, <2>2
    <3>2. ops[1] = [again[1].op EXCEPT !.restart = again[1].op.restart \/ 1 = 1] BY <3>1
    <3> HIDE DEF ops
    <3>3. ops[1].restart = TRUE BY <1>10, <3>1, <3>2 DEF OpIn
    <3>. QED BY <3>3
  <2> HIDE DEF ops
  <2>3. \A k \in 1 .. Len(again) : ops[k] \in O BY <1>9, <1>11
  <2> HIDE DEF O
  <2>4. ops \in Seq(O) BY <1>9, <2>1, <2>3, IsSeqOf
  <2>. QED BY <2>1, <2>2, <2>4
<1> DEFINE o == HandedOff(s.out, ops)
<1> HIDE DEF ops
<1>13. /\ o \in OutIn(L) /\ o.done = {} /\ DOMAIN o.queue = DOMAIN again
       /\ \A j \in DOMAIN again : o.queue[j] = ops[j]
  BY <1>1, <1>12, HandedIs
<1> HIDE DEF o
<1>14. DOMAIN v = DOMAIN w /\ v = [k \in 1 .. Len(u) |-> v[k]] BY <1>4
<1>15. ASSUME NEW k \in DOMAIN w
       PROVE  /\ v[k] = IF ~IsBarrier(u[k]) /\ u[k].state = "refused"
                        THEN [u[k] EXCEPT !.state = "waiting"] ELSE u[k]
              /\ v[k] \in S /\ (IsBarrier(v[k]) <=> IsBarrier(u[k]))
  <2>1. v[k] = IF ~IsBarrier(u[k]) /\ u[k].state = "refused"
               THEN [u[k] EXCEPT !.state = "waiting"] ELSE u[k]
    BY <1>4, <1>15
  <2>2. /\ IsBarrier(u[k]) => u[k] \in BarrierIn(L)
        /\ ~IsBarrier(u[k]) => u[k] \in MessageIn(L, E)
    BY <1>4, WaitingType
  <2> HIDE DEF v
  <2>. QED BY <2>1, <2>2 DEF MessageIn, IsBarrier
<1> HIDE DEF v
<1>16. v \in Seq(S)
  <2>1. \A k \in 1 .. Len(u) : v[k] \in S BY <1>4, <1>15
  <2> HIDE DEF S
  <2>. QED BY <1>4, <1>14, <2>1, IsSeqOf
<1>17. /\ lw \in LiveIn(L, E) /\ lw.waiting = v /\ lw.held = s.live.held /\ lw.next = s.live.next
       /\ lw.readAt = s.live.readAt /\ lw.open = s.live.open /\ lw.committed = s.live.committed
  <2>1. v \in WaitingIn(L, E) BY <1>16 DEF WaitingIn
  <2>2. lw \in LiveIn(L, E) /\ lw.waiting = v /\ lw.held = lv.held /\ lw.next = lv.next
        /\ lw.readAt = lv.readAt /\ lw.open = lv.open /\ lw.committed = lv.committed
    BY <1>4, <2>1 DEF LiveIn
  <2> HIDE DEF lw, u
  <2>. QED BY <1>1, <1>4, <2>2 DEF LiveIn
<1> HIDE DEF lw
<1>18. Resent(s) = [s EXCEPT !.live = lw, !.out = o] BY <1>3 DEF o
<1>19. Resent(s) \in StreamIn(L, E) /\ Resent(s).live = lw /\ Resent(s).out = o
       /\ Resent(s).topic = s.topic
  BY <1>13, <1>17, <1>18 DEF StreamIn
<1>20. ASSUME NEW k \in DOMAIN w
       PROVE  ResentEntry(w, k, v[k]) /\ (IsBarrier(v[k]) <=> IsBarrier(w[k]))
  BY <1>2, <1>15 DEF FoldedSet, ResentEntry
<1>21. ASSUME NEW k \in DOMAIN w
       PROVE  ~IsBarrier(v[k]) /\ v[k].state = "waiting" <=> k \in refused
  <2>1. ~IsBarrier(u[k]) => u[k].state # "waiting"
    <3>1. ASSUME ~IsBarrier(u[k]) PROVE w[k] \in MessageIn(L, E) /\ w[k].state # "waiting"
      <4>1. ~IsBarrier(w[k]) /\ w \in WaitingIn(L, E)
        BY <1>1, <1>2, <3>1 DEF FoldedSet, LiveIn
      <4>2. w[k] \in Messages(s.live) BY <4>1, MessageOf
      <4>. QED BY <4>1, <4>2, WaitingType
    <3>2. FoldedEntry(w, k, u[k]) BY <1>2 DEF FoldedSet
    <3>3. ASSUME ~IsBarrier(u[k]) PROVE u[k].state # "waiting"
      BY <3>1, <3>2, <3>3 DEF FoldedEntry, MessageIn
    <3>. QED BY <3>3
  <2>2. k \in refused => u[k] \in MessageIn(L, E) BY <1>5
  <2>. QED BY <1>4, <1>15, <2>1, <2>2 DEF MessageIn, IsBarrier
<1>22. ResentQueue(o.queue, v, g)
  <2>1. {k \in DOMAIN v : ~IsBarrier(v[k]) /\ v[k].state = "waiting"} = refused
    BY <1>4, <1>14, <1>21
  <2>2. \A j \in DOMAIN again : SameWrite(v[g[j]].op, o.queue[j])
    <3>1. ASSUME NEW j \in DOMAIN again PROVE v[g[j]].op = u[g[j]].op
      <4>1. g[j] \in refused /\ g[j] \in DOMAIN w BY <1>4, <1>8
      <4>2. u[g[j]] \in MessageIn(L, E) BY <1>5, <4>1
      <4>3. v[g[j]] = [u[g[j]] EXCEPT !.state = "waiting"] BY <1>15, <4>1
      <4>. QED BY <4>2, <4>3 DEF MessageIn
    <3>. QED BY <1>11, <1>13, <3>1 DEF SameWrite
  <2> HIDE DEF refused
  <2>. QED BY <1>8, <1>13, <2>1, <2>2 DEF ResentQueue
<1>. QED BY <1>13, <1>14, <1>17, <1>19, <1>20, <1>22 DEF ResentSet

(* Message `m` when the refused ones go again, as `x`.                     *)
AgainAs(w, m, x) ==
  /\ x.number = m.number /\ x.answer = m.answer /\ x.op.number = m.op.number
  /\ \/ /\ x.state = "accepted" /\ x.op = m.op /\ x.absorb = m.absorb
        /\ m.state = "accepted" \/ m.op.into # 0
     \/ /\ x.state = "waiting" /\ m.state = "refused" /\ x.op = m.op /\ x.absorb = m.absorb
     \/ /\ x.state = "waiting" /\ m.state = "refused" /\ m.op.into # 0 /\ x.op.into = 0
        /\ \E j \in DOMAIN w :
             ~IsBarrier(w[j]) /\ w[j].op.into # 0 /\ x.op.text = w[j].op.text

LEMMA ResentEntryIs ==
  ASSUME NEW L, NEW E, NEW w \in WaitingIn(L, E), NEW k \in DOMAIN w, NEW x, ResentEntry(w, k, x)
  PROVE  /\ IsBarrier(w[k]) => x = w[k]
         /\ ~IsBarrier(w[k]) /\ w[k].state # "waiting" => AgainAs(w, w[k], x)
<1>1. PICK y : /\ FoldedEntry(w, k, y)
               /\ x = IF ~IsBarrier(y) /\ y.state = "refused" THEN [y EXCEPT !.state = "waiting"]
                      ELSE y
  BY DEF ResentEntry
<1>2. CASE IsBarrier(w[k]) BY <1>1, <1>2 DEF FoldedEntry
<1>3. CASE ~IsBarrier(w[k]) /\ w[k].state # "waiting"
  <2>1. w[k] \in MessageIn(L, E) BY <1>3, WaitingType
  <2>2. ~IsBarrier(y) /\ y \in MessageIn(L, E)
    BY <1>1, <1>3, FoldedType DEF BarrierIn, IsBarrier
  <2>3. CASE y = w[k] BY <1>1, <2>2, <2>3, <1>3, <2>1 DEF AgainAs, MessageIn
  <2>4. CASE w[k].op.into # 0 /\ y = [w[k] EXCEPT !.state = "accepted"]
    BY <2>1, <2>4, <1>1, <1>3 DEF MessageIn, AgainAs
  <2>5. CASE /\ w[k].state = "refused" /\ w[k].op.into # 0
             /\ \E j \in DOMAIN w :
                  /\ ~IsBarrier(w[j]) /\ w[j].op.into # 0
                  /\ y = [w[k] EXCEPT !.absorb = FALSE,
                                      !.op = [w[k].op EXCEPT !.into = 0, !.text = w[j].op.text]]
    <3>1. PICK j \in DOMAIN w :
            /\ ~IsBarrier(w[j]) /\ w[j].op.into # 0
            /\ y = [w[k] EXCEPT !.absorb = FALSE,
                                !.op = [w[k].op EXCEPT !.into = 0, !.text = w[j].op.text]]
      BY <2>5
    <3> DEFINE o == [w[k].op EXCEPT !.into = 0, !.text = w[j].op.text]
    <3>2. o.into = 0 /\ o.text = w[j].op.text /\ o.number = w[k].op.number
      BY <2>1 DEF MessageIn, OpIn
    <3> HIDE DEF o
    <3>3. y.state = "refused" /\ y.op = o /\ y.number = w[k].number /\ y.answer = w[k].answer
      BY <2>1, <2>5, <3>1 DEF MessageIn, o
    <3>4. x = [y EXCEPT !.state = "waiting"] BY <1>1, <2>2, <3>3
    <3>5. x.state = "waiting" /\ x.op = o /\ x.number = w[k].number /\ x.answer = w[k].answer
      BY <2>2, <3>3, <3>4 DEF MessageIn
    <3>. QED BY <1>3, <2>5, <3>1, <3>2, <3>5 DEF AgainAs
  <2>6. AgainAs(w, w[k], x) BY <1>1, <1>3, <2>3, <2>4, <2>5 DEF FoldedEntry
  <2>. QED BY <1>3, <2>6
<1>. QED BY <1>2, <1>3

LEMMA ResentGood ==
  ASSUME NEW L, NEW E, NEW B, NEW G, NEW a, NEW W, NEW s, Good(s, L, E, B, G, a, W), ~a,
         Stuck(s.live)
  PROVE  Good(Resent(s), L, E, B, G, a, W) /\ Resent(s) \in StreamIn(L, E)
         /\ Resent(s).live.readAt = s.live.readAt
<1> DEFINE t == Resent(s)
           w == s.live.waiting
           v == t.live.waiting
<1>1. /\ E \subseteq L /\ 0 \notin E /\ s \in StreamIn(L, E)
      /\ Numbered(s.live) /\ Placed(s, E) /\ Kept(s, E, B, G) /\ Bounded(s.live, W)
  BY DEF Good
<1>2. /\ \A m \in Messages(s.live) : m.state # "waiting"
      /\ s.out.queue = <<>> /\ s.out.done = {}
  BY StuckIs
<1>3. ResentSet(s, t, L, E) BY <1>1, <1>2, ResentIs
<1> HIDE DEF t
<1>4. /\ t \in StreamIn(L, E) /\ t.topic = s.topic /\ t.out.done = {}
      /\ t.live.held = s.live.held /\ t.live.next = s.live.next /\ t.live.readAt = s.live.readAt
      /\ t.live.open = s.live.open /\ t.live.committed = s.live.committed
      /\ DOMAIN v = DOMAIN w
      /\ \A k \in DOMAIN w : ResentEntry(w, k, v[k]) /\ (IsBarrier(v[k]) <=> IsBarrier(w[k]))
      /\ \E g : ResentQueue(t.out.queue, v, g)
  BY <1>3 DEF ResentSet
<1>5. w \in WaitingIn(L, E) /\ v \in WaitingIn(L, E) BY <1>1, <1>4, InStreamType
<1> HIDE DEF w, v
<1>6. /\ Messages(s.live) = {w[k] : k \in {j \in DOMAIN w : ~IsBarrier(w[j])}}
      /\ Messages(t.live) = {v[k] : k \in {j \in DOMAIN v : ~IsBarrier(v[j])}}
      /\ Messages(s.live) \subseteq MessageIn(L, E)
  BY <1>5, MessageOf DEF w, v
<1>7. \A k \in DOMAIN w : IsBarrier(w[k]) => v[k] = w[k] BY <1>4, <1>5, ResentEntryIs
<1>8. ASSUME NEW k \in DOMAIN w, ~IsBarrier(w[k])
      PROVE  AgainAs(w, w[k], v[k]) /\ w[k] \in Messages(s.live) /\ ~IsBarrier(v[k])
             /\ v[k] \in Messages(t.live)
  BY <1>4, <1>6, <1>8, <1>2, <1>5, ResentEntryIs
<1>9. \A m \in Messages(t.live) : \E k \in DOMAIN w : ~IsBarrier(w[k]) /\ m = v[k]
  BY <1>4, <1>6
<1>10. \A m \in Messages(s.live) : \E k \in DOMAIN w : ~IsBarrier(w[k]) /\ m = w[k]
  BY <1>6
<1>11. Numbered(t.live)
  <2>1. \A k \in DOMAIN w : ~IsBarrier(w[k]) => v[k].number = w[k].number
                                               /\ v[k].op.number = w[k].op.number
    BY <1>8 DEF AgainAs
  <2>2. \A j, k \in DOMAIN v : j < k /\ ~IsBarrier(v[j]) /\ ~IsBarrier(v[k])
          => v[j].number < v[k].number
    BY <1>1, <1>4, <2>1 DEF Numbered, w
  <2>3. \A m \in Messages(t.live) : m.number <= t.live.next /\ m.op.number = m.number
    BY <1>1, <1>8, <1>4, <1>9, <2>1 DEF Numbered
  <2>. QED BY <2>2, <2>3 DEF Numbered, v
<1>12. Bounded(t.live, W) BY <1>1, <1>4, <1>7 DEF Bounded, w, v
<1>13. \A m \in Messages(t.live) : PlacedMessage(m, t.topic, E)
  <2>1. ASSUME NEW k \in DOMAIN w, ~IsBarrier(w[k])
        PROVE  PlacedMessage(v[k], s.topic, E)
    <3>1. AgainAs(w, w[k], v[k]) /\ PlacedMessage(w[k], s.topic, E)
      BY <1>1, <1>8, <2>1 DEF Placed
    <3>2. CASE v[k].op = w[k].op /\ v[k].absorb = w[k].absorb
      BY <3>1, <3>2 DEF AgainAs, PlacedMessage
    <3>3. CASE /\ w[k].op.into # 0 /\ v[k].op.into = 0
               /\ \E j \in DOMAIN w : /\ ~IsBarrier(w[j]) /\ w[j].op.into # 0
                                      /\ v[k].op.text = w[j].op.text
      <4>1. PICK j \in DOMAIN w : ~IsBarrier(w[j]) /\ w[j].op.into # 0
                                  /\ v[k].op.text = w[j].op.text
        BY <3>3
      <4>2. PlacedMessage(w[j], s.topic, E) BY <1>1, <1>8, <4>1 DEF Placed
      <4>3. NoEnds(w[j].op.text, E) BY <4>1, <4>2 DEF PlacedMessage
      <4>4. w[k].answer = <<>> /\ v[k].answer = w[k].answer
        BY <3>1, <3>3 DEF PlacedMessage, AgainAs
      <4>. QED BY <3>3, <4>1, <4>3, <4>4 DEF PlacedMessage
    <3>. QED BY <3>1, <3>2, <3>3 DEF AgainAs
  <2>. QED BY <1>4, <1>9, <2>1
<1>14. Opens(t.live) \subseteq Opens(s.live) BY <1>4, <1>7 DEF Opens, w, v
<1>15. \A o \in Opens(t.live) : PlacedOpen(o, t, E)
  BY <1>1, <1>14, <1>2, <1>4 DEF Placed, PlacedOpen
<1>16. Placed(t, E) BY <1>4, <1>13, <1>15 DEF Placed
<1>17. Kept(t, E, B, G)
  <2>1. \A m : ~Done(s, m) /\ ~Done(t, m) BY <1>2, <1>4 DEF Done
  <2>2. ASSUME NEW m \in Answering(t.live)
        PROVE  \E n \in Answering(s.live) : n.number = m.number /\ n.answer = m.answer
    <3>1. m \in Messages(t.live) /\ m.state # "accepted" /\ m.answer # <<>>
      BY DEF Answering
    <3>2. PICK k \in DOMAIN w : ~IsBarrier(w[k]) /\ m = v[k] BY <1>9, <3>1
    <3>3. AgainAs(w, w[k], m) /\ w[k] \in Messages(s.live) BY <1>8, <3>2
    <3>4. w[k].state = "refused" /\ w[k].answer = m.answer /\ w[k].number = m.number
      BY <3>1, <3>3 DEF AgainAs
    <3>. QED BY <3>1, <3>3, <3>4 DEF Answering
  <2>3. ASSUME NEW n \in Answering(s.live)
        PROVE  \E m \in Answering(t.live) : m.answer = n.answer
    <3>1. n \in Messages(s.live) /\ n.state # "accepted" /\ n.answer # <<>>
      BY DEF Answering
    <3>2. PICK k \in DOMAIN w : ~IsBarrier(w[k]) /\ n = w[k] BY <1>10, <3>1
    <3>3. AgainAs(w, n, v[k]) /\ v[k] \in Messages(t.live) BY <1>8, <3>2
    <3>4. n.op.into = 0 BY <1>1, <3>1 DEF Placed, PlacedMessage
    <3>5. v[k].state = "waiting" /\ v[k].answer = n.answer
      BY <3>1, <3>3, <3>4 DEF AgainAs
    <3>. QED BY <3>1, <3>3, <3>5 DEF Answering
  <2>. QED BY <1>1, <1>4, <2>1, <2>2, <2>3, KeptLike
<1>18. Queued(t)
  <2> DEFINE q == t.out.queue
  <2>1. PICK g : ResentQueue(q, v, g) BY <1>4
  <2>2. /\ g \in [DOMAIN q -> {k \in DOMAIN v : ~IsBarrier(v[k]) /\ v[k].state = "waiting"}]
        /\ \A j \in DOMAIN q : SameWrite(v[g[j]].op, q[j])
        /\ \A j, k \in DOMAIN q : j < k => g[j] < g[k]
        /\ \A i \in DOMAIN v : ~IsBarrier(v[i]) /\ v[i].state = "waiting"
             => \E k \in DOMAIN q : g[k] = i
    BY <2>1 DEF ResentQueue
  <2> HIDE DEF q
  <2>3. \A j \in DOMAIN q : /\ g[j] \in DOMAIN v /\ ~IsBarrier(v[g[j]])
                            /\ v[g[j]] \in Messages(t.live)
                            /\ v[g[j]].state = "waiting" /\ q[j].number = v[g[j]].number
    BY <1>6, <1>11, <2>2 DEF Numbered, SameWrite
  <2>4. \A j, k \in DOMAIN q : j < k => q[j].number < q[k].number
    BY <1>11, <2>2, <2>3 DEF Numbered, v
  <2>5. \A k \in DOMAIN q : \E m \in Messages(t.live) : m.state = "waiting" /\ SameWrite(m.op, q[k])
    BY <2>2, <2>3
  <2>6. ASSUME NEW m \in Messages(t.live), m.state = "waiting"
        PROVE  \E k \in DOMAIN q : q[k].number = m.number
    <3>1. PICK i \in DOMAIN v : ~IsBarrier(v[i]) /\ m = v[i] BY <1>6
    <3>2. PICK k \in DOMAIN q : g[k] = i BY <2>2, <2>6, <3>1
    <3>. QED BY <2>3, <3>1, <3>2
  <2>7. IsFiniteSet(t.out.done) BY <1>4, FS_EmptySet
  <2>. QED BY <1>4, <2>4, <2>5, <2>6, <2>7 DEF Queued, q
<1>19. Good(t, L, E, B, G, a, W)
  BY <1>1, <1>4, <1>11, <1>12, <1>16, <1>17, <1>18 DEF Good
<1>. QED BY <1>4, <1>19 DEF t

LEMMA DrainKeeps ==
  ASSUME StreamInv, Drain
  PROVE  StreamInv'
<1>1. /\ plan' = plan /\ written' = written /\ stopped' = stopped /\ agent' = agent
      /\ asks' = asks /\ offset' = offset /\ used' = used /\ left = "draining"
      /\ \/ /\ left' \in {"settled", "givenUp"}
            /\ live' = live /\ out' = out /\ topic' = topic /\ resends' = resends /\ fate' = fate
         \/ /\ Stuck(live) /\ resends < MaxResends /\ resends' = resends + 1
            /\ Becomes(Resent(St)) /\ left' = left
            /\ \E c : fate' = [fate EXCEPT !.stale = c]
  BY DEF Drain
<1> DEFINE a == left = "no"
<1>2. Good(St, Line, Ends, Came, Given, a, written) /\ Around /\ ~a BY <1>1 DEF StreamInv
<1>3. IsFate(fate) /\ resends \in 0 .. MaxResends /\ MaxResends \in Nat /\ left' # "no"
  BY <1>1, StreamAssumption DEF StreamInv, Around
<1>4. IsFate(fate') /\ Given' = Given /\ Came' = Came
  BY <1>1, <1>3, CameSame DEF IsFate, Given
<1>5. /\ Good(St', Line, Ends, Came, Given, a, written) /\ live'.readAt = live.readAt
      /\ resends' \in 0 .. MaxResends /\ left' \in {"no", "draining", "settled", "givenUp"}
  <2>1. CASE /\ left' \in {"settled", "givenUp"}
             /\ live' = live /\ out' = out /\ topic' = topic /\ resends' = resends
    BY <2>1, <1>2, <1>3 DEF St
  <2>2. CASE /\ Stuck(live) /\ resends < MaxResends /\ resends' = resends + 1
             /\ Becomes(Resent(St)) /\ left' = left
    <3> DEFINE t == Resent(St)
    <3>1. /\ Good(t, Line, Ends, Came, Given, a, written) /\ t \in StreamIn(Line, Ends)
          /\ t.live.readAt = live.readAt
      <4>1. St.live = live /\ Stuck(St.live) BY <2>2, StIs
      <4> HIDE DEF a
      <4>2. /\ Good(Resent(St), Line, Ends, Came, Given, a, written)
            /\ Resent(St) \in StreamIn(Line, Ends) /\ Resent(St).live.readAt = St.live.readAt
        BY <1>2, <4>1, ResentGood
      <4>. QED BY <4>1, <4>2
    <3> HIDE DEF t
    <3>2. St' = t /\ live' = t.live BY <2>2, <3>1, StreamRecord DEF t
    <3>3. resends' \in 0 .. MaxResends BY <1>3, <2>2
    <3>. QED BY <1>1, <2>2, <3>1, <3>2, <3>3
  <2>. QED BY <1>1, <2>1, <2>2
<1>6. Asked' BY <1>1, <1>2 DEF Around, Asked
<1>7. Around' BY <1>1, <1>2, <1>4, <1>5, <1>6, SameScript DEF Around
<1>8. Good(St', Line, Ends, Came', Given', left' = "no", written')
  <2> DEFINE b == left' = "no"
             t == St'
             C == Came'
             H == Given'
             V == written'
  <2>1. ~b /\ Good(t, Line, Ends, C, H, a, V) BY <1>1, <1>3, <1>4, <1>5
  <2> HIDE DEF a, b, t, C, H, V
  <2>2. Good(t, Line, Ends, C, H, b, V) BY <2>1, GoodMore
  <2>. QED BY <2>2 DEF b, t, C, H, V
<1>. QED BY <1>1, <1>7, <1>8, InvThen
----------------------------------------------------------------------------
(* The theorems.                                                           *)

LEMMA InitInv ==
  ASSUME Init
  PROVE  StreamInv
<1> DEFINE a == left = "no"
           t == St
<1>1. /\ plan \in Plans /\ written = 0 /\ stopped = 0 /\ agent = 1 /\ asks = <<>>
      /\ offset = [to |-> 0, call |-> FALSE] /\ live = NewLive(offset)
      /\ out = [queue |-> <<>>, broken |-> FALSE, done |-> {}]
      /\ topic = <<>> /\ left = "no" /\ resends = 0
      /\ used = [what \in Trouble |-> 0]
      /\ fate = [skipped |-> {}, apart |-> {}, early |-> {}, ahead |-> {},
                 mended |-> FALSE, lapsed |-> FALSE, stale |-> FALSE]
  BY DEF Init
<1>2. Line = 1 .. Len(Script) /\ Len(Script) \in Nat /\ Ends \subseteq Line /\ 0 \notin Ends
  BY <1>1, Transcript
<1>3. offset \in [to : Nat, call : BOOLEAN] /\ offset.to = 0 /\ offset \in PlaceIn(0)
  BY <1>1 DEF PlaceIn
<1>4. /\ live \in LiveIn(Line, Ends) /\ live.waiting = <<>> /\ live.open = NoOpen
      /\ live.committed = NoOpen /\ live.held = <<>> /\ live.readAt = 0
  BY <1>1, <1>3, NewLiveIs
<1>5. out \in OutIn(Line) /\ out.queue = <<>> /\ out.done = {} BY <1>1 DEF OutIn
<1>6. topic \in Seq(Seq(Line \cup {0})) /\ DOMAIN topic = {} BY <1>1
<1>7. t.live = live /\ t.out = out /\ t.topic = topic /\ t \in StreamIn(Line, Ends)
  BY <1>4, <1>5, <1>6 DEF St, StreamIn
<1>8. Came = {}
  <2>1. \A e \in Ends : e \in Nat /\ e # 0 BY <1>2
  <2>2. \A e \in Ends : ~(e <= stopped) BY <1>1, <2>1
  <2>. QED BY <2>2 DEF Came
<1>9. Around BY <1>1, StreamAssumption, <1>2, <1>3, <1>4 DEF IsFate, Asked, Around
<1> HIDE DEF t, a
<1>10. Distinct(t.live.held) /\ HeldAnswers(t.live) = {}
  BY <1>4, <1>7 DEF Distinct, HeldAnswers
<1>11. /\ t.live.waiting = <<>> /\ t.out.queue = <<>> /\ t.out.done = {}
       /\ \A o \in Opens(t.live) : PlacedOpen(o, t, Ends) /\ (a => AboveOpen(o, t, Ends))
  BY <1>4, <1>7, <1>5, NoOpenPlaced DEF Opens
<1>12. \A e \in Ends : ~IsIn(t.topic, e) BY <1>6, <1>7 DEF IsIn
<1>13. \A e \in Ends : \A j, k \in DOMAIN t.topic :
         e \in ToSet(t.topic[j]) /\ e \in ToSet(t.topic[k]) => j = k
  BY <1>6, <1>7
<1>14. Good(t, Line, Ends, {}, Given, a, written)
  BY <1>2, <1>7, <1>10, <1>11, <1>12, <1>13, EmptyGood
<1>. QED BY <1>8, <1>9, <1>14 DEF StreamInv, t, a

LEMMA StutterKeeps ==
  ASSUME StreamInv, UNCHANGED streamVars
  PROVE  StreamInv'
BY InvTypes, InvAfter DEF streamVars, Given, St, StreamInv

LEMMA NextKeeps ==
  ASSUME StreamInv, [Next]_streamVars
  PROVE  StreamInv'
<1>1. CASE UNCHANGED streamVars BY <1>1, StutterKeeps
<1>2. CASE Next
  BY <1>2, StopKeeps, AgentGoesKeeps, AgentComesKeeps, HoldOverKeeps, ReadForgottenKeeps,
     AskReadKeeps, ChunkKeeps, OtherPostKeeps, SendKeeps, DeleteMessageKeeps, ResultsKeep,
     LeaveKeeps, DrainKeeps, HubRestartKeeps DEF Next
<1>. QED BY <1>1, <1>2

(* The invariant of the stream: whatever was handed to the scheduler is    *)
(* queued or answered once, lines and answers never share a message, each  *)
(* answer is in one place, and none is above an open turn message.         *)
THEOREM StreamInvariant == Spec => []StreamInv
<1>1. Init => StreamInv BY InitInv
<1>2. StreamInv /\ [Next]_streamVars => StreamInv' BY NextKeeps
<1>. QED BY <1>1, <1>2, PTL DEF Spec

(* As many messages wait as the scheduler has queued or answered.          *)
LEMMA UnansweredIs ==
  ASSUME NEW L, NEW E, NEW B, NEW G, NEW a, NEW W, NEW s, Good(s, L, E, B, G, a, W)
  PROVE  Unanswered(s.live) = Len(s.out.queue) + Cardinality(s.out.done)
<1> DEFINE M == {m \in Messages(s.live) : m.state = "waiting"}
           q == s.out.queue
           done == s.out.done
           Q == {q[k].number : k \in DOMAIN q}
           D == {r.number : r \in done}
           O == OpIn(L)
<1>1. s \in StreamIn(L, E) /\ Numbered(s.live) /\ Queued(s) BY DEF Good
<1>2. q \in Seq(O) /\ Len(q) \in Nat /\ DOMAIN q = 1 .. Len(q) /\ s.live \in LiveIn(L, E)
  BY <1>1, InStreamType
<1>3. /\ \A j, k \in DOMAIN q : j < k => q[j].number < q[k].number
      /\ IsFiniteSet(done)
      /\ \A r, x \in done : r.number = x.number => r = x
      /\ \A k \in DOMAIN q : \A r \in done : r.number # q[k].number
      /\ \A k \in DOMAIN q : \E m \in Messages(s.live) : m.state = "waiting" /\ SameWrite(m.op, q[k])
      /\ \A r \in done : \E m \in Messages(s.live) : m.state = "waiting" /\ m.number = r.number
      /\ \A m \in Messages(s.live) : m.state = "waiting" =>
           (\E k \in DOMAIN q : q[k].number = m.number) \/ (\E r \in done : r.number = m.number)
  BY <1>1 DEF Queued
<1>4. \A k \in DOMAIN q : q[k].number \in Nat
  <2>1. \A k \in DOMAIN q : q[k] \in O
    <3> HIDE DEF O, q
    <3>. QED BY <1>2
  <2>. QED BY <2>1 DEF OpIn
<1>5. \A m \in Messages(s.live) : m.op.number = m.number BY <1>1 DEF Numbered
<1> HIDE DEF q, done, O
<1>6. IsFiniteSet(Q) /\ Cardinality(Q) = Len(q)
  <2> DEFINE f == [k \in DOMAIN q |-> q[k].number]
  <2>1. \A j, k \in DOMAIN q : q[j].number = q[k].number => j = k BY <1>4, <1>3, <1>2
  <2>2. f \in Bijection(DOMAIN q, Q)
    BY <2>1 DEF Bijection, Injection, Surjection, IsInjective
  <2>3. IsFiniteSet(DOMAIN q) /\ Cardinality(DOMAIN q) = Len(q) BY <1>2, FS_Interval
  <2>4. ExistsBijection(DOMAIN q, Q) BY <2>2 DEF ExistsBijection
  <2>. QED BY <2>3, <2>4, FS_Bijection
<1>7. IsFiniteSet(D) /\ Cardinality(D) = Cardinality(done)
  <2> DEFINE f == [r \in done |-> r.number]
  <2>1. f \in Bijection(done, D)
    BY <1>3 DEF Bijection, Injection, Surjection, IsInjective
  <2>2. ExistsBijection(done, D) BY <2>1 DEF ExistsBijection
  <2>. QED BY <1>3, <2>2, FS_Bijection
<1>8. Q \cap D = {} BY <1>3
<1>9. IsFiniteSet(Q \cup D) /\ Cardinality(Q \cup D) = Len(q) + Cardinality(done)
  <2>1. Cardinality(Q \cap D) = 0 BY <1>8, FS_EmptySet
  <2>2. Cardinality(Q) \in Nat /\ Cardinality(D) \in Nat
    BY <1>6, <1>7, FS_CardinalityType
  <2>3. IsFiniteSet(Q \cup D)
        /\ Cardinality(Q \cup D) = Cardinality(Q) + Cardinality(D) - Cardinality(Q \cap D)
    <3> HIDE DEF Q, D
    <3>. QED BY <1>6, <1>7, FS_Union
  <2> HIDE DEF Q, D
  <2>. QED BY <1>6, <1>7, <2>1, <2>2, <2>3
<1>10. Cardinality(M) = Cardinality(Q \cup D)
  <2> DEFINE g == [x \in Q \cup D |-> CHOOSE m \in M : m.number = x]
  <2>1. \A m \in M : m.number \in Q \cup D BY <1>3
  <2>2. \A m, n \in M : m.number = n.number => m = n BY <1>1, <1>2, SameMessage
  <2>3. \A x \in Q \cup D : \E m \in M : m.number = x BY <1>3, <1>5 DEF SameWrite
  <2> DEFINE T == Q \cup D
  <2>4. \A x \in T : g[x] \in M /\ g[x].number = x BY <2>3
  <2>5. DOMAIN g = T /\ g \in [T -> M] BY <2>4
  <2> HIDE DEF T, M, g
  <2>8. \A m \in M : m.number \in T /\ g[m.number] = m BY <2>1, <2>2, <2>4 DEF T
  <2>9. g \in Bijection(T, M)
    BY <2>4, <2>5, <2>8 DEF Bijection, Injection, Surjection, IsInjective
  <2>6. ExistsBijection(T, M) BY <2>9 DEF ExistsBijection
  <2>7. Cardinality(M) = Cardinality(T) BY <1>9, <2>6, FS_Bijection DEF T
  <2>. QED BY <2>7 DEF T
<1>. QED BY <1>9, <1>10 DEF Unanswered, M, q, done

LEMMA AnswerTypes ==
  ASSUME NEW E, E \subseteq Nat, NEW x \in AnswerIn(E)
  PROVE  x \in [answer : E, end : Nat, gone : BOOLEAN]
<1>1. x \in [answer : E, end : E \cup {0}, gone : BOOLEAN] BY DEF AnswerIn
<1>2. x.end \in E \/ x.end = 0 BY <1>1
<1>3. x.end \in Nat
  <2>1. \A n \in E : n \in Nat OBVIOUS
  <2> DEFINE n == x.end
  <2>2. n \in E \/ n = 0 BY <1>2
  <2> HIDE DEF n
  <2>3. n \in Nat
    <3>1. CASE n \in E BY <2>1, <3>1, Zenon
    <3>2. CASE n = 0 BY <3>2
    <3>. QED BY <2>2, <3>1, <3>2
  <2>. QED BY <2>3 DEF n
<1>. QED BY <1>1, <1>3

LEMMA TypesHold ==
  ASSUME StreamInv
  PROVE  TypeOK
<1> DEFINE a == left = "no"
           A == AnswerIn(Ends)
<1>1. /\ Around /\ Good(St, Line, Ends, Came, Given, a, written) /\ St.live = live /\ St.out = out
  BY StIs DEF StreamInv
<1>2. /\ live \in LiveIn(Line, Ends) /\ out \in OutIn(Line) /\ live.readAt \in Nat
      /\ topic \in Seq(Seq(Line \cup {0})) /\ written \in Nat /\ St \in StreamIn(Line, Ends)
  BY InvTypes
<1>3. /\ {written, stopped} \subseteq 0 .. Len(Script) /\ agent \in Nat
      /\ (\A n \in DOMAIN asks : asks[n].from <= asks[n].len /\ asks[n].len <= written)
      /\ left \in {"no", "draining", "settled", "givenUp"} /\ resends \in 0 .. MaxResends
      /\ live.readAt \in 0 .. written
  BY <1>1, <1>2 DEF Around, Asked
<1>4. live.reading \in Nat
      /\ live.answeredEnds \cup ToSet(live.ends) \cup ToSet(live.unpaired) \subseteq Ends
  BY <1>2 DEF LiveIn, ToSet
<1>5. {live.open, live.committed} \subseteq OpenType BY <1>2 DEF LiveIn, OpenIn, OpenType
<1>6. \A m \in Messages(live) : m.state \in {"waiting", "accepted", "refused"}
  BY <1>1, <1>2, InStreamType DEF MessageIn
<1>7. InStream(live) \subseteq AnswerType
  <2>1. AnswersAre(live, Answers(live), Ends)
    <3> HIDE DEF a
    <3>1. AnswersAre(St.live, Answers(St.live), Ends) BY <1>1, AnswersIs
    <3>. QED BY <1>1, <3>1
  <2>2. Answers(live) \in Seq(A) /\ live.held \in Seq(A)
    BY <1>2, <2>1 DEF AnswersAre, LiveIn
  <2>3. ToSet(Answers(live)) \subseteq A /\ ToSet(live.held) \subseteq A
    <3> HIDE DEF A
    <3>. QED BY <2>2 DEF ToSet
  <2>4. \A x \in A : x \in AnswerType
    <3>1. Ends \subseteq Nat BY InvTypes, Transcript
    <3>2. \A x \in AnswerIn(Ends) : x \in AnswerType BY <3>1, AnswerTypes DEF AnswerType
    <3>. QED BY <3>2
  <2> HIDE DEF A
  <2>. QED BY <2>3, <2>4 DEF InStream
<1>8. Unanswered(live) = Len(out.queue) + Cardinality(out.done)
  <2> HIDE DEF a
  <2>1. Unanswered(St.live) = Len(St.out.queue) + Cardinality(St.out.done)
    BY <1>1, UnansweredIs
  <2>. QED BY <1>1, <2>1
<1>. QED BY <1>2, <1>3, <1>4, <1>5, <1>6, <1>7, <1>8 DEF TypeOK

(* The stream, its reads and its settings keep their types, and of every   *)
(* message the scheduler has exactly one answer to give: none is counted   *)
(* twice and none is forgotten (Live::unanswered against the scheduler).   *)
THEOREM TypeCorrect == Spec => []TypeOK
<1>1. StreamInv => TypeOK BY TypesHold
<1>. QED BY <1>1, StreamInvariant, PTL

LEMMA AnswersHold ==
  ASSUME StreamInv
  PROVE  AnswersKept
<1> DEFINE a == left = "no"
<1>1. Good(St, Line, Ends, Came, Given, a, written) /\ St.live = live /\ St.topic = topic
  BY StIs DEF StreamInv
<1>2. Kept(St, Ends, Came, Given) BY <1>1 DEF Good
<1>3. ToSet(Answers(live)) = {m.answer[1] : m \in Answering(live)}
  <2> HIDE DEF a
  <2>1. AnswersAre(St.live, Answers(St.live), Ends) BY <1>1, AnswersIs
  <2>. QED BY <1>1, <2>1 DEF AnswersAre
<1>4. ASSUME NEW e \in Ends
      PROVE  Cardinality({m \in DOMAIN topic : e \in ToSet(topic[m])}) <= 1
  <2> DEFINE S == {m \in DOMAIN topic : e \in ToSet(topic[m])}
  <2>1. \A j, k \in S : j = k BY <1>1, <1>2 DEF Kept
  <2>2. CASE S = {} BY <2>2, FS_EmptySet
  <2>3. CASE S # {}
    <3>1. PICK m : m \in S BY <2>3
    <3>2. S = {m} BY <2>1, <3>1
    <3>3. Cardinality({m}) = 1 BY FS_Singleton
    <3> HIDE DEF S
    <3>4. Cardinality(S) <= 1 BY <3>2, <3>3
    <3>. QED BY <3>4 DEF S
  <2>. QED BY <2>2, <2>3
<1>5. ASSUME NEW e \in Ends, e <= stopped
      PROVE  \/ InTopic(e) \/ e \in fate.skipped \cup fate.apart
             \/ e \in {x.answer : x \in InStream(live)}
  <2>1. e \in Came BY <1>5 DEF Came
  <2>2. \/ IsIn(topic, e) \/ e \in Given
        \/ \E k \in DOMAIN live.held : live.held[k].answer = e
        \/ \E m \in Answering(live) : m.answer[1].answer = e
    BY <1>1, <1>2, <2>1 DEF Kept
  <2>3. \A k \in DOMAIN live.held : live.held[k] \in InStream(live)
    BY DEF InStream, ToSet
  <2>4. \A m \in Answering(live) : m.answer[1] \in InStream(live) BY <1>3 DEF InStream
  <2>. QED BY <2>2, <2>3, <2>4 DEF IsIn, InTopic, Given
<1>. QED BY <1>4, <1>5 DEF AnswersKept

(* No answer of a turn is lost or shown twice, whatever Telegram refuses,  *)
(* whichever break, rewind, restart or drain comes in between.             *)
THEOREM NoAnswerLost == Spec => []AnswersKept
<1>1. StreamInv => AnswersKept BY AnswersHold
<1>. QED BY <1>1, StreamInvariant, PTL

LEMMA AboveHold ==
  ASSUME StreamInv
  PROVE  NothingAboveAnswer
BY StIs DEF StreamInv, Good, Above, AboveOpen, Lowest, NoEnds, NothingAboveAnswer

(* While the session keeps its slot, no open turn message, not even one a  *)
(* rewind would go back to, stands above an answer in the topic: close_open*)
(* and the barriers' copies of it never let a piece grow into such a one.  *)
THEOREM WritesStayBelow == Spec => []NothingAboveAnswer
<1>1. StreamInv => NothingAboveAnswer BY AboveHold
<1>. QED BY <1>1, StreamInvariant, PTL
=============================================================================
