---------------------------- MODULE DeviceProofs ----------------------------
(* Proofs about SessionSlots, for every readable registry file, and about  *)
(* Device and AgentLinks, which extend it: for every set of sessions,      *)
(* hosts, folders and processes and every number of links.                 *)
EXTENDS Device, SequenceTheorems, FiniteSetTheorems, WellFoundedInduction, TLAPS

----------------------------------------------------------------------------
(* SessionSlots.                                                           *)

(* Every slot an entry or a hand-off names exists.                         *)
SlotsExist ==
  /\ \A s \in Session : sessions[s].slot \in 0 .. Len(slots)
  /\ \A key \in Key : clears[key] \in 0 .. Len(slots)

IInv ==
  /\ TypeOK
  /\ SlotsExist
  /\ CurrentOnce
  /\ RunningHoldsSlot
  /\ ShownIsKnown
  /\ UniqueIdentity

(* Only ended is set on the way from se to se2.                            *)
Ends(se, se2) ==
  \A s \in Session : se2[s] = se[s] \/ se2[s] = [se[s] EXCEPT !.ended = TRUE]

LEMMA EntryFields ==
  ASSUME NEW e \in Entry
  PROVE  /\ e.known \in BOOLEAN /\ e.ended \in BOOLEAN
         /\ e.kind \in {"top", "nested"} /\ e.slot \in Nat
         /\ e.host \in Host \union {None} /\ e.pid \in Pid \union {None}
         /\ e.parent \in Session \union {None}
BY DEF Entry

LEMMA EndingFields ==
  ASSUME NEW se \in [Session -> Entry], NEW se2 \in [Session -> Entry],
         Ends(se, se2)
  PROVE  \A s \in Session : /\ se2[s].known = se[s].known
                            /\ se2[s].kind = se[s].kind
                            /\ se2[s].slot = se[s].slot
                            /\ LiveTop(se2, s) => LiveTop(se, s)
BY EntryFields DEF Ends, LiveTop, Running, Entry

(* Ending sessions disturbs neither who holds a slot nor who it shows.     *)
LEMMA EndingKeeps ==
  ASSUME NEW sl \in Seq(Slot), NEW se \in [Session -> Entry],
         NEW se2 \in [Session -> Entry], Ends(se, se2),
         HeldIn(sl, se), ShownIn(sl, se)
  PROVE  /\ HeldIn(sl, se2) /\ ShownIn(sl, se2)
         /\ \A s \in Session : se2[s].slot = se[s].slot
<1>1. \A s \in Session : /\ se2[s].known = se[s].known
                         /\ se2[s].kind = se[s].kind
                         /\ se2[s].slot = se[s].slot
                         /\ LiveTop(se2, s) => LiveTop(se, s)
  BY EndingFields
<1>2. HeldIn(sl, se2) BY <1>1 DEF HeldIn
<1>3. \A i \in DOMAIN sl : sl[i] \in Slot OBVIOUS
<1>4. \A i \in DOMAIN sl : sl[i].current \in Session \union {None} BY <1>3 DEF Slot
<1>5. ShownIn(sl, se2) BY <1>1, <1>4 DEF ShownIn
<1>. QED BY <1>1, <1>2, <1>5

(* A session that takes slot k from no running session leaves every other  *)
(* running session its slot, and is itself current in k alone.             *)
LEMMA OccupyKeeps ==
  ASSUME NEW sl \in Seq(Slot), NEW se \in [Session -> Entry],
         NEW se2 \in [Session -> Entry],
         NEW s \in Session, NEW k \in DOMAIN sl,
         None \notin Session,
         ExclusiveIn(sl), HeldIn(sl, se), ShownIn(sl, se),
         \A t \in Session \ {s} : se2[t] = se[t],
         \A t \in Session \ {s} : LiveTop(se, t) => sl[k].current # t,
         se2[s].known, se2[s].kind = "top", se2[s].slot = k
  PROVE  /\ Occupied(sl, s, k) \in Seq(Slot)
         /\ Len(Occupied(sl, s, k)) = Len(sl)
         /\ ExclusiveIn(Occupied(sl, s, k))
         /\ HeldIn(Occupied(sl, s, k), se2)
         /\ ShownIn(Occupied(sl, s, k), se2)
<1> DEFINE oc == Occupied(sl, s, k)
<1>0. /\ DOMAIN sl = 1 .. Len(sl) /\ Len(sl) \in Nat
      /\ \A i \in DOMAIN sl : sl[i] \in Slot
  BY ElementOfSeq
<1>1. /\ DOMAIN oc = DOMAIN sl
      /\ \A i \in DOMAIN sl : oc[i] \in Slot
  BY <1>0 DEF Occupied, Slot
<1>2. oc \in Seq(Slot) /\ Len(oc) = Len(sl) BY <1>0, <1>1, LenProperties DEF Occupied
<1>3. /\ oc[k].current = s
      /\ \A i \in DOMAIN sl \ {k} :
           oc[i].current = IF sl[i].current = s THEN None ELSE sl[i].current
  BY <1>0 DEF Occupied, Slot
<1>4. ExclusiveIn(oc)
  <2> SUFFICES ASSUME NEW i \in DOMAIN sl, NEW j \in DOMAIN sl,
                      oc[i].current # None, oc[i].current = oc[j].current
               PROVE  i = j
    BY <1>1 DEF ExclusiveIn
  <2> HIDE DEF oc
  <2>1. CASE i = k \/ j = k BY <2>1, <1>3
  <2>2. CASE i # k /\ j # k BY <2>2, <1>3 DEF ExclusiveIn
  <2>. QED BY <2>1, <2>2
<1>5. HeldIn(oc, se2)
  <2> SUFFICES ASSUME NEW t \in Session, LiveTop(se2, t)
               PROVE  se2[t].slot \in DOMAIN oc /\ oc[se2[t].slot].current = t
    BY DEF HeldIn
  <2>1. CASE t = s BY <2>1, <1>1, <1>3
  <2>2. CASE t # s BY <2>2, <1>1, <1>3 DEF LiveTop, Running, HeldIn
  <2>. QED BY <2>1, <2>2
<1>6. ShownIn(oc, se2)
  <2> SUFFICES ASSUME NEW i \in DOMAIN oc, oc[i].current # None
               PROVE  se2[oc[i].current].known /\ se2[oc[i].current].kind = "top"
    BY DEF ShownIn
  <2>1. CASE i = k BY <2>1, <1>3
  <2>2. CASE i # k BY <2>2, <1>1, <1>3, <1>0 DEF Slot, ShownIn
  <2>. QED BY <2>1, <2>2
<1>. QED BY <1>2, <1>4, <1>5, <1>6

(* Forgetting ended sessions that no slot shows disturbs neither.          *)
LEMMA ForgettingKeeps ==
  ASSUME NEW sl \in Seq(Slot), NEW se \in [Session -> Entry],
         NEW gone \in SUBSET Session, None \notin Session,
         \A s \in gone : se[s].ended /\ \A i \in DOMAIN sl : sl[i].current # s,
         HeldIn(sl, se), ShownIn(sl, se)
  PROVE  /\ Pruned(se, gone) \in [Session -> Entry]
         /\ HeldIn(sl, Pruned(se, gone)) /\ ShownIn(sl, Pruned(se, gone))
<1>1. Unknown \in Entry BY DEF Unknown, Entry
<1>2. Pruned(se, gone) \in [Session -> Entry] BY <1>1 DEF Pruned
<1>3. HeldIn(sl, Pruned(se, gone)) BY DEF HeldIn, LiveTop, Running, Unknown, Pruned
<1>4. \A i \in DOMAIN sl : sl[i] \in Slot OBVIOUS
<1>5. \A i \in DOMAIN sl : sl[i].current \in Session \union {None} BY <1>4 DEF Slot
<1>6. ShownIn(sl, Pruned(se, gone)) BY <1>5 DEF ShownIn, Pruned
<1>. QED BY <1>2, <1>3, <1>6

LEMMA EndsTransitive ==
  ASSUME NEW se \in [Session -> Entry], NEW se2 \in [Session -> Entry],
         NEW se3 \in [Session -> Entry], Ends(se, se2), Ends(se2, se3)
  PROVE  Ends(se, se3)
<1> SUFFICES ASSUME NEW s \in Session
             PROVE  se3[s] = se[s] \/ se3[s] = [se[s] EXCEPT !.ended = TRUE]
  BY DEF Ends
<1>1. se2[s] = se[s] \/ se2[s] = [se[s] EXCEPT !.ended = TRUE] BY DEF Ends
<1>2. se3[s] = se2[s] \/ se3[s] = [se2[s] EXCEPT !.ended = TRUE] BY DEF Ends
<1>. QED BY <1>1, <1>2 DEF Entry

(* What the reap that comes first in every post does.                      *)
LEMMA ReapFacts ==
  ASSUME TypeOK, NEW p
  PROVE  /\ SessionsReaped(p) \in [Session -> Entry]
         /\ Ends(sessions, SessionsReaped(p))
         /\ PidsReaped(p) \in [Key -> Session \union {None}]
BY DEF TypeOK, Entry, SessionsReaped, Ends, PidsReaped

LEMMA ReusedPidFacts ==
  ASSUME NEW se \in [Session -> Entry],
         NEW pi \in [Key -> Session \union {None}], NEW p \in StartPost
  PROVE  /\ Previous(pi, p) \in Session \union {None}
         /\ ReusedPidEnded(se, pi, p) \in [Session -> Entry]
         /\ Ends(se, ReusedPidEnded(se, pi, p))
<1>1. Previous(pi, p) \in Session \union {None} BY DEF Previous, StartPost, Key
<1>2. \A q \in Session : [se[q] EXCEPT !.ended = TRUE] \in Entry BY DEF Entry
<1>3. ReusedPidEnded(se, pi, p) \in [Session -> Entry] BY <1>1, <1>2 DEF ReusedPidEnded
<1>4. Ends(se, ReusedPidEnded(se, pi, p)) BY <1>1 DEF ReusedPidEnded, Ends
<1>. QED BY <1>1, <1>3, <1>4

(* The slot a top-level start is given is new or held by no other session  *)
(* that still runs once the one that hands its slot on has ended.          *)
LEMMA AllocationIsSafe ==
  ASSUME NEW sl \in Seq(Slot), NEW se \in [Session -> Entry],
         NEW pi \in [Key -> Session \union {None}], NEW p \in StartPost,
         None \notin Session,
         NEW cs \in 0 .. Len(sl),
         \A s \in Session : se[s].slot \in 0 .. Len(sl),
         NEW k \in Nat, Allocates(sl, se, pi, p, cs, k)
  PROVE  /\ HandedOnEnded(sl, se, pi, p, cs) \in [Session -> Entry]
         /\ Ends(se, HandedOnEnded(sl, se, pi, p, cs))
         /\ \/ k = Len(sl) + 1
            \/ /\ k \in DOMAIN sl
               /\ \A t \in Session \ {p.session} :
                    LiveTop(HandedOnEnded(sl, se, pi, p, cs), t)
                      => sl[k].current # t
<1> DEFINE given == HandedOnEnded(sl, se, pi, p, cs)
<1>1. Previous(pi, p) \in Session \union {None} BY ReusedPidFacts
<1>2. HandedOn(sl, se, pi, p) # 0 => Previous(pi, p) \in Session BY <1>1 DEF HandedOn
<1>3. \A q \in Session : [se[q] EXCEPT !.ended = TRUE] \in Entry BY DEF Entry
<1>4. given \in [Session -> Entry] BY <1>2, <1>3 DEF HandedOnEnded, TakesHandedOn
<1>5. Ends(se, given) BY <1>2 DEF HandedOnEnded, TakesHandedOn, Ends
<1>5a. TakesHandedOn(sl, se, pi, p, cs) => ~LiveTop(given, Previous(pi, p))
  BY <1>2 DEF HandedOnEnded, TakesHandedOn, LiveTop, Running, Entry
<1>6. \A t \in Session : LiveTop(given, t) => Running(se, t)
  BY <1>4, <1>5, EndingFields DEF LiveTop, Running
<1>7. \A i \in DOMAIN sl, t \in Session :
        SlotFree(sl, se, i) /\ Running(se, t) => sl[i].current # t
  BY DEF SlotFree
<1>8. DOMAIN sl = 1 .. Len(sl) /\ Len(sl) \in Nat OBVIOUS
<1>9. p.session \in Session BY DEF StartPost
<1>10. CASE OwnUsable(sl, se, p)
  BY <1>10, <1>8, <1>9, <1>4, <1>5, <1>6, <1>7 DEF Allocates, OwnUsable, OwnSlot
<1>11. CASE ~OwnUsable(sl, se, p) /\ ClearUsable(sl, se, p, cs)
  BY <1>11, <1>8, <1>4, <1>5, <1>6, <1>7 DEF Allocates, ClearUsable
<1>12. CASE TakesHandedOn(sl, se, pi, p, cs)
  <2> DEFINE q == Previous(pi, p)
  <2>1. k = HandedOn(sl, se, pi, p) /\ k # 0 BY <1>12 DEF Allocates, TakesHandedOn
  <2>2. q \in Session /\ k = se[q].slot /\ sl[k].current = q BY <2>1, <1>2 DEF HandedOn
  <2>3. k \in DOMAIN sl BY <2>1, <2>2, <1>8
  <2>4. ~LiveTop(given, q) BY <1>12, <1>5a
  <2>. QED BY <1>4, <1>5, <2>2, <2>3, <2>4
<1>13. CASE /\ ~OwnUsable(sl, se, p) /\ ~ClearUsable(sl, se, p, cs)
            /\ HandedOn(sl, se, pi, p) = 0 /\ FreeSlots(sl, se, p) # {}
  BY <1>13, <1>4, <1>5, <1>6, <1>7 DEF Allocates, FreeSlots, SameFolder
<1>14. CASE /\ ~OwnUsable(sl, se, p) /\ ~ClearUsable(sl, se, p, cs)
            /\ HandedOn(sl, se, pi, p) = 0 /\ FreeSlots(sl, se, p) = {}
  BY <1>14, <1>4, <1>5 DEF Allocates
<1>. QED BY <1>10, <1>11, <1>12, <1>13, <1>14 DEF TakesHandedOn

(* A nonempty set of slot ids has a least element: of the sets 1 .. n of    *)
(* its elements one includes no other.                                     *)
LEMMA LeastSlot ==
  ASSUME NEW n \in Nat, NEW S \in SUBSET (1 .. n), S # {}
  PROVE  \E k \in S : \A m \in S : k <= m
<1> DEFINE R == StrictSubsetOrdering(1 .. n)
           F == FiniteSubsetsOf(1 .. n)
           T == { 1 .. k : k \in S }
<1>1. IsWellFoundedOn(R, F) BY FS_Interval, FS_StrictSubsetOrderingWellFounded
<1>2. T \in SUBSET F /\ T # {}
  <2>1. ASSUME NEW k \in S PROVE (1 .. k) \in F BY FS_Interval DEF FiniteSubsetsOf
  <2>. QED BY <2>1
<1>3. PICK x \in T : \A y \in T : ~(<<y, x>> \in R)
  <2> HIDE DEF R, F, T
  <2>. QED BY <1>1, <1>2, WFMin
<1>4. PICK k \in S : x = 1 .. k OBVIOUS
<1>5. ASSUME NEW m \in S, m < k PROVE FALSE
  <2>1. (1 .. m) \subseteq (1 .. k) /\ k \in 1 .. k /\ k \notin 1 .. m BY <1>5
  <2>2. <<1 .. m, 1 .. k>> \in R BY <2>1 DEF StrictSubsetOrdering
  <2>. QED BY <2>2, <1>3, <1>4
<1>. QED BY <1>5

(* Slots that keep their identities stay unique.                           *)
LEMMA IdentitiesKept ==
  ASSUME NEW sl \in Seq(Slot), NEW sl2 \in Seq(Slot), Len(sl2) = Len(sl),
         UniqueIn(sl),
         \A i \in DOMAIN sl : /\ sl2[i].host = sl[i].host
                              /\ sl2[i].folder = sl[i].folder
                              /\ sl2[i].ordinal = sl[i].ordinal
  PROVE  UniqueIn(sl2)
BY LenProperties DEF UniqueIn

(* Registry::load leaves no session current twice, and a running session   *)
(* in the slot its entry names.                                            *)
LEMMA HealingFacts ==
  ASSUME NEW sl \in Seq(Slot), NEW se \in [Session -> Entry],
         None \notin Session, HeldIn(sl, se), ShownIn(sl, se), UniqueIn(sl),
         \A s \in Session : se[s].slot \in 0 .. Len(sl)
  PROVE  /\ HealedSlots(sl, se) \in Seq(Slot)
         /\ Len(HealedSlots(sl, se)) = Len(sl)
         /\ HealedSessions(sl, se) \in [Session -> Entry]
         /\ \A s \in Session : HealedSessions(sl, se)[s].slot \in 0 .. Len(sl)
         /\ ExclusiveIn(HealedSlots(sl, se))
         /\ HeldIn(HealedSlots(sl, se), HealedSessions(sl, se))
         /\ ShownIn(HealedSlots(sl, se), HealedSessions(sl, se))
         /\ UniqueIn(HealedSlots(sl, se))
<1> DEFINE hs == HealedSlots(sl, se)
           he == HealedSessions(sl, se)
<1>0. /\ DOMAIN sl = 1 .. Len(sl) /\ Len(sl) \in Nat
      /\ \A i \in DOMAIN sl : sl[i] \in Slot /\ sl[i].current \in Session \union {None}
  <2>1. \A i \in DOMAIN sl : sl[i] \in Slot OBVIOUS
  <2>. QED BY <2>1 DEF Slot
<1>1. /\ DOMAIN hs = DOMAIN sl
      /\ \A i \in DOMAIN sl : hs[i] \in Slot
  BY <1>0 DEF HealedSlots, Slot
<1>2. hs \in Seq(Slot) /\ Len(hs) = Len(sl) BY <1>0, <1>1, LenProperties DEF HealedSlots
(* A slot keeps its session exactly when it is the session's first one.    *)
<1>3. \A i \in DOMAIN sl :
        \/ hs[i].current = None
        \/ /\ hs[i].current = sl[i].current
           /\ \A j \in 1 .. i - 1 : sl[j].current # sl[i].current
  BY <1>0 DEF HealedSlots, ShownIn, Slot
<1>4. \A i \in DOMAIN sl :
        (\A j \in 1 .. i - 1 : sl[j].current # sl[i].current) => hs[i] = sl[i]
  BY DEF HealedSlots
<1>5. ASSUME NEW s \in Session, Split(sl, s)
      PROVE  /\ KeptSlot(sl, s) \in DOMAIN sl
             /\ sl[KeptSlot(sl, s)].current = s
             /\ \A j \in 1 .. KeptSlot(sl, s) - 1 : sl[j].current # s
  <2> DEFINE S == { i \in DOMAIN sl : sl[i].current = s }
  <2>1. S \in SUBSET (1 .. Len(sl)) /\ S # {} BY <1>5, <1>0 DEF Split
  <2>2. PICK n \in S : \A m \in S : n <= m BY <2>1, <1>0, LeastSlot
  <2>3. /\ n \in DOMAIN sl /\ sl[n].current = s
        /\ \A j \in 1 .. n - 1 : sl[j].current # s
    BY <2>2, <1>0
  <2>. QED BY <2>3 DEF KeptSlot
<1>6. he \in [Session -> Entry]
  <2>1. ASSUME NEW s \in Session PROVE he[s] \in Entry
    BY <1>5, <1>0 DEF HealedSessions, Entry
  <2>. QED BY <2>1 DEF HealedSessions
<1>7. \A s \in Session : /\ he[s].known = se[s].known
                         /\ he[s].kind = se[s].kind
                         /\ he[s].ended = se[s].ended
                         /\ he[s].slot = IF /\ se[s].known /\ se[s].kind = "top"
                                            /\ Split(sl, s)
                                         THEN KeptSlot(sl, s) ELSE se[s].slot
  BY DEF HealedSessions, Entry
<1>8. \A s \in Session : he[s].slot \in 0 .. Len(sl) BY <1>7, <1>5, <1>0
<1>9. ExclusiveIn(hs)
  <2> SUFFICES ASSUME NEW i \in DOMAIN sl, NEW j \in DOMAIN sl,
                      hs[i].current # None, hs[i].current = hs[j].current
               PROVE  i = j
    BY <1>1 DEF ExclusiveIn
  <2> HIDE DEF hs
  <2>1. sl[i].current = sl[j].current BY <1>3
  <2>2. i <= j /\ j <= i BY <1>3, <1>0, <2>1, SMTT(30)
  <2>. QED BY <2>2, <1>0
<1>10. HeldIn(hs, he)
  <2> SUFFICES ASSUME NEW s \in Session, LiveTop(he, s)
               PROVE  he[s].slot \in DOMAIN hs /\ hs[he[s].slot].current = s
    BY DEF HeldIn
  <2>1. se[s].known /\ se[s].kind = "top" /\ LiveTop(se, s) BY <1>7 DEF LiveTop, Running
  <2>2. se[s].slot \in DOMAIN sl /\ sl[se[s].slot].current = s BY <2>1 DEF HeldIn
  <2>3. CASE Split(sl, s)
    <3> DEFINE k == KeptSlot(sl, s)
    <3>1. k \in DOMAIN sl /\ sl[k].current = s
          /\ \A j \in 1 .. k - 1 : sl[j].current # s
      BY <2>3, <1>5
    <3>2. hs[k] = sl[k] BY <3>1, <1>4
    <3>3. he[s].slot = k BY <1>7, <2>1, <2>3
    <3>. QED BY <3>1, <3>2, <3>3, <1>1
  <2>4. CASE ~Split(sl, s)
    <3> DEFINE k == se[s].slot
    <3>1. \A j \in 1 .. k - 1 : sl[j].current # sl[k].current
      BY <2>2, <2>4, <1>0 DEF Split
    <3>2. hs[k] = sl[k] BY <3>1, <2>2, <1>4
    <3>3. he[s].slot = k BY <1>7, <2>4
    <3>. QED BY <2>2, <3>2, <3>3, <1>1
  <2>. QED BY <2>3, <2>4
<1>11. ShownIn(hs, he)
  <2> SUFFICES ASSUME NEW i \in DOMAIN sl, hs[i].current # None
               PROVE  he[hs[i].current].known /\ he[hs[i].current].kind = "top"
    BY <1>1 DEF ShownIn
  <2>1. hs[i].current = sl[i].current BY <1>3
  <2>2. sl[i].current \in Session BY <1>0, <2>1
  <2>3. se[sl[i].current].known /\ se[sl[i].current].kind = "top" BY <2>1 DEF ShownIn
  <2>. QED BY <2>1, <2>2, <2>3, <1>7
<1>12. UniqueIn(hs)
  <2>1. \A i \in DOMAIN sl : /\ hs[i].host = sl[i].host
                             /\ hs[i].folder = sl[i].folder
                             /\ hs[i].ordinal = sl[i].ordinal
    BY <1>0 DEF HealedSlots, Slot
  <2>. QED BY <1>2, <2>1, IdentitiesKept
<1>. QED BY <1>2, <1>6, <1>8, <1>9, <1>10, <1>11, <1>12

(* A new slot that no session holds yet disturbs nothing.                  *)
LEMMA MakingKeeps ==
  ASSUME NEW sl \in Seq(Slot), NEW se \in [Session -> Entry],
         NEW m \in Slot, m.current = None,
         ExclusiveIn(sl), HeldIn(sl, se), ShownIn(sl, se), UniqueIn(sl),
         \A j \in DOMAIN sl : sl[j].host = m.host /\ sl[j].folder = m.folder
                              => sl[j].ordinal < m.ordinal
  PROVE  /\ Append(sl, m) \in Seq(Slot)
         /\ Len(Append(sl, m)) = Len(sl) + 1
         /\ Append(sl, m)[Len(sl) + 1] = m
         /\ ExclusiveIn(Append(sl, m))
         /\ HeldIn(Append(sl, m), se)
         /\ ShownIn(Append(sl, m), se)
         /\ UniqueIn(Append(sl, m))
<1> DEFINE sm == Append(sl, m)
<1>1. /\ sm \in Seq(Slot)
      /\ Len(sm) = Len(sl) + 1
      /\ sm[Len(sl) + 1] = m
      /\ \A i \in DOMAIN sl : sm[i] = sl[i]
      /\ DOMAIN sl = 1 .. Len(sl) /\ Len(sl) \in Nat
      /\ DOMAIN sm = 1 .. Len(sl) + 1
  BY AppendProperties, LenProperties
<1>2. \A i \in DOMAIN sm : i \in DOMAIN sl \/ i = Len(sl) + 1 BY <1>1
<1> HIDE DEF sm
<1>3. ExclusiveIn(sm) BY <1>1, <1>2 DEF ExclusiveIn
<1>4. HeldIn(sm, se) BY <1>1 DEF HeldIn
<1>5. ShownIn(sm, se) BY <1>1, <1>2 DEF ShownIn
<1>6. UniqueIn(sm)
  <2> SUFFICES ASSUME NEW i \in DOMAIN sm, NEW j \in DOMAIN sm,
                      sm[i].host = sm[j].host, sm[i].folder = sm[j].folder,
                      sm[i].ordinal = sm[j].ordinal
               PROVE  i = j
    BY DEF UniqueIn
  <2>1. m.ordinal \in Nat /\ \A l \in DOMAIN sl : sl[l].ordinal \in Nat
    <3>1. \A l \in DOMAIN sl : sl[l] \in Slot OBVIOUS
    <3>. QED BY <3>1 DEF Slot
  <2>2. CASE i \in DOMAIN sl /\ j \in DOMAIN sl BY <2>2, <1>1 DEF UniqueIn
  <2>3. CASE i = Len(sl) + 1 \/ j = Len(sl) + 1 BY <2>1, <2>3, <1>1, <1>2
  <2>. QED BY <2>2, <2>3, <1>2
<1>. QED BY <1>1, <1>3, <1>4, <1>5, <1>6 DEF sm

(* The end of every start that is recorded: prune, and what stays in       *)
(* memory.                                                                 *)
LEMMA RecordingKeeps ==
  ASSUME ConstantsAssumption, TypeOK,
         NEW sl \in Seq(Slot), NEW se \in [Session -> Entry],
         NEW pi \in [Key -> Session \union {None}], NEW p \in StartPost,
         ExclusiveIn(sl), HeldIn(sl, se), ShownIn(sl, se), UniqueIn(sl),
         \A s \in Session : se[s].slot \in 0 .. Len(sl),
         \A key \in Key : clears[key] \in 0 .. Len(sl),
         Recorded(sl, se, pi, p)
  PROVE  IInv'
<1> DEFINE ol   == StartedLast(p.session, se)
           gone == Forgotten(sl, se, ol)
<1>1. None \notin Session /\ p.session \in Session BY DEF ConstantsAssumption, StartPost
<1>2. ol \in SUBSET (Session \X Session) BY <1>1 DEF StartedLast, TypeOK
<1>3. /\ gone \in SUBSET Session
      /\ \A s \in gone : se[s].ended /\ \A i \in DOMAIN sl : sl[i].current # s
  BY DEF Forgotten
<1>4. /\ slots' = sl
      /\ sessions' = Pruned(se, gone)
      /\ pids' = [k \in Key |-> IF pi[k] \in gone THEN None ELSE pi[k]]
      /\ older' = { x \in ol : x[1] \notin gone /\ x[2] \notin gone }
      /\ starts' = starts \union {p.session}
      /\ clears' = ClearsLeft(p)
  BY DEF Recorded
<1> HIDE DEF ol, gone
<1>5. /\ sessions' \in [Session -> Entry]
      /\ HeldIn(sl, sessions') /\ ShownIn(sl, sessions')
  BY <1>1, <1>3, ForgettingKeeps, <1>4
<1>6. clears' \in [Key -> Nat] /\ \A key \in Key : clears'[key] \in 0 .. Len(sl)
  <2>1. Len(sl) \in Nat /\ clears \in [Key -> Nat] BY DEF TypeOK
  <2>2. CASE p.pid = None BY <2>1, <2>2, <1>4 DEF ClearsLeft
  <2>3. CASE p.pid # None
    <3> DEFINE own == <<p.host, p.pid>>
    <3>1. clears' = [clears EXCEPT ![own] = 0] BY <2>3, <1>4 DEF ClearsLeft
    <3> HIDE DEF own
    <3>2. clears' \in [Key -> Nat] BY <2>1, <3>1
    <3>3. \A key \in Key : clears'[key] = clears[key] \/ clears'[key] = 0 BY <2>1, <3>1
    <3>4. ASSUME NEW key \in Key PROVE clears'[key] \in 0 .. Len(sl) BY <3>3, <2>1
    <3>. QED BY <3>2, <3>4
  <2>. QED BY <2>2, <2>3
<1>7. TypeOK' BY <1>1, <1>2, <1>4, <1>5, <1>6 DEF TypeOK
<1>8. \A s \in Session : sessions'[s].slot \in 0 .. Len(sl) BY <1>4 DEF Unknown, Pruned
<1>9. SlotsExist' BY <1>4, <1>6, <1>8 DEF SlotsExist
<1>10. CurrentOnce' /\ RunningHoldsSlot' /\ ShownIsKnown' /\ UniqueIdentity'
  BY <1>4, <1>5 DEF CurrentOnce, RunningHoldsSlot, ShownIsKnown, UniqueIdentity
<1>. QED BY <1>7, <1>9, <1>10 DEF IInv

(* A step that only ends sessions, and changes pids, hand-offs and recent  *)
(* starts within their types.                                              *)
LEMMA EndingStepKeeps ==
  ASSUME IInv, slots' = slots, older' = older,
         sessions' \in [Session -> Entry], Ends(sessions, sessions'),
         pids' \in [Key -> Session \union {None}],
         starts' \in SUBSET Session, clears' \in [Key -> Nat],
         \A key \in Key : clears'[key] \in 0 .. Len(slots)
  PROVE  IInv'
<1>1. /\ HeldIn(slots, sessions') /\ ShownIn(slots, sessions')
      /\ \A s \in Session : sessions'[s].slot = sessions[s].slot
  <2>1. /\ slots \in Seq(Slot) /\ sessions \in [Session -> Entry]
        /\ HeldIn(slots, sessions) /\ ShownIn(slots, sessions)
    BY DEF IInv, TypeOK, RunningHoldsSlot, ShownIsKnown
  <2>. QED BY <2>1, EndingKeeps
<1>2. TypeOK' BY DEF IInv, TypeOK
<1>3. SlotsExist' BY <1>1 DEF IInv, SlotsExist
<1>4. CurrentOnce' /\ RunningHoldsSlot' /\ ShownIsKnown' /\ UniqueIdentity'
  BY <1>1 DEF IInv, CurrentOnce, RunningHoldsSlot, ShownIsKnown, UniqueIdentity
<1>. QED BY <1>2, <1>3, <1>4 DEF IInv

LEMMA StartRoutedKeeps ==
  ASSUME IInv, NEW p \in StartPost, StartRouted(p) PROVE IInv'
BY ReapFacts, EndingStepKeeps DEF IInv, StartPost, StartRouted, TypeOK, SlotsExist

LEMMA EndIgnoredKeeps ==
  ASSUME IInv, NEW p \in EndPost, EndIgnored(p) PROVE IInv'
BY ReapFacts, EndingStepKeeps DEF IInv, EndIgnored, TypeOK, SlotsExist

LEMMA EndSessionKeeps ==
  ASSUME IInv, NEW p \in EndPost, EndSession(p) PROVE IInv'
<1> DEFINE se  == SessionsReaped(p)
           pi  == PidsReaped(p)
           e   == se[p.session]
           key == <<e.host, e.pid>>
           pi2 == IF e.pid # None /\ pi[key] = p.session
                  THEN [pi EXCEPT ![key] = None] ELSE pi
           left == IF p.reason = "clear" /\ pi2[key] = None THEN e.slot ELSE 0
           hand == e.pid # None /\ e.slot # 0 /\ e.kind = "top"
<1>1. /\ se \in [Session -> Entry] /\ Ends(sessions, se)
      /\ pi \in [Key -> Session \union {None}]
  BY ReapFacts DEF IInv
<1>2. p.session \in Session BY DEF EndPost
<1>3. /\ sessions' = [se EXCEPT ![p.session].ended = TRUE]
      /\ pids' = pi2
      /\ clears' = IF ~hand THEN clears ELSE [clears EXCEPT ![key] = left]
      /\ slots' = slots /\ older' = older /\ starts' = starts
  BY DEF EndSession
<1> HIDE DEF se, pi
<1>4. sessions' \in [Session -> Entry] /\ Ends(se, sessions')
  <2>1. \A s \in Session : [se[s] EXCEPT !.ended = TRUE] \in Entry BY <1>1 DEF Entry
  <2>. QED BY <1>1, <1>2, <1>3, <2>1 DEF Ends
<1>5. Ends(sessions, sessions') BY <1>1, <1>4, EndsTransitive DEF IInv, TypeOK
<1> HIDE DEF key
<1>6. pids' \in [Key -> Session \union {None}] BY <1>1, <1>3
<1>7. left \in 0 .. Len(slots)
  <2>1. se[p.session].slot = sessions[p.session].slot
    <3>1. /\ slots \in Seq(Slot) /\ sessions \in [Session -> Entry]
          /\ HeldIn(slots, sessions) /\ ShownIn(slots, sessions)
      BY DEF IInv, TypeOK, RunningHoldsSlot, ShownIsKnown
    <3>2. \A s \in Session : se[s].slot = sessions[s].slot BY <3>1, <1>1, EndingKeeps
    <3>. QED BY <3>2, <1>2
  <2>2. Len(slots) \in Nat /\ sessions[p.session].slot \in 0 .. Len(slots)
    BY <1>2 DEF IInv, TypeOK, SlotsExist
  <2>. QED BY <2>1, <2>2
<1> HIDE DEF left, hand, pi2
<1>8. clears \in [Key -> Nat] /\ \A x \in Key : clears[x] \in 0 .. Len(slots)
  BY DEF IInv, TypeOK, SlotsExist
<1>9. clears' \in [Key -> Nat] /\ \A x \in Key : clears'[x] \in 0 .. Len(slots)
  <2>1. CASE ~hand BY <2>1, <1>3, <1>8
  <2>2. CASE hand
    <3>1. clears' = [clears EXCEPT ![key] = left] /\ left \in Nat BY <2>2, <1>3, <1>7
    <3>2. clears' \in [Key -> Nat] BY <3>1, <1>8
    <3>3. ASSUME NEW x \in Key PROVE clears'[x] \in 0 .. Len(slots) BY <3>1, <1>8, <1>7
    <3>. QED BY <3>2, <3>3
  <2>. QED BY <2>1, <2>2
<1>10. starts' \in SUBSET Session BY <1>3 DEF IInv, TypeOK
<1>. QED BY <1>3, <1>4, <1>5, <1>6, <1>9, <1>10, EndingStepKeeps

LEMMA TimersKeep ==
  ASSUME IInv,
         (\E s \in Session : GraceOver(s)) \/ (\E key \in Key : HandoffOver(key))
  PROVE  IInv'
<1>1. sessions' = sessions /\ pids' = pids /\ slots' = slots /\ older' = older
  BY DEF GraceOver, HandoffOver
<1>2. starts' \in SUBSET Session BY DEF GraceOver, HandoffOver, IInv, TypeOK
<1>3. clears \in [Key -> Nat] /\ \A x \in Key : clears[x] \in 0 .. Len(slots)
  BY DEF IInv, TypeOK, SlotsExist
<1>4. clears' \in [Key -> Nat] /\ \A x \in Key : clears'[x] \in 0 .. Len(slots)
  <2>1. CASE clears' = clears BY <2>1, <1>3
  <2>2. CASE \E key \in Key : clears' = [clears EXCEPT ![key] = 0]
    <3>1. PICK key \in Key : clears' = [clears EXCEPT ![key] = 0] BY <2>2
    <3>2. ASSUME NEW x \in Key
          PROVE  clears'[x] \in Nat /\ clears'[x] \in 0 .. Len(slots)
      BY <3>1, <1>3 DEF IInv, TypeOK
    <3>. QED BY <3>1, <3>2, <1>3
  <2>. QED BY <2>1, <2>2 DEF GraceOver, HandoffOver
<1>5. Ends(sessions, sessions') BY <1>1 DEF Ends
<1>. QED BY <1>1, <1>2, <1>4, <1>5, EndingStepKeeps DEF IInv, TypeOK

(* What a start that is not routed away finds after the reap and the end   *)
(* of the session its reused pid belonged to.                              *)
LEMMA BeforeStart ==
  ASSUME IInv, ConstantsAssumption, NEW p \in StartPost,
         NEW pi, pi = PidsReaped(p),
         NEW se, se = ReusedPidEnded(SessionsReaped(p), pi, p)
  PROVE  /\ slots \in Seq(Slot) /\ se \in [Session -> Entry]
         /\ pi \in [Key -> Session \union {None}]
         /\ p.session \in Session /\ None \notin Session
         /\ ExclusiveIn(slots) /\ HeldIn(slots, se) /\ ShownIn(slots, se)
         /\ UniqueIn(slots)
         /\ \A s \in Session : se[s].slot \in 0 .. Len(slots)
         /\ \A key \in Key : clears[key] \in 0 .. Len(slots)
         /\ PidTaken(pi, p) \in [Key -> Session \union {None}]
<1>1. /\ slots \in Seq(Slot) /\ sessions \in [Session -> Entry]
      /\ HeldIn(slots, sessions) /\ ShownIn(slots, sessions)
      /\ ExclusiveIn(slots) /\ UniqueIn(slots)
  BY DEF IInv, TypeOK, RunningHoldsSlot, ShownIsKnown, CurrentOnce, UniqueIdentity
<1>2. /\ SessionsReaped(p) \in [Session -> Entry]
      /\ Ends(sessions, SessionsReaped(p))
      /\ pi \in [Key -> Session \union {None}]
  BY ReapFacts DEF IInv
<1>3. se \in [Session -> Entry] /\ Ends(SessionsReaped(p), se) BY <1>2, ReusedPidFacts
<1>4. Ends(sessions, se) BY <1>1, <1>2, <1>3, EndsTransitive
<1>5. /\ HeldIn(slots, se) /\ ShownIn(slots, se)
      /\ \A s \in Session : se[s].slot = sessions[s].slot
  BY <1>1, <1>3, <1>4, EndingKeeps
<1>6. p.session \in Session /\ None \notin Session BY DEF StartPost, ConstantsAssumption
<1>7. PidTaken(pi, p) \in [Key -> Session \union {None}] BY <1>2, <1>6 DEF PidTaken
<1>8. /\ \A s \in Session : se[s].slot \in 0 .. Len(slots)
      /\ \A key \in Key : clears[key] \in 0 .. Len(slots)
  BY <1>5 DEF IInv, SlotsExist
<1>. QED BY <1>1, <1>2, <1>3, <1>5, <1>6, <1>7, <1>8

LEMMA StartedFacts ==
  ASSUME NEW se \in [Session -> Entry], NEW p \in StartPost,
         NEW kind \in {"top", "nested"}, NEW parent \in Session \union {None},
         NEW k \in Nat
  PROVE  /\ Started(se, p, kind, parent, k) \in [Session -> Entry]
         /\ \A s \in Session \ {p.session} :
              Started(se, p, kind, parent, k)[s] = se[s]
         /\ Started(se, p, kind, parent, k)[p.session].known
         /\ Started(se, p, kind, parent, k)[p.session].kind = kind
         /\ Started(se, p, kind, parent, k)[p.session].slot = k
<1>1. /\ p.session \in Session /\ p.host \in Host
      /\ p.pid \in Pid \union {None}
  BY DEF StartPost
<1> DEFINE e == se[p.session]
           n == [ known  |-> TRUE,
                  host   |-> IF e.known THEN e.host ELSE p.host,
                  kind   |-> kind,
                  parent |-> parent,
                  slot   |-> k,
                  pid    |-> IF p.pid # None THEN p.pid ELSE e.pid,
                  ended  |-> FALSE ]
<1>2. e \in Entry BY <1>1
<1>3. n \in Entry BY <1>1, <1>2, EntryFields DEF Entry
<1>4. Started(se, p, kind, parent, k) = [se EXCEPT ![p.session] = n] BY DEF Started
<1>5. n.known /\ n.kind = kind /\ n.slot = k OBVIOUS
<1> HIDE DEF n
<1>. QED BY <1>1, <1>3, <1>4, <1>5

LEMMA StartNestedKeeps ==
  ASSUME IInv, ConstantsAssumption, NEW p \in StartPost, StartNested(p)
  PROVE  IInv'
<1> DEFINE pi == PidsReaped(p)
           se == ReusedPidEnded(SessionsReaped(p), pi, p)
           q  == ParentOf(se, pi, p)
           k  == IF q # None THEN se[q].slot ELSE 0
           sn == Started(se, p, "nested", q, k)
<1>1. /\ slots \in Seq(Slot) /\ se \in [Session -> Entry]
      /\ pi \in [Key -> Session \union {None}]
      /\ p.session \in Session /\ None \notin Session
      /\ ExclusiveIn(slots) /\ HeldIn(slots, se) /\ ShownIn(slots, se)
      /\ UniqueIn(slots)
      /\ \A s \in Session : se[s].slot \in 0 .. Len(slots)
      /\ \A key \in Key : clears[key] \in 0 .. Len(slots)
      /\ PidTaken(pi, p) \in [Key -> Session \union {None}]
  BY BeforeStart
<1>2. /\ StartsNested(se, p)
      /\ ~Routed(SessionsReaped(p), pi, p)
      /\ Recorded(slots, sn, PidTaken(pi, p), p)
  BY DEF StartNested
<1>3. p.parent # None => p.parent \in Pid /\ p.host \in Host BY DEF StartPost
<1>4. ~(se[p.session].known /\ se[p.session].kind = "top")
  BY <1>2, ReapFacts, ReusedPidFacts, <1>1, EndingFields DEF StartsNested, StaysNested, IInv,
     Routed
<1> HIDE DEF se, pi
<1>5. q \in Session \union {None} BY <1>1, EntryFields, <1>3 DEF ParentOf, Key
<1>6. k \in 0 .. Len(slots) /\ k \in Nat BY <1>1, <1>5
<1> HIDE DEF q, k
<1>7. /\ sn \in [Session -> Entry]
      /\ \A s \in Session \ {p.session} : sn[s] = se[s]
      /\ sn[p.session].kind = "nested" /\ sn[p.session].slot = k
  BY <1>1, <1>5, <1>6, StartedFacts
<1> HIDE DEF sn
<1>8. HeldIn(slots, sn) BY <1>1, <1>7 DEF HeldIn, LiveTop, Running
<1>9. ShownIn(slots, sn)
  <2>1. \A i \in DOMAIN slots : slots[i] \in Slot BY <1>1
  <2>2. \A i \in DOMAIN slots :
          slots[i].current # None =>
            slots[i].current \in Session /\ slots[i].current # p.session
    BY <1>1, <1>4, <2>1 DEF ShownIn, Slot
  <2>. QED BY <1>1, <1>7, <2>2 DEF ShownIn
<1>10. \A s \in Session : sn[s].slot \in 0 .. Len(slots) BY <1>1, <1>6, <1>7
<1>. QED BY <1>1, <1>2, <1>7, <1>8, <1>9, <1>10, RecordingKeeps DEF IInv

LEMMA StartTopLevelKeeps ==
  ASSUME IInv, ConstantsAssumption, NEW p \in StartPost, StartTopLevel(p)
  PROVE  IInv'
<1> DEFINE pi == PidsReaped(p)
           se == ReusedPidEnded(SessionsReaped(p), pi, p)
           cs == ClearSlot(p)
           given == HandedOnEnded(slots, se, pi, p, cs)
           same == SameFolder(slots, se, p)
           Made(o) == [ host |-> p.host, folder |-> FolderOf(slots, se, p),
                        ordinal |-> o, current |-> None ]
           After(k, o) == IF k = Len(slots) + 1 THEN Append(slots, Made(o)) ELSE slots
           st(k) == Started(given, p, "top", None, k)
<1>1. /\ slots \in Seq(Slot) /\ se \in [Session -> Entry]
      /\ pi \in [Key -> Session \union {None}]
      /\ p.session \in Session /\ None \notin Session
      /\ ExclusiveIn(slots) /\ HeldIn(slots, se) /\ ShownIn(slots, se)
      /\ UniqueIn(slots)
      /\ \A s \in Session : se[s].slot \in 0 .. Len(slots)
      /\ \A key \in Key : clears[key] \in 0 .. Len(slots)
      /\ PidTaken(pi, p) \in [Key -> Session \union {None}]
  BY BeforeStart
<1>2. PICK k \in 1 .. Len(slots) + 1, o \in 1 .. Len(slots) + 1 :
        /\ Allocates(slots, se, pi, p, cs, k)
        /\ NextOrdinal(slots, same, o)
        /\ Recorded(Occupied(After(k, o), p.session, k), st(k), PidTaken(pi, p), p)
  BY DEF StartTopLevel
<1>3. cs \in 0 .. Len(slots) BY <1>1 DEF StartPost, Key, ClearSlot
<1> HIDE DEF pi, se, cs
<1>4. /\ given \in [Session -> Entry] /\ Ends(se, given)
      /\ \/ k = Len(slots) + 1
         \/ /\ k \in DOMAIN slots
            /\ \A t \in Session \ {p.session} :
                 LiveTop(given, t) => slots[k].current # t
  <2>1. k \in Nat BY <1>1
  <2>2. Allocates(slots, se, pi, p, cs, k) BY <1>2
  <2>. QED BY <1>1, <1>3, <2>1, <2>2, AllocationIsSafe
<1> HIDE DEF given
<1> DEFINE sl == After(k, o)
<1>5. /\ HeldIn(slots, given) /\ ShownIn(slots, given)
      /\ \A s \in Session : given[s].slot = se[s].slot
  BY <1>1, <1>4, EndingKeeps
<1>6. FolderOf(slots, se, p) \in Folder
  <2>1. p.folder \in Folder BY DEF StartPost
  <2>2. OwnSlot(slots, se, p) # 0 => OwnSlot(slots, se, p) \in DOMAIN slots
    BY <1>1 DEF OwnSlot
  <2>3. \A i \in DOMAIN slots : slots[i].folder \in Folder
    <3>1. \A i \in DOMAIN slots : slots[i] \in Slot BY <1>1
    <3>. QED BY <3>1 DEF Slot
  <2>. QED BY <2>1, <2>2, <2>3 DEF FolderOf
<1>7. Made(o) \in Slot BY <1>1, <1>6 DEF StartPost, Slot
<1>8. \A j \in DOMAIN slots :
        slots[j].host = Made(o).host /\ slots[j].folder = Made(o).folder
          => slots[j].ordinal < Made(o).ordinal
  BY <1>2 DEF NextOrdinal, SameFolder
<1>9. /\ sl \in Seq(Slot) /\ k \in DOMAIN sl
      /\ Len(sl) \in Nat /\ Len(slots) <= Len(sl) /\ Len(slots) \in Nat
      /\ ExclusiveIn(sl) /\ HeldIn(sl, given) /\ ShownIn(sl, given) /\ UniqueIn(sl)
      /\ \A t \in Session \ {p.session} : LiveTop(given, t) => sl[k].current # t
  <2> DEFINE m == Made(o)
  <2>1. CASE k = Len(slots) + 1
    <3>1. sl = Append(slots, m) /\ m \in Slot /\ m.current = None BY <2>1, <1>7
    <3>2. \A j \in DOMAIN slots : slots[j].host = m.host /\ slots[j].folder = m.folder
            => slots[j].ordinal < m.ordinal
      BY <1>8
    <3> HIDE DEF m, sl
    <3>3. /\ Append(slots, m) \in Seq(Slot)
          /\ Len(Append(slots, m)) = Len(slots) + 1
          /\ Append(slots, m)[Len(slots) + 1] = m
          /\ ExclusiveIn(Append(slots, m)) /\ HeldIn(Append(slots, m), given)
          /\ ShownIn(Append(slots, m), given) /\ UniqueIn(Append(slots, m))
      BY <1>1, <1>4, <1>5, <3>1, <3>2, MakingKeeps
    <3>4. Len(slots) \in Nat /\ DOMAIN sl = 1 .. Len(sl) BY <1>1, <3>1, <3>3
    <3>. QED BY <1>1, <2>1, <3>1, <3>3, <3>4
  <2>2. CASE k # Len(slots) + 1
    <3>1. sl = slots /\ Len(slots) \in Nat BY <2>2, <1>1
    <3> HIDE DEF sl
    <3>. QED BY <1>1, <1>4, <1>5, <2>2, <3>1
  <2>. QED BY <2>1, <2>2
<1> DEFINE sn == st(k)
<1>10. /\ sn \in [Session -> Entry]
       /\ \A s \in Session \ {p.session} : sn[s] = given[s]
       /\ sn[p.session].known /\ sn[p.session].kind = "top"
       /\ sn[p.session].slot = k
  BY <1>1, <1>4, StartedFacts
<1> DEFINE oc == Occupied(sl, p.session, k)
<1>11. Recorded(oc, sn, PidTaken(pi, p), p) BY <1>2
<1> HIDE DEF sl, sn
<1>12. /\ oc \in Seq(Slot) /\ Len(oc) = Len(sl)
       /\ ExclusiveIn(oc) /\ HeldIn(oc, sn) /\ ShownIn(oc, sn)
  <2> DEFINE s == p.session
  <2>1. s \in Session /\ None \notin Session BY <1>1
  <2>2. /\ \A t \in Session \ {s} : sn[t] = given[t]
        /\ \A t \in Session \ {s} : LiveTop(given, t) => sl[k].current # t
        /\ sn[s].known /\ sn[s].kind = "top" /\ sn[s].slot = k
        /\ sn \in [Session -> Entry] /\ given \in [Session -> Entry]
    BY <1>4, <1>9, <1>10
  <2>3. oc = Occupied(sl, s, k) OBVIOUS
  <2> HIDE DEF s, oc
  <2>. QED BY <1>9, <2>1, <2>2, <2>3, OccupyKeeps, SMTT(30)
<1>13. UniqueIn(oc)
  <2>1. \A i \in DOMAIN sl : /\ oc[i].host = sl[i].host
                             /\ oc[i].folder = sl[i].folder
                             /\ oc[i].ordinal = sl[i].ordinal
    BY <1>9 DEF Occupied, Slot
  <2>. QED BY <1>9, <1>12, <2>1, IdentitiesKept
<1> HIDE DEF oc
<1>14. \A s \in Session : sn[s].slot \in 0 .. Len(oc)
  <2>1. k \in 0 .. Len(sl) BY <1>9
  <2>2. \A s \in Session \ {p.session} : sn[s].slot \in 0 .. Len(slots)
    BY <1>1, <1>5, <1>10
  <2>. QED BY <1>9, <1>10, <1>12, <2>1, <2>2
<1>15. \A key \in Key : clears[key] \in 0 .. Len(oc) BY <1>1, <1>9, <1>12
<1>. QED BY <1>1, <1>10, <1>11, <1>12, <1>13, <1>14, <1>15, RecordingKeeps DEF IInv

LEMMA RestartKeeps ==
  ASSUME IInv, ConstantsAssumption, Restart
  PROVE  IInv'
<1> DEFINE hs == HealedSlots(slots, sessions)
           he == HealedSessions(slots, sessions)
<1>1. /\ slots \in Seq(Slot) /\ sessions \in [Session -> Entry]
      /\ HeldIn(slots, sessions) /\ ShownIn(slots, sessions) /\ UniqueIn(slots)
      /\ \A s \in Session : sessions[s].slot \in 0 .. Len(slots)
      /\ None \notin Session
  BY DEF IInv, TypeOK, SlotsExist, RunningHoldsSlot, ShownIsKnown, UniqueIdentity,
         ConstantsAssumption
<1>2. /\ hs \in Seq(Slot) /\ Len(hs) = Len(slots)
      /\ he \in [Session -> Entry]
      /\ \A s \in Session : he[s].slot \in 0 .. Len(slots)
      /\ ExclusiveIn(hs) /\ HeldIn(hs, he) /\ ShownIn(hs, he) /\ UniqueIn(hs)
  BY <1>1, HealingFacts
<1>3. /\ slots' = hs /\ sessions' = he /\ pids' = pids /\ older' = older
      /\ clears' = [key \in Key |-> 0] /\ starts' = {}
  BY DEF Restart
<1> HIDE DEF hs, he
<1>4. TypeOK' BY <1>2, <1>3 DEF IInv, TypeOK
<1>5. SlotsExist' BY <1>1, <1>2, <1>3 DEF SlotsExist
<1>6. CurrentOnce' /\ RunningHoldsSlot' /\ ShownIsKnown' /\ UniqueIdentity'
  BY <1>2, <1>3 DEF CurrentOnce, RunningHoldsSlot, ShownIsKnown, UniqueIdentity
<1>. QED BY <1>4, <1>5, <1>6 DEF IInv

LEMMA InitHolds ==
  ASSUME ConstantsAssumption, Init PROVE IInv
<1>1. PICK f \in Files :
        /\ slots = HealedSlots(f.slots, f.sessions)
        /\ sessions = HealedSessions(f.slots, f.sessions)
        /\ pids = f.pids /\ older = f.older
        /\ clears = [key \in Key |-> 0] /\ starts = {}
  BY DEF Init
<1> DEFINE sl == f.slots
           se == f.sessions
           hs == HealedSlots(sl, se)
           he == HealedSessions(sl, se)
<1>2. /\ sl \in Seq(Slot) /\ se \in [Session -> Entry]
      /\ f.pids \in [Key -> Session \union {None}]
      /\ f.older \in SUBSET (Session \X Session)
      /\ HeldIn(sl, se) /\ ShownIn(sl, se) /\ UniqueIn(sl)
      /\ \A s \in Session : se[s].slot \in 0 .. Len(sl)
      /\ None \notin Session
  BY DEF ConstantsAssumption, ReadableFile, File
<1>3. slots = hs /\ sessions = he BY <1>1
<1> HIDE DEF sl, se
<1>4. /\ hs \in Seq(Slot) /\ Len(hs) = Len(sl)
      /\ he \in [Session -> Entry]
      /\ \A s \in Session : he[s].slot \in 0 .. Len(sl)
      /\ ExclusiveIn(hs) /\ HeldIn(hs, he) /\ ShownIn(hs, he) /\ UniqueIn(hs)
  BY <1>2, HealingFacts
<1> HIDE DEF hs, he
<1>5. TypeOK BY <1>1, <1>2, <1>3, <1>4 DEF TypeOK
<1>6. SlotsExist BY <1>2, <1>1, <1>3, <1>4 DEF SlotsExist
<1>7. CurrentOnce /\ RunningHoldsSlot /\ ShownIsKnown /\ UniqueIdentity
  BY <1>3, <1>4 DEF CurrentOnce, RunningHoldsSlot, ShownIsKnown, UniqueIdentity
<1>. QED BY <1>5, <1>6, <1>7 DEF IInv

(* One step per action of the registry.                                    *)
LEMMA StepKeeps ==
  ASSUME ConstantsAssumption, IInv, [Next]_vars PROVE IInv'
BY StartRoutedKeeps, StartNestedKeeps, StartTopLevelKeeps, EndIgnoredKeeps, EndSessionKeeps,
   TimersKeep, RestartKeeps DEF vars, IInv, TypeOK, SlotsExist, CurrentOnce, RunningHoldsSlot,
   ShownIsKnown, UniqueIdentity, Next

(* IInv is an inductive invariant of the registry.                         *)
THEOREM Invariance == Spec => []IInv
<1>1. Init => IInv BY ConstantsAssumption, InitHolds
<1>2. IInv /\ [Next]_vars => IInv' BY ConstantsAssumption, StepKeeps
<1>. QED BY <1>1, <1>2, PTL DEF Spec

(* Every variable of the registry keeps its type.                          *)
THEOREM TypeCorrect == Spec => []TypeOK
<1>1. IInv => TypeOK BY DEF IInv
<1>. QED BY <1>1, Invariance, PTL

(* No session is ever current in two slots, whatever posts arrive and      *)
(* whatever split file the hub started over.                               *)
THEOREM SessionCurrentOnce == Spec => []CurrentOnce
<1>1. IInv => CurrentOnce BY DEF IInv
<1>. QED BY <1>1, Invariance, PTL

(* No start takes the slot of a top-level session that still runs.         *)
THEOREM RunningSessionHoldsSlot == Spec => []RunningHoldsSlot
<1>1. IInv => RunningHoldsSlot BY DEF IInv
<1>. QED BY <1>1, Invariance, PTL

(* A slot never shows a forgotten session or a nested run.                 *)
THEOREM ShownSessionIsKnown == Spec => []ShownIsKnown
<1>1. IInv => ShownIsKnown BY DEF IInv
<1>. QED BY <1>1, Invariance, PTL

(* The file the registry saves never repeats a slot identity.              *)
THEOREM SlotIdentityIsUnique == Spec => []UniqueIdentity
<1>1. IInv => UniqueIdentity BY DEF IInv
<1>. QED BY <1>1, Invariance, PTL
----------------------------------------------------------------------------
(* The registry implements TopicOwnership: under its inductive invariant   *)
(* every step of SessionSlots is a start, an end or a stutter of Holder.   *)
(* The holders a table of sessions gives.                                  *)
HolderOf(se) == [ s \in Session |-> IF LiveTop(se, s) THEN se[s].slot ELSE 0 ]

LEMMA HolderIsHolderOf == Holder = HolderOf(sessions) /\ Holder' = HolderOf(sessions')
BY DEF Holder, HolderOf

(* A step that only ends sessions is an abstract End.                      *)
LEMMA EndingIsEnd ==
  ASSUME sessions \in [Session -> Entry], sessions' \in [Session -> Entry],
         Ends(sessions, sessions')
  PROVE  Ownership!Next
<1> DEFINE gone == { s \in Session : ~LiveTop(sessions', s) }
<1>1. \A s \in Session : /\ sessions'[s].slot = sessions[s].slot
                         /\ LiveTop(sessions', s) => LiveTop(sessions, s)
  BY EndingFields
<1>2. Holder' = [ t \in Session |-> IF t \in gone THEN 0 ELSE Holder[t] ]
  BY <1>1 DEF Holder
<1>3. Ownership!End(gone) BY <1>2 DEF Ownership!End
<1>. QED BY <1>3 DEF Ownership!Next

(* Forgetting ended sessions changes no holder.                            *)
LEMMA PruningKeepsHolders ==
  ASSUME NEW se \in [Session -> Entry], NEW gone \in SUBSET Session,
         \A s \in gone : se[s].ended
  PROVE  HolderOf(Pruned(se, gone)) = HolderOf(se)
BY DEF HolderOf, Pruned, LiveTop, Running, Unknown

LEMMA RecordingHolders ==
  ASSUME NEW sl, NEW se \in [Session -> Entry], NEW pi, NEW p,
         Recorded(sl, se, pi, p)
  PROVE  Holder' = HolderOf(se)
<1> DEFINE gone == Forgotten(sl, se, StartedLast(p.session, se))
<1>1. gone \in SUBSET Session /\ \A s \in gone : se[s].ended BY DEF Forgotten
<1>2. sessions' = Pruned(se, gone) BY DEF Recorded
<1> HIDE DEF gone
<1>. QED BY <1>1, <1>2, PruningKeepsHolders, HolderIsHolderOf

LEMMA NestedStartIsEnd ==
  ASSUME IInv, ConstantsAssumption, NEW p \in StartPost, StartNested(p)
  PROVE  Ownership!Next
<1> DEFINE pi == PidsReaped(p)
           se == ReusedPidEnded(SessionsReaped(p), pi, p)
           q  == ParentOf(se, pi, p)
           k  == IF q # None THEN se[q].slot ELSE 0
           sn == Started(se, p, "nested", q, k)
           gone == { s \in Session : ~LiveTop(sn, s) }
<1>1. /\ se \in [Session -> Entry] /\ pi \in [Key -> Session \union {None}]
      /\ p.session \in Session
      /\ \A s \in Session : se[s].slot \in 0 .. Len(slots)
  BY BeforeStart
<1>2. /\ sessions \in [Session -> Entry] /\ Ends(sessions, se)
  BY ReapFacts, ReusedPidFacts, <1>1, EndsTransitive DEF IInv, TypeOK
<1>3. Recorded(slots, sn, PidTaken(pi, p), p) BY DEF StartNested
<1>4. q \in Session \union {None} BY <1>1, EntryFields DEF StartPost, Key, ParentOf
<1>5. k \in Nat BY <1>1, <1>4
<1> HIDE DEF se, q, k
<1>6. /\ sn \in [Session -> Entry]
      /\ \A s \in Session \ {p.session} : sn[s] = se[s]
      /\ sn[p.session].kind = "nested"
  BY <1>1, <1>4, <1>5, StartedFacts
<1>7. Holder' = HolderOf(sn) BY <1>3, <1>6, RecordingHolders
<1> HIDE DEF sn
<1>8. \A s \in Session : LiveTop(sn, s) =>
        LiveTop(sessions, s) /\ sn[s].slot = sessions[s].slot
  BY <1>1, <1>2, EndingFields, <1>6 DEF LiveTop, Running
<1>9. Holder' = [ t \in Session |-> IF t \in gone THEN 0 ELSE Holder[t] ]
  BY <1>7, <1>8 DEF Holder, HolderOf
<1>10. Ownership!End(gone) BY <1>9 DEF Ownership!End
<1>. QED BY <1>10 DEF Ownership!Next

(* The session that starts takes a slot no session that stays owns.        *)
LEMMA TopLevelStartIsStart ==
  ASSUME IInv, ConstantsAssumption, NEW p \in StartPost, StartTopLevel(p)
  PROVE  Ownership!Next
<1> DEFINE pi == PidsReaped(p)
           se == ReusedPidEnded(SessionsReaped(p), pi, p)
           cs == ClearSlot(p)
           given == HandedOnEnded(slots, se, pi, p, cs)
           st(k) == Started(given, p, "top", None, k)
           gone == { s \in Session : ~LiveTop(given, s) }
<1>1. /\ slots \in Seq(Slot) /\ se \in [Session -> Entry]
      /\ pi \in [Key -> Session \union {None}]
      /\ p.session \in Session /\ None \notin Session
      /\ HeldIn(slots, se) /\ ShownIn(slots, se)
      /\ \A s \in Session : se[s].slot \in 0 .. Len(slots)
      /\ \A key \in Key : clears[key] \in 0 .. Len(slots)
  BY BeforeStart
<1>2. /\ sessions \in [Session -> Entry] /\ Ends(sessions, se)
  BY ReapFacts, ReusedPidFacts, <1>1, EndsTransitive DEF IInv, TypeOK
<1>3. PICK k \in 1 .. Len(slots) + 1 :
        /\ Allocates(slots, se, pi, p, cs, k)
        /\ \E sl : Recorded(sl, st(k), PidTaken(pi, p), p)
  BY DEF StartTopLevel
<1>4. cs \in 0 .. Len(slots) BY <1>1 DEF StartPost, Key, ClearSlot
<1>5. k \in Nat /\ k # 0 /\ k \in 1 .. Len(slots) + 1 /\ Len(slots) \in Nat
      /\ DOMAIN slots = 1 .. Len(slots)
  BY <1>1
<1> HIDE DEF se, pi, cs
<1>6. /\ given \in [Session -> Entry] /\ Ends(se, given)
      /\ \/ k = Len(slots) + 1
         \/ /\ k \in DOMAIN slots
            /\ \A t \in Session \ {p.session} :
                 LiveTop(given, t) => slots[k].current # t
  BY <1>1, <1>3, <1>4, <1>5, AllocationIsSafe
<1>7. \A s \in Session : /\ given[s].slot = sessions[s].slot
                         /\ LiveTop(given, s) => LiveTop(sessions, s)
  BY <1>1, <1>2, <1>6, EndsTransitive, EndingFields
<1>8. HeldIn(slots, given) BY <1>1, <1>6, EndingKeeps
<1> HIDE DEF given
<1>9. /\ st(k) \in [Session -> Entry]
      /\ \A s \in Session \ {p.session} : st(k)[s] = given[s]
      /\ LiveTop(st(k), p.session) /\ st(k)[p.session].slot = k
  BY <1>1, <1>5, <1>6, StartedFacts DEF Started, LiveTop, Running
<1>10. Holder' = HolderOf(st(k)) BY <1>3, <1>9, RecordingHolders
<1> DEFINE sn == st(k)
<1> HIDE DEF sn
<1>11. Holder' = [ t \in Session |-> IF t = p.session THEN k
                                     ELSE IF t \in gone THEN 0 ELSE Holder[t] ]
  BY <1>9, <1>10, <1>7, <1>1 DEF LiveTop, Running, sn, HolderOf, Holder
<1>12. \A t \in Session \ (gone \union {p.session}) : Holder[t] # k
  <2> SUFFICES ASSUME NEW t \in Session, LiveTop(given, t), t # p.session
               PROVE  Holder[t] # k
    OBVIOUS
  <2>1. Holder[t] = given[t].slot BY <1>7 DEF Holder
  <2>2. given[t].slot \in DOMAIN slots /\ slots[given[t].slot].current = t
    BY <1>8 DEF HeldIn
  <2>. QED BY <1>5, <1>6, <2>1, <2>2
<1>13. Ownership!Start(p.session, k, gone) BY <1>5, <1>11, <1>12 DEF Ownership!Start
<1>14. k = Holder'[p.session] /\ gone \in SUBSET Session BY <1>1, <1>11
<1>. QED BY <1>1, <1>13, <1>14 DEF Ownership!Next

(* Nothing is split any more when the hub starts over its own file.        *)
LEMMA RestartKeepsHolders ==
  ASSUME IInv, Restart
  PROVE  Holder' = Holder
<1>1. \A s \in Session : ~Split(slots, s)
  <2> SUFFICES ASSUME NEW s \in Session, NEW i \in DOMAIN slots,
                      NEW j \in DOMAIN slots, i # j,
                      slots[i].current = s, slots[j].current = s
               PROVE  FALSE
    BY DEF Split
  <2>1. s # None BY ConstantsAssumption DEF ConstantsAssumption
  <2>. QED BY <2>1 DEF IInv, CurrentOnce, ExclusiveIn
<1>2. sessions \in [Session -> Entry] BY DEF IInv, TypeOK
<1>3. sessions' = [s \in Session |-> sessions[s]] BY <1>1 DEF Restart, HealedSessions
<1>4. sessions' = sessions BY <1>2, <1>3
<1>. QED BY <1>4, HolderIsHolderOf

LEMMA InitialHolders ==
  ASSUME IInv PROVE Ownership!Init
BY EntryFields DEF IInv, TypeOK, RunningHoldsSlot, Holder, HeldIn, Ownership!Init

LEMMA StepIsOwnership ==
  ASSUME IInv, ConstantsAssumption, [Next]_vars
  PROVE  Ownership!Next \/ Holder' = Holder
<1>0. IInv' BY StepKeeps
<1>1. sessions \in [Session -> Entry] /\ sessions' \in [Session -> Entry]
  BY <1>0 DEF IInv, TypeOK
<1>2. ASSUME Ends(sessions, sessions') PROVE Ownership!Next BY <1>1, <1>2, EndingIsEnd
<1>3. ASSUME NEW p \in StartPost, StartRouted(p) PROVE Ownership!Next
  BY <1>2, <1>3, ReapFacts DEF StartRouted, IInv
<1>4. ASSUME NEW p \in StartPost, StartNested(p) PROVE Ownership!Next
  BY <1>4, NestedStartIsEnd
<1>5. ASSUME NEW p \in StartPost, StartTopLevel(p) PROVE Ownership!Next
  BY <1>5, TopLevelStartIsStart
<1>6. ASSUME NEW p \in EndPost, EndIgnored(p) PROVE Ownership!Next
  BY <1>2, <1>6, ReapFacts DEF EndIgnored, IInv
<1>7. ASSUME NEW p \in EndPost, EndSession(p) PROVE Ownership!Next
  <2> DEFINE se == SessionsReaped(p)
  <2>1. se \in [Session -> Entry] /\ Ends(sessions, se) BY ReapFacts DEF IInv
  <2>2. sessions' = [se EXCEPT ![p.session].ended = TRUE] BY <1>7 DEF EndSession
  <2> HIDE DEF se
  <2>3. Ends(se, sessions') BY <2>1, <2>2 DEF Ends
  <2>. QED BY <1>1, <1>2, <2>1, <2>3, EndsTransitive
<1>8. ASSUME (\E s \in Session : GraceOver(s)) \/ (\E key \in Key : HandoffOver(key))
      PROVE  Holder' = Holder
  BY <1>8 DEF GraceOver, HandoffOver, Holder
<1>9. CASE Restart BY <1>9, RestartKeepsHolders
<1>10. CASE UNCHANGED vars BY <1>10 DEF vars, Holder
<1>. QED BY <1>3, <1>4, <1>5, <1>6, <1>7, <1>8, <1>9, <1>10 DEF Next

(* The registry keeps the promise of TopicOwnership: an owner is never     *)
(* moved or robbed by what arrives for another session.                    *)
THEOREM RegistryKeepsOwnership == Spec => KeepsOwnership
<1>1. Init => Ownership!Init BY ConstantsAssumption, InitHolds, InitialHolders
<1>2. IInv /\ [Next]_vars => [Ownership!Next]_Holder
  BY ConstantsAssumption, StepIsOwnership
<1>. QED BY <1>1, <1>2, Invariance, PTL DEF Spec, KeepsOwnership, Ownership!Spec

----------------------------------------------------------------------------
(* Device and AgentLinks.                                                  *)

Post == StartPost \cup EndPost

Process == [session : Session, env : Session]

Used ==
  [ pids : SUBSET Pid, sessions : SUBSET Session, links : Nat,
    robbed : SUBSET (0 .. MaxConns) ]

(* What the device keeps, and what posts are on their way.                 *)
DeviceTypeOK ==
  /\ procs \in [Pid -> Process \cup {NoProcess}]
  /\ posts \in [Session -> Seq(Post)]
  /\ links \in [Pid -> 0 .. MaxConns]
  /\ answers \in [Conn -> Session \cup {None}]
  /\ used \in Used

LEMMA AliveRuns ==
  ASSUME DeviceTypeOK, NEW q \in Pid, Alive(q)
  PROVE  procs[q].session \in Session /\ procs[q].env \in Session
BY DEF DeviceTypeOK, Alive, Process

(* The fields of posts, without what relates them.                         *)
StartFields ==
  [ session : Session, host : Host, folder : Folder, source : {"startup", "clear"},
    pid : Pid \union {None}, parent : Pid \union {None}, live : SUBSET Pid ]

EndFields ==
  [ session : Session, host : Host, reason : {"clear", "other"},
    pid : Pid \union {None}, live : SUBSET Pid ]

LEMMA StartOfIsPost ==
  ASSUME ConstantsAssumption, DeviceAssumption, NEW s \in Session, NEW q \in Pid,
         NEW source \in {"startup", "clear"}, NEW live \in SUBSET Pid, q \in live
  PROVE  StartOf(s, q, source, live) \in StartPost
BY DEF StartOf, StartFields, DeviceAssumption, ConstantsAssumption, StartPost

LEMMA EndOfIsPost ==
  ASSUME ConstantsAssumption, DeviceAssumption, NEW s \in Session, NEW q \in Pid,
         NEW reason \in {"clear", "other"}, NEW live \in SUBSET Pid, q \in live
  PROVE  EndOf(s, q, reason, live) \in EndPost
BY DEF EndOf, EndFields, DeviceAssumption, ConstantsAssumption, EndPost

(* What the spool keeps, without its list of live pids, is a post again.   *)
LEMMA KeptIsPost ==
  ASSUME NEW p \in Post
  PROVE  [p EXCEPT !.live = Pid] \in Post
BY DEF StartPost, StartFields, Post, EndPost, EndFields

LEMMA LaunchKeeps ==
  ASSUME ConstantsAssumption, DeviceAssumption, DeviceTypeOK,
         NEW q \in Pid, NEW s \in Session, Launch(q, s)
  PROVE  /\ procs' \in [Pid -> Process \cup {NoProcess}]
         /\ posts' \in [Session -> Seq(Post)]
         /\ used' \in Used
<1> DEFINE p == StartOf(s, q, "startup", LivePids \union {q})
<1>1. p \in Post BY StartOfIsPost DEF LivePids, Post
<1>2. [session |-> s, env |-> s] \in Process BY DEF Process
<1>3. posts' = [posts EXCEPT ![s] = Append(@, p)] BY DEF Launch
<1> HIDE DEF p
<1>4. Append(posts[s], p) \in Seq(Post) BY <1>1 DEF DeviceTypeOK
<1>. QED BY <1>2, <1>3, <1>4, ZenonT(60) DEF Launch, DeviceTypeOK, Used

LEMMA ClearKeeps ==
  ASSUME ConstantsAssumption, DeviceAssumption, DeviceTypeOK,
         NEW q \in Pid, NEW t \in Session, Clear(q, t)
  PROVE  /\ procs' \in [Pid -> Process \cup {NoProcess}]
         /\ posts' \in [Session -> Seq(Post)]
         /\ used' \in Used
<1> DEFINE s == procs[q].session
           e == EndOf(s, q, "clear", LivePids)
           p == StartOf(t, q, "clear", LivePids)
<1>1. Alive(q) /\ s \in Session BY AliveRuns DEF Clear
<1>2. LivePids \in SUBSET Pid /\ q \in LivePids BY <1>1 DEF LivePids
<1>3. p \in Post /\ e \in Post BY <1>1, <1>2, StartOfIsPost, EndOfIsPost DEF Post
<1>4. procs[q] \in Process BY <1>1 DEF Alive, DeviceTypeOK
<1>5. [procs[q] EXCEPT !.session = t] \in Process BY <1>4 DEF Process
<1>6. posts' = [posts EXCEPT ![s] = Append(@, e), ![t] = Append(@, p)] BY DEF Clear
<1> HIDE DEF p, e, s
<1>7. posts' \in [Session -> Seq(Post)]
  <2>1. Append(posts[t], p) \in Seq(Post) /\ Append(posts[s], e) \in Seq(Post)
    BY <1>1, <1>3 DEF DeviceTypeOK
  <2>2. Append(Append(posts[s], e), p) \in Seq(Post) BY <1>3, <2>1
  <2>. QED BY <1>1, <1>6, <2>1, <2>2 DEF DeviceTypeOK
<1>. QED BY <1>5, <1>7 DEF Clear, DeviceTypeOK, Used

LEMMA ExitKeeps ==
  ASSUME ConstantsAssumption, DeviceAssumption, DeviceTypeOK, NEW q \in Pid, Exit(q)
  PROVE  /\ procs' \in [Pid -> Process \cup {NoProcess}]
         /\ posts' \in [Session -> Seq(Post)]
<1> DEFINE s == procs[q].session
           e == EndOf(s, q, "other", LivePids)
<1>1. Alive(q) /\ s \in Session BY AliveRuns DEF Exit
<1>2. e \in Post BY <1>1, EndOfIsPost DEF LivePids, Post
<1>3. posts' = [posts EXCEPT ![s] = Append(@, e)] BY DEF Exit
<1> HIDE DEF e, s
<1>4. Append(posts[s], e) \in Seq(Post) BY <1>1, <1>2 DEF DeviceTypeOK
<1>. QED BY <1>1, <1>3, <1>4, SMTT(30) DEF Exit, DeviceTypeOK

LEMMA CompactKeeps ==
  ASSUME ConstantsAssumption, DeviceAssumption, DeviceTypeOK, NEW q \in Pid, Compact(q)
  PROVE  posts' \in [Session -> Seq(Post)] /\ procs' = procs /\ used' = used
<1> DEFINE s == procs[q].session
           p == StartOf(s, q, "startup", LivePids)
<1>1. Alive(q) /\ s \in Session BY AliveRuns DEF Compact
<1>2. p \in Post BY <1>1, StartOfIsPost DEF LivePids, Post
<1>3. posts' = [posts EXCEPT ![s] = Append(@, p)] BY DEF Compact
<1> HIDE DEF p, s
<1>4. Append(posts[s], p) \in Seq(Post) BY <1>1, <1>2 DEF DeviceTypeOK
<1>. QED BY <1>1, <1>3, <1>4, SMTT(30) DEF Compact, DeviceTypeOK

LEMMA ProcessStepKeeps ==
  ASSUME ConstantsAssumption, DeviceAssumption, DeviceTypeOK, NEW q \in Pid, ProcessStep(q)
  PROVE  DeviceTypeOK'
<1>1. links' \in [Pid -> 0 .. MaxConns] /\ answers' = answers
  BY MaxConnsAssumption DEF DeviceTypeOK, ProcessStep
<1>2. /\ procs' \in [Pid -> Process \cup {NoProcess}]
      /\ posts' \in [Session -> Seq(Post)]
      /\ used' \in Used
  BY LaunchKeeps, ClearKeeps, ExitKeeps, CompactKeeps DEF Exit, DeviceTypeOK, Kill, ProcessStep
<1>. QED BY <1>1, <1>2 DEF DeviceTypeOK, Conn

LEMMA SpoolKeeps ==
  ASSUME DeviceTypeOK, NEW s \in Session, NEW i, Spool(s, i)
  PROVE  DeviceTypeOK'
BY KeptIsPost, ExceptSeq DEF Spool, DeviceTypeOK
----------------------------------------------------------------------------
(* The links of AgentLinks.                                                *)

(* A link is open for a session; a session with an agent is known.         *)
LinksOK ==
  /\ LinkTypeOK
  /\ LinksOwn
  /\ \A c \in Conn : conns[c].open => conns[c].session \in Session
  /\ \A s \in Session : agent[s] # 0 => sessions[s].known

(* A table of links names links of its sessions only.                      *)
OwnIn(m) ==
  \A s \in Session : m[s] # 0 => conns[m[s]].open /\ conns[m[s]].session = s

LEMMA GreatestLink ==
  ASSUME NEW S \in SUBSET Conn, S # {}
  PROVE  Max(S) \in S
<1> DEFINE n == MaxConns
           T == { n + 1 - c : c \in S }
<1>1. n \in Nat BY MaxConnsAssumption
<1>2. T \in SUBSET (1 .. n) /\ T # {}
  <2>1. \A c \in S : n + 1 - c \in 1 .. n BY <1>1 DEF Conn
  <2>. QED BY <2>1
<1>3. PICK k \in T : \A m \in T : k <= m
  <2> HIDE DEF T, n
  <2>. QED BY <1>1, <1>2, LeastSlot
<1>4. PICK c \in S : k = n + 1 - c BY <1>3
<1>5. \A d \in S : c >= d
  <2> SUFFICES ASSUME NEW d \in S PROVE c >= d
    OBVIOUS
  <2>1. n + 1 - d \in T OBVIOUS
  <2>2. n + 1 - c <= n + 1 - d BY <1>3, <1>4, <2>1
  <2>. QED BY <1>1, <2>2 DEF Conn
<1>. QED BY <1>4, <1>5 DEF Max

LEMMA RegisteredKeeps ==
  ASSUME ConstantsAssumption, LinksOK, TypeOK, NEW c \in Conn, conns[c] = Closed,
         NEW s \in Session, NEW h \in Host, NEW q \in Pid, AgentRegistered(c, s, h, q)
  PROVE  LinksOK'
<1> DEFINE own == AgentSession(s, h, q)
           new == [open |-> TRUE, session |-> own, host |-> h, pid |-> q, leaving |-> FALSE]
<1>1. own \in Session BY DEF AgentSession, LiveSessionOfPid, TypeOK, Key
<1>2. /\ conns' = [conns EXCEPT ![c] = new]
      /\ sessions' = sessions
      /\ IF Binds(sessions, own)
         THEN agent' = [agent EXCEPT ![own] = c] /\ pending' = pending
         ELSE pending' = [pending EXCEPT ![own] = c] /\ agent' = agent
  BY DEF AgentRegistered, vars
<1> HIDE DEF own
<1>3. new \in Bound /\ new.open /\ new.session = own BY <1>1 DEF Bound
<1> HIDE DEF new
<1>4. /\ conns \in [Conn -> Bound] /\ agent \in [Session -> 0 .. MaxConns]
      /\ pending \in [Session -> 0 .. MaxConns] /\ c \in 1 .. MaxConns /\ MaxConns \in Nat
  BY MaxConnsAssumption DEF LinksOK, LinkTypeOK, Conn
<1>5. ~conns[c].open BY DEF Closed
<1>6. \A t \in Session : agent[t] # c /\ pending[t] # c
  BY <1>5, <1>4 DEF LinksOK, LinksOwn, BoundIsOwn, PendingIsOwn
<1>7. LinkTypeOK' BY <1>2, <1>3, <1>4, <1>1 DEF LinkTypeOK, LinksOK
<1>8. BoundIsOwn' BY <1>1, <1>2, <1>3, <1>4, <1>6 DEF LinksOK, LinksOwn, BoundIsOwn, Conn
<1>9. PendingIsOwn'
  BY <1>1, <1>2, <1>3, <1>4, <1>6 DEF LinksOK, LinksOwn, PendingIsOwn, Conn
<1>10. \A d \in Conn : conns'[d].open => conns'[d].session \in Session
  BY <1>1, <1>2, <1>3, <1>4 DEF LinksOK
<1>11. \A t \in Session : agent'[t] # 0 => sessions'[t].known
  BY <1>1, <1>2, <1>4 DEF LinksOK, Binds
<1>. QED BY <1>7, <1>8, <1>9, <1>10, <1>11 DEF LinksOK, LinksOwn

LEMMA HeirFacts ==
  ASSUME NEW cs \in [Conn -> Bound], NEW s \in Session
  PROVE  Heir(cs, s) # 0 => /\ Heir(cs, s) \in Conn
                            /\ cs[Heir(cs, s)].open /\ cs[Heir(cs, s)].session = s
<1> DEFINE run == IF sessions[s].known THEN sessions[s].pid ELSE None
           heirs == { c \in Conn : /\ cs[c].open /\ ~cs[c].leaving
                                   /\ cs[c].session = s
                                   /\ run = None \/ cs[c].pid = run }
<1>1. Heir(cs, s) = IF heirs = {} THEN 0 ELSE Max(heirs) BY DEF Heir
<1>2. heirs \in SUBSET Conn OBVIOUS
<1>3. heirs # {} => Max(heirs) \in heirs
  <2> HIDE DEF heirs
  <2>. QED BY <1>2, GreatestLink
<1>. QED BY <1>1, <1>3

LEMMA DisconnectedKeeps ==
  ASSUME LinksOK, TypeOK, NEW c \in Conn, AgentDisconnected(c)
  PROVE  LinksOK'
<1> DEFINE s    == conns[c].session
           cs   == LinkGone(c)
           heir == Heir(cs, s)
           next == IF LiveTop(sessions, s) THEN heir ELSE 0
<1>1. /\ conns[c].open /\ s \in Session
      /\ conns' = cs /\ sessions' = sessions
      /\ pending' = IF pending[s] = c THEN [pending EXCEPT ![s] = heir] ELSE pending
      /\ agent' = IF sessions[s].known /\ agent[s] = c
                  THEN [agent EXCEPT ![s] = next] ELSE agent
  BY DEF AgentDisconnected, LinksOK, vars
<1>2. /\ conns \in [Conn -> Bound] /\ agent \in [Session -> 0 .. MaxConns]
      /\ pending \in [Session -> 0 .. MaxConns] /\ c \in 1 .. MaxConns /\ MaxConns \in Nat
  BY MaxConnsAssumption DEF LinksOK, LinkTypeOK, Conn
<1>3. Closed \in Bound /\ ~Closed.open BY DEF Closed, Bound
<1>4. cs = [conns EXCEPT ![c] = Closed] BY DEF LinkGone
<1>5. cs \in [Conn -> Bound] BY <1>2, <1>3, <1>4
<1> HIDE DEF cs
<1>6. heir # 0 => heir \in 1 .. MaxConns /\ cs[heir].open /\ cs[heir].session = s
  BY <1>1, <1>5, HeirFacts DEF Conn
<1>7. heir \in 0 .. MaxConns BY <1>2, <1>6
<1> HIDE DEF heir, s
<1>8. LinkTypeOK'
  <2>1. \A d \in Conn : conns'[d].open \/ conns'[d] = Closed
    BY <1>1, <1>2, <1>4 DEF LinkTypeOK, LinksOK
  <2>2. next \in 0 .. MaxConns BY <1>2, <1>7
  <2> HIDE DEF next
  <2>3. /\ agent' \in [Session -> 0 .. MaxConns]
        /\ pending' \in [Session -> 0 .. MaxConns]
    BY <1>1, <1>2, <1>7, <2>2
  <2>. QED BY <1>1, <1>5, <2>1, <2>3 DEF LinkTypeOK
<1>9. \A t \in Session : t # s => agent[t] # c /\ pending[t] # c
  BY <1>2 DEF LinksOK, LinksOwn, BoundIsOwn, PendingIsOwn, s
<1>10. agent[s] = c => sessions[s].known BY <1>1, <1>2 DEF LinksOK
<1>11. BoundIsOwn'
  BY <1>1, <1>2, <1>4, <1>6, <1>7, <1>9, <1>10 DEF LinksOK, LinksOwn, BoundIsOwn, Conn
<1>12. PendingIsOwn'
  BY <1>1, <1>2, <1>4, <1>6, <1>7, <1>9 DEF LinksOK, LinksOwn, PendingIsOwn, Conn, Binds
<1>13. \A d \in Conn : conns'[d].open => conns'[d].session \in Session
  BY <1>1, <1>2, <1>3, <1>4 DEF LinksOK
<1>14. \A t \in Session : agent'[t] # 0 => sessions'[t].known BY <1>1, <1>2 DEF LinksOK
<1>. QED BY <1>8, <1>11, <1>12, <1>13, <1>14 DEF LinksOK, LinksOwn

(* What a post leaves of agents and waiting links is given to follow_pid.  *)
LEMMA FollowPidKeeps ==
  ASSUME LinksOK, TypeOK', NEW h \in Host, NEW q \in Pid \union {None},
         NEW ag \in [Session -> 0 .. MaxConns], NEW pe \in [Session -> 0 .. MaxConns],
         OwnIn(ag), OwnIn(pe),
         \A s \in Session : ag[s] # 0 => sessions'[s].known,
         \A s \in Session : pe[s] # 0 => ~Binds(sessions', s),
         FollowPid(h, q, ag, pe)
  PROVE  LinksOK'
<1> DEFINE t == IF q = None THEN None ELSE LiveSessionOfPid(sessions', pids', h, q)
<1>1. /\ conns \in [Conn -> Bound] /\ MaxConns \in Nat
      /\ \A c \in Conn : conns[c].open => conns[c].session \in Session
      /\ \A c \in Conn : conns[c].open \/ conns[c] = Closed
  BY MaxConnsAssumption DEF LinksOK, LinkTypeOK
<1>2. CASE t = None \/ Movers(h, q, t) = {}
  BY <1>2, <1>1 DEF FollowPid, LinkTypeOK, BoundIsOwn, PendingIsOwn, OwnIn, LinksOK, LinksOwn
<1>3. CASE t # None /\ Movers(h, q, t) # {}
  <2> DEFINE c   == Max(Movers(h, q, t))
             old == conns[c].session
  <2>1. c \in Movers(h, q, t) BY <1>3, GreatestLink DEF Movers
  <2>2. c \in Conn /\ conns[c].open /\ old # t /\ old \in Session
    BY <1>1, <2>1 DEF Movers
  <2>3. t \in Session /\ sessions'[t].known
    BY <1>3 DEF LiveSessionOfPid, LiveTop, Running, TypeOK, Key
  <2>4. /\ conns' = [conns EXCEPT ![c].session = t]
        /\ agent' = [Left(ag, old, c) EXCEPT ![t] = c]
        /\ pending' = Left(pe, old, c)
    BY <1>3 DEF FollowPid
  <2>5. [conns[c] EXCEPT !.session = t] \in Bound BY <1>1, <2>2, <2>3 DEF Bound
  <2> HIDE DEF c, old, t
  <2>6. \A s \in Session : s # old => ag[s] # c /\ pe[s] # c BY <2>2 DEF OwnIn, old, Conn
  <2>7. /\ Left(ag, old, c) \in [Session -> 0 .. MaxConns]
        /\ \A s \in Session : Left(ag, old, c)[s] # 0 =>
             Left(ag, old, c)[s] = ag[s] /\ ag[s] # c
    BY <1>1, <2>2, <2>6 DEF Left, Conn
  <2>8. /\ pending' \in [Session -> 0 .. MaxConns]
        /\ \A s \in Session : pending'[s] # 0 => pending'[s] = pe[s] /\ pe[s] # c
    BY <1>1, <2>2, <2>4, <2>6 DEF Left, Conn
  <2>0. /\ agent' \in [Session -> 0 .. MaxConns]
        /\ agent'[t] = c
        /\ \A s \in Session : s # t /\ agent'[s] # 0 => agent'[s] = ag[s] /\ ag[s] # c
    BY <1>1, <2>2, <2>3, <2>4, <2>7 DEF Conn
  <2>10. /\ conns' \in [Conn -> Bound]
         /\ conns'[c].open /\ conns'[c].session = t
         /\ \A d \in Conn : d # c => conns'[d] = conns[d]
    BY <1>1, <2>2, <2>4, <2>5
  <2>11. LinkTypeOK' BY <1>1, <2>8, <2>0, <2>10 DEF LinkTypeOK
  <2>12. BoundIsOwn'
    <3> SUFFICES ASSUME NEW s \in Session, agent'[s] # 0
                 PROVE  conns'[agent'[s]].open /\ conns'[agent'[s]].session = s
      BY DEF BoundIsOwn
    <3>1. CASE s = t BY <3>1, <2>0, <2>10
    <3>2. CASE s # t BY <3>2, <2>0, <1>1, <2>10 DEF OwnIn, Conn
    <3>. QED BY <3>1, <3>2
  <2>13. PendingIsOwn' BY <1>1, <2>8, <2>10 DEF PendingIsOwn, OwnIn, Conn
  <2>14. \A d \in Conn : conns'[d].open => conns'[d].session \in Session
    BY <1>1, <2>3, <2>10
  <2>15. \A s \in Session : agent'[s] # 0 => sessions'[s].known BY <2>3, <2>0
  <2>. QED BY <2>11, <2>12, <2>13, <2>14, <2>15 DEF LinksOK, LinksOwn
<1>. QED BY <1>2, <1>3

(* What a post leaves of agents and waiting links, where no link moves.    *)
LEMMA LeavingKeeps ==
  ASSUME LinksOK, NEW ag \in [Session -> 0 .. MaxConns],
         NEW pe \in [Session -> 0 .. MaxConns], OwnIn(ag), OwnIn(pe),
         \A s \in Session : ag[s] # 0 => sessions'[s].known,
         \A s \in Session : pe[s] # 0 => ~Binds(sessions', s),
         agent' = ag, pending' = pe, conns' = conns
  PROVE  LinksOK'
BY DEF LinksOK, LinkTypeOK, BoundIsOwn, PendingIsOwn, OwnIn, LinksOwn

(* follow_pid touches no link that leaves, and closes none.                *)
LEMMA FollowPidMoves ==
  ASSUME LinkTypeOK, NEW h, NEW q, NEW ag, NEW pe, FollowPid(h, q, ag, pe), NEW c \in Conn,
         conns'[c] # conns[c]
  PROVE  conns[c].open /\ ~conns[c].leaving /\ ~conns'[c].leaving
<1> DEFINE t == IF q = None THEN None ELSE LiveSessionOfPid(sessions', pids', h, q)
           m == Max(Movers(h, q, t))
<1>1. Movers(h, q, t) # {} /\ conns' = [conns EXCEPT ![m].session = t] BY DEF FollowPid
<1>2. m \in Movers(h, q, t) BY <1>1, GreatestLink DEF Movers
<1>3. m \in Conn /\ conns[m].open /\ ~conns[m].leaving BY <1>2 DEF Movers
<1> HIDE DEF m, t
<1>4. c = m BY <1>1, <1>3 DEF LinkTypeOK
<1>5. conns'[m] = [conns[m] EXCEPT !.session = t] BY <1>1, <1>3 DEF LinkTypeOK
<1>. QED BY <1>3, <1>4, <1>5 DEF LinkTypeOK, Bound

(* A post makes no other session one the registry binds agents to.         *)
NoneElseBinds(s) ==
  \A t \in Session \ {s} : Binds(sessions', t) => Binds(sessions, t)

LEMMA RecordedBinds ==
  ASSUME TypeOK, NEW se \in [Session -> Entry], NEW p \in StartPost,
         \A t \in Session \ {p.session} :
           se[t].known = sessions[t].known /\ se[t].kind = sessions[t].kind,
         NEW sl, NEW pi, Recorded(sl, se, pi, p)
  PROVE  NoneElseBinds(p.session)
<1> SUFFICES ASSUME NEW t \in Session \ {p.session}, Binds(sessions', t)
             PROVE  Binds(sessions, t)
  BY DEF NoneElseBinds
<1>1. PICK gone : sessions' = Pruned(se, gone) BY DEF Recorded
<1>2. t \notin gone /\ Binds(se, t) BY <1>1 DEF Pruned, Binds, Unknown
<1>. QED BY <1>2 DEF Binds

LEMMA StartBinds ==
  ASSUME TypeOK, ConstantsAssumption, NEW p \in StartPost,
         StartRouted(p) \/ StartNested(p) \/ StartTopLevel(p)
  PROVE  NoneElseBinds(p.session)
<1> DEFINE re == SessionsReaped(p)
           pi == PidsReaped(p)
           se == ReusedPidEnded(re, pi, p)
<1>1. /\ re \in [Session -> Entry] /\ Ends(sessions, re)
      /\ pi \in [Key -> Session \union {None}]
  BY ReapFacts
<1>2. /\ se \in [Session -> Entry] /\ Ends(re, se)
      /\ Previous(pi, p) \in Session \union {None}
  <2> HIDE DEF re, pi
  <2>. QED BY <1>1, ReusedPidFacts DEF se
<1>3. \A t \in Session : /\ re[t].known = sessions[t].known
                         /\ re[t].kind = sessions[t].kind
  <2> HIDE DEF re
  <2>. QED BY <1>1, EndingFields DEF TypeOK
<1>4. \A t \in Session : se[t].known = sessions[t].known /\ se[t].kind = sessions[t].kind
  <2> HIDE DEF re, se
  <2>. QED BY <1>1, <1>2, <1>3, EndingFields
<1>5. CASE StartRouted(p) BY <1>3, <1>5 DEF StartRouted, NoneElseBinds, Binds
<1>6. CASE StartNested(p)
  <2> DEFINE q == ParentOf(se, pi, p)
             k == IF q # None THEN se[q].slot ELSE 0
             st == Started(se, p, "nested", q, k)
  <2>1. Recorded(slots, st, PidTaken(pi, p), p) BY <1>6 DEF StartNested
  <2>2. q \in Session \union {None} /\ k \in Nat
    <3>1. q \in Session \union {None}
      <4> HIDE DEF se, pi
      <4>. QED BY <1>1, <1>2, EntryFields DEF ParentOf, StartPost, Key
    <3> HIDE DEF se, q
    <3>. QED BY <3>1, <1>2, EntryFields DEF ConstantsAssumption
  <2> HIDE DEF se, pi, q, k
  <2>3. /\ st \in [Session -> Entry]
        /\ \A t \in Session \ {p.session} : st[t] = se[t]
    BY <1>2, <2>2, StartedFacts
  <2> HIDE DEF st
  <2>. QED BY <1>4, <2>1, <2>3, RecordedBinds
<1>7. CASE StartTopLevel(p)
  <2> DEFINE cs == ClearSlot(p)
             given == HandedOnEnded(slots, se, pi, p, cs)
             st(k) == Started(given, p, "top", None, k)
  <2>1. PICK k \in 1 .. Len(slots) + 1 : \E sl : Recorded(sl, st(k), PidTaken(pi, p), p)
    BY <1>7 DEF StartTopLevel
  <2>2. given \in [Session -> Entry] /\ Ends(se, given)
    <3> HIDE DEF se, pi, cs
    <3>1. \A q \in Session : [se[q] EXCEPT !.ended = TRUE] \in Entry BY <1>2 DEF Entry
    <3>2. TakesHandedOn(slots, se, pi, p, cs) => Previous(pi, p) \in Session
      BY <1>2 DEF TakesHandedOn, HandedOn
    <3>. QED BY <1>2, <3>1, <3>2 DEF HandedOnEnded, Ends
  <2> HIDE DEF given, se, pi
  <2>3. \A t \in Session : /\ given[t].known = se[t].known
                           /\ given[t].kind = se[t].kind
    BY <1>2, <2>2, EndingFields
  <2>4. k \in Nat BY DEF TypeOK
  <2>5. /\ st(k) \in [Session -> Entry]
        /\ \A t \in Session \ {p.session} : st(k)[t] = given[t]
    BY <2>2, <2>4, StartedFacts
  <2> HIDE DEF st
  <2>. QED BY <1>4, <2>1, <2>3, <2>5, RecordedBinds
<1>. QED BY <1>5, <1>6, <1>7

LEMMA EndBinds ==
  ASSUME TypeOK, NEW p \in EndPost, EndIgnored(p) \/ EndSession(p)
  PROVE  \A t \in Session : Binds(sessions', t) = Binds(sessions, t)
<1> DEFINE re == SessionsReaped(p)
<1>1. re \in [Session -> Entry] /\ Ends(sessions, re) BY ReapFacts
<1>2. \A t \in Session : /\ re[t].known = sessions[t].known
                         /\ re[t].kind = sessions[t].kind
  <2> HIDE DEF re
  <2>. QED BY <1>1, EndingFields DEF TypeOK
<1>3. sessions' = re \/ sessions' = [re EXCEPT ![p.session].ended = TRUE]
  BY DEF EndIgnored, EndSession
<1> HIDE DEF re
<1>4. Ends(re, sessions') /\ sessions' \in [Session -> Entry]
  <2>1. \A t \in Session : [re[t] EXCEPT !.ended = TRUE] \in Entry BY <1>1 DEF Entry
  <2>2. p.session \in Session BY DEF EndPost
  <2>3. sessions' \in [Session -> Entry] BY <1>1, <1>3, <2>1, <2>2
  <2>4. \A t \in Session : sessions'[t] = re[t] \/ sessions'[t] = [re[t] EXCEPT !.ended = TRUE]
    BY <1>1, <1>3, <2>2
  <2>. QED BY <2>3, <2>4 DEF Ends
<1>5. \A t \in Session : /\ sessions'[t].known = re[t].known
                         /\ sessions'[t].kind = re[t].kind
  BY <1>1, <1>4, EndingFields
<1>. QED BY <1>2, <1>5 DEF Binds

(* on_hook: what the reap and the post itself leave.                       *)
LEMMA AfterPost ==
  ASSUME LinksOK, NEW s \in Session, NoneElseBinds(s),
         NEW left \in [Session -> 0 .. MaxConns],
         \A t \in Session : left[t] \in {0, agent[t]},
         \A t \in Session : left[t] # 0 => sessions'[t].known
  PROVE  /\ AgentsAfter(s, left) \in [Session -> 0 .. MaxConns]
         /\ PendingAfter(s) \in [Session -> 0 .. MaxConns]
         /\ OwnIn(AgentsAfter(s, left)) /\ OwnIn(PendingAfter(s))
         /\ \A t \in Session : AgentsAfter(s, left)[t] # 0 => sessions'[t].known
         /\ \A t \in Session : PendingAfter(s)[t] # 0 => ~Binds(sessions', t)
<1> DEFINE ag == AgentsAfter(s, left)
           pe == PendingAfter(s)
<1>1. /\ agent \in [Session -> 0 .. MaxConns]
      /\ pending \in [Session -> 0 .. MaxConns] /\ MaxConns \in Nat
  BY MaxConnsAssumption DEF LinksOK, LinkTypeOK
<1>2. ag = left \/ (ag = [left EXCEPT ![s] = pending[s]] /\ sessions'[s].known)
  BY DEF AgentsAfter, Waited
<1>3. pe = IF sessions'[s].known /\ pending[s] # 0
           THEN [pending EXCEPT ![s] = 0] ELSE pending
  BY DEF PendingAfter, Waited
<1> HIDE DEF ag, pe
<1>4. ag \in [Session -> 0 .. MaxConns] /\ pe \in [Session -> 0 .. MaxConns]
  BY <1>1, <1>2, <1>3
<1>5. OwnIn(agent) /\ OwnIn(pending)
  BY DEF LinksOK, LinksOwn, BoundIsOwn, PendingIsOwn, OwnIn
<1>6. OwnIn(left) BY <1>5 DEF OwnIn
<1>7. OwnIn(ag) BY <1>1, <1>2, <1>5, <1>6 DEF OwnIn
<1>8. OwnIn(pe) BY <1>1, <1>3, <1>5 DEF OwnIn
<1>9. \A t \in Session : ag[t] # 0 => sessions'[t].known BY <1>2
<1>10. ASSUME NEW t \in Session, pe[t] # 0 PROVE ~Binds(sessions', t)
  BY <1>1, <1>3, <1>10 DEF Binds, NoneElseBinds, LinksOK, LinksOwn, PendingIsOwn
<1>. QED BY <1>4, <1>7, <1>8, <1>9, <1>10 DEF ag, pe

LEMMA AgentsLeftFacts ==
  ASSUME LinksOK, NEW p
  PROVE  /\ AgentsLeft(p) \in [Session -> 0 .. MaxConns]
         /\ \A t \in Session : AgentsLeft(p)[t] \in {0, agent[t]}
         /\ \A t \in Session : AgentsLeft(p)[t] # 0 => sessions'[t].known
BY MaxConnsAssumption DEF LinksOK, LinkTypeOK, AgentsLeft

LEMMA HookStartKeeps ==
  ASSUME ConstantsAssumption, IInv, LinksOK, NEW p \in StartPost, HookStart(p)
  PROVE  IInv' /\ LinksOK'
<1> DEFINE s == p.session
           left == AgentsLeft(p)
<1>1. s \in Session /\ p.host \in Host /\ p.pid \in Pid \union {None} BY DEF StartPost
<1>2. StartRouted(p) \/ StartNested(p) \/ StartTopLevel(p) BY DEF HookStart
<1>3. IInv' BY <1>2, StartRoutedKeeps, StartNestedKeeps, StartTopLevelKeeps
<1>4. TypeOK /\ TypeOK' BY <1>3 DEF IInv
<1>5. NoneElseBinds(s) BY <1>2, <1>4, StartBinds
<1>6. /\ left \in [Session -> 0 .. MaxConns]
      /\ \A t \in Session : left[t] \in {0, agent[t]}
      /\ \A t \in Session : left[t] # 0 => sessions'[t].known
  BY AgentsLeftFacts
<1>7. FollowPid(p.host, p.pid, AgentsAfter(s, left), PendingAfter(s)) BY DEF HookStart
<1> HIDE DEF s, left
<1>8. /\ AgentsAfter(s, left) \in [Session -> 0 .. MaxConns]
      /\ PendingAfter(s) \in [Session -> 0 .. MaxConns]
      /\ OwnIn(AgentsAfter(s, left)) /\ OwnIn(PendingAfter(s))
      /\ \A t \in Session : AgentsAfter(s, left)[t] # 0 => sessions'[t].known
      /\ \A t \in Session : PendingAfter(s)[t] # 0 => ~Binds(sessions', t)
  BY <1>1, <1>5, <1>6, AfterPost
<1>9. LinksOK' BY <1>1, <1>4, <1>7, <1>8, FollowPidKeeps
<1>. QED BY <1>3, <1>9

LEMMA HookEndKeeps ==
  ASSUME IInv, LinksOK, NEW p \in EndPost, HookEnd(p)
  PROVE  IInv' /\ LinksOK'
<1> DEFINE s == p.session
           all == AgentsLeft(p)
<1>1. s \in Session BY DEF EndPost
<1>2. EndIgnored(p) \/ EndSession(p) BY DEF HookEnd
<1>3. IInv' BY <1>2, EndIgnoredKeeps, EndSessionKeeps
<1>4. NoneElseBinds(s) BY <1>2, EndBinds DEF IInv, NoneElseBinds
<1>5. /\ all \in [Session -> 0 .. MaxConns]
      /\ \A t \in Session : all[t] \in {0, agent[t]}
      /\ \A t \in Session : all[t] # 0 => sessions'[t].known
  BY AgentsLeftFacts
<1>6. /\ conns' = conns /\ pending' = PendingAfter(s)
      /\ agent' = AgentsAfter(s, all) \/ agent' = AgentsAfter(s, [all EXCEPT ![s] = 0])
  BY DEF HookEnd
<1> HIDE DEF s, all
<1>7. PICK left \in {all, [all EXCEPT ![s] = 0]} : agent' = AgentsAfter(s, left) BY <1>6
<1>8. /\ left \in [Session -> 0 .. MaxConns]
      /\ \A t \in Session : left[t] \in {0, agent[t]}
      /\ \A t \in Session : left[t] # 0 => sessions'[t].known
  BY <1>1, <1>5, <1>7, MaxConnsAssumption
<1>9. /\ AgentsAfter(s, left) \in [Session -> 0 .. MaxConns]
      /\ PendingAfter(s) \in [Session -> 0 .. MaxConns]
      /\ OwnIn(AgentsAfter(s, left)) /\ OwnIn(PendingAfter(s))
      /\ \A t \in Session : AgentsAfter(s, left)[t] # 0 => sessions'[t].known
      /\ \A t \in Session : PendingAfter(s)[t] # 0 => ~Binds(sessions', t)
  BY <1>1, <1>4, <1>8, AfterPost
<1>10. LinksOK' BY <1>6, <1>7, <1>9, LeavingKeeps
<1>. QED BY <1>3, <1>10
----------------------------------------------------------------------------
(* The device and the hub together.                                        *)

(* An update answer of a link that leaves was read under its session: it   *)
(* is bound back to that one.                                              *)
AnswersOwn ==
  \A c \in Conn : conns[c].leaving /\ answers[c] # None => answers[c] = conns[c].session

(* Links are numbered in the order they come up.                           *)
LinksInOrder == \A c \in Conn : c > used.links => conns[c] = Closed

DeviceInv ==
  /\ IInv
  /\ DeviceTypeOK
  /\ LinksOK
  /\ AnswersOwn
  /\ LinksInOrder

LEMMA UpdateAnswerKeeps ==
  ASSUME DeviceInv, NEW c \in Conn, AnswerHandled(c)
  PROVE  DeviceInv'
<1> DEFINE s == answers[c]
           b == conns'[c]
<1>1. s \in Session /\ conns[c].open /\ UNCHANGED <<vars, pending>>
      /\ UNCHANGED <<situation, procs, posts, links, used>>
      /\ answers' = [answers EXCEPT ![c] = None]
  BY DEF AnswerHandled, AgentLeaves, AgentStays, DeviceInv, DeviceTypeOK
<1>2. /\ conns \in [Conn -> Bound] /\ agent \in [Session -> 0 .. MaxConns]
      /\ pending \in [Session -> 0 .. MaxConns]
      /\ c \in 0 .. MaxConns /\ 0 \in 0 .. MaxConns /\ MaxConns \in Nat
      /\ answers \in [Conn -> Session \cup {None}]
  BY MaxConnsAssumption DEF DeviceInv, DeviceTypeOK, LinksOK, LinkTypeOK, Conn
<1>3. PICK v \in BOOLEAN : conns' = [conns EXCEPT ![c].leaving = v]
  BY DEF AnswerHandled, AgentLeaves, AgentStays
<1>4. [conns[c] EXCEPT !.leaving = v] \in Bound BY <1>2 DEF Bound
<1>5. /\ conns' \in [Conn -> Bound]
      /\ b.open /\ b.open = conns[c].open /\ b.session = conns[c].session
      /\ \A d \in Conn : d # c => conns'[d] = conns[d]
  BY <1>1, <1>2, <1>3, <1>4 DEF Bound
<1>6. \A d \in Conn : /\ conns'[d].open = conns[d].open
                      /\ conns'[d].session = conns[d].session
  BY <1>1, <1>5
<1> HIDE DEF b
<1>7. \/ agent' = Left(agent, s, c)
      \/ agent' = agent
      \/ /\ agent' = [agent EXCEPT ![s] = c]
         /\ Binds(sessions, s) /\ conns[c].session = s
  BY <1>1 DEF AnswerHandled, AgentLeaves, AgentStays, DeviceInv, AnswersOwn
<1> HIDE DEF s
<1>8. IInv'
  BY <1>1 DEF DeviceInv, IInv, vars, TypeOK, SlotsExist, CurrentOnce,
              RunningHoldsSlot, ShownIsKnown, UniqueIdentity
<1>9. DeviceTypeOK' BY <1>1, <1>2 DEF DeviceInv, DeviceTypeOK
<1>10. LinksOK'
  <2>1. agent' \in [Session -> 0 .. MaxConns] BY <1>1, <1>2, <1>7 DEF Left
  <2>2. \A t \in Session : agent'[t] # 0 =>
          agent'[t] = agent[t] \/ (t = s /\ agent'[t] = c)
    BY <1>1, <1>2, <1>7 DEF Left
  <2>3. \A t \in Session : agent'[t] # 0 /\ agent'[t] # agent[t] =>
          conns[c].session = s /\ Binds(sessions, s)
    BY <1>1, <1>2, <1>7 DEF Left
  <2>4. LinkTypeOK' BY <1>5, <1>1, <1>2, <2>1 DEF DeviceInv, LinksOK, LinkTypeOK, b
  <2>5. BoundIsOwn'
    <3> SUFFICES ASSUME NEW t \in Session, agent'[t] # 0
                 PROVE  conns'[agent'[t]].open /\ conns'[agent'[t]].session = t
      BY DEF BoundIsOwn
    <3>1. CASE agent'[t] = agent[t]
      BY <1>2, <3>1, <1>6 DEF DeviceInv, LinksOK, LinksOwn, BoundIsOwn, Conn
    <3>2. CASE agent'[t] # agent[t] BY <1>1, <1>6, <2>2, <2>3, <3>2
    <3>. QED BY <3>1, <3>2
  <2>6. PendingIsOwn'
    BY <1>1, <1>2, <1>6 DEF DeviceInv, LinksOK, LinksOwn, PendingIsOwn, Conn, vars, Binds
  <2>7. \A d \in Conn : conns'[d].open => conns'[d].session \in Session
    BY <1>6 DEF DeviceInv, LinksOK
  <2>8. \A t \in Session : agent'[t] # 0 => sessions'[t].known
    BY <1>1, <2>2, <2>3 DEF DeviceInv, LinksOK, vars, Binds
  <2>. QED BY <2>4, <2>5, <2>6, <2>7, <2>8 DEF LinksOK, LinksOwn
<1>11. AnswersOwn' BY <1>1, <1>2, <1>5 DEF DeviceInv, AnswersOwn
<1>12. LinksInOrder' BY <1>1, <1>5 DEF DeviceInv, LinksInOrder, Closed
<1>. QED BY <1>8, <1>9, <1>10, <1>11, <1>12 DEF DeviceInv

LEMMA RegistrationKeeps ==
  ASSUME ConstantsAssumption, DeviceAssumption, DeviceInv, NEW q \in Pid, NEW c \in Conn,
         LinkUp(q, c) \/ AnswerLost(q, c)
  PROVE  DeviceInv'
<1> DEFINE env == procs[q].env
<1>1. /\ c = used.links + 1 /\ env \in Session /\ Device \in Host
      /\ c \in Nat /\ used.links \in Nat
  <2>1. Alive(q) /\ c = used.links + 1 BY DEF LinkUp, AnswerLost, Registers
  <2>2. env \in Session BY <2>1, AliveRuns DEF DeviceInv
  <2>3. used.links \in Nat /\ Device \in Host
    BY DEF DeviceInv, DeviceTypeOK, Used, DeviceAssumption
  <2>. QED BY <2>1, <2>2, <2>3
<1>2. /\ AgentRegistered(c, env, Device, q)
      /\ links' = [links EXCEPT ![q] = c] \/ links' = links
      /\ used' = [used EXCEPT !.links = c]
      /\ UNCHANGED <<situation, procs, posts, answers, vars>>
  BY DEF LinkUp, AnswerLost, Registers, AgentRegistered
<1>3. conns[c] = Closed BY <1>1 DEF DeviceInv, LinksInOrder
<1> HIDE DEF env
<1>4. PICK new \in Bound : conns' = [conns EXCEPT ![c] = new] /\ ~new.leaving
  <2> DEFINE own == AgentSession(env, Device, q)
             new == [open |-> TRUE, session |-> own, host |-> Device,
                     pid |-> q, leaving |-> FALSE]
  <2>1. own \in Session
    BY <1>1 DEF AgentSession, LiveSessionOfPid, DeviceInv, IInv, TypeOK, Key
  <2>2. conns' = [conns EXCEPT ![c] = new] BY <1>2 DEF AgentRegistered
  <2> HIDE DEF own
  <2>3. new \in Bound /\ ~new.leaving BY <1>1, <2>1 DEF Bound
  <2>. QED BY <2>2, <2>3
<1>5. LinksOK' BY <1>1, <1>2, <1>3, RegisteredKeeps DEF DeviceInv, IInv
<1>6. used'.links = c BY <1>2 DEF DeviceInv, DeviceTypeOK, Used
<1>7. DeviceTypeOK'
  <2>0. c \in Conn /\ Conn = 1 .. MaxConns /\ MaxConns \in Nat
    BY MaxConnsAssumption DEF Conn
  <2>1. links' \in [Pid -> 0 .. MaxConns] BY <1>2, <2>0 DEF DeviceInv, DeviceTypeOK
  <2>2. used' \in Used BY <1>1, <1>2 DEF DeviceInv, DeviceTypeOK, Used
  <2>. QED BY <1>2, <2>1, <2>2 DEF DeviceInv, DeviceTypeOK
<1>8. conns \in [Conn -> Bound] BY DEF DeviceInv, LinksOK, LinkTypeOK
<1>9. AnswersOwn' BY <1>1, <1>2, <1>4, <1>8 DEF DeviceInv, AnswersOwn
<1>10. LinksInOrder' BY <1>1, <1>4, <1>6, <1>8 DEF DeviceInv, LinksInOrder, Conn
<1>11. IInv'
  BY <1>2 DEF DeviceInv, IInv, vars, TypeOK, SlotsExist, CurrentOnce,
              RunningHoldsSlot, ShownIsKnown, UniqueIdentity
<1>. QED BY <1>5, <1>7, <1>9, <1>10, <1>11 DEF DeviceInv

LEMMA LossNoticedKeeps ==
  ASSUME DeviceInv, NEW c \in Conn, LossNoticed(c)
  PROVE  DeviceInv'
<1>1. /\ AgentDisconnected(c) /\ answers' = [answers EXCEPT ![c] = None]
      /\ UNCHANGED <<situation, procs, posts, links, used, vars>>
      /\ conns' = [conns EXCEPT ![c] = Closed]
  BY DEF LossNoticed, AgentDisconnected, LinkGone
<1>2. LinksOK' BY <1>1, DisconnectedKeeps DEF DeviceInv, IInv
<1>3. DeviceTypeOK' BY <1>1 DEF DeviceInv, DeviceTypeOK
<1>4. conns \in [Conn -> Bound] /\ ~Closed.leaving
  BY DEF DeviceInv, LinksOK, LinkTypeOK, Closed
<1>5. AnswersOwn' BY <1>1, <1>4 DEF DeviceInv, AnswersOwn
<1>6. LinksInOrder' BY <1>1, <1>4 DEF DeviceInv, LinksInOrder
<1>7. IInv'
  BY <1>1 DEF DeviceInv, IInv, vars, TypeOK, SlotsExist, CurrentOnce,
              RunningHoldsSlot, ShownIsKnown, UniqueIdentity
<1>. QED BY <1>2, <1>3, <1>5, <1>6, <1>7 DEF DeviceInv

LEMMA DeliverKeeps ==
  ASSUME ConstantsAssumption, DeviceInv, NEW s \in Session, Deliver(s)
  PROVE  DeviceInv'
<1> DEFINE m == Head(posts[s])
<1>1. /\ posts[s] # <<>> /\ posts' = [posts EXCEPT ![s] = Tail(@)]
      /\ UNCHANGED <<situation, procs, links, answers>>
      /\ used' = [used EXCEPT !.robbed = @ \union Robbed(s)]
      /\ (m \in StartPost /\ HookStart(m)) \/ (m \in EndPost /\ HookEnd(m))
  BY DEF Deliver
<1>2. IInv' /\ LinksOK'
  <2> HIDE DEF m
  <2>. QED BY <1>1, HookStartKeeps, HookEndKeeps DEF DeviceInv
<1>3. DeviceTypeOK'
  <2>1. posts[s] \in Seq(Post) BY DEF DeviceInv, DeviceTypeOK
  <2>2. Tail(posts[s]) \in Seq(Post) BY <1>1, <2>1
  <2>3. Robbed(s) \in SUBSET (0 .. MaxConns)
    BY DEF Robbed, DeviceInv, LinksOK, LinkTypeOK
  <2>4. used' \in Used BY <1>1, <2>3 DEF DeviceInv, DeviceTypeOK, Used
  <2>. QED BY <1>1, <2>2, <2>4 DEF DeviceInv, DeviceTypeOK
<1>4. ASSUME NEW c \in Conn, conns'[c] # conns[c]
      PROVE  conns[c].open /\ ~conns[c].leaving /\ ~conns'[c].leaving
  <2>1. HookStart(m) BY <1>1, <1>4 DEF HookEnd
  <2>2. LinkTypeOK BY DEF DeviceInv, LinksOK
  <2> HIDE DEF m
  <2>. QED BY <1>4, <2>1, <2>2, FollowPidMoves DEF HookStart
<1>5. AnswersOwn' BY <1>1, <1>4 DEF DeviceInv, AnswersOwn
<1>6. LinksInOrder'
  <2>0. used'.links = used.links BY <1>1 DEF DeviceInv, DeviceTypeOK, Used
  <2> SUFFICES ASSUME NEW c \in Conn, c > used.links
               PROVE  conns'[c] = Closed
    BY <2>0 DEF LinksInOrder
  <2>1. conns[c] = Closed /\ ~Closed.open BY DEF DeviceInv, LinksInOrder, Closed
  <2>. QED BY <1>4, <2>1
<1>. QED BY <1>2, <1>3, <1>5, <1>6 DEF DeviceInv

LEMMA HubRestartKeeps ==
  ASSUME ConstantsAssumption, DeviceInv, HubStopsAndStarts
  PROVE  DeviceInv'
<1>1. /\ Restart
      /\ conns' = [c \in Conn |-> Closed]
      /\ agent' = [s \in Session |-> 0] /\ pending' = [s \in Session |-> 0]
      /\ links' = [q \in Pid |-> 0] /\ answers' = [c \in Conn |-> None]
      /\ UNCHANGED <<situation, procs, used>>
      /\ posts' = [ s \in Session |->
                     [ i \in DOMAIN posts[s] |-> [posts[s][i] EXCEPT !.live = Pid] ]]
  BY DEF HubStopsAndStarts, HubRestart
<1>2. IInv' BY <1>1, RestartKeeps DEF DeviceInv
<1>3. MaxConns \in Nat /\ 0 \in 0 .. MaxConns BY MaxConnsAssumption
<1>4. DeviceTypeOK'
  <2>1. ASSUME NEW s \in Session
        PROVE  [ i \in DOMAIN posts[s] |-> [posts[s][i] EXCEPT !.live = Pid] ] \in Seq(Post)
    BY KeptIsPost DEF DeviceInv, DeviceTypeOK
  <2>2. posts' \in [Session -> Seq(Post)] BY <1>1, <2>1
  <2>. QED BY <1>1, <1>3, <2>2 DEF DeviceInv, DeviceTypeOK
<1>5. Closed \in Bound /\ ~Closed.open /\ ~Closed.leaving BY DEF Closed, Bound
<1>6. LinksOK'
  BY <1>1, <1>3, <1>5 DEF LinksOK, LinkTypeOK, LinksOwn, BoundIsOwn, PendingIsOwn
<1>7. AnswersOwn' /\ LinksInOrder' BY <1>1, <1>5 DEF AnswersOwn, LinksInOrder
<1>. QED BY <1>2, <1>4, <1>6, <1>7 DEF DeviceInv

LEMMA DeviceInitHolds ==
  ASSUME ConstantsAssumption, DeviceInit
  PROVE  DeviceInv
<1>1. IInv BY InitHolds DEF DeviceInit
<1>2. MaxConns \in Nat /\ 0 \in 0 .. MaxConns BY MaxConnsAssumption
<1>3. DeviceTypeOK BY <1>2 DEF DeviceInit, DeviceTypeOK, Used
<1>4. Closed \in Bound /\ ~Closed.open /\ ~Closed.leaving BY DEF Closed, Bound
<1>5. LinksOK
  BY <1>2, <1>4 DEF DeviceInit, NoLinks, LinksOK, LinkTypeOK, LinksOwn,
                    BoundIsOwn, PendingIsOwn
<1>6. AnswersOwn /\ LinksInOrder
  BY <1>4 DEF DeviceInit, NoLinks, AnswersOwn, LinksInOrder
<1>. QED BY <1>1, <1>3, <1>5, <1>6 DEF DeviceInv

(* Steps of the device alone, and timers of the registry, move no link.    *)
LEMMA LinksUntouched ==
  ASSUME DeviceInv, IInv', DeviceTypeOK', sessions' = sessions, UNCHANGED linkVars,
         used'.links = used.links,
         \A c \in Conn : answers'[c] \in {answers[c], conns[c].session}
  PROVE  DeviceInv'
BY DEF DeviceInv, LinksOK, LinkTypeOK, LinksOwn, BoundIsOwn, PendingIsOwn, linkVars, Binds,
   AnswersOwn, LinksInOrder

LEMMA DeviceStepKeeps ==
  ASSUME ConstantsAssumption, DeviceAssumption, DeviceInv, [DeviceNext]_allVars
  PROVE  DeviceInv'
<1>1. UNCHANGED vars => IInv'
  BY DEF DeviceInv, IInv, vars, TypeOK, SlotsExist, CurrentOnce,
         RunningHoldsSlot, ShownIsKnown, UniqueIdentity
<1>2. ASSUME NEW q \in Pid, ProcessStep(q) PROVE DeviceInv'
  BY <1>2, ProcessStepKeeps, <1>1, LinksUntouched DEF DeviceInv, ProcessStep, Launch, Clear,
     Compact, Exit, Kill, DeviceTypeOK, Used, vars
<1>3. ASSUME NEW q \in Pid, NEW c \in Conn, LinkUp(q, c) \/ AnswerLost(q, c)
      PROVE  DeviceInv'
  BY <1>3, RegistrationKeeps
<1>4. ASSUME NEW q \in Pid, LinkLost(q) PROVE DeviceInv'
  BY <1>4, MaxConnsAssumption, <1>1, LinksUntouched DEF LinkLost, DeviceInv, DeviceTypeOK, vars
<1>5. ASSUME NEW q \in Pid, AnswerRead(q) PROVE DeviceInv'
  BY <1>5, MaxConnsAssumption, <1>1, LinksUntouched DEF AnswerRead, DeviceInv, DeviceTypeOK, Conn,
     LinksOK, vars
<1>6. ASSUME NEW s \in Session, Deliver(s) PROVE DeviceInv' BY <1>6, DeliverKeeps
<1>7. ASSUME \/ \E s \in Session : GraceEnds(s)
             \/ \E key \in Key : HandoffEnds(key)
      PROVE  DeviceInv'
  BY <1>7, TimersKeep, LinksUntouched DEF GraceEnds, HandoffEnds, DeviceInv, GraceOver,
     HandoffOver, DeviceTypeOK, deviceVars
<1>8. ASSUME NEW s \in Session, NEW i \in 1 .. MaxPosts, Spool(s, i) PROVE DeviceInv'
  BY <1>8, SpoolKeeps, <1>1, LinksUntouched DEF DeviceInv, Spool, vars
<1>9. ASSUME NEW c \in Conn, LossNoticed(c) PROVE DeviceInv' BY <1>9, LossNoticedKeeps
<1>10. ASSUME NEW c \in Conn, AnswerHandled(c) PROVE DeviceInv'
  BY <1>10, UpdateAnswerKeeps
<1>11. CASE HubStopsAndStarts BY <1>11, HubRestartKeeps
<1>12. CASE UNCHANGED allVars
  BY <1>12, <1>1, LinksUntouched DEF allVars, DeviceInv, DeviceTypeOK, deviceVars, vars
<1>. QED BY <1>2, <1>3, <1>4, <1>5, <1>6, <1>7, <1>8, <1>9, <1>10, <1>11, <1>12
            DEF DeviceNext

(* DeviceInv is an inductive invariant of the device and the hub.          *)
THEOREM DeviceInvariance == DeviceSpec => []DeviceInv
<1>1. DeviceInit => DeviceInv BY ConstantsAssumption, DeviceInitHolds
<1>2. DeviceInv /\ [DeviceNext]_allVars => DeviceInv'
  BY ConstantsAssumption, DeviceAssumption, DeviceStepKeeps
<1>. QED BY <1>1, <1>2, PTL DEF DeviceSpec

(* However posts, links, reloads and restarts interleave, no link serves   *)
(* or waits for a session that is not its own (TASK-013, TASK-042).        *)
THEOREM LinksServeTheirOwn == DeviceSpec => []LinksOwn
<1>1. DeviceInv => LinksOwn BY DEF DeviceInv, LinksOK
<1>. QED BY <1>1, DeviceInvariance, PTL

(* A device and its links drive the registry by steps of the registry's    *)
(* own specification, so that what is proved of that holds here as well.   *)
THEOREM DeviceImplementsRegistry == DeviceSpec => Spec
<1>1. DeviceInit => Init BY DEF DeviceInit
<1>2. [DeviceNext]_allVars => [Next]_vars
  <2> SUFFICES ASSUME [DeviceNext]_allVars PROVE [Next]_vars
    OBVIOUS
  <2>1. ASSUME NEW q \in Pid, ProcessStep(q) \/ LinkLost(q) \/ AnswerRead(q)
        PROVE  UNCHANGED vars
    BY <2>1 DEF ProcessStep, LinkLost, AnswerRead
  <2>2. ASSUME NEW s \in Session, Deliver(s) PROVE Next
    BY <2>2 DEF Deliver, HookStart, HookEnd, Next
  <2>3. ASSUME NEW s \in Session, GraceEnds(s) PROVE Next BY <2>3 DEF GraceEnds, Next
  <2>4. ASSUME NEW s \in Session, NEW i \in 1 .. MaxPosts, Spool(s, i)
        PROVE  UNCHANGED vars
    BY <2>4 DEF Spool
  <2>5. ASSUME NEW key \in Key, HandoffEnds(key) PROVE Next BY <2>5 DEF HandoffEnds, Next
  <2>6. ASSUME NEW c \in Conn, LossNoticed(c) \/ AnswerHandled(c)
        PROVE  UNCHANGED vars
    BY <2>6 DEF LossNoticed, AnswerHandled, AgentDisconnected, AgentLeaves, AgentStays
  <2>0. ASSUME NEW c \in Conn, NEW q \in Pid, LinkUp(q, c) \/ AnswerLost(q, c)
        PROVE  UNCHANGED vars
    BY <2>0 DEF LinkUp, AnswerLost, Registers, AgentRegistered
  <2>7. HubStopsAndStarts => Next BY DEF HubStopsAndStarts, HubRestart, Next
  <2>8. UNCHANGED allVars => UNCHANGED vars BY DEF allVars
  <2>. QED BY <2>1, <2>2, <2>3, <2>4, <2>5, <2>6, <2>7, <2>8, <2>0 DEF DeviceNext
<1>. QED BY <1>1, <1>2, PTL DEF DeviceSpec, Spec

-----------------------------------------------------------------------------
(* Proofs about Device: what the hub holds of the sessions that live       *)
(* processes run, and of their agents, once all posts are handled.         *)

(* The hub starts from a file that knows no session and no pid of this     *)
(* device yet, so that no pid names a second process (see Launch).         *)
DeviceIsNew ==
  \A f \in Files :
    /\ \A s \in Session : ~f.sessions[s].known
    /\ \A q \in Pid : f.pids[<<Device, q>>] = None

Known(s) == sessions[s].known

(* The session the hub knows a pid by.                                     *)
Named(q) == pids[<<Device, q>>]

(* Every session is a top-level one of this device, in a slot of it; a     *)
(* hand-off waits only for a pid that names no session.                    *)
RegistryOfDevice ==
  /\ \A s \in Session : Known(s) =>
       /\ sessions[s].kind = "top" /\ sessions[s].host = Device
       /\ sessions[s].slot \in DOMAIN slots
       /\ slots[sessions[s].slot].host = Device
  /\ \A k \in Key : clears[k] # 0 => pids[k] = None

----------------------------------------------------------------------------
(* What a post does to other sessions than its own.                        *)

LEMMA AllocatedHost ==
  ASSUME NEW sl \in Seq(Slot), NEW se \in [Session -> Entry],
         NEW pi \in [Key -> Session \union {None}], NEW p \in StartPost, NEW cs,
         NEW k \in 1 .. Len(sl), Allocates(sl, se, pi, p, cs, k)
  PROVE  sl[k].host = p.host
BY DEF Allocates, OwnUsable, OwnSlot, ClearUsable, TakesHandedOn, HandedOn, FreeSlots, SameFolder

(* The reap ends what it says, and takes the pids of that.                 *)
LEMMA ReapIs ==
  ASSUME TypeOK, RegistryOfDevice, NEW p, p.host = Device
  PROVE  /\ \A x \in Session : x \notin Reaped(p) => SessionsReaped(p)[x] = sessions[x]
         /\ \A x \in Reaped(p) : x \in Session /\ SessionsReaped(p)[x].ended
         /\ \A k \in Key : \/ PidsReaped(p)[k] = pids[k]
                           \/ PidsReaped(p)[k] = None /\ pids[k] \in Reaped(p)
BY DEF TypeOK, Entry, SessionsReaped, PidsReaped, Reaped

(* What an end of session s leaves of the registry.                        *)
EndLeaves(p) ==
  /\ starts' = starts
  /\ \A x \in Session :
       /\ sessions'[x].known = sessions[x].known /\ sessions'[x].pid = sessions[x].pid
       /\ LiveTop(sessions', x) => LiveTop(sessions, x)
       /\ x \notin Reaped(p) \union {p.session} => sessions'[x] = sessions[x]
  /\ \A k \in Key :
       /\ pids'[k] # pids[k] => pids'[k] = None /\ ~LiveTop(sessions', pids[k])
       /\ pids[k] \notin Reaped(p) \union {p.session} => pids'[k] = pids[k]
  /\ Known(p.session) /\ sessions[p.session].pid = p.pid => Named(p.pid)' # p.session

LEMMA EndEffect ==
  ASSUME ConstantsAssumption, DeviceAssumption, IInv, RegistryOfDevice, NEW p \in EndPost,
         p.host = Device, p.pid \in Pid, EndIgnored(p) \/ EndSession(p)
  PROVE  RegistryOfDevice' /\ EndLeaves(p)
<1> DEFINE s == p.session
           re == SessionsReaped(p)
           pi == PidsReaped(p)
<1>1. /\ re \in [Session -> Entry] /\ Ends(sessions, re)
      /\ pi \in [Key -> Session \union {None}] /\ TypeOK
  BY ReapFacts DEF IInv
<1>2. s \in Session /\ None \notin Session BY DEF EndPost, ConstantsAssumption
<1>3. /\ \A x \in Session : x \notin Reaped(p) => re[x] = sessions[x]
      /\ \A x \in Reaped(p) : x \in Session /\ re[x].ended
      /\ \A k \in Key : pi[k] = pids[k] \/ (pi[k] = None /\ pids[k] \in Reaped(p))
  BY <1>1, ReapIs
<1>4. s \notin Reaped(p) BY DEF Reaped
<1>5. slots' = slots /\ starts' = starts BY DEF EndIgnored, EndSession
<1>6. \A x \in Session : /\ re[x].known = sessions[x].known /\ re[x].kind = sessions[x].kind
                         /\ re[x].slot = sessions[x].slot /\ re[x].pid = sessions[x].pid
                         /\ re[x].host = sessions[x].host
                         /\ LiveTop(re, x) => LiveTop(sessions, x)
  <2>1. sessions \in [Session -> Entry] BY <1>1 DEF TypeOK
  <2> HIDE DEF re
  <2>. QED BY <1>1, <2>1 DEF Ends, LiveTop, Running, Entry
<1>7. CASE EndIgnored(p)
  <2>1. sessions' = re /\ pids' = pi /\ clears' = clears BY <1>7 DEF EndIgnored
  <2>2. Known(s) => sessions[s].pid # p.pid BY <1>7, <1>2, <1>6 DEF EndIgnored, Known
  <2> HIDE DEF re, pi, s
  <2>3. RegistryOfDevice' BY <1>1, <1>3, <1>5, <1>6, <2>1 DEF RegistryOfDevice, Known
  <2>4. \A k \in Key : pids'[k] # pids[k] => ~LiveTop(sessions', pids[k])
    BY <1>3, <2>1 DEF LiveTop, Running
  <2>. QED BY <1>2, <1>3, <1>4, <1>5, <1>6, <2>1, <2>2, <2>3, <2>4 DEF EndLeaves, Known, s
<1>8. CASE EndSession(p)
  <2> DEFINE e == re[s]
             key == <<e.host, e.pid>>
             pi2 == IF e.pid # None /\ pi[key] = s
                    THEN [pi EXCEPT ![key] = None] ELSE pi
             left == IF p.reason = "clear" /\ pi2[key] = None THEN e.slot ELSE 0
             hand == e.pid # None /\ e.slot # 0 /\ e.kind = "top"
  <2>1. /\ e.known /\ sessions' = [re EXCEPT ![s].ended = TRUE]
        /\ pids' = pi2
        /\ clears' = IF ~hand THEN clears ELSE [clears EXCEPT ![key] = left]
    BY <1>8 DEF EndSession
  <2>2. e = sessions[s] /\ e.host = Device /\ e.kind = "top"
    BY <1>2, <1>3, <1>4, <2>1 DEF RegistryOfDevice, Known
  <2>3. re[s] \in Entry /\ e \in Entry BY <1>1, <1>2
  <2>4. [e EXCEPT !.ended = TRUE].ended /\ [e EXCEPT !.ended = TRUE].known = e.known
        /\ [e EXCEPT !.ended = TRUE].kind = e.kind /\ [e EXCEPT !.ended = TRUE].slot = e.slot
        /\ [e EXCEPT !.ended = TRUE].pid = e.pid /\ [e EXCEPT !.ended = TRUE].host = e.host
    BY <2>3 DEF Entry
  <2> HIDE DEF re, pi
  <2>5. /\ sessions'[s] = [e EXCEPT !.ended = TRUE]
        /\ \A x \in Session \ {s} : sessions'[x] = re[x]
    BY <1>1, <1>2, <2>1
  <2>6. /\ \A k \in Key : pids'[k] = pi[k] \/ (pids'[k] = None /\ pi[k] = s)
        /\ e.pid # None => pids'[key] # s
    <3>1. e.pid # None => key \in Key BY <2>2, <2>3 DEF Key, Entry, DeviceAssumption
    <3> HIDE DEF key, e, s
    <3>. QED BY <1>1, <1>2, <2>1, <3>1
  <2>7. \A k \in Key : clears'[k] # 0 => pids'[k] = None
    <3> SUFFICES ASSUME NEW k \in Key, clears'[k] # 0 PROVE pids'[k] = None
      OBVIOUS
    <3>0. clears \in [Key -> Nat] BY <1>1 DEF TypeOK
    <3>1. CASE clears'[k] = clears[k] BY <3>1, <1>3, <2>6 DEF RegistryOfDevice
    <3>2. CASE clears'[k] # clears[k]
      <4> HIDE DEF key, left, hand
      <4>1. clears' = [clears EXCEPT ![key] = left] BY <2>1, <3>2
      <4>2. k = key /\ left # 0 BY <3>0, <3>2, <4>1
      <4>. QED BY <4>2, <2>1 DEF left
    <3>. QED BY <3>1, <3>2
  <2> HIDE DEF s, e, key, pi2
  <2>8. \A x \in Session : /\ sessions'[x].known = sessions[x].known
                           /\ sessions'[x].kind = sessions[x].kind
                           /\ sessions'[x].slot = sessions[x].slot
                           /\ sessions'[x].pid = sessions[x].pid
                           /\ sessions'[x].host = sessions[x].host
                           /\ LiveTop(sessions', x) => LiveTop(sessions, x) /\ x # s
    <3> SUFFICES ASSUME NEW x \in Session
                 PROVE  /\ sessions'[x].known = sessions[x].known
                        /\ sessions'[x].kind = sessions[x].kind
                        /\ sessions'[x].slot = sessions[x].slot
                        /\ sessions'[x].pid = sessions[x].pid
                        /\ sessions'[x].host = sessions[x].host
                        /\ LiveTop(sessions', x) => LiveTop(sessions, x) /\ x # s
      OBVIOUS
    <3>1. CASE x = s BY <3>1, <2>2, <2>4, <2>5 DEF LiveTop, Running
    <3>2. CASE x # s BY <3>2, <1>6, <2>5 DEF LiveTop, Running
    <3>. QED BY <3>1, <3>2
  <2>9. RegistryOfDevice' BY <1>5, <2>7, <2>8 DEF RegistryOfDevice, Known
  <2>10. \A x \in Session : x \notin Reaped(p) \union {s} => sessions'[x] = sessions[x]
    BY <1>3, <2>5
  <2>11. ASSUME NEW k \in Key
         PROVE  /\ pids'[k] # pids[k] => pids'[k] = None /\ ~LiveTop(sessions', pids[k])
                /\ pids[k] \notin Reaped(p) \union {s} => pids'[k] = pids[k]
    BY <1>3, <1>4, <2>5, <1>2, <2>8, <2>6 DEF LiveTop, Running, s
  <2>12. Known(s) /\ sessions[s].pid = p.pid => Named(p.pid)' # s
    BY <2>2, <2>6 DEF ConstantsAssumption, Named, key
  <2>. QED BY <1>5, <2>8, <2>9, <2>10, <2>11, <2>12 DEF EndLeaves, s
<1>. QED BY <1>7, <1>8
(* What a start of session s leaves of the registry.                       *)
StartLeaves(p) ==
  LET s == p.session IN
  /\ starts' = starts \union {s}
  /\ LiveTop(sessions', s) /\ sessions'[s].pid = p.pid /\ Named(p.pid)' = s
  /\ \A x \in Session \ {s} :
       /\ Known(x)' => Known(x) /\ sessions'[x].pid = sessions[x].pid
       /\ LiveTop(sessions', x) => LiveTop(sessions, x)
       /\ LiveTop(sessions, x) /\ x \notin Reaped(p) \union {Named(p.pid)} =>
            sessions'[x] = sessions[x]
  /\ \A k \in Key \ {<<Device, p.pid>>} :
       /\ pids'[k] # pids[k] => pids'[k] = None /\ ~LiveTop(sessions', pids[k])
       /\ pids'[k] # None /\ Known(pids[k]) => sessions'[pids[k]].known
       /\ pids[k] \in Session /\ LiveTop(sessions', pids[k]) => pids'[k] = pids[k]
  /\ p.source = "clear" /\ ~Known(s) /\ clears[<<Device, p.pid>>] = 0
       /\ Named(p.pid) \notin {None, s} => ~LiveTop(sessions', Named(p.pid))

(* The steps of a top-level start, before it is recorded.                  *)
LEMMA StartIs ==
  ASSUME ConstantsAssumption, DeviceAssumption, IInv, RegistryOfDevice, NEW p \in StartPost,
         p.host = Device, p.pid \in Pid, p.parent = None,
         StartRouted(p) \/ StartNested(p) \/ StartTopLevel(p)
  PROVE  \E k \in Nat, given \in [Session -> Entry], sl \in Seq(Slot),
           pi \in [Key -> Session \union {None}] :
           /\ pi = PidsReaped(p) /\ Ends(sessions, given)
           /\ given[p.session] = sessions[p.session]
           /\ \A x \in Session \ (Reaped(p) \union {Named(p.pid)}) : given[x] = sessions[x]
           /\ \A x \in Reaped(p) : given[x].ended
           /\ p.source = "clear" /\ ~Known(p.session) /\ clears[<<Device, p.pid>>] = 0
                /\ pi[<<Device, p.pid>>] \notin {None, p.session} =>
                  ~LiveTop(given, pi[<<Device, p.pid>>])
           /\ k \in DOMAIN sl /\ sl[k].host = Device /\ Len(slots) <= Len(sl)
           /\ \A i \in DOMAIN slots : sl[i] = slots[i]
           /\ Recorded(Occupied(sl, p.session, k), Started(given, p, "top", None, k),
                       PidTaken(pi, p), p)
<1> DEFINE s == p.session
           re == SessionsReaped(p)
           pi == PidsReaped(p)
           se == ReusedPidEnded(re, pi, p)
           cs == ClearSlot(p)
           given == HandedOnEnded(slots, se, pi, p, cs)
           q == pi[<<Device, p.pid>>]
<1>1. /\ re \in [Session -> Entry] /\ Ends(sessions, re)
      /\ pi \in [Key -> Session \union {None}] /\ TypeOK
  BY ReapFacts DEF IInv
<1>2. /\ s \in Session /\ None \notin Session /\ p.pid # None /\ s \notin Reaped(p)
      /\ <<Device, p.pid>> \in Key
  BY DEF StartPost, ConstantsAssumption, DeviceAssumption, Key, Reaped
<1>3. /\ \A x \in Session : x \notin Reaped(p) => re[x] = sessions[x]
      /\ \A x \in Reaped(p) : x \in Session /\ re[x].ended
      /\ \A k \in Key : pi[k] = pids[k] \/ (pi[k] = None /\ pids[k] \in Reaped(p))
  BY <1>1, ReapIs
<1>4. Previous(pi, p) = q /\ q \in {None, Named(p.pid)} BY <1>2, <1>3 DEF Previous, Named
<1>5. /\ slots \in Seq(Slot) /\ se \in [Session -> Entry]
      /\ HeldIn(slots, se)
      /\ \A x \in Session : se[x].slot \in 0 .. Len(slots)
      /\ \A key \in Key : clears[key] \in 0 .. Len(slots)
  BY BeforeStart
<1>6. Ends(re, se) /\ \A x \in Session : x # q \/ x = s => se[x] = re[x]
  <2>1. Ends(re, se)
    <3> HIDE DEF re, pi
    <3>. QED BY <1>1, ReusedPidFacts
  <2>. QED BY <1>1, <1>4, <2>1 DEF ReusedPidEnded
<1>7. \A x \in Session : se[x].kind = "top" \/ ~se[x].known
  <2>1. \A x \in Session : /\ re[x].known = sessions[x].known
                           /\ re[x].kind = sessions[x].kind
    <3> HIDE DEF re
    <3>. QED BY <1>1, EndingFields DEF TypeOK
  <2>2. \A x \in Session : se[x].known = re[x].known /\ se[x].kind = re[x].kind
    <3> HIDE DEF re, se
    <3>. QED BY <1>1, <1>5, <1>6, EndingFields
  <2>. QED BY <2>1, <2>2 DEF RegistryOfDevice, Known
<1>8. StartTopLevel(p)
  BY <1>2, <1>7 DEF StartRouted, Routed, StartsNested, StaysNested, StartNested
<1> DEFINE Made(o) == [ host |-> p.host, folder |-> FolderOf(slots, se, p),
                        ordinal |-> o, current |-> None ]
           After(k, o) == IF k = Len(slots) + 1 THEN Append(slots, Made(o)) ELSE slots
<1>9. PICK k \in 1 .. Len(slots) + 1, o \in 1 .. Len(slots) + 1 :
        /\ Allocates(slots, se, pi, p, cs, k)
        /\ Recorded(Occupied(After(k, o), s, k), Started(given, p, "top", None, k),
                    PidTaken(pi, p), p)
  BY <1>8 DEF StartTopLevel
<1> DEFINE sl == After(k, o)
<1>10. cs \in 0 .. Len(slots) /\ (clears[<<Device, p.pid>>] = 0 => cs = 0)
  BY <1>5, <1>2 DEF ClearSlot
<1> HIDE DEF re, pi, se, cs
<1>11. given \in [Session -> Entry] /\ Ends(se, given)
  <2>1. k \in Nat BY <1>5
  <2>. QED BY <1>1, <1>2, <1>5, <1>9, <1>10, <2>1, AllocationIsSafe
<1>12. Ends(sessions, given)
  <2>1. sessions \in [Session -> Entry] BY <1>1 DEF TypeOK
  <2> HIDE DEF given
  <2>2. Ends(sessions, se) BY <1>1, <1>5, <1>6, <2>1, EndsTransitive
  <2>. QED BY <1>5, <1>11, <2>1, <2>2, EndsTransitive
<1>13. \A x \in Session : x # q \/ x = s => given[x] = se[x]
  BY <1>2, <1>4, <1>5 DEF HandedOnEnded, TakesHandedOn, HandedOn
<1>14. ASSUME NEW x \in Session, ~LiveTop(se, x) PROVE ~LiveTop(given, x)
  <2> HIDE DEF given
  <2>. QED BY <1>5, <1>11, <1>14, EndingFields
<1>15. \A x \in Reaped(p) : se[x].ended /\ given[x].ended
  <2> HIDE DEF given
  <2>. QED BY <1>1, <1>3, <1>5, <1>6, <1>11 DEF Ends, Entry
<1>16. ASSUME p.source = "clear", ~Known(s), clears[<<Device, p.pid>>] = 0, q \notin {None, s}
       PROVE  ~LiveTop(given, q)
  <2> SUFFICES ASSUME LiveTop(se, q) PROVE ~LiveTop(given, q)
    BY <1>1, <1>2, <1>16, <1>14
  <2>1. q \in Session /\ se[q].known /\ se[q].slot # 0 /\ slots[se[q].slot].current = q
    BY <1>1, <1>2, <1>16, <1>5 DEF HeldIn, LiveTop, Running
  <2>2. slots[se[q].slot].host = Device
    <3>1. q \notin Reaped(p) BY <1>15 DEF LiveTop, Running
    <3>2. se[q].slot = sessions[q].slot /\ Known(q)
      <4>1. re[q] = sessions[q] BY <1>3, <2>1, <3>1
      <4>2. se[q].slot = re[q].slot /\ se[q].known = re[q].known
        <5> HIDE DEF q
        <5>. QED BY <1>1, <1>5, <1>6, <2>1, EndingFields
      <4>. QED BY <2>1, <4>1, <4>2 DEF Known
    <3>. QED BY <2>1, <3>2 DEF RegistryOfDevice
  <2>3. ~se[s].known BY <1>2, <1>3, <1>6, <1>16 DEF Known
  <2>4. ~OwnUsable(slots, se, p) /\ ~ClearUsable(slots, se, p, cs)
    BY <2>3, <1>10, <1>16 DEF OwnUsable, OwnSlot, ClearUsable
  <2>5. HandedOn(slots, se, pi, p) = se[q].slot BY <1>4, <1>16, <2>1, <2>2 DEF HandedOn
  <2>6. given = [se EXCEPT ![q].ended = TRUE]
    BY <1>4, <2>1, <2>4, <2>5 DEF HandedOnEnded, TakesHandedOn
  <2>. QED BY <1>5, <2>1, <2>6 DEF LiveTop, Running, Entry
<1>17. FolderOf(slots, se, p) \in Folder
  <2>1. p.folder \in Folder BY DEF StartPost
  <2>2. OwnSlot(slots, se, p) # 0 => OwnSlot(slots, se, p) \in DOMAIN slots
    BY <1>2, <1>5 DEF OwnSlot
  <2>3. \A i \in DOMAIN slots : slots[i].folder \in Folder
    <3>1. \A i \in DOMAIN slots : slots[i] \in Slot BY <1>5
    <3>. QED BY <3>1 DEF Slot
  <2>. QED BY <2>1, <2>2, <2>3 DEF FolderOf
<1>18. Made(o) \in Slot /\ Made(o).host = Device BY <1>5, <1>17 DEF StartPost, Slot
<1>19. /\ sl \in Seq(Slot) /\ k \in DOMAIN sl /\ sl[k].host = Device /\ k \in Nat
       /\ Len(slots) <= Len(sl) /\ \A i \in DOMAIN slots : sl[i] = slots[i]
  <2> HIDE DEF Made
  <2>1. CASE k = Len(slots) + 1 BY <1>5, <1>18, <2>1
  <2>2. CASE k # Len(slots) + 1
    <3>1. k \in 1 .. Len(slots) BY <1>5, <2>2
    <3>2. slots[k].host = p.host BY <1>1, <1>5, <1>9, <3>1, AllocatedHost
    <3>. QED BY <1>5, <2>2, <3>1, <3>2
  <2>. QED BY <2>1, <2>2
<1>20. \A x \in Session \ (Reaped(p) \union {Named(p.pid)}) : given[x] = sessions[x]
  BY <1>3, <1>4, <1>6, <1>13
<1>21. given[s] = sessions[s] BY <1>2, <1>3, <1>6, <1>13
<1>22. Recorded(Occupied(sl, s, k), Started(given, p, "top", None, k), PidTaken(pi, p), p)
  BY <1>9
<1> HIDE DEF sl, given
<1>. QED BY <1>1, <1>11, <1>12, <1>15, <1>16, <1>19, <1>20, <1>21, <1>22 DEF pi

LEMMA StartEffect ==
  ASSUME ConstantsAssumption, DeviceAssumption, IInv, RegistryOfDevice, NEW p \in StartPost,
         p.host = Device, p.pid \in Pid, p.parent = None,
         StartRouted(p) \/ StartNested(p) \/ StartTopLevel(p)
  PROVE  RegistryOfDevice' /\ StartLeaves(p)
<1> DEFINE s == p.session
           own == <<Device, p.pid>>
<1>1. PICK k \in Nat, given \in [Session -> Entry], sl \in Seq(Slot),
           pi \in [Key -> Session \union {None}] :
           /\ pi = PidsReaped(p) /\ Ends(sessions, given)
           /\ given[s] = sessions[s]
           /\ \A x \in Session \ (Reaped(p) \union {Named(p.pid)}) : given[x] = sessions[x]
           /\ \A x \in Reaped(p) : given[x].ended
           /\ p.source = "clear" /\ ~Known(s) /\ clears[own] = 0
                /\ pi[own] \notin {None, s} => ~LiveTop(given, pi[own])
           /\ k \in DOMAIN sl /\ sl[k].host = Device /\ Len(slots) <= Len(sl)
           /\ \A i \in DOMAIN slots : sl[i] = slots[i]
           /\ Recorded(Occupied(sl, s, k), Started(given, p, "top", None, k),
                       PidTaken(pi, p), p)
  BY StartIs
<1> DEFINE st == Started(given, p, "top", None, k)
           oc == Occupied(sl, s, k)
           pt == PidTaken(pi, p)
           gone == Forgotten(oc, st, StartedLast(s, st))
<1>2. /\ s \in Session /\ None \notin Session /\ p.pid # None /\ s \notin Reaped(p)
      /\ own \in Key /\ sessions \in [Session -> Entry] /\ slots \in Seq(Slot)
      /\ pids \in [Key -> Session \union {None}] /\ clears \in [Key -> Nat]
  BY DEF StartPost, ConstantsAssumption, DeviceAssumption, Key, Reaped, IInv, TypeOK
<1>3. /\ slots' = oc /\ sessions' = Pruned(st, gone)
      /\ pids' = [x \in Key |-> IF pt[x] \in gone THEN None ELSE pt[x]]
      /\ starts' = starts \union {s} /\ clears' = [clears EXCEPT ![own] = 0]
  BY <1>1, <1>2 DEF Recorded, ClearsLeft
<1>4. /\ st \in [Session -> Entry]
      /\ \A x \in Session \ {s} : st[x] = given[x]
      /\ st[s].known /\ st[s].kind = "top" /\ st[s].slot = k
  <2> HIDE DEF s
  <2>. QED BY <1>1, StartedFacts DEF s
<1>5. ~st[s].ended /\ st[s].pid = p.pid /\ st[s].host = Device
  <2>1. st = [given EXCEPT ![s] =
               [ known |-> TRUE, host |-> IF given[s].known THEN given[s].host ELSE p.host,
                 kind |-> "top", parent |-> None, slot |-> k,
                 pid |-> IF p.pid # None THEN p.pid ELSE given[s].pid, ended |-> FALSE ]]
    BY DEF Started
  <2>2. given[s].known => given[s].host = Device
    BY <1>1, <1>2 DEF RegistryOfDevice, Known
  <2> HIDE DEF st
  <2>. QED BY <1>2, <2>1, <2>2
<1>6. gone \in SUBSET Session /\ \A x \in gone : st[x].ended BY DEF Forgotten
<1>7. pt = [pi EXCEPT ![own] = s] BY <1>2 DEF PidTaken
<1>8. \A x \in Key : pi[x] = pids[x] \/ (pi[x] = None /\ pids[x] \in Reaped(p))
  BY <1>1, ReapIs DEF IInv
<1> HIDE DEF st, gone, pt, own, s
<1>9. s \notin gone /\ None \notin gone BY <1>2, <1>5, <1>6
<1>10. sessions'[s] = st[s] /\ Named(p.pid)' = s
  BY <1>2, <1>3, <1>9, <1>1, <1>7 DEF Pruned, Named, own
<1>11. \A x \in Session \ {s} : sessions'[x] = IF x \in gone THEN Unknown ELSE given[x]
  BY <1>2, <1>3, <1>4 DEF Pruned
<1>12. \A x \in Session : /\ given[x].known = sessions[x].known
                          /\ given[x].kind = sessions[x].kind
                          /\ given[x].slot = sessions[x].slot
                          /\ given[x].pid = sessions[x].pid
                          /\ given[x].host = sessions[x].host
                          /\ LiveTop(given, x) => LiveTop(sessions, x)
  BY <1>1, <1>2 DEF Ends, LiveTop, Running, Entry
<1>13. ~Unknown.known BY DEF Unknown
<1>14. ASSUME NEW x \in Session \ {s}
       PROVE  /\ Known(x)' => /\ Known(x) /\ x \notin gone /\ sessions'[x] = given[x]
                              /\ sessions'[x].pid = sessions[x].pid
              /\ LiveTop(sessions', x) => LiveTop(sessions, x)
              /\ LiveTop(sessions, x) /\ x \notin Reaped(p) \union {Named(p.pid)} =>
                   sessions'[x] = sessions[x]
  BY <1>11, <1>13, <1>4, <1>6, <1>1, <1>12 DEF Known, LiveTop, Running
<1>15. ASSUME NEW x \in Key \ {own}
       PROVE  /\ pids'[x] # pids[x] => pids'[x] = None /\ ~LiveTop(sessions', pids[x])
              /\ pids'[x] # None /\ Known(pids[x]) => sessions'[pids[x]].known
              /\ pids[x] \in Session /\ LiveTop(sessions', pids[x]) => pids'[x] = pids[x]
  <2>1. pids'[x] = IF pi[x] \in gone THEN None ELSE pi[x] BY <1>1, <1>2, <1>3, <1>7
  <2>2. pids[x] \in Session \union {None} BY <1>2
  <2>3. ASSUME pids'[x] # pids[x]
        PROVE  pids'[x] = None /\ pids[x] \in Session \ {s} /\ ~LiveTop(sessions', pids[x])
    <3>1. CASE pids[x] \in Reaped(p)
      <4>1. pids[x] \in Session \ {s} /\ given[pids[x]].ended
        BY <1>1, <1>2, <3>1 DEF Reaped
      <4>2. ~LiveTop(sessions', pids[x]) BY <1>11, <1>13, <4>1 DEF LiveTop, Running
      <4>. QED BY <1>8, <2>1, <2>3, <4>1, <4>2
    <3>2. CASE pids[x] \notin Reaped(p)
      BY <1>8, <2>1, <2>3, <3>2, <1>6, <1>9, <1>11, <1>13 DEF LiveTop, Running
    <3>. QED BY <3>1, <3>2
  <2>4. pids'[x] # None => pids'[x] = pids[x] /\ pids[x] \notin gone /\ pids[x] \in Session
    BY <1>8, <2>1, <2>2, <2>3
  <2>5. pids'[x] # None /\ Known(pids[x]) => sessions'[pids[x]].known
    BY <1>4, <1>10, <2>4, <1>11, <1>12 DEF Known
  <2>. QED BY <2>3, <2>5
<1>16. StartLeaves(p)
  <2>1. LiveTop(sessions', s) /\ sessions'[s].pid = p.pid
    BY <1>4, <1>5, <1>10 DEF LiveTop, Running
  <2>2. ASSUME p.source = "clear", ~Known(s), clears[own] = 0, Named(p.pid) \notin {None, s}
        PROVE  ~LiveTop(sessions', Named(p.pid))
    <3> DEFINE r == Named(p.pid)
    <3>1. r \in Session \ {s} /\ r = pids[own] BY <1>2, <2>2 DEF Named, own
    <3>2. ~LiveTop(given, r) BY <1>1, <1>2, <1>8, <3>1, <2>2 DEF LiveTop, Running
    <3>. QED BY <3>1, <3>2, <1>11, <1>13 DEF LiveTop, Running
  <2>. QED BY <1>3, <1>10, <1>14, <1>15, <2>1, <2>2 DEF StartLeaves, s, own
<1>17. RegistryOfDevice'
  <2>1. /\ Len(oc) = Len(sl) /\ DOMAIN oc = DOMAIN sl
        /\ \A i \in DOMAIN sl : oc[i].host = sl[i].host
    BY <1>1 DEF Occupied, Slot
  <2> HIDE DEF oc
  <2>2. ASSUME NEW x \in Session, Known(x)'
        PROVE  /\ sessions'[x].kind = "top" /\ sessions'[x].host = Device
               /\ sessions'[x].slot \in DOMAIN slots'
               /\ slots'[sessions'[x].slot].host = Device
    <3>1. CASE x = s BY <1>1, <1>3, <1>4, <1>5, <1>10, <2>1, <3>1
    <3>2. CASE x # s
      <4>1. Known(x) /\ sessions'[x] = given[x] BY <1>14, <2>2, <3>2
      <4>2. /\ given[x].kind = "top" /\ given[x].host = Device
            /\ given[x].slot \in DOMAIN slots /\ slots[given[x].slot].host = Device
        BY <1>12, <4>1 DEF RegistryOfDevice
      <4>3. given[x].slot \in DOMAIN sl BY <1>1, <1>2, <4>2
      <4>. QED BY <1>1, <1>3, <2>1, <4>1, <4>2, <4>3
    <3>. QED BY <3>1, <3>2
  <2>3. ASSUME NEW x \in Key, clears'[x] # 0 PROVE pids'[x] = None
    BY <1>2, <1>3, <2>3, <1>15 DEF RegistryOfDevice
  <2>. QED BY <2>2, <2>3 DEF RegistryOfDevice
<1>. QED BY <1>16, <1>17
----------------------------------------------------------------------------
(* Live processes and their sessions.                                      *)

Runs(q, s) == procs[q].session = s

(* The hub has the run of s by process q.                                  *)
Handled(q, s) == LiveTop(sessions, s) /\ sessions[s].pid = q /\ Named(q) = s

(* The next post of s is the start by process q.                           *)
StartPending(s, q) == posts[s] # <<>> /\ posts[s][1] \in StartPost /\ posts[s][1].pid = q

(* Nothing of s is under way but its end by process q, which is the one    *)
(* the hub has.                                                            *)
EndPending(s, q) ==
  /\ Len(posts[s]) = 1 /\ posts[s][1] \in EndPost /\ posts[s][1].pid = q
  /\ Known(s) /\ sessions[s].pid = q

PostsOK ==
  \A s \in Session : \A i \in DOMAIN posts[s] :
    /\ posts[s][i].session = s /\ posts[s][i].host = Device /\ posts[s][i].pid \in used.pids
    /\ posts[s][i] \in StartPost => i = 1 /\ posts[s][i].parent = None

(* Pids and sessions that were not used yet.                               *)
UnusedOK ==
  /\ \A q \in Pid \ used.pids : Named(q) = None
  /\ \A s \in Session \ used.sessions : posts[s] = <<>> /\ ~Known(s)

RunsOK ==
  \A q \in Pid : \A s \in Session : Runs(q, s) =>
    /\ q \in used.pids /\ s \in used.sessions /\ procs[q].env \in used.sessions
    /\ \A p \in Pid : Runs(p, s) => p = q
    /\ posts[s] = <<>> => Handled(q, s)
    /\ posts[s] # <<>> => Len(posts[s]) = 1 /\ StartPending(s, q)

(* A start under way finds its pid unknown or known by the session the     *)
(* process left by /clear, whose end is under way as well.                 *)
StartsOK ==
  \A s \in Session : \A q \in Pid : StartPending(s, q) =>
    /\ Alive(q) => Runs(q, s)
    /\ \A t \in Session : StartPending(t, q) => t = s
    /\ posts[s][1].source = "startup" => Named(q) \in {None, s}
    /\ posts[s][1].source = "clear" =>
         ~Known(s) /\ \A r \in Session : Named(q) = r => EndPending(r, q)

(* No list of live pids can end a run the hub has.                         *)
ListsOK ==
  \A q \in Pid : \A s \in Session : Runs(q, s) /\ posts[s] = <<>> =>
    \/ s \in starts
    \/ \A t \in Session : \A i \in DOMAIN posts[t] : q \in posts[t][i].live

LiveInv ==
  /\ DeviceInv
  /\ RegistryOfDevice
  /\ PostsOK
  /\ UnusedOK
  /\ RunsOK
  /\ StartsOK
  /\ ListsOK

LEMMA PostKinds == \A m : ~(m \in StartPost /\ m \in EndPost)
<1> SUFFICES ASSUME NEW m \in StartPost, m \in EndPost PROVE FALSE
  OBVIOUS
<1>1. m \in StartFields BY DEF StartPost, StartFields
<1>2. m \in EndFields BY DEF EndPost, EndFields
<1>3. "source" \in DOMAIN m BY <1>1 DEF StartFields
<1>4. "source" \notin DOMAIN m BY <1>2 DEF EndFields
<1>. QED BY <1>3, <1>4

LEMMA RunsAlive ==
  ASSUME ConstantsAssumption, NEW q \in Pid, NEW s \in Session, Runs(q, s)
  PROVE  Alive(q)
BY DEF Runs, Alive, NoProcess, ConstantsAssumption

(* The posts after the first one of s was handled.                         *)
LEMMA PostsLeft ==
  ASSUME LiveInv, NEW s \in Session, posts[s] # <<>>, posts' = [posts EXCEPT ![s] = Tail(@)]
  PROVE  /\ \A t \in Session \ {s} : posts'[t] = posts[t]
         /\ \A t \in Session : \A i \in DOMAIN posts'[t] :
              /\ \E j \in DOMAIN posts[t] : posts'[t][i] = posts[t][j]
              /\ t = s => posts'[t][i] \notin StartPost
         /\ Len(posts[s]) = 1 => posts'[s] = <<>>
         /\ \A q \in Pid : ~StartPending(s, q)'
         /\ \A t \in Session \ {s} : \A q \in Pid :
              /\ StartPending(t, q)' <=> StartPending(t, q)
              /\ (posts[t] = <<>>) <=> (posts'[t] = <<>>)
BY DEF LiveInv, DeviceInv, DeviceTypeOK, PostsOK, StartPending

(* A session that a post is not of and that runs is not reaped by it.      *)
LEMMA NotReaped ==
  ASSUME LiveInv, NEW s \in Session, posts[s] # <<>>, NEW q \in Pid, NEW t \in Session,
         Runs(q, t), posts[t] = <<>>
  PROVE  t \notin Reaped(posts[s][1]) /\ Handled(q, t)
BY DEF LiveInv, RunsOK, DeviceInv, DeviceTypeOK, ListsOK, Reaped, Handled

LEMMA StartDelivered ==
  ASSUME ConstantsAssumption, DeviceAssumption, LiveInv, DeviceInv', NEW s \in Session,
         Deliver(s), Head(posts[s]) \in StartPost
  PROVE  LiveInv'
<1>0. /\ posts[s] # <<>> /\ posts[s] \in Seq(Post) /\ used \in Used
      /\ Head(posts[s]) = posts[s][1] /\ 1 \in DOMAIN posts[s]
  BY DEF Deliver, LiveInv, DeviceInv, DeviceTypeOK
<1>a. PICK m \in StartPost : m = posts[s][1] BY <1>0
<1> DEFINE q == m.pid
<1>1. /\ posts[s] # <<>> /\ posts' = [posts EXCEPT ![s] = Tail(@)]
      /\ m = posts[s][1] /\ HookStart(m) /\ procs' = procs
      /\ used'.pids = used.pids /\ used'.sessions = used.sessions
  BY <1>0, <1>a, PostKinds DEF Deliver, Used
<1>2. /\ m.session = s /\ m.host = Device /\ m.parent = None
      /\ q \in used.pids /\ q \in Pid
  BY <1>0, <1>a DEF LiveInv, PostsOK, Used
<1>3. RegistryOfDevice' /\ StartLeaves(m)
  BY <1>1, <1>2, StartEffect DEF LiveInv, DeviceInv, HookStart
<1>4. StartPending(s, q) BY <1>1 DEF StartPending
<1>5. /\ Alive(q) => Runs(q, s)
      /\ \A t \in Session : StartPending(t, q) => t = s
      /\ Named(q) \in Session \ {s} => EndPending(Named(q), q)
  BY <1>1, <1>2, <1>4 DEF StartPost, ConstantsAssumption, LiveInv, StartsOK
<1>6. /\ \A t \in Session \ {s} : posts'[t] = posts[t]
      /\ \A t \in Session : \A i \in DOMAIN posts'[t] :
           /\ \E j \in DOMAIN posts[t] : posts'[t][i] = posts[t][j]
           /\ t = s => posts'[t][i] \notin StartPost
      /\ Len(posts[s]) = 1 => posts'[s] = <<>>
      /\ \A x \in Pid : ~StartPending(s, x)'
      /\ \A t \in Session \ {s} : \A x \in Pid :
           /\ StartPending(t, x)' <=> StartPending(t, x)
           /\ (posts[t] = <<>>) <=> (posts'[t] = <<>>)
  BY <1>1, PostsLeft
<1>7. /\ starts' = starts \union {s}
      /\ Handled(q, s)'
      /\ \A x \in Session \ {s} :
           /\ Known(x)' => Known(x) /\ sessions'[x].pid = sessions[x].pid
           /\ LiveTop(sessions', x) => LiveTop(sessions, x)
           /\ LiveTop(sessions, x) /\ x \notin Reaped(m) \union {Named(q)} =>
                sessions'[x] = sessions[x]
      /\ \A x \in Pid \ {q} :
           /\ Named(x)' \in {None, Named(x)}
           /\ Named(x)' # None /\ Known(Named(x)) => sessions'[Named(x)].known
           /\ Named(x) \in Session /\ LiveTop(sessions', Named(x)) => Named(x)' = Named(x)
  BY <1>3, <1>2 DEF Key, DeviceAssumption, StartLeaves, Named, Handled
<1> HIDE DEF q
<1>8. PostsOK'
  <2> SUFFICES ASSUME NEW t \in Session, NEW i \in DOMAIN posts'[t]
               PROVE  /\ posts'[t][i].session = t /\ posts'[t][i].host = Device
                      /\ posts'[t][i].pid \in used'.pids
                      /\ posts'[t][i] \in StartPost => i = 1 /\ posts'[t][i].parent = None
    BY DEF PostsOK
  <2>1. CASE t = s BY <1>1, <1>6, <2>1 DEF LiveInv, PostsOK
  <2>2. CASE t # s BY <1>1, <1>6, <2>2 DEF LiveInv, PostsOK
  <2>. QED BY <2>1, <2>2
<1>9. UnusedOK' BY <1>1, <1>2, <1>7, <1>6 DEF LiveInv, UnusedOK
<1>10. RunsOK'
  <2> SUFFICES ASSUME NEW x \in Pid, NEW t \in Session, Runs(x, t)'
               PROVE  /\ x \in used'.pids /\ t \in used'.sessions
                      /\ procs'[x].env \in used'.sessions
                      /\ \A y \in Pid : Runs(y, t)' => y = x
                      /\ posts'[t] = <<>> => Handled(x, t)'
                      /\ posts'[t] # <<>> => Len(posts'[t]) = 1 /\ StartPending(t, x)'
    BY DEF RunsOK
  <2>1. /\ Runs(x, t) /\ x \in used'.pids /\ t \in used'.sessions
        /\ procs'[x].env \in used'.sessions
        /\ \A y \in Pid : Runs(y, t)' => y = x
        /\ posts[t] # <<>> => Len(posts[t]) = 1 /\ StartPending(t, x)
    BY <1>1 DEF LiveInv, RunsOK, Runs
  <2>2. CASE t = s BY <1>1, <1>6, <2>1, <2>2, <1>7 DEF StartPending, q, Handled, Named
  <2>3. CASE t # s /\ posts[t] # <<>> BY <1>6, <2>1, <2>3
  <2>4. CASE t # s /\ posts[t] = <<>>
    BY <1>1, <2>1, <2>4, NotReaped, <1>5, RunsAlive, <1>7, <1>6 DEF EndPending, Runs, Handled,
       LiveTop, Running
  <2>. QED BY <2>2, <2>3, <2>4
<1>11. StartsOK'
  <2> SUFFICES ASSUME NEW t \in Session, NEW x \in Pid, StartPending(t, x)'
               PROVE  /\ Alive(x)' => Runs(x, t)'
                      /\ \A u \in Session : StartPending(u, x)' => u = t
                      /\ posts'[t][1].source = "startup" => Named(x)' \in {None, t}
                      /\ posts'[t][1].source = "clear" => ~Known(t)'
                      /\ posts'[t][1].source = "clear" =>
                           \A r \in Session : Named(x)' = r => EndPending(r, x)'
    BY DEF StartsOK
  <2>1. t # s /\ StartPending(t, x) /\ posts'[t] = posts[t] BY <1>6
  <2>2. x # q BY <1>5, <2>1
  <2>3. /\ Alive(x) => Runs(x, t)
        /\ \A u \in Session : StartPending(u, x) => u = t
        /\ posts[t][1].source = "startup" => Named(x) \in {None, t}
        /\ posts[t][1].source = "clear" => ~Known(t)
        /\ posts[t][1].source = "clear" =>
             \A r \in Session : Named(x) = r => EndPending(r, x)
    BY <2>1 DEF LiveInv, StartsOK
  <2>4. Alive(x)' => Runs(x, t)' BY <1>1, <2>3 DEF Alive, Runs
  <2>5. \A u \in Session : StartPending(u, x)' => u = t BY <1>6, <2>3
  <2>6. posts'[t][1].source = "startup" => Named(x)' \in {None, t}
    BY <1>7, <2>1, <2>2, <2>3
  <2>7. posts'[t][1].source = "clear" => ~Known(t)' BY <1>7, <2>1, <2>3
  <2>8. ASSUME posts'[t][1].source = "clear", NEW r \in Session, Named(x)' = r
        PROVE  EndPending(r, x)'
    BY <1>7, <2>2, <2>8, <2>1, <2>3, <1>1, <1>a, PostKinds, <1>6 DEF ConstantsAssumption,
       EndPending, Known
  <2>. QED BY <2>4, <2>5, <2>6, <2>7, <2>8
<1>12. ListsOK'
  <2> SUFFICES ASSUME NEW x \in Pid, NEW t \in Session, Runs(x, t)', posts'[t] = <<>>,
                      t \notin starts', NEW u \in Session, NEW i \in DOMAIN posts'[u]
               PROVE  x \in posts'[u][i].live
    BY DEF ListsOK
  <2>1. t # s /\ t \notin starts BY <1>7
  <2>2. Runs(x, t) /\ posts[t] = <<>> BY <1>1, <1>6, <2>1 DEF Runs
  <2>3. \A j \in DOMAIN posts[u] : x \in posts[u][j].live
    BY <2>1, <2>2 DEF LiveInv, ListsOK
  <2>. QED BY <1>6, <2>3
<1>. QED BY <1>3, <1>8, <1>9, <1>10, <1>11, <1>12 DEF LiveInv

LEMMA EndDelivered ==
  ASSUME ConstantsAssumption, DeviceAssumption, LiveInv, DeviceInv', NEW s \in Session,
         Deliver(s), Head(posts[s]) \in EndPost
  PROVE  LiveInv'
<1>0. /\ posts[s] # <<>> /\ posts[s] \in Seq(Post) /\ used \in Used
      /\ Head(posts[s]) = posts[s][1] /\ 1 \in DOMAIN posts[s]
  BY DEF Deliver, LiveInv, DeviceInv, DeviceTypeOK
<1>a. PICK m \in EndPost : m = posts[s][1] BY <1>0
<1>1. /\ posts[s] # <<>> /\ posts' = [posts EXCEPT ![s] = Tail(@)]
      /\ m = posts[s][1] /\ HookEnd(m) /\ procs' = procs
      /\ used'.pids = used.pids /\ used'.sessions = used.sessions
  BY <1>0, <1>a, PostKinds DEF Deliver, Used
<1>2. m.session = s /\ m.host = Device /\ m.pid \in Pid
  BY <1>0, <1>a DEF LiveInv, PostsOK, Used
<1>3. RegistryOfDevice' /\ EndLeaves(m)
  BY <1>1, <1>2, EndEffect DEF LiveInv, DeviceInv, HookEnd
<1>4. \A x \in Pid : ~Runs(x, s) /\ ~StartPending(s, x)
  BY <1>1, <1>a, PostKinds DEF LiveInv, RunsOK, StartPending
<1>5. /\ \A t \in Session \ {s} : posts'[t] = posts[t]
      /\ \A t \in Session : \A i \in DOMAIN posts'[t] :
           /\ \E j \in DOMAIN posts[t] : posts'[t][i] = posts[t][j]
           /\ t = s => posts'[t][i] \notin StartPost
      /\ \A x \in Pid : ~StartPending(s, x)'
      /\ \A t \in Session \ {s} : \A x \in Pid :
           /\ StartPending(t, x)' <=> StartPending(t, x)
           /\ (posts[t] = <<>>) <=> (posts'[t] = <<>>)
  BY <1>1, PostsLeft
<1>6. /\ starts' = starts
      /\ \A x \in Session :
           /\ Known(x)' = Known(x) /\ sessions'[x].pid = sessions[x].pid
           /\ x \notin Reaped(m) \union {s} => sessions'[x] = sessions[x]
      /\ \A x \in Pid :
           /\ Named(x)' \in {None, Named(x)}
           /\ Named(x) \notin Reaped(m) \union {s} => Named(x)' = Named(x)
      /\ Known(s) /\ sessions[s].pid = m.pid => Named(m.pid)' # s
  BY <1>2, <1>3 DEF Key, DeviceAssumption, EndLeaves, Named, Known
<1>7. PostsOK'
  <2> SUFFICES ASSUME NEW t \in Session, NEW i \in DOMAIN posts'[t]
               PROVE  /\ posts'[t][i].session = t /\ posts'[t][i].host = Device
                      /\ posts'[t][i].pid \in used'.pids
                      /\ posts'[t][i] \in StartPost => i = 1 /\ posts'[t][i].parent = None
    BY DEF PostsOK
  <2>1. CASE t = s BY <1>1, <1>5, <2>1 DEF LiveInv, PostsOK
  <2>2. CASE t # s BY <1>1, <1>5, <2>2 DEF LiveInv, PostsOK
  <2>. QED BY <2>1, <2>2
<1>8. UnusedOK' BY <1>1, <1>6, <1>5 DEF LiveInv, UnusedOK
<1>9. RunsOK'
  <2> SUFFICES ASSUME NEW x \in Pid, NEW t \in Session, Runs(x, t)'
               PROVE  /\ x \in used'.pids /\ t \in used'.sessions
                      /\ procs'[x].env \in used'.sessions
                      /\ \A y \in Pid : Runs(y, t)' => y = x
                      /\ posts'[t] = <<>> => Handled(x, t)'
                      /\ posts'[t] # <<>> => Len(posts'[t]) = 1 /\ StartPending(t, x)'
    BY DEF RunsOK
  <2>1. /\ Runs(x, t) /\ x \in used'.pids /\ t \in used'.sessions
        /\ procs'[x].env \in used'.sessions
        /\ \A y \in Pid : Runs(y, t)' => y = x
        /\ posts[t] # <<>> => Len(posts[t]) = 1 /\ StartPending(t, x)
    BY <1>1 DEF LiveInv, RunsOK, Runs
  <2>2. t # s BY <1>4, <2>1
  <2>3. ASSUME posts[t] = <<>> PROVE Handled(x, t)'
    BY <1>1, <2>1, <2>3, NotReaped, <1>6, <2>2 DEF Handled, LiveTop, Running
  <2>. QED BY <1>5, <2>1, <2>2, <2>3
<1>10. StartsOK'
  <2> SUFFICES ASSUME NEW t \in Session, NEW x \in Pid, StartPending(t, x)'
               PROVE  /\ Alive(x)' => Runs(x, t)'
                      /\ \A u \in Session : StartPending(u, x)' => u = t
                      /\ posts'[t][1].source = "startup" => Named(x)' \in {None, t}
                      /\ posts'[t][1].source = "clear" => ~Known(t)'
                      /\ posts'[t][1].source = "clear" =>
                           \A r \in Session : Named(x)' = r => EndPending(r, x)'
    BY DEF StartsOK
  <2>1. t # s /\ StartPending(t, x) /\ posts'[t] = posts[t] BY <1>5
  <2>2. /\ Alive(x) => Runs(x, t)
        /\ \A u \in Session : StartPending(u, x) => u = t
        /\ posts[t][1].source = "startup" => Named(x) \in {None, t}
        /\ posts[t][1].source = "clear" => ~Known(t)
        /\ posts[t][1].source = "clear" =>
             \A r \in Session : Named(x) = r => EndPending(r, x)
    BY <2>1 DEF LiveInv, StartsOK
  <2>3. Alive(x)' => Runs(x, t)' BY <1>1, <2>2 DEF Alive, Runs
  <2>4. \A u \in Session : StartPending(u, x)' => u = t BY <1>5, <2>2
  <2>5. ASSUME posts'[t][1].source = "clear", NEW r \in Session, Named(x)' = r
        PROVE  EndPending(r, x)'
    <3>1. r # None /\ Named(x) = r BY <1>6, <2>5 DEF ConstantsAssumption
    <3>2. EndPending(r, x) BY <2>1, <2>2, <2>5, <3>1
    <3>3. r # s
      <4> SUFFICES ASSUME r = s PROVE FALSE
        OBVIOUS
      <4>1. m.pid = x /\ Known(s) /\ sessions[s].pid = m.pid BY <1>1, <3>2 DEF EndPending
      <4>. QED BY <1>6, <2>5, <4>1
    <3>. QED BY <1>5, <1>6, <3>2, <3>3 DEF EndPending
  <2>. QED BY <1>6, <2>1, <2>2, <2>3, <2>4, <2>5
<1>11. ListsOK'
  <2> SUFFICES ASSUME NEW x \in Pid, NEW t \in Session, Runs(x, t)', posts'[t] = <<>>,
                      t \notin starts', NEW u \in Session, NEW i \in DOMAIN posts'[u]
               PROVE  x \in posts'[u][i].live
    BY DEF ListsOK
  <2>1. Runs(x, t) /\ t # s BY <1>1, <1>4 DEF Runs
  <2>2. t \notin starts /\ posts[t] = <<>> BY <1>5, <1>6, <2>1
  <2>3. \A j \in DOMAIN posts[u] : x \in posts[u][j].live
    BY <2>1, <2>2 DEF LiveInv, ListsOK
  <2>. QED BY <1>5, <2>3
<1>. QED BY <1>3, <1>7, <1>8, <1>9, <1>10, <1>11 DEF LiveInv

----------------------------------------------------------------------------
(* Steps of a process, which add posts and leave the hub alone.            *)

LEMMA HubAlone ==
  ASSUME UNCHANGED vars
  PROVE  /\ RegistryOfDevice <=> RegistryOfDevice'
         /\ \A s : Known(s)' = Known(s)
         /\ \A q : Named(q)' = Named(q)
         /\ \A q, s : Handled(q, s)' = Handled(q, s)
BY DEF vars, RegistryOfDevice, Known, Named, Handled

LEMMA OnePost ==
  ASSUME NEW p
  PROVE  /\ Append(<<>>, p) = <<p>> /\ <<p>> # <<>> /\ Len(<<p>>) = 1
         /\ <<p>>[1] = p /\ \A i \in DOMAIN <<p>> : i = 1
OBVIOUS

(* The fields of the posts of a process.                                   *)
LEMMA PostFields ==
  ASSUME NEW s, NEW q, NEW x, NEW live
  PROVE  /\ StartOf(s, q, x, live).session = s /\ StartOf(s, q, x, live).host = Device
         /\ StartOf(s, q, x, live).pid = q /\ StartOf(s, q, x, live).parent = None
         /\ StartOf(s, q, x, live).source = x /\ StartOf(s, q, x, live).live = live
         /\ EndOf(s, q, x, live).session = s /\ EndOf(s, q, x, live).host = Device
         /\ EndOf(s, q, x, live).pid = q /\ EndOf(s, q, x, live).live = live
BY DEF StartOf, EndOf

LEMMA LaunchStays ==
  ASSUME ConstantsAssumption, DeviceAssumption, LiveInv, DeviceInv', UNCHANGED vars,
         NEW q \in Pid, NEW s \in Session, Launch(q, s)
  PROVE  LiveInv'
<1> DEFINE live == LivePids \union {q}
<1>1. PICK p \in StartPost : p = StartOf(s, q, "startup", live)
  BY StartOfIsPost DEF LivePids
<1>2. /\ p.session = s /\ p.host = Device /\ p.pid = q /\ p.parent = None
      /\ p.source = "startup" /\ \A x \in Pid : Alive(x) => x \in p.live
  BY <1>1, PostFields DEF LivePids
<1> HIDE DEF live
<1>3. /\ posts \in [Session -> Seq(Post)] /\ posts[s] = <<>> /\ q \notin used.pids
      /\ Unrun(s) /\ ~Alive(q) /\ procs \in [Pid -> Process \union {NoProcess}]
      /\ procs' = [procs EXCEPT ![q] = [session |-> s, env |-> s]]
      /\ used'.pids = used.pids \union {q} /\ used'.sessions = used.sessions \union {s}
  BY DEF Launch, LiveInv, DeviceInv, DeviceTypeOK, Used
<1>4. posts' = [posts EXCEPT ![s] = Append(@, p)] BY <1>1 DEF Launch, live
<1>5. /\ posts'[s] = <<p>> /\ \A t \in Session \ {s} : posts'[t] = posts[t]
      /\ posts'[s] # <<>> /\ Len(posts'[s]) = 1 /\ posts'[s][1] = p
      /\ \A i \in DOMAIN posts'[s] : i = 1
  BY <1>3, <1>4, OnePost
<1>6. /\ Runs(q, s)' /\ procs'[q].env = s
      /\ \A t \in Session : Runs(q, t)' => t = s
      /\ \A x \in Pid \ {q} : /\ procs'[x] = procs[x] /\ Alive(x)' = Alive(x)
                              /\ \A t \in Session : Runs(x, t)' <=> Runs(x, t)
  BY <1>3 DEF Runs, Alive
<1>7. /\ StartPending(s, q)' /\ \A x \in Pid : StartPending(s, x)' => x = q
      /\ \A t \in Session \ {s} : \A x \in Pid : StartPending(t, x)' <=> StartPending(t, x)
  BY <1>2, <1>5 DEF StartPending
<1>8. \A t \in Session : ~StartPending(t, q) BY <1>3 DEF StartPending, LiveInv, PostsOK
<1>9. /\ RegistryOfDevice' /\ starts' = starts
      /\ \A t \in Session : Known(t)' = Known(t) /\ sessions'[t] = sessions[t]
      /\ \A x \in Pid : Named(x)' = Named(x)
      /\ \A x \in Pid : \A t \in Session : Handled(x, t)' = Handled(x, t)
  BY HubAlone DEF vars, LiveInv
<1>10. PostsOK' BY <1>2, <1>3, <1>5 DEF LiveInv, PostsOK
<1>11. UnusedOK' BY <1>3, <1>5, <1>9 DEF LiveInv, UnusedOK
<1>12. RunsOK'
  <2> SUFFICES ASSUME NEW x \in Pid, NEW t \in Session, Runs(x, t)'
               PROVE  /\ x \in used'.pids /\ t \in used'.sessions
                      /\ procs'[x].env \in used'.sessions
                      /\ \A y \in Pid : Runs(y, t)' => y = x
                      /\ posts'[t] = <<>> => Handled(x, t)'
                      /\ posts'[t] # <<>> => Len(posts'[t]) = 1 /\ StartPending(t, x)'
    BY DEF RunsOK
  <2>1. \A y \in Pid : ~Runs(y, s) BY <1>3 DEF Unrun, Runs
  <2>2. CASE x = q BY <1>3, <1>5, <1>6, <1>7, <2>1, <2>2, ZenonT(60)
  <2>3. CASE x # q BY <1>6, <2>1, <2>3, <1>5, <1>3, <1>7, <1>9 DEF LiveInv, RunsOK
  <2>. QED BY <2>2, <2>3
<1>13. StartsOK'
  <2> SUFFICES ASSUME NEW t \in Session, NEW x \in Pid, StartPending(t, x)'
               PROVE  /\ Alive(x)' => Runs(x, t)'
                      /\ \A u \in Session : StartPending(u, x)' => u = t
                      /\ posts'[t][1].source = "startup" => Named(x)' \in {None, t}
                      /\ posts'[t][1].source = "clear" => ~Known(t)'
                      /\ posts'[t][1].source = "clear" =>
                           \A r \in Session : Named(x)' = r => EndPending(r, x)'
    BY DEF StartsOK
  <2>1. CASE t = s
    BY <1>3, <1>7, <2>1, <1>2, <1>5, <1>6, <1>8, <1>9 DEF LiveInv, UnusedOK
  <2>2. CASE t # s
    <3>1. StartPending(t, x) /\ x # q /\ posts'[t] = posts[t] BY <1>5, <1>7, <1>8, <2>2
    <3>2. /\ Alive(x) => Runs(x, t)
          /\ \A u \in Session : StartPending(u, x) => u = t
          /\ posts[t][1].source = "startup" => Named(x) \in {None, t}
          /\ posts[t][1].source = "clear" => ~Known(t)
          /\ posts[t][1].source = "clear" =>
               \A r \in Session : Named(x) = r => EndPending(r, x)
      BY <3>1 DEF LiveInv, StartsOK
    <3>3. \A r \in Session : EndPending(r, x) => EndPending(r, x)'
      <4>1. ~EndPending(s, x) BY <1>3 DEF EndPending
      <4>. QED BY <1>5, <1>9, <4>1 DEF EndPending
    <3>4. Alive(x)' => Runs(x, t)' BY <1>6, <3>1, <3>2
    <3>5. \A u \in Session : StartPending(u, x)' => u = t BY <1>7, <3>1, <3>2
    <3>. QED BY <1>9, <3>1, <3>2, <3>3, <3>4, <3>5
  <2>. QED BY <2>1, <2>2
<1>14. ListsOK'
  <2> SUFFICES ASSUME NEW x \in Pid, NEW t \in Session, Runs(x, t)', posts'[t] = <<>>,
                      t \notin starts', NEW u \in Session, NEW i \in DOMAIN posts'[u]
               PROVE  x \in posts'[u][i].live
    BY DEF ListsOK
  <2>1. t # s /\ posts[t] = <<>> /\ x # q /\ Runs(x, t) /\ t \notin starts
    BY <1>5, <1>6, <1>9
  <2>2. x \in p.live BY <1>2, <2>1, RunsAlive
  <2>3. \A j \in DOMAIN posts[u] : x \in posts[u][j].live BY <2>1 DEF LiveInv, ListsOK
  <2>. QED BY <1>5, <2>2, <2>3
<1>. QED BY <1>9, <1>10, <1>11, <1>12, <1>13, <1>14 DEF LiveInv

LEMMA ClearStays ==
  ASSUME ConstantsAssumption, DeviceAssumption, LiveInv, DeviceInv', UNCHANGED vars,
         NEW q \in Pid, NEW n \in Session, Clear(q, n)
  PROVE  LiveInv'
<1>0. PICK s \in Session : s = procs[q].session
  BY AliveRuns DEF Clear, LiveInv, DeviceInv
<1>a. Runs(q, s) /\ Alive(q) /\ q \in LivePids /\ LivePids \in SUBSET Pid
  BY <1>0 DEF Runs, Clear, LivePids
<1>1. PICK p \in StartPost : p = StartOf(n, q, "clear", LivePids) BY <1>a, StartOfIsPost
<1>b. PICK e \in EndPost : e = EndOf(s, q, "clear", LivePids) BY <1>a, EndOfIsPost
<1>2. /\ p.session = n /\ p.host = Device /\ p.pid = q /\ p.parent = None
      /\ p.source = "clear"
      /\ e.session = s /\ e.host = Device /\ e.pid = q /\ e \notin StartPost
      /\ \A x \in Pid : Alive(x) => x \in p.live /\ x \in e.live
  BY <1>1, <1>b, PostFields, PostKinds DEF LivePids
<1>3. /\ posts \in [Session -> Seq(Post)] /\ posts[s] = <<>> /\ n \notin used.sessions
      /\ procs \in [Pid -> Process \union {NoProcess}]
      /\ procs' = [procs EXCEPT ![q].session = n]
      /\ used'.pids = used.pids /\ used'.sessions = used.sessions \union {n}
  BY <1>0 DEF Clear, LiveInv, DeviceInv, DeviceTypeOK, Used
<1>4. /\ s \in used.sessions /\ q \in used.pids /\ procs[q].env \in used.sessions
      /\ s # n /\ Handled(q, s) /\ \A y \in Pid : Runs(y, s) => y = q
      /\ posts[n] = <<>> /\ ~Known(n) /\ \A y \in Pid : ~Runs(y, n)
  BY <1>a, <1>3 DEF LiveInv, RunsOK, UnusedOK
<1>5. posts' = [posts EXCEPT ![s] = Append(@, e), ![n] = Append(@, p)]
  BY <1>0, <1>1, <1>b DEF Clear
<1>6. /\ \A t \in Session \ {s, n} : posts'[t] = posts[t]
      /\ posts'[s] = <<e>> /\ posts'[n] = <<p>>
      /\ posts'[s] # <<>> /\ Len(posts'[s]) = 1 /\ posts'[s][1] = e
      /\ posts'[n] # <<>> /\ Len(posts'[n]) = 1 /\ posts'[n][1] = p
      /\ \A i \in DOMAIN posts'[s] : i = 1
      /\ \A i \in DOMAIN posts'[n] : i = 1
  BY <1>3, <1>4, <1>5, OnePost
<1>7. /\ Runs(q, n)' /\ procs'[q].env = procs[q].env
      /\ \A t \in Session : Runs(q, t)' => t = n
      /\ \A x \in Pid \ {q} : /\ procs'[x] = procs[x] /\ Alive(x)' = Alive(x)
                              /\ \A t \in Session : Runs(x, t)' <=> Runs(x, t)
  BY <1>a, <1>3 DEF Alive, Runs, Process
<1>8. /\ StartPending(n, q)' /\ \A x \in Pid : StartPending(n, x)' => x = q
      /\ \A x \in Pid : ~StartPending(s, x)'
      /\ \A t \in Session \ {s, n} : \A x \in Pid : StartPending(t, x)' <=> StartPending(t, x)
  BY <1>2, <1>6 DEF StartPending
<1>9. \A t \in Session : ~StartPending(t, q)
  BY <1>a, <1>3 DEF LiveInv, StartsOK, StartPending, Runs
<1>10. /\ RegistryOfDevice' /\ starts' = starts
       /\ \A t \in Session : Known(t)' = Known(t) /\ sessions'[t] = sessions[t]
       /\ \A x \in Pid : Named(x)' = Named(x)
       /\ \A x \in Pid : \A t \in Session : Handled(x, t)' = Handled(x, t)
  BY HubAlone DEF vars, LiveInv
<1>11. PostsOK' BY <1>2, <1>3, <1>4, <1>6 DEF LiveInv, PostsOK
<1>12. UnusedOK' BY <1>3, <1>4, <1>6, <1>10 DEF LiveInv, UnusedOK
<1>13. RunsOK'
  <2> SUFFICES ASSUME NEW x \in Pid, NEW t \in Session, Runs(x, t)'
               PROVE  /\ x \in used'.pids /\ t \in used'.sessions
                      /\ procs'[x].env \in used'.sessions
                      /\ \A y \in Pid : Runs(y, t)' => y = x
                      /\ posts'[t] = <<>> => Handled(x, t)'
                      /\ posts'[t] # <<>> => Len(posts'[t]) = 1 /\ StartPending(t, x)'
    BY DEF RunsOK
  <2>2. CASE x = q BY <1>3, <1>4, <1>6, <1>7, <1>8, <2>2
  <2>3. CASE x # q
    <3>1. Runs(x, t) /\ t # s /\ t # n BY <1>4, <1>7, <2>3
    <3>2. posts'[t] = posts[t] BY <1>6, <3>1
    <3>3. /\ x \in used.pids /\ t \in used.sessions /\ procs[x].env \in used.sessions
          /\ \A y \in Pid : Runs(y, t) => y = x
          /\ posts[t] = <<>> => Handled(x, t)
          /\ posts[t] # <<>> => Len(posts[t]) = 1 /\ StartPending(t, x)
      BY <3>1 DEF LiveInv, RunsOK
    <3>. QED BY <1>3, <1>7, <1>8, <1>10, <2>3, <3>1, <3>2, <3>3
  <2>. QED BY <2>2, <2>3
<1>14. StartsOK'
  <2> SUFFICES ASSUME NEW t \in Session, NEW x \in Pid, StartPending(t, x)'
               PROVE  /\ Alive(x)' => Runs(x, t)'
                      /\ \A u \in Session : StartPending(u, x)' => u = t
                      /\ posts'[t][1].source = "startup" => Named(x)' \in {None, t}
                      /\ posts'[t][1].source = "clear" => ~Known(t)'
                      /\ posts'[t][1].source = "clear" =>
                           \A r \in Session : Named(x)' = r => EndPending(r, x)'
    BY DEF StartsOK
  <2>1. CASE t = n
    <3>1. x = q /\ Named(q) = s /\ EndPending(s, q)'
      BY <1>2, <1>4, <1>6, <1>8, <1>10, <2>1
         DEF EndPending, Handled, LiveTop, Running, Known
    <3>2. \A u \in Session : StartPending(u, x)' => u = t BY <1>8, <1>9, <2>1, <3>1
    <3>. QED BY <1>2, <1>4, <1>6, <1>7, <1>10, <2>1, <3>1, <3>2
  <2>2. CASE t # n
    <3>1. StartPending(t, x) /\ x # q /\ t # s /\ posts'[t] = posts[t]
      BY <1>6, <1>8, <1>9, <2>2
    <3>2. /\ Alive(x) => Runs(x, t)
          /\ \A u \in Session : StartPending(u, x) => u = t
          /\ posts[t][1].source = "startup" => Named(x) \in {None, t}
          /\ posts[t][1].source = "clear" => ~Known(t)
          /\ posts[t][1].source = "clear" =>
               \A r \in Session : Named(x) = r => EndPending(r, x)
      BY <3>1 DEF LiveInv, StartsOK
    <3>3. \A r \in Session : EndPending(r, x) => EndPending(r, x)'
      BY <1>3, <1>4, <1>6, <1>10 DEF EndPending
    <3>4. Alive(x)' => Runs(x, t)' BY <1>7, <3>1, <3>2
    <3>5. \A u \in Session : StartPending(u, x)' => u = t BY <1>8, <3>1, <3>2
    <3>. QED BY <1>10, <3>1, <3>2, <3>3, <3>4, <3>5
  <2>. QED BY <2>1, <2>2
<1>15. ListsOK'
  <2> SUFFICES ASSUME NEW x \in Pid, NEW t \in Session, Runs(x, t)', posts'[t] = <<>>,
                      t \notin starts', NEW u \in Session, NEW i \in DOMAIN posts'[u]
               PROVE  x \in posts'[u][i].live
    BY DEF ListsOK
  <2>1. t # s /\ t # n /\ posts[t] = <<>> /\ x # q /\ Runs(x, t) /\ t \notin starts
    BY <1>6, <1>7, <1>10
  <2>2. x \in p.live /\ x \in e.live BY <1>2, <2>1, RunsAlive
  <2>3. \A j \in DOMAIN posts[u] : x \in posts[u][j].live BY <2>1 DEF LiveInv, ListsOK
  <2>. QED BY <1>6, <2>2, <2>3
<1>. QED BY <1>10, <1>11, <1>12, <1>13, <1>14, <1>15 DEF LiveInv

(* What a step of the device leaves of one process and its posts.          *)
LEMMA ExitStays ==
  ASSUME ConstantsAssumption, DeviceAssumption, LiveInv, DeviceInv', UNCHANGED vars,
         NEW q \in Pid, Exit(q)
  PROVE  LiveInv'
<1>0. PICK s \in Session : s = procs[q].session BY AliveRuns DEF Exit, LiveInv, DeviceInv
<1>a. Runs(q, s) /\ q \in LivePids /\ LivePids \in SUBSET Pid
  BY <1>0 DEF Runs, Exit, LivePids
<1>1. PICK e \in EndPost : e = EndOf(s, q, "other", LivePids) BY <1>a, EndOfIsPost
<1>2. /\ e.session = s /\ e.host = Device /\ e.pid = q /\ e \notin StartPost
      /\ \A x \in Pid : Alive(x) => x \in e.live
  BY <1>1, PostFields, PostKinds DEF LivePids
<1>3. /\ posts \in [Session -> Seq(Post)] /\ posts[s] \in Seq(Post)
      /\ procs \in [Pid -> Process \union {NoProcess}]
      /\ procs' = [procs EXCEPT ![q] = NoProcess] /\ used' = used
  BY <1>0 DEF Exit, LiveInv, DeviceInv, DeviceTypeOK
<1>4. /\ s \in used.sessions /\ q \in used.pids
      /\ \A y \in Pid : Runs(y, s) => y = q
      /\ posts[s] # <<>> => Len(posts[s]) = 1 /\ StartPending(s, q)
  BY <1>a DEF LiveInv, RunsOK
<1>5. posts' = [posts EXCEPT ![s] = Append(@, e)] BY <1>0, <1>1 DEF Exit
<1>6. /\ \A t \in Session \ {s} : posts'[t] = posts[t]
      /\ posts'[s] # <<>>
      /\ posts[s] # <<>> => posts'[s][1] = posts[s][1]
      /\ posts[s] = <<>> => posts'[s][1] = e
      /\ \A i \in DOMAIN posts'[s] :
           posts'[s][i] = e \/ (i \in DOMAIN posts[s] /\ posts'[s][i] = posts[s][i])
  BY <1>3, <1>5
<1>7. /\ \A t \in Session : ~Runs(q, t)' /\ ~Alive(q)'
      /\ \A x \in Pid \ {q} : /\ procs'[x] = procs[x] /\ Alive(x)' = Alive(x)
                              /\ \A t \in Session : Runs(x, t)' <=> Runs(x, t)
  BY <1>3 DEF Runs, Alive, NoProcess, ConstantsAssumption
<1>8. \A t \in Session : \A x \in Pid :
        StartPending(t, x)' <=> StartPending(t, x) /\ posts'[t][1] = posts[t][1]
  BY <1>6, <1>2 DEF StartPending
<1>10. /\ RegistryOfDevice' /\ starts' = starts
       /\ \A t \in Session : Known(t)' = Known(t) /\ sessions'[t] = sessions[t]
       /\ \A x \in Pid : Named(x)' = Named(x)
       /\ \A x \in Pid : \A t \in Session : Handled(x, t)' = Handled(x, t)
  BY HubAlone DEF vars, LiveInv
<1>11. PostsOK'
  <2> SUFFICES ASSUME NEW t \in Session, NEW i \in DOMAIN posts'[t]
               PROVE  /\ posts'[t][i].session = t /\ posts'[t][i].host = Device
                      /\ posts'[t][i].pid \in used'.pids
                      /\ posts'[t][i] \in StartPost => i = 1 /\ posts'[t][i].parent = None
    BY DEF PostsOK
  <2>1. CASE i \in DOMAIN posts[t] /\ posts'[t][i] = posts[t][i]
    BY <1>3, <2>1 DEF LiveInv, PostsOK
  <2>2. CASE t = s /\ posts'[t][i] = e BY <1>2, <1>3, <1>4, <2>2
  <2>. QED BY <1>6, <2>1, <2>2
<1>12. UnusedOK' BY <1>3, <1>4, <1>6, <1>10 DEF LiveInv, UnusedOK
<1>13. RunsOK'
  <2> SUFFICES ASSUME NEW x \in Pid, NEW t \in Session, Runs(x, t)'
               PROVE  /\ x \in used'.pids /\ t \in used'.sessions
                      /\ procs'[x].env \in used'.sessions
                      /\ \A y \in Pid : Runs(y, t)' => y = x
                      /\ posts'[t] = <<>> => Handled(x, t)'
                      /\ posts'[t] # <<>> => Len(posts'[t]) = 1 /\ StartPending(t, x)'
    BY DEF RunsOK
  <2>1. x # q /\ Runs(x, t) /\ t # s BY <1>4, <1>7
  <2>2. posts'[t] = posts[t] /\ procs'[x] = procs[x] BY <1>6, <1>7, <2>1
  <2>3. /\ x \in used.pids /\ t \in used.sessions /\ procs[x].env \in used.sessions
        /\ \A y \in Pid : Runs(y, t) => y = x
        /\ posts[t] = <<>> => Handled(x, t)
        /\ posts[t] # <<>> => Len(posts[t]) = 1 /\ StartPending(t, x)
    BY <2>1 DEF LiveInv, RunsOK
  <2>. QED BY <1>3, <1>7, <1>8, <1>10, <2>1, <2>2, <2>3
<1>14. StartsOK'
  <2> SUFFICES ASSUME NEW t \in Session, NEW x \in Pid, StartPending(t, x)'
               PROVE  /\ Alive(x)' => Runs(x, t)'
                      /\ \A u \in Session : StartPending(u, x)' => u = t
                      /\ posts'[t][1].source = "startup" => Named(x)' \in {None, t}
                      /\ posts'[t][1].source = "clear" => ~Known(t)'
                      /\ posts'[t][1].source = "clear" =>
                           \A r \in Session : Named(x)' = r => EndPending(r, x)'
    BY DEF StartsOK
  <2>1. StartPending(t, x) /\ posts'[t][1] = posts[t][1] BY <1>8
  <2>2. /\ Alive(x) => Runs(x, t)
        /\ \A u \in Session : StartPending(u, x) => u = t
        /\ posts[t][1].source = "startup" => Named(x) \in {None, t}
        /\ posts[t][1].source = "clear" => ~Known(t)
        /\ posts[t][1].source = "clear" =>
             \A r \in Session : Named(x) = r => EndPending(r, x)
    BY <2>1 DEF LiveInv, StartsOK
  <2>3. \A r \in Session : EndPending(r, x) => EndPending(r, x)'
    BY <1>4, PostKinds, <1>6, <1>10 DEF EndPending, StartPending
  <2>4. Alive(x)' => Runs(x, t)' BY <1>7, <2>2
  <2>. QED BY <1>8, <1>10, <2>1, <2>2, <2>3, <2>4
<1>15. ListsOK'
  <2> SUFFICES ASSUME NEW x \in Pid, NEW t \in Session, Runs(x, t)', posts'[t] = <<>>,
                      t \notin starts', NEW u \in Session, NEW i \in DOMAIN posts'[u]
               PROVE  x \in posts'[u][i].live
    BY DEF ListsOK
  <2>1. t # s /\ posts[t] = <<>> /\ x # q /\ Runs(x, t) /\ t \notin starts
    BY <1>6, <1>7, <1>10
  <2>2. x \in e.live BY <1>2, <2>1, RunsAlive
  <2>3. \A j \in DOMAIN posts[u] : x \in posts[u][j].live BY <2>1 DEF LiveInv, ListsOK
  <2>. QED BY <1>6, <2>2, <2>3
<1>. QED BY <1>10, <1>11, <1>12, <1>13, <1>14, <1>15 DEF LiveInv

LEMMA CompactStays ==
  ASSUME ConstantsAssumption, DeviceAssumption, LiveInv, DeviceInv', UNCHANGED vars,
         NEW q \in Pid, Compact(q)
  PROVE  LiveInv'
<1>0. PICK s \in Session : s = procs[q].session
  BY AliveRuns DEF Compact, LiveInv, DeviceInv
<1>a. Runs(q, s) /\ q \in LivePids /\ LivePids \in SUBSET Pid /\ Alive(q)
  BY <1>0 DEF Runs, Compact, LivePids
<1>1. PICK p \in StartPost : p = StartOf(s, q, "startup", LivePids)
  BY <1>a, StartOfIsPost
<1>2. /\ p.session = s /\ p.host = Device /\ p.pid = q /\ p.parent = None
      /\ p.source = "startup" /\ \A x \in Pid : Alive(x) => x \in p.live
  BY <1>1, PostFields DEF LivePids
<1>3. /\ posts \in [Session -> Seq(Post)] /\ posts[s] = <<>>
      /\ procs' = procs /\ used' = used
  BY <1>0 DEF Compact, LiveInv, DeviceInv, DeviceTypeOK
<1>4. /\ s \in used.sessions /\ q \in used.pids /\ Handled(q, s)
      /\ \A y \in Pid : Runs(y, s) => y = q
  BY <1>a, <1>3 DEF LiveInv, RunsOK
<1>5. posts' = [posts EXCEPT ![s] = Append(@, p)] BY <1>0, <1>1 DEF Compact
<1>6. /\ posts'[s] = <<p>> /\ \A t \in Session \ {s} : posts'[t] = posts[t]
      /\ posts'[s] # <<>> /\ Len(posts'[s]) = 1 /\ posts'[s][1] = p
      /\ \A i \in DOMAIN posts'[s] : i = 1
  BY <1>3, <1>5, OnePost
<1>7. \A x \in Pid : /\ Alive(x)' = Alive(x)
                     /\ \A t \in Session : Runs(x, t)' <=> Runs(x, t)
  BY <1>3 DEF Runs, Alive
<1>8. /\ StartPending(s, q)' /\ \A x \in Pid : StartPending(s, x)' => x = q
      /\ \A t \in Session \ {s} : \A x \in Pid : StartPending(t, x)' <=> StartPending(t, x)
  BY <1>2, <1>6 DEF StartPending
<1>9. \A t \in Session : ~StartPending(t, q)
  BY <1>a, <1>3 DEF LiveInv, StartsOK, StartPending, Runs
<1>10. /\ RegistryOfDevice' /\ starts' = starts
       /\ \A t \in Session : Known(t)' = Known(t) /\ sessions'[t] = sessions[t]
       /\ \A x \in Pid : Named(x)' = Named(x)
       /\ \A x \in Pid : \A t \in Session : Handled(x, t)' = Handled(x, t)
  BY HubAlone DEF vars, LiveInv
<1>11. PostsOK' BY <1>2, <1>3, <1>4, <1>6 DEF LiveInv, PostsOK
<1>12. UnusedOK' BY <1>3, <1>4, <1>6, <1>10 DEF LiveInv, UnusedOK
<1>13. RunsOK'
  <2> SUFFICES ASSUME NEW x \in Pid, NEW t \in Session, Runs(x, t)'
               PROVE  /\ x \in used'.pids /\ t \in used'.sessions
                      /\ procs'[x].env \in used'.sessions
                      /\ \A y \in Pid : Runs(y, t)' => y = x
                      /\ posts'[t] = <<>> => Handled(x, t)'
                      /\ posts'[t] # <<>> => Len(posts'[t]) = 1 /\ StartPending(t, x)'
    BY DEF RunsOK
  <2>1. Runs(x, t) BY <1>7
  <2>2. /\ x \in used.pids /\ t \in used.sessions /\ procs[x].env \in used.sessions
        /\ \A y \in Pid : Runs(y, t) => y = x
        /\ posts[t] = <<>> => Handled(x, t)
        /\ posts[t] # <<>> => Len(posts[t]) = 1 /\ StartPending(t, x)
    BY <2>1 DEF LiveInv, RunsOK
  <2>. QED BY <1>3, <1>4, <1>6, <1>7, <1>8, <1>10, <2>1, <2>2
<1>14. StartsOK'
  <2> SUFFICES ASSUME NEW t \in Session, NEW x \in Pid, StartPending(t, x)'
               PROVE  /\ Alive(x)' => Runs(x, t)'
                      /\ \A u \in Session : StartPending(u, x)' => u = t
                      /\ posts'[t][1].source = "startup" => Named(x)' \in {None, t}
                      /\ posts'[t][1].source = "clear" => ~Known(t)'
                      /\ posts'[t][1].source = "clear" =>
                           \A r \in Session : Named(x)' = r => EndPending(r, x)'
    BY DEF StartsOK
  <2>1. CASE t = s BY <1>4, <1>8, <2>1, <1>a, <1>2, <1>6, <1>7, <1>9, <1>10 DEF Handled
  <2>2. CASE t # s
    BY <1>6, <1>8, <1>9, <2>2, <1>3, <1>10, <1>7 DEF LiveInv, StartsOK, EndPending
  <2>. QED BY <2>1, <2>2
<1>15. ListsOK'
  <2> SUFFICES ASSUME NEW x \in Pid, NEW t \in Session, Runs(x, t)', posts'[t] = <<>>,
                      t \notin starts', NEW u \in Session, NEW i \in DOMAIN posts'[u]
               PROVE  x \in posts'[u][i].live
    BY DEF ListsOK
  <2>1. t # s /\ posts[t] = <<>> /\ Runs(x, t) /\ t \notin starts BY <1>6, <1>7, <1>10
  <2>2. x \in p.live BY <1>2, <2>1, RunsAlive
  <2>3. \A j \in DOMAIN posts[u] : x \in posts[u][j].live BY <2>1 DEF LiveInv, ListsOK
  <2>. QED BY <1>6, <2>2, <2>3
<1>. QED BY <1>10, <1>11, <1>12, <1>13, <1>14, <1>15 DEF LiveInv

LEMMA KillStays ==
  ASSUME ConstantsAssumption, LiveInv, DeviceInv', UNCHANGED vars, NEW q \in Pid, Kill(q)
  PROVE  LiveInv'
<1>1. /\ procs \in [Pid -> Process \union {NoProcess}]
      /\ procs' = [procs EXCEPT ![q] = NoProcess] /\ posts' = posts /\ used' = used
  BY DEF Kill, LiveInv, DeviceInv, DeviceTypeOK
<1>2. \A x \in Pid : /\ Alive(x)' => x # q /\ Alive(x)
                     /\ \A t \in Session : Runs(x, t)' <=> x # q /\ Runs(x, t)
                     /\ x # q => procs'[x] = procs[x]
  BY <1>1 DEF Runs, Alive, NoProcess, ConstantsAssumption
<1>3. /\ RegistryOfDevice' /\ starts' = starts
      /\ \A t \in Session : Known(t)' = Known(t) /\ sessions'[t] = sessions[t]
      /\ \A x \in Pid : Named(x)' = Named(x)
      /\ \A x \in Pid : \A t \in Session : Handled(x, t)' = Handled(x, t)
  BY HubAlone DEF vars, LiveInv
<1>4. /\ \A t \in Session : \A x \in Pid : StartPending(t, x)' = StartPending(t, x)
      /\ \A t \in Session : \A x \in Pid : EndPending(t, x)' = EndPending(t, x)
  BY <1>1, <1>3 DEF StartPending, EndPending
<1>5. PostsOK' /\ UnusedOK' BY <1>1, <1>3 DEF LiveInv, PostsOK, UnusedOK
<1>6. RunsOK' BY <1>1, <1>2, <1>3, <1>4 DEF LiveInv, RunsOK
<1>7. StartsOK' BY <1>1, <1>2, <1>3, <1>4 DEF LiveInv, StartsOK
<1>8. ListsOK' BY <1>1, <1>2, <1>3 DEF LiveInv, ListsOK
<1>. QED BY <1>3, <1>5, <1>6, <1>7, <1>8 DEF LiveInv

----------------------------------------------------------------------------
(* The spool, restarts and timers.                                         *)

(* A post that lost its list is the same post otherwise.                   *)
Kept(p) == [p EXCEPT !.live = Pid]

LEMMA KeptIsSame ==
  ASSUME NEW p \in Post
  PROVE  /\ Kept(p).session = p.session /\ Kept(p).host = p.host /\ Kept(p).pid = p.pid
         /\ Kept(p).live = Pid /\ p.live \in SUBSET Pid
         /\ p \in StartPost <=> Kept(p) \in StartPost
         /\ p \in EndPost <=> Kept(p) \in EndPost
         /\ p \in StartPost => Kept(p).source = p.source /\ Kept(p).parent = p.parent
BY PostKinds DEF StartPost, StartFields, Kept, EndPost, EndFields, Post

(* The posts of the device are the same but for lists that were lost.      *)
PostsKept ==
  \A s \in Session :
    /\ DOMAIN posts'[s] = DOMAIN posts[s] /\ Len(posts'[s]) = Len(posts[s])
    /\ posts'[s] = <<>> <=> posts[s] = <<>>
    /\ \A i \in DOMAIN posts[s] : posts'[s][i] \in {posts[s][i], Kept(posts[s][i])}

LEMMA KeptStays ==
  ASSUME LiveInv, DeviceInv', PostsKept, procs' = procs, RegistryOfDevice',
         used'.pids = used.pids, used'.sessions = used.sessions,
         sessions' = sessions, pids' = pids,
         \/ starts' = starts
         \/ \A s \in Session : \A i \in DOMAIN posts'[s] : posts'[s][i].live = Pid
  PROVE  LiveInv'
<1>1. \A s \in Session : \A i \in DOMAIN posts[s] :
        /\ posts'[s][i].session = posts[s][i].session /\ posts'[s][i].host = posts[s][i].host
        /\ posts'[s][i].pid = posts[s][i].pid
        /\ \A x \in Pid : x \in posts[s][i].live => x \in posts'[s][i].live
        /\ posts[s][i] \in StartPost <=> posts'[s][i] \in StartPost
        /\ posts[s][i] \in EndPost <=> posts'[s][i] \in EndPost
        /\ posts[s][i] \in StartPost => /\ posts'[s][i].source = posts[s][i].source
                                        /\ posts'[s][i].parent = posts[s][i].parent
  <2> SUFFICES ASSUME NEW s \in Session, NEW i \in DOMAIN posts[s], NEW p, NEW m,
                      p = posts[s][i], m = posts'[s][i]
               PROVE  /\ m.session = p.session /\ m.host = p.host /\ m.pid = p.pid
                      /\ \A x \in Pid : x \in p.live => x \in m.live
                      /\ p \in StartPost <=> m \in StartPost
                      /\ p \in EndPost <=> m \in EndPost
                      /\ p \in StartPost => m.source = p.source /\ m.parent = p.parent
    OBVIOUS
  <2>1. p \in Post BY DEF LiveInv, DeviceInv, DeviceTypeOK
  <2>2. m = p \/ m = Kept(p) BY DEF PostsKept
  <2>. QED BY <2>1, <2>2, KeptIsSame
<1>2. \A s \in Session : posts[s] # <<>> => 1 \in DOMAIN posts[s]
  BY DEF LiveInv, DeviceInv, DeviceTypeOK
<1>3. \A s \in Session : \A q \in Pid :
        /\ StartPending(s, q)' <=> StartPending(s, q)
        /\ StartPending(s, q) => posts'[s][1].source = posts[s][1].source
  BY <1>1, <1>2 DEF StartPending, PostsKept
<1>4. \A s \in Session : \A q \in Pid : EndPending(s, q) <=> EndPending(s, q)'
  BY <1>1 DEF LiveInv, DeviceInv, DeviceTypeOK, EndPending, PostsKept, Known
<1>5. PostsOK' BY <1>1 DEF LiveInv, PostsOK, PostsKept
<1>6. UnusedOK' BY DEF LiveInv, UnusedOK, PostsKept, Named, Known
<1>7. \A q \in Pid : \A s \in Session : /\ Runs(q, s)' <=> Runs(q, s)
                                        /\ Handled(q, s)' <=> Handled(q, s)
                                        /\ Alive(q)' <=> Alive(q)
  BY DEF Runs, Handled, Named, Alive
<1>8. RunsOK' BY <1>3, <1>7 DEF LiveInv, RunsOK, PostsKept
<1>9. StartsOK' BY <1>3, <1>4, <1>7 DEF LiveInv, StartsOK, Named, Known
<1>10. ListsOK' BY <1>1, <1>7 DEF LiveInv, ListsOK, PostsKept
<1>. QED BY <1>5, <1>6, <1>8, <1>9, <1>10 DEF LiveInv

LEMMA SpoolStays ==
  ASSUME LiveInv, DeviceInv', NEW s \in Session, NEW i, Spool(s, i)
  PROVE  LiveInv'
<1>1. /\ posts \in [Session -> Seq(Post)] /\ i \in DOMAIN posts[s]
      /\ posts' = [posts EXCEPT ![s][i].live = Pid]
      /\ UNCHANGED <<procs, used, vars>>
  BY DEF Spool, LiveInv, DeviceInv, DeviceTypeOK
<1>2. posts[s] \in Seq(Post) /\ posts'[s] = [posts[s] EXCEPT ![i] = Kept(posts[s][i])]
  BY <1>1 DEF Kept
<1>3. PostsKept
  <2> SUFFICES ASSUME NEW t \in Session
               PROVE  /\ DOMAIN posts'[t] = DOMAIN posts[t] /\ Len(posts'[t]) = Len(posts[t])
                      /\ posts'[t] = <<>> <=> posts[t] = <<>>
                      /\ \A j \in DOMAIN posts[t] :
                           posts'[t][j] \in {posts[t][j], Kept(posts[t][j])}
    BY DEF PostsKept
  <2>1. CASE t # s BY <1>1, <2>1
  <2>2. CASE t = s BY <1>1, <1>2, <2>2 DEF LiveInv, DeviceInv, DeviceTypeOK
  <2>. QED BY <2>1, <2>2
<1>4. RegistryOfDevice' BY <1>1, HubAlone DEF LiveInv
<1>. QED BY <1>1, <1>3, <1>4, KeptStays DEF vars

(* A hub that kept its registry healthy finds nothing to heal.             *)
LEMMA NothingToHeal ==
  ASSUME IInv, Restart
  PROVE  slots' = slots /\ sessions' = sessions
<1>1. slots \in Seq(Slot) /\ sessions \in [Session -> Entry] /\ ExclusiveIn(slots)
  BY DEF IInv, TypeOK, CurrentOnce
<1>2. HealedSlots(slots, sessions) = slots
  <2>1. \A i \in DOMAIN slots : HealedSlots(slots, sessions)[i] = slots[i]
    <3> SUFFICES ASSUME NEW i \in DOMAIN slots
                 PROVE  slots[i].current # None =>
                          ~\E j \in 1 .. i - 1 : slots[j].current = slots[i].current
      BY DEF HealedSlots
    <3>1. \A j \in 1 .. i - 1 : j \in DOMAIN slots /\ j # i BY <1>1
    <3>. QED BY <1>1, <3>1 DEF ExclusiveIn
  <2>. QED BY <1>1, <2>1 DEF HealedSlots
<1>3. HealedSessions(slots, sessions) = sessions
  BY ConstantsAssumption, <1>1 DEF ConstantsAssumption, Split, ExclusiveIn, HealedSessions
<1>. QED BY <1>2, <1>3 DEF Restart

LEMMA HubRestartStays ==
  ASSUME LiveInv, DeviceInv', HubStopsAndStarts
  PROVE  LiveInv'
<1>1. /\ Restart /\ procs' = procs /\ used' = used
      /\ posts' = [ s \in Session |->
                     [ i \in DOMAIN posts[s] |-> [posts[s][i] EXCEPT !.live = Pid] ]]
  BY DEF HubStopsAndStarts, HubRestart
<1>2. slots' = slots /\ sessions' = sessions /\ pids' = pids
  BY <1>1, NothingToHeal DEF LiveInv, DeviceInv, Restart
<1>3. \A s \in Session : /\ posts[s] \in Seq(Post) /\ posts'[s] \in Seq(Post)
                         /\ DOMAIN posts'[s] = DOMAIN posts[s]
                         /\ \A i \in DOMAIN posts[s] : posts'[s][i] = Kept(posts[s][i])
  BY <1>1 DEF LiveInv, DeviceInv, DeviceTypeOK, Kept
<1>4. PostsKept BY <1>3 DEF PostsKept
<1>5. \A s \in Session : \A i \in DOMAIN posts'[s] : posts'[s][i].live = Pid
  BY <1>3, KeptIsSame
<1>6. RegistryOfDevice' BY <1>1, <1>2 DEF LiveInv, RegistryOfDevice, Known, Restart
<1>. QED BY <1>1, <1>2, <1>4, <1>5, <1>6, KeptStays

LEMMA TimersStay ==
  ASSUME LiveInv, DeviceInv',
         (\E s \in Session : GraceEnds(s)) \/ (\E key \in Key : HandoffEnds(key))
  PROVE  LiveInv'
<1>1. /\ UNCHANGED <<slots, sessions, pids, procs, posts, used>>
      /\ starts' \in SUBSET starts
      /\ \A k \in Key : clears'[k] # 0 => clears[k] # 0
  BY DEF GraceEnds, HandoffEnds, GraceOver, HandoffOver, deviceVars, LiveInv, DeviceInv,
         IInv, TypeOK
<1>2. RegistryOfDevice' /\ PostsOK' /\ UnusedOK' /\ RunsOK' /\ StartsOK'
  BY <1>1 DEF LiveInv, RegistryOfDevice, PostsOK, UnusedOK, RunsOK, StartsOK, Runs, Handled,
              Named, Known, Alive, StartPending, EndPending
<1>3. ListsOK'
  <2> SUFFICES ASSUME NEW x \in Pid, NEW t \in Session, Runs(x, t), posts[t] = <<>>,
                      t \notin starts'
               PROVE  \A u \in Session : \A i \in DOMAIN posts[u] : x \in posts[u][i].live
    BY <1>1 DEF ListsOK, Runs
  <2>1. CASE t \notin starts BY <2>1 DEF LiveInv, ListsOK
  <2>2. CASE t \in starts
    <3>1. PICK s \in Session : GraceEnds(s) BY <2>2 DEF HandoffEnds, HandoffOver
    <3>2. s = t BY <2>2, <3>1 DEF GraceEnds, GraceOver
    <3>3. sessions[t].pid = x BY DEF LiveInv, RunsOK, Handled
    <3>. QED BY <3>1, <3>2, <3>3 DEF GraceEnds
  <2>. QED BY <2>1, <2>2
<1>. QED BY <1>2, <1>3 DEF LiveInv

LEMMA NothingNew ==
  ASSUME LiveInv, DeviceInv', UNCHANGED <<vars, procs, posts>>,
         used'.pids = used.pids, used'.sessions = used.sessions
  PROVE  LiveInv'
BY DEF LiveInv, vars, RegistryOfDevice, PostsOK, UnusedOK, RunsOK, StartsOK, ListsOK, Runs,
       Handled, Named, Known, Alive, StartPending, EndPending

LEMMA LiveInitHolds ==
  ASSUME ConstantsAssumption, DeviceIsNew, DeviceInit
  PROVE  LiveInv
<1>1. DeviceInv BY DeviceInitHolds
<1>2. PICK f \in Files : /\ sessions = HealedSessions(f.slots, f.sessions)
                         /\ pids = f.pids
                         /\ clears = [k \in Key |-> 0]
  BY DEF DeviceInit, Init
<1>3. \A s \in Session : ~Known(s) BY <1>2 DEF DeviceIsNew, HealedSessions, Known
<1>4. \A q \in Pid : Named(q) = None BY <1>2 DEF DeviceIsNew, Named
<1>5. /\ \A q \in Pid : \A s \in Session : ~Runs(q, s)
      /\ \A s \in Session : posts[s] = <<>>
  BY DEF DeviceInit, Runs, NoProcess, ConstantsAssumption
<1>6. RegistryOfDevice /\ PostsOK /\ UnusedOK
  BY <1>2, <1>3, <1>4, <1>5 DEF RegistryOfDevice, PostsOK, UnusedOK
<1>7. RunsOK /\ StartsOK /\ ListsOK BY <1>5 DEF RunsOK, StartsOK, StartPending, ListsOK
<1>. QED BY <1>1, <1>6, <1>7 DEF LiveInv

LEMMA LiveStepKeeps ==
  ASSUME ConstantsAssumption, DeviceAssumption, LiveInv, [DeviceNext]_allVars
  PROVE  LiveInv'
<1>0. DeviceInv' /\ used \in Used BY DeviceStepKeeps DEF LiveInv, DeviceInv, DeviceTypeOK
<1>1. ASSUME NEW q \in Pid, ProcessStep(q) PROVE LiveInv'
  BY <1>0, <1>1, LaunchStays, ClearStays, ExitStays, CompactStays, KillStays
     DEF ProcessStep
<1>2. ASSUME NEW s \in Session, Deliver(s) PROVE LiveInv'
  BY <1>0, <1>2, StartDelivered, EndDelivered DEF Deliver
<1>3. ASSUME NEW s \in Session, NEW i \in 1 .. MaxPosts, Spool(s, i) PROVE LiveInv'
  BY <1>0, <1>3, SpoolStays
<1>4. CASE (\E s \in Session : GraceEnds(s)) \/ (\E key \in Key : HandoffEnds(key))
  BY <1>0, <1>4, TimersStay
<1>5. CASE HubStopsAndStarts BY <1>0, <1>5, HubRestartStays
<1>6. ASSUME NEW q \in Pid, LinkLost(q) \/ AnswerRead(q) PROVE LiveInv'
  BY <1>0, <1>6, NothingNew DEF LinkLost, AnswerRead
<1>7. ASSUME NEW c \in Conn, LossNoticed(c) \/ AnswerHandled(c) PROVE LiveInv'
  BY <1>0, <1>7, NothingNew
     DEF LossNoticed, AnswerHandled, AgentDisconnected, AgentLeaves, AgentStays
<1>8. ASSUME NEW c \in Conn, NEW q \in Pid, LinkUp(q, c) \/ AnswerLost(q, c)
      PROVE  LiveInv'
  BY <1>8, <1>0, NothingNew DEF LinkUp, AnswerLost, Registers, AgentRegistered, Used
<1>9. CASE UNCHANGED allVars BY <1>0, <1>9, NothingNew DEF allVars, deviceVars
<1>. QED BY <1>1, <1>2, <1>3, <1>4, <1>5, <1>6, <1>7, <1>8, <1>9 DEF DeviceNext

(* LiveInv is inductive, for a device the hub meets for the first time.    *)
THEOREM LiveInvariance == DeviceIsNew => (DeviceSpec => []LiveInv)
<1>1. DeviceIsNew /\ DeviceInit => LiveInv BY ConstantsAssumption, LiveInitHolds
<1>2. LiveInv /\ [DeviceNext]_allVars => LiveInv'
  BY ConstantsAssumption, DeviceAssumption, LiveStepKeeps
<1>. QED BY <1>1, <1>2, PTL DEF DeviceSpec

(* Whatever order the posts of a device come in, sent or replayed, a live  *)
(* process is known by the session it runs, once all were handled.         *)
THEOREM LiveSessionIsKnown == DeviceIsNew => (DeviceSpec => []LiveIsKnown)
<1>1. LiveInv => LiveIsKnown
  <2> SUFFICES ASSUME LiveInv, Settled, NEW q \in Pid, Alive(q), NEW s,
                      s = procs[q].session
               PROVE  LiveTop(sessions, s) /\ sessions[s].pid = q /\ pids[<<Device, q>>] = s
    BY DEF LiveIsKnown
  <2>1. s \in Session BY AliveRuns DEF LiveInv, DeviceInv
  <2>2. Handled(q, s) BY <2>1 DEF LiveInv, RunsOK, Runs, Settled
  <2>. QED BY <2>2 DEF Handled, Named
<1>. QED BY <1>1, LiveInvariance, PTL

----------------------------------------------------------------------------
(* The agents of live processes.                                           *)

(* A link an agent has is open, and the newest one of its process.         *)
HeldOK ==
  /\ \A q \in Pid : links[q] # 0 =>
       Alive(q) /\ conns[links[q]].open /\ conns[links[q]].pid = q
  /\ \A d \in Conn : conns[d].open =>
       /\ conns[d].host = Device /\ conns[d].pid \in used.pids
       /\ conns[d].session \in used.sessions
       /\ links[conns[d].pid] # 0 => d <= links[conns[d].pid]

NoUpdates ==
  "updates" \notin situation => \A c \in Conn : answers[c] = None /\ ~conns[c].leaving

Undisturbed == "resume left" \notin situation /\ "updates" \notin situation

(* A session that a process left by /clear is no other process's, starts   *)
(* no more, and runs for the hub only until the start of the new session.  *)
EnvOK ==
  \A q \in Pid : \A s \in Session : Runs(q, s) /\ procs[q].env # s =>
    /\ \A i \in DOMAIN posts[procs[q].env] : posts[procs[q].env][i] \notin StartPost
    /\ \A p \in Pid : ~Runs(p, procs[q].env)
    /\ LiveTop(sessions, procs[q].env) => Named(q) = procs[q].env /\ posts[s] # <<>>

(* The link an agent has followed its process to the session it runs.      *)
Followed ==
  \A q \in Pid : \A s \in Session : Runs(q, s) /\ links[q] # 0 /\ posts[s] = <<>> =>
    conns[links[q]].session = s

AgentInv ==
  /\ LiveInv
  /\ HeldOK
  /\ NoUpdates
  /\ Undisturbed => EnvOK /\ Followed

LEMMA GreatestIs ==
  ASSUME NEW S \in SUBSET Conn, NEW c \in S, \A d \in S : d <= c
  PROVE  Max(S) = c
<1>1. MaxConns \in Nat BY MaxConnsAssumption
<1>2. \A x \in S : (\A d \in S : x >= d) => x = c BY <1>1 DEF Conn
<1>3. \A d \in S : c >= d BY <1>1 DEF Conn
<1>4. (CHOOSE x \in S : \A d \in S : x >= d) = c BY <1>2, <1>3
<1>. QED BY <1>4 DEF Max

(* What a step of process p leaves of processes and posts.                 *)
LEMMA ProcessMoves ==
  ASSUME ConstantsAssumption, LiveInv, NEW p \in Pid, ProcessStep(p)
  PROVE  /\ UNCHANGED vars /\ conns' = conns /\ answers' = answers /\ situation' = situation
         /\ \A x \in Pid \ {p} : procs'[x] = procs[x]
         /\ used.pids \in SUBSET used'.pids /\ used.sessions \in SUBSET used'.sessions
         /\ \A t \in Session : posts[t] # <<>> => posts'[t] # <<>>
         /\ \A t \in Session : Runs(p, t)' /\ ~Runs(p, t) => posts'[t] # <<>>
         /\ \A x \in Pid : links'[x] # 0 => links'[x] = links[x] /\ (Alive(x) => Alive(x)')
<1>1. /\ UNCHANGED vars /\ conns' = conns /\ answers' = answers /\ situation' = situation
      /\ procs \in [Pid -> Process \union {NoProcess}]
      /\ posts \in [Session -> Seq(Post)] /\ links \in [Pid -> 0 .. MaxConns]
      /\ used \in Used
  BY DEF ProcessStep, LiveInv, DeviceInv, DeviceTypeOK, linkVars
<1>2. \A u \in Seq(Post) : \A m : Append(u, m) # <<>> OBVIOUS
<1>3. \A x \in Pid : links'[x] # 0 =>
        /\ links'[x] = links[x]
        /\ ~(x = p /\ Alive(p) /\ procs'[p] = NoProcess)
  BY <1>1 DEF ProcessStep
<1>4. ASSUME NEW n \in Session, Launch(p, n)
      PROVE  /\ \A x \in Pid \ {p} : procs'[x] = procs[x]
             /\ used.pids \in SUBSET used'.pids /\ used.sessions \in SUBSET used'.sessions
             /\ \A t \in Session : posts[t] # <<>> => posts'[t] # <<>>
             /\ \A t \in Session : Runs(p, t)' /\ ~Runs(p, t) => posts'[t] # <<>>
  BY <1>4, <1>1, <1>2 DEF Launch, Runs, Used
<1>5. ASSUME NEW n \in Session, Clear(p, n)
      PROVE  /\ \A x \in Pid \ {p} : procs'[x] = procs[x]
             /\ used.pids \in SUBSET used'.pids /\ used.sessions \in SUBSET used'.sessions
             /\ \A t \in Session : posts[t] # <<>> => posts'[t] # <<>>
             /\ \A t \in Session : Runs(p, t)' /\ ~Runs(p, t) => posts'[t] # <<>>
  <2>1. PICK s \in Session : s = procs[p].session
    BY <1>5, AliveRuns DEF Clear, LiveInv, DeviceInv
  <2>2. PICK e, m : posts' = [posts EXCEPT ![s] = Append(@, e), ![n] = Append(@, m)]
    BY <1>5, <2>1 DEF Clear
  <2>3. /\ procs' = [procs EXCEPT ![p].session = n]
        /\ used' = [used EXCEPT !.sessions = @ \union {n}]
        /\ Alive(p) /\ n \notin used.sessions /\ posts[s] = <<>>
    BY <1>5, <2>1 DEF Clear
  <2>4. s # n BY <2>1, <2>3 DEF LiveInv, RunsOK, Runs
  <2>5. /\ posts'[n] = Append(posts[n], m) /\ posts'[s] = Append(<<>>, e)
        /\ \A t \in Session \ {n, s} : posts'[t] = posts[t]
    BY <1>1, <2>2, <2>3, <2>4
  <2>6. posts'[n] # <<>> /\ posts'[s] # <<>> BY <1>1, <1>2, <2>5
  <2>7. \A t \in Session : Runs(p, t)' => t = n BY <1>1, <2>3 DEF Alive, Runs, Process
  <2>. QED BY <1>1, <2>3, <2>5, <2>6, <2>7 DEF Used
<1>6. ASSUME Exit(p)
      PROVE  /\ \A x \in Pid \ {p} : procs'[x] = procs[x]
             /\ used' = used
             /\ \A t \in Session : posts[t] # <<>> => posts'[t] # <<>>
             /\ \A t \in Session : ~Runs(p, t)'
  <2>1. PICK s \in Session : s = procs[p].session
    BY <1>6, AliveRuns DEF Exit, LiveInv, DeviceInv
  <2>2. PICK e : posts' = [posts EXCEPT ![s] = Append(@, e)] BY <1>6, <2>1 DEF Exit
  <2>3. procs' = [procs EXCEPT ![p] = NoProcess] /\ used' = used BY <1>6 DEF Exit
  <2>. QED BY <1>1, <1>2, <2>2, <2>3 DEF Runs, NoProcess, ConstantsAssumption
<1>7. ASSUME Compact(p)
      PROVE  /\ procs' = procs /\ used' = used
             /\ \A t \in Session : posts[t] # <<>> => posts'[t] # <<>>
  <2>1. PICK s \in Session : s = procs[p].session
    BY <1>7, AliveRuns DEF Compact, LiveInv, DeviceInv
  <2>2. PICK e : posts' = [posts EXCEPT ![s] = Append(@, e)] BY <1>7, <2>1 DEF Compact
  <2>3. procs' = procs /\ used' = used BY <1>7 DEF Compact
  <2>. QED BY <1>1, <1>2, <2>2, <2>3
<1>8. ASSUME Kill(p)
      PROVE  /\ \A x \in Pid \ {p} : procs'[x] = procs[x]
             /\ used' = used /\ posts' = posts
             /\ \A t \in Session : ~Runs(p, t)'
  BY <1>1, <1>8 DEF Kill, Runs, NoProcess, ConstantsAssumption
<1> DEFINE Moves ==
      /\ \A x \in Pid \ {p} : procs'[x] = procs[x]
      /\ used.pids \in SUBSET used'.pids /\ used.sessions \in SUBSET used'.sessions
      /\ \A t \in Session : posts[t] # <<>> => posts'[t] # <<>>
      /\ \A t \in Session : Runs(p, t)' /\ ~Runs(p, t) => posts'[t] # <<>>
<1>9. Moves
  <2>1. ASSUME NEW n \in Session, Launch(p, n) \/ Clear(p, n) PROVE Moves
    BY <1>4, <1>5, <2>1
  <2>2. ASSUME Exit(p) \/ Kill(p) PROVE Moves BY <1>6, <1>8, <2>2
  <2>3. ASSUME Compact(p) PROVE Moves BY <1>7, <2>3 DEF Runs
  <2> HIDE DEF Moves
  <2>. QED BY <2>1, <2>2, <2>3 DEF ProcessStep
<1>10. \A x \in Pid : links'[x] # 0 => (Alive(x) => Alive(x)') BY <1>3, <1>9 DEF Alive
<1>. QED BY <1>1, <1>3, <1>9, <1>10

LEMMA ProcessHeld ==
  ASSUME ConstantsAssumption, AgentInv, NEW p \in Pid, ProcessStep(p)
  PROVE  HeldOK' /\ NoUpdates' /\ (Undisturbed' => Undisturbed /\ Followed')
<1>1. /\ UNCHANGED vars /\ conns' = conns /\ answers' = answers /\ situation' = situation
      /\ \A x \in Pid \ {p} : procs'[x] = procs[x]
      /\ used.pids \in SUBSET used'.pids /\ used.sessions \in SUBSET used'.sessions
      /\ \A t \in Session : posts[t] # <<>> => posts'[t] # <<>>
      /\ \A t \in Session : Runs(p, t)' /\ ~Runs(p, t) => posts'[t] # <<>>
      /\ \A x \in Pid : links'[x] # 0 => links'[x] = links[x] /\ (Alive(x) => Alive(x)')
  BY ProcessMoves DEF AgentInv
<1>2. HeldOK'
  <2>1. \A d \in Conn : conns[d].open => conns[d].pid \in Pid
    BY DEF AgentInv, HeldOK, LiveInv, DeviceInv, DeviceTypeOK, Used
  <2>2. \A q \in Pid : links'[q] # 0 =>
          Alive(q)' /\ conns'[links'[q]].open /\ conns'[links'[q]].pid = q
    BY <1>1 DEF AgentInv, HeldOK
  <2>3. ASSUME NEW d \in Conn, conns'[d].open
        PROVE  /\ conns'[d].host = Device /\ conns'[d].pid \in used'.pids
               /\ conns'[d].session \in used'.sessions
               /\ links'[conns'[d].pid] # 0 => d <= links'[conns'[d].pid]
    <3>1. PICK q \in Pid : q = conns[d].pid BY <1>1, <2>1, <2>3
    <3>. QED BY <1>1, <2>3, <3>1 DEF AgentInv, HeldOK
  <2>. QED BY <2>2, <2>3 DEF HeldOK
<1>3. NoUpdates' BY <1>1 DEF AgentInv, NoUpdates
<1>4. ASSUME Undisturbed' PROVE Undisturbed /\ Followed'
  <2>1. Undisturbed /\ Followed BY <1>1, <1>4 DEF Undisturbed, AgentInv
  <2> SUFFICES ASSUME NEW x \in Pid, NEW t \in Session, Runs(x, t)', links'[x] # 0,
                      posts'[t] = <<>>
               PROVE  conns'[links'[x]].session = t
    BY <2>1 DEF Followed
  <2>2. Runs(x, t) BY <1>1 DEF Runs
  <2>. QED BY <1>1, <2>1, <2>2 DEF Followed
<1>. QED BY <1>2, <1>3, <1>4

(* What EnvOK asks of a process q that runs s.                             *)
LeftOver(q, s, e) ==
  /\ \A i \in DOMAIN posts[e] : posts[e][i] \notin StartPost
  /\ \A p \in Pid : ~Runs(p, e)
  /\ LiveTop(sessions, e) => Named(q) = e /\ posts[s] # <<>>

LEMMA ProcessEnv ==
  ASSUME ConstantsAssumption, DeviceAssumption, AgentInv, Undisturbed, NEW p \in Pid,
         ProcessStep(p)
  PROVE  EnvOK'
<1>1. /\ UNCHANGED vars
      /\ \A x \in Pid \ {p} : procs'[x] = procs[x]
      /\ \A t \in Session : posts[t] # <<>> => posts'[t] # <<>>
      /\ sessions' = sessions /\ \A x \in Pid : Named(x)' = Named(x)
  BY ProcessMoves DEF AgentInv, vars, Named
<1>2. /\ procs \in [Pid -> Process \union {NoProcess}]
      /\ posts \in [Session -> Seq(Post)]
      /\ used.sessions \in SUBSET Session
  BY DEF AgentInv, LiveInv, DeviceInv, DeviceTypeOK, Used
<1>3. \A q \in Pid : \A s \in Session : Runs(q, s) =>
        /\ procs[q].env \in used.sessions /\ s \in used.sessions
        /\ \A x \in Pid : Runs(x, s) => x = q
        /\ posts[s] = <<>> => Handled(q, s)
        /\ procs[q].env # s => LeftOver(q, s, procs[q].env)
  BY DEF AgentInv, LiveInv, RunsOK, EnvOK, LeftOver
<1>4. \A q \in Pid : \A s \in Session : Runs(q, s) => Alive(q) BY RunsAlive
<1> SUFFICES ASSUME NEW q \in Pid, NEW s \in Session, Runs(q, s)', NEW e,
                    e = procs'[q].env, e # s
             PROVE  LeftOver(q, s, e)'
  BY DEF EnvOK, LeftOver
<1>5. CASE q # p
  <2>1. Runs(q, s) /\ e = procs[q].env /\ e \in Session
    BY <1>1, <1>2, <1>3, <1>5 DEF Runs
  <2>2. LeftOver(q, s, e) BY <1>3, <2>1
  <2>3. posts'[e] = posts[e] /\ ~Runs(p, e)'
    <3>1. ASSUME NEW n \in Session, Launch(p, n) PROVE posts'[e] = posts[e] /\ ~Runs(p, e)'
      BY <2>1, <3>1, <1>2 DEF Launch, Undisturbed, Runs
    <3>2. ASSUME NEW n \in Session, Clear(p, n) PROVE posts'[e] = posts[e] /\ ~Runs(p, e)'
      <4>1. PICK o \in Session : o = procs[p].session
        BY <3>2, AliveRuns DEF Clear, AgentInv, LiveInv, DeviceInv
      <4>2. PICK a, b : posts' = [posts EXCEPT ![o] = Append(@, a), ![n] = Append(@, b)]
        BY <3>2, <4>1 DEF Clear
      <4>3. procs' = [procs EXCEPT ![p].session = n] /\ n \notin used.sessions /\ Alive(p)
        BY <3>2 DEF Clear
      <4>4. n # e /\ o # e BY <1>3, <2>1, <2>2, <4>1, <4>3 DEF LeftOver, Runs
      <4>5. procs[p] \in Process BY <1>2, <4>3 DEF Alive
      <4>. QED BY <1>2, <2>1, <4>2, <4>3, <4>4, <4>5 DEF Runs, Process
    <3>3. CASE Exit(p)
      <4>1. PICK o \in Session : o = procs[p].session
        BY <3>3, AliveRuns DEF Exit, AgentInv, LiveInv, DeviceInv
      <4>2. PICK a : posts' = [posts EXCEPT ![o] = Append(@, a)] BY <3>3, <4>1 DEF Exit
      <4>3. procs' = [procs EXCEPT ![p] = NoProcess] /\ o # e
        BY <2>2, <3>3, <4>1 DEF LeftOver, Runs, Exit
      <4>. QED BY <1>2, <2>1, <4>2, <4>3 DEF Runs, NoProcess, ConstantsAssumption
    <3>4. CASE Compact(p)
      <4>1. PICK o \in Session : o = procs[p].session
        BY <3>4, AliveRuns DEF Compact, AgentInv, LiveInv, DeviceInv
      <4>2. PICK a : posts' = [posts EXCEPT ![o] = Append(@, a)]
        BY <3>4, <4>1 DEF Compact
      <4>3. procs' = procs /\ o # e BY <2>2, <3>4, <4>1 DEF LeftOver, Runs, Compact
      <4>. QED BY <1>2, <2>1, <2>2, <4>2, <4>3 DEF Runs, LeftOver
    <3>5. CASE Kill(p) BY <1>2, <2>1, <3>5 DEF Kill, Runs, NoProcess, ConstantsAssumption
    <3>. QED BY <3>1, <3>2, <3>3, <3>4, <3>5 DEF ProcessStep
  <2>4. \A x \in Pid : ~Runs(x, e)' BY <1>1, <2>2, <2>3 DEF Runs, LeftOver
  <2>. QED BY <1>1, <2>2, <2>3, <2>4 DEF LeftOver
<1>6. CASE q = p /\ \E n \in Session : Launch(p, n)
  <2>1. PICK n \in Session : procs' = [procs EXCEPT ![p] = [session |-> n, env |-> n]]
    BY <1>6 DEF Launch
  <2>2. procs'[p].session = n /\ procs'[p].env = n BY <1>2, <2>1
  <2>. QED BY <1>6, <2>2 DEF Runs
<1>7. ASSUME q = p, NEW n \in Session, Clear(p, n) PROVE LeftOver(q, s, e)'
  <2>0. n = s BY <1>2, <1>7 DEF Clear, Runs, Process, Alive
  <2>1. PICK o \in Session : o = procs[p].session
    BY <1>7, AliveRuns DEF Clear, AgentInv, LiveInv, DeviceInv
  <2>2. Runs(p, o) /\ posts[o] = <<>> /\ s \notin used.sessions /\ Alive(p)
    BY <1>7, <2>0, <2>1 DEF Clear, Runs
  <2>3. PICK a \in EndPost : a = EndOf(o, p, "clear", LivePids)
    BY <2>2, EndOfIsPost DEF LivePids
  <2>4. PICK b : posts' = [posts EXCEPT ![o] = Append(@, a), ![s] = Append(@, b)]
    BY <1>7, <2>0, <2>1, <2>3 DEF Clear
  <2>5. procs' = [procs EXCEPT ![p].session = s] /\ procs[p] \in Process
    BY <1>2, <1>7, <2>0, <2>2 DEF Clear, Alive
  <2>6. e = procs[p].env /\ e \in Session /\ e \in used.sessions
    BY <1>2, <1>3, <1>7, <2>2, <2>5 DEF Process
  <2>7. \A x \in Pid : /\ Runs(x, s)' => x = p
                       /\ ~Runs(x, s) /\ (Runs(x, e)' => Runs(x, e) /\ x # p)
    BY <1>2, <1>3, <1>7, <2>2, <2>5, <2>6 DEF Runs, Process
  <2>8. posts'[s] # <<>> /\ posts'[o] = <<a>> /\ \A t \in Session \ {s, o} : posts'[t] = posts[t]
    <3>1. o # s BY <1>3, <2>2
    <3>2. posts'[s] = Append(posts[s], b) /\ posts'[o] = Append(<<>>, a)
      BY <1>2, <2>2, <2>4, <3>1
    <3>3. posts'[s] # <<>> /\ posts'[o] = <<a>>
      <4>1. \A u \in Seq(Post) : \A m : Append(u, m) # <<>> OBVIOUS
      <4>. QED BY <1>2, <3>2, <4>1, OnePost
    <3>. QED BY <1>2, <2>4, <3>3
  <2>9. CASE e = o
    BY <2>8, <2>9, OnePost, PostKinds, <1>3, <2>2, <2>7, <1>1, <1>7 DEF Handled, LeftOver
  <2>10. CASE e # o BY <1>3, <2>2, <2>6, <2>10, <2>8, <1>1, <2>7 DEF LeftOver
  <2>. QED BY <2>9, <2>10
<1>8. CASE q = p /\ Compact(p)
  <2>1. procs' = procs BY <1>8 DEF Compact
  <2>2. Runs(p, s) /\ e = procs[p].env /\ posts[s] = <<>> /\ e \in Session
    BY <1>2, <1>3, <1>8, <2>1 DEF Runs, Compact
  <2>3. LeftOver(p, s, e) BY <1>3, <2>2
  <2>4. PICK a : posts' = [posts EXCEPT ![s] = Append(@, a)]
    BY <1>8, <2>2 DEF Compact, Runs
  <2>5. posts'[e] = posts[e] BY <1>2, <2>2, <2>4
  <2>. QED BY <1>1, <1>8, <2>1, <2>2, <2>3, <2>5 DEF LeftOver, Runs
<1>9. CASE q = p /\ (Exit(p) \/ Kill(p))
  BY <1>2, <1>9 DEF Exit, Kill, Runs, NoProcess, ConstantsAssumption
<1>. QED BY <1>5, <1>6, <1>7, <1>8, <1>9 DEF ProcessStep

(* A start moves at most one link, to its session: that of its process.    *)
LEMMA StartMovesOne ==
  ASSUME ConstantsAssumption, DeviceAssumption, LiveInv, LiveInv', HeldOK, NEW s \in Session,
         NEW m \in StartPost, m = posts[s][1], m.session = s, m.host = Device, m.pid \in Pid,
         HookStart(m), Handled(m.pid, s)'
  PROVE  /\ \A c \in Conn :
              \/ conns'[c] = conns[c]
              \/ /\ conns[c].open /\ conns'[c].open /\ conns[c].pid = m.pid
                 /\ conns'[c].pid = m.pid /\ conns'[c].host = conns[c].host
                 /\ conns'[c].session = s /\ conns'[c].leaving = conns[c].leaving
         /\ links[m.pid] # 0 /\ ~conns[links[m.pid]].leaving =>
              conns'[links[m.pid]].session = s
<1> DEFINE q == m.pid
           M == Movers(Device, q, s)
           ag == AgentsAfter(s, AgentsLeft(m))
           pe == PendingAfter(s)
<1>1. q # None /\ s # None /\ LiveSessionOfPid(sessions', pids', Device, q) = s
  BY DEF ConstantsAssumption, Handled, Named, LiveSessionOfPid
<1>2. FollowPid(Device, q, ag, pe) BY DEF HookStart
<1>3. /\ M = {} => conns' = conns
      /\ M # {} => conns' = [conns EXCEPT ![Max(M)].session = s]
  BY <1>1, <1>2 DEF FollowPid
<1>4. M \in SUBSET Conn /\ conns \in [Conn -> Bound]
  BY DEF Movers, LiveInv, DeviceInv, LinksOK, LinkTypeOK
<1>5. M # {} => Max(M) \in M
  <2> HIDE DEF M
  <2>. QED BY <1>4, GreatestLink
<1>6. links[q] # 0 => /\ links[q] \in Conn /\ conns[links[q]].open
                      /\ conns[links[q]].pid = q /\ conns[links[q]].host = Device
  BY DEF LiveInv, DeviceInv, DeviceTypeOK, Conn, HeldOK
<1>7. ASSUME links[q] # 0, ~conns[links[q]].leaving, conns[links[q]].session # s
      PROVE  M # {} /\ Max(M) = links[q]
  <2>1. links[q] \in M BY <1>6, <1>7 DEF Movers
  <2>2. \A d \in M : d <= links[q] BY <1>7 DEF Movers, HeldOK
  <2> HIDE DEF M
  <2>. QED BY <1>4, <2>1, <2>2, GreatestIs
<1>8. \A c \in M : conns[c].open /\ conns[c].pid = q BY DEF Movers
<1> HIDE DEF M, q
<1>9. ASSUME NEW c \in Conn
      PROVE  \/ conns'[c] = conns[c]
             \/ /\ conns[c].open /\ conns'[c].open /\ conns[c].pid = q
                /\ conns'[c].pid = q /\ conns'[c].host = conns[c].host
                /\ conns'[c].session = s /\ conns'[c].leaving = conns[c].leaving
  BY <1>3, <1>4, <1>5, <1>8 DEF Bound
<1>10. ASSUME links[q] # 0, ~conns[links[q]].leaving
       PROVE  conns'[links[q]].session = s
  BY <1>6, <1>9, <1>10, <1>3, <1>4, <1>7 DEF Bound
<1>. QED BY <1>9, <1>10 DEF q

(* What a start that is delivered leaves, in terms of its post m.          *)
StartTaken(s, m) ==
  /\ m = posts[s][1] /\ m.session = s /\ m.host = Device /\ m.parent = None
  /\ m.pid \in Pid /\ m.pid \in used.pids
  /\ StartPending(s, m.pid) /\ posts' = [posts EXCEPT ![s] = Tail(@)] /\ HookStart(m)
  /\ StartLeaves(m) /\ Handled(m.pid, s)'
  /\ UNCHANGED <<situation, procs, links, answers, unsaid>>
  /\ used'.pids = used.pids /\ used'.sessions = used.sessions
  /\ used'.robbed = used.robbed \union Robbed(s)

LEMMA StartIsTaken ==
  ASSUME ConstantsAssumption, DeviceAssumption, LiveInv, NEW s \in Session,
         Deliver(s), Head(posts[s]) \in StartPost
  PROVE  \E m \in StartPost : StartTaken(s, m)
<1>0. /\ posts[s] # <<>> /\ posts[s] \in Seq(Post) /\ used \in Used
      /\ Head(posts[s]) = posts[s][1] /\ 1 \in DOMAIN posts[s]
  BY DEF Deliver, LiveInv, DeviceInv, DeviceTypeOK
<1>a. PICK m \in StartPost : m = posts[s][1] BY <1>0
<1>1. /\ posts' = [posts EXCEPT ![s] = Tail(@)] /\ HookStart(m)
      /\ UNCHANGED <<situation, procs, links, answers, unsaid>>
      /\ used'.pids = used.pids /\ used'.sessions = used.sessions
      /\ used'.robbed = used.robbed \union Robbed(s)
  BY <1>0, <1>a, PostKinds DEF Deliver, Used
<1>2. /\ m.session = s /\ m.host = Device /\ m.parent = None
      /\ m.pid \in used.pids /\ m.pid \in Pid
  BY <1>0, <1>a DEF LiveInv, PostsOK, Used
<1>3. StartLeaves(m) BY <1>1, <1>2, StartEffect DEF LiveInv, DeviceInv, HookStart
<1>4. StartPending(s, m.pid) BY <1>0, <1>a DEF StartPending
<1>5. Handled(m.pid, s)' BY <1>2, <1>3 DEF StartLeaves, Handled
<1>. QED BY <1>a, <1>1, <1>2, <1>3, <1>4, <1>5 DEF StartTaken

LEMMA StartAgents ==
  ASSUME ConstantsAssumption, DeviceAssumption, AgentInv, LiveInv', NEW s \in Session,
         Deliver(s), Head(posts[s]) \in StartPost
  PROVE  AgentInv'
<1>1. PICK m \in StartPost : StartTaken(s, m) BY StartIsTaken DEF AgentInv
<1> DEFINE q == m.pid
<1>2. /\ m = posts[s][1] /\ m.session = s /\ q \in Pid /\ StartPending(s, q)
      /\ UNCHANGED <<situation, procs, links, answers, unsaid>>
      /\ used'.pids = used.pids /\ used'.sessions = used.sessions
      /\ posts' = [posts EXCEPT ![s] = Tail(@)]
  BY <1>1 DEF StartTaken
<1>3. /\ \A c \in Conn :
           \/ conns'[c] = conns[c]
           \/ /\ conns[c].open /\ conns'[c].open /\ conns[c].pid = q
              /\ conns'[c].pid = q /\ conns'[c].host = conns[c].host
              /\ conns'[c].session = s /\ conns'[c].leaving = conns[c].leaving
      /\ links[q] # 0 /\ ~conns[links[q]].leaving => conns'[links[q]].session = s
  BY <1>1, StartMovesOne DEF StartTaken, AgentInv
<1>4. /\ Alive(q) => Runs(q, s)
      /\ posts[s] # <<>> /\ s \in used.sessions
      /\ m.source = "startup" => Named(q) \in {None, s}
      /\ m.source = "clear" => ~Known(s)
  BY <1>2 DEF AgentInv, LiveInv, StartsOK, StartPending, UnusedOK
<1>5. /\ \A t \in Session \ {s} : posts'[t] = posts[t]
      /\ \A t \in Session : posts'[t] # <<>> => posts[t] # <<>>
  BY <1>2, <1>4, PostsLeft DEF AgentInv
<1>6. /\ \A x \in Session \ {s} : LiveTop(sessions', x) => LiveTop(sessions, x)
      /\ \A x \in Pid \ {q} :
           Named(x) \in Session /\ LiveTop(sessions', Named(x)) => Named(x)' = Named(x)
      /\ m.source = "clear" /\ ~Known(s) /\ Named(q) \notin {None, s} =>
           ~LiveTop(sessions', Named(q))
  BY <1>1, <1>2 DEF Key, DeviceAssumption, StartTaken, StartLeaves, AgentInv, LiveInv,
     RegistryOfDevice, Named
<1>a. m.source \in {"startup", "clear"} BY DEF StartPost
<1> HIDE DEF q
<1>7. HeldOK'
  <2>1. \A d \in Conn : conns'[d].open <=> conns[d].open BY <1>3
  <2>2. \A d \in Conn : conns[d].open => conns'[d].pid = conns[d].pid BY <1>3
  <2>3. ASSUME NEW x \in Pid, links'[x] # 0
        PROVE  Alive(x)' /\ conns'[links'[x]].open /\ conns'[links'[x]].pid = x
    <3>1. links[x] \in Conn
      BY <1>2, <2>3 DEF AgentInv, LiveInv, DeviceInv, DeviceTypeOK, Conn
    <3>. QED BY <1>2, <2>1, <2>2, <2>3, <3>1 DEF AgentInv, HeldOK, Alive
  <2>4. ASSUME NEW d \in Conn, conns'[d].open
        PROVE  /\ conns'[d].host = Device /\ conns'[d].pid \in used'.pids
               /\ conns'[d].session \in used'.sessions
               /\ links'[conns'[d].pid] # 0 => d <= links'[conns'[d].pid]
    BY <2>1, <2>4, <1>2, <1>3, <1>4 DEF AgentInv, HeldOK
  <2>. QED BY <2>3, <2>4 DEF HeldOK
<1>8. NoUpdates' BY <1>2, <1>3 DEF AgentInv, NoUpdates
<1>9. ASSUME Undisturbed PROVE EnvOK'
  <2> SUFFICES ASSUME NEW x \in Pid, NEW t \in Session, Runs(x, t)', NEW e,
                      e = procs'[x].env, e # t
               PROVE  LeftOver(x, t, e)'
    BY DEF EnvOK, LeftOver
  <2>1. Runs(x, t) /\ e = procs[x].env /\ e \in Session
    BY <1>2 DEF Runs, AgentInv, LiveInv, RunsOK, DeviceInv, DeviceTypeOK, Used
  <2>2. LeftOver(x, t, e) BY <1>9, <2>1 DEF AgentInv, EnvOK, LeftOver
  <2>3. e # s
    BY <1>4, <1>2, <2>2 DEF AgentInv, LiveInv, DeviceInv, DeviceTypeOK, LeftOver
  <2>4. \A p \in Pid : ~Runs(p, e)' BY <1>2, <2>2 DEF LeftOver, Runs
  <2>5. ASSUME LiveTop(sessions', e) PROVE Named(x)' = e /\ posts'[t] # <<>>
    <3>1. LiveTop(sessions, e) /\ Named(x) = e /\ posts[t] # <<>>
      BY <1>6, <2>1, <2>2, <2>3, <2>5 DEF LeftOver
    <3>2. x # q
      <4> SUFFICES ASSUME x = q PROVE FALSE
        OBVIOUS
      <4>1. e # None /\ Alive(q) BY <2>1, RunsAlive DEF ConstantsAssumption
      <4>2. m.source = "clear" /\ ~Known(s) BY <1>4, <1>a, <2>3, <3>1, <4>1
      <4>. QED BY <1>6, <2>3, <2>5, <3>1, <4>1, <4>2
    <3>3. t # s BY <2>1, <3>1, <1>2, <3>2 DEF AgentInv, LiveInv, RunsOK, StartPending, q
    <3>. QED BY <1>5, <1>6, <2>1, <2>5, <3>1, <3>2, <3>3
  <2>. QED BY <1>5, <2>1, <2>2, <2>3, <2>4, <2>5 DEF LeftOver
<1>10. ASSUME Undisturbed PROVE Followed'
  <2> SUFFICES ASSUME NEW x \in Pid, NEW t \in Session, Runs(x, t), links[x] # 0,
                      posts'[t] = <<>>
               PROVE  conns'[links[x]].session = t
    BY <1>2 DEF Followed, Runs
  <2>1. links[x] \in Conn /\ Alive(x) /\ conns[links[x]].open /\ conns[links[x]].pid = x
    BY DEF AgentInv, LiveInv, DeviceInv, DeviceTypeOK, Conn, HeldOK
  <2>2. CASE t = s
    BY <1>2, <1>4, <2>2, <1>10, <2>1, <1>3 DEF AgentInv, LiveInv, RunsOK, StartPending, q,
       NoUpdates, Undisturbed
  <2>3. CASE t # s BY <1>5, <1>10, <2>3, <1>4, <2>1, <1>3 DEF AgentInv, Followed, Runs
  <2>. QED BY <2>2, <2>3
<1>. QED BY <1>2, <1>7, <1>8, <1>9, <1>10 DEF AgentInv, Undisturbed

LEMMA EndAgents ==
  ASSUME ConstantsAssumption, DeviceAssumption, AgentInv, LiveInv', NEW s \in Session,
         Deliver(s), Head(posts[s]) \in EndPost
  PROVE  AgentInv'
<1>0. /\ posts[s] # <<>> /\ posts[s] \in Seq(Post) /\ used \in Used
      /\ Head(posts[s]) = posts[s][1] /\ 1 \in DOMAIN posts[s]
  BY DEF Deliver, AgentInv, LiveInv, DeviceInv, DeviceTypeOK
<1>a. PICK m \in EndPost : m = posts[s][1] BY <1>0
<1>1. /\ posts' = [posts EXCEPT ![s] = Tail(@)] /\ HookEnd(m)
      /\ UNCHANGED <<situation, procs, links, answers, unsaid, conns>>
      /\ used'.pids = used.pids /\ used'.sessions = used.sessions
  BY <1>0, <1>a, PostKinds DEF Deliver, Used, HookEnd
<1>2. m.session = s /\ m.host = Device /\ m.pid \in Pid
  BY <1>0, <1>a DEF AgentInv, LiveInv, PostsOK, Used
<1>3. EndLeaves(m) BY <1>1, <1>2, EndEffect DEF AgentInv, LiveInv, DeviceInv, HookEnd
<1>4. /\ \A t \in Session \ {s} : posts'[t] = posts[t]
      /\ \A t \in Session : \A i \in DOMAIN posts'[t] :
           \E j \in DOMAIN posts[t] : posts'[t][i] = posts[t][j]
  BY <1>0, <1>1, PostsLeft DEF AgentInv
<1>5. \A x \in Pid : ~Runs(x, s)
  BY <1>0, <1>a, PostKinds DEF AgentInv, LiveInv, RunsOK, StartPending
<1>6. HeldOK' /\ NoUpdates' BY <1>1 DEF AgentInv, HeldOK, NoUpdates, Alive
<1>7. ASSUME Undisturbed PROVE EnvOK'
  <2> SUFFICES ASSUME NEW x \in Pid, NEW t \in Session, Runs(x, t)', NEW e,
                      e = procs'[x].env, e # t
               PROVE  LeftOver(x, t, e)'
    BY DEF EnvOK, LeftOver
  <2>1. Runs(x, t) /\ e = procs[x].env /\ e \in Session
    BY <1>1 DEF Runs, AgentInv, LiveInv, RunsOK, DeviceInv, DeviceTypeOK, Used
  <2>2. LeftOver(x, t, e) BY <1>7, <2>1 DEF AgentInv, EnvOK, LeftOver
  <2>3. \A p \in Pid : ~Runs(p, e)' BY <1>1, <2>2 DEF LeftOver, Runs
  <2>4. \A i \in DOMAIN posts'[e] : posts'[e][i] \notin StartPost
    BY <1>4, <2>1, <2>2 DEF LeftOver
  <2>5. ASSUME LiveTop(sessions', e) PROVE Named(x)' = e /\ posts'[t] # <<>>
    BY <1>3, <2>1, <2>2, <2>5, <1>4, <1>5 DEF LeftOver, EndLeaves, Key, DeviceAssumption, Named
  <2>. QED BY <2>3, <2>4, <2>5 DEF LeftOver
<1>8. ASSUME Undisturbed PROVE Followed'
  <2> SUFFICES ASSUME NEW x \in Pid, NEW t \in Session, Runs(x, t), links[x] # 0,
                      posts'[t] = <<>>
               PROVE  conns[links[x]].session = t
    BY <1>1 DEF Followed, Runs
  <2>1. t # s BY <1>5
  <2>. QED BY <1>4, <1>8, <2>1 DEF AgentInv, Followed
<1>. QED BY <1>1, <1>6, <1>7, <1>8 DEF AgentInv, Undisturbed

LEMMA RegistrationAgents ==
  ASSUME ConstantsAssumption, DeviceAssumption, AgentInv, LiveInv', NEW q \in Pid, NEW c \in Conn,
         LinkUp(q, c) \/ AnswerLost(q, c)
  PROVE  AgentInv'
<1> DEFINE env == procs[q].env
           own == AgentSession(env, Device, q)
           new == [ open |-> TRUE, session |-> own, host |-> Device, pid |-> q,
                    leaving |-> FALSE ]
<1>1. /\ Alive(q) /\ links[q] = 0 /\ c = used.links + 1
      /\ UNCHANGED <<vars, situation, procs, posts, answers>>
      /\ used' = [used EXCEPT !.links = c]
      /\ conns' = [conns EXCEPT ![c] = new]
      /\ links' = [links EXCEPT ![q] = c] \/ links' = links
  BY DEF LinkUp, AnswerLost, Registers, AgentRegistered
<1>2. /\ conns \in [Conn -> Bound] /\ links \in [Pid -> 0 .. MaxConns] /\ used \in Used
      /\ MaxConns \in Nat /\ conns[c] = Closed /\ ~Closed.open /\ c \in Nat
  <2>1. c > used.links BY <1>1 DEF AgentInv, LiveInv, DeviceInv, DeviceTypeOK, Used
  <2>. QED BY <2>1, MaxConnsAssumption DEF AgentInv, LiveInv, DeviceInv, DeviceTypeOK, LinksOK,
              LinkTypeOK, LinksInOrder, Closed, Conn
<1>3. PICK s \in Session : Runs(q, s)
  BY <1>1, AliveRuns DEF Runs, AgentInv, LiveInv, DeviceInv
<1>4. /\ q \in used.pids /\ env \in used.sessions
      /\ posts[s] = <<>> => Handled(q, s)
  BY <1>3 DEF AgentInv, LiveInv, RunsOK
<1>5. own \in used.sessions
  <2>1. \A x \in Session : LiveTop(sessions, x) => x \in used.sessions
    BY DEF LiveTop, Running, AgentInv, LiveInv, UnusedOK, Known
  <2>2. <<Device, q>> \in Key /\ pids \in [Key -> Session \union {None}]
    BY DEF Key, DeviceAssumption, AgentInv, LiveInv, DeviceInv, IInv, TypeOK
  <2> HIDE DEF env
  <2>. QED BY <1>4, <2>1, <2>2 DEF AgentSession, LiveSessionOfPid
<1>6. ASSUME Undisturbed, posts[s] = <<>> PROVE own = s
  BY <1>4, <1>6, <1>3 DEF Handled, LiveSessionOfPid, Named, ConstantsAssumption, AgentInv, EnvOK,
     AgentSession
<1>7. \A d \in Conn : conns[d].open => d < c /\ d # c
  BY <1>1, <1>2 DEF AgentInv, LiveInv, DeviceInv, LinksInOrder, Conn, Used
<1> HIDE DEF own
<1>8. /\ conns'[c] = new /\ \A d \in Conn \ {c} : conns'[d] = conns[d]
      /\ new.open /\ new.host = Device /\ new.pid = q /\ new.session = own /\ ~new.leaving
      /\ used'.pids = used.pids /\ used'.sessions = used.sessions
  BY <1>1, <1>2 DEF Used
<1> HIDE DEF new, env
<1>9. HeldOK'
  <2>1. ASSUME NEW x \in Pid, links'[x] # 0
        PROVE  Alive(x)' /\ conns'[links'[x]].open /\ conns'[links'[x]].pid = x
    <3>1. CASE x = q /\ links'[q] = c BY <1>1, <1>8, <3>1 DEF Alive
    <3>2. CASE links'[x] = links[x]
      BY <1>2, <2>1, <3>2, <1>1, <1>7, <1>8 DEF Conn, AgentInv, HeldOK, Alive
    <3>. QED BY <1>1, <1>2, <3>1, <3>2
  <2>2. ASSUME NEW d \in Conn, conns'[d].open
        PROVE  /\ conns'[d].host = Device /\ conns'[d].pid \in used'.pids
               /\ conns'[d].session \in used'.sessions
               /\ links'[conns'[d].pid] # 0 => d <= links'[conns'[d].pid]
    <3>1. CASE d = c BY <1>1, <1>2, <1>4, <1>5, <1>8, <3>1
    <3>2. CASE d # c
      <4>1. /\ conns'[d] = conns[d] /\ conns[d].open /\ conns[d].host = Device
            /\ conns[d].pid \in used.pids
            /\ conns[d].session \in used.sessions
            /\ links[conns[d].pid] # 0 => d <= links[conns[d].pid]
        BY <1>8, <2>2, <3>2 DEF AgentInv, HeldOK
      <4>2. PICK x \in Pid : x = conns[d].pid BY <1>2, <4>1 DEF Used
      <4>3. links'[x] # 0 => d <= links'[x]
        <5>1. d \in Nat /\ d < c BY <1>7, <4>1 DEF Conn
        <5>. QED BY <1>1, <1>2, <4>1, <4>2, <5>1
      <4>. QED BY <1>8, <4>1, <4>2, <4>3
    <3>. QED BY <3>1, <3>2
  <2>. QED BY <2>1, <2>2 DEF HeldOK
<1>10. NoUpdates' BY <1>1, <1>8 DEF AgentInv, NoUpdates
<1>11. Undisturbed => EnvOK' BY <1>1 DEF AgentInv, EnvOK, Runs, vars, Named
<1>12. ASSUME Undisturbed PROVE Followed'
  <2> SUFFICES ASSUME NEW x \in Pid, NEW t \in Session, Runs(x, t), links'[x] # 0,
                      posts[t] = <<>>
               PROVE  conns'[links'[x]].session = t
    BY <1>1 DEF Followed, Runs
  <2>1. CASE x = q /\ links'[q] = c BY <1>3, <2>1, <1>6, <1>8, <1>12 DEF Runs
  <2>2. CASE links'[x] = links[x]
    BY <1>2, <2>2, <1>12, <1>7, <1>8 DEF Conn, AgentInv, HeldOK, Followed
  <2>. QED BY <1>1, <1>2, <2>1, <2>2
<1>. QED BY <1>1, <1>9, <1>10, <1>11, <1>12 DEF AgentInv, Undisturbed

(* Steps that leave posts, processes and the registry alone, and of links  *)
(* close only ones no agent has.                                           *)
LEMMA LinksFewer ==
  ASSUME AgentInv, LiveInv', UNCHANGED <<vars, procs, posts, used, situation>>,
         \A q \in Pid : links'[q] \in {0, links[q]},
         \A c \in Conn :
           /\ conns'[c].open => /\ conns[c].open /\ conns'[c].session = conns[c].session
                                /\ conns'[c].host = conns[c].host /\ conns'[c].pid = conns[c].pid
           /\ (\E q \in Pid : links'[q] = c) /\ conns[c].open => conns'[c].open,
         NoUpdates'
  PROVE  AgentInv'
<1>1. \A q \in Pid : links'[q] # 0 =>
        /\ links'[q] = links[q] /\ links[q] \in Conn
        /\ Alive(q) /\ conns[links[q]].open /\ conns[links[q]].pid = q
  BY DEF AgentInv, LiveInv, DeviceInv, DeviceTypeOK, Conn, HeldOK
<1>2. \A q \in Pid : links'[q] # 0 => conns'[links[q]].open BY <1>1
<1>3. HeldOK'
  <2>1. ASSUME NEW d \in Conn, conns'[d].open
        PROVE  /\ conns'[d].host = Device /\ conns'[d].pid \in used'.pids
               /\ conns'[d].session \in used'.sessions
               /\ links'[conns'[d].pid] # 0 => d <= links'[conns'[d].pid]
    BY <2>1, <1>1 DEF AgentInv, HeldOK, LiveInv, DeviceInv, DeviceTypeOK, Used
  <2>2. \A q \in Pid : links'[q] # 0 =>
          Alive(q)' /\ conns'[links'[q]].open /\ conns'[links'[q]].pid = q
    BY <1>1, <1>2 DEF Alive
  <2>. QED BY <2>1, <2>2 DEF HeldOK
<1>4. Undisturbed => EnvOK' BY DEF AgentInv, EnvOK, Runs, vars, Named
<1>5. ASSUME Undisturbed PROVE Followed' BY <1>1, <1>2, <1>5 DEF AgentInv, Followed, Runs
<1>. QED BY <1>3, <1>4, <1>5 DEF AgentInv, Undisturbed

(* The registry alone moves on: timers, a list that is lost.               *)
LEMMA AgentsAlone ==
  ASSUME AgentInv, LiveInv',
         UNCHANGED <<sessions, pids, procs, used, situation, links, conns, answers>>,
         \A s \in Session : /\ DOMAIN posts'[s] = DOMAIN posts[s]
                            /\ posts'[s] = <<>> <=> posts[s] = <<>>
                            /\ \A i \in DOMAIN posts[s] :
                                 posts'[s][i] \in StartPost => posts[s][i] \in StartPost
  PROVE  AgentInv'
<1>1. HeldOK' /\ NoUpdates' BY DEF AgentInv, HeldOK, NoUpdates, Alive
<1>2. ASSUME Undisturbed PROVE EnvOK'
  BY <1>2 DEF AgentInv, LiveInv, RunsOK, DeviceInv, DeviceTypeOK, Used, EnvOK, Runs, Named
<1>3. Undisturbed => Followed' BY DEF AgentInv, Followed, Runs
<1>. QED BY <1>1, <1>2, <1>3 DEF AgentInv, Undisturbed

LEMMA AgentInitHolds ==
  ASSUME ConstantsAssumption, DeviceIsNew, DeviceInit
  PROVE  AgentInv
<1>1. LiveInv BY LiveInitHolds
<1>2. \A q \in Pid : links[q] = 0 /\ \A s \in Session : ~Runs(q, s)
  BY DEF DeviceInit, Runs, NoProcess, ConstantsAssumption
<1>3. \A c \in Conn : conns[c] = Closed /\ ~Closed.open /\ ~Closed.leaving /\ answers[c] = None
  BY DEF DeviceInit, NoLinks, Closed
<1>. QED BY <1>1, <1>2, <1>3 DEF AgentInv, HeldOK, NoUpdates, EnvOK, Followed

LEMMA AgentStepKeeps ==
  ASSUME ConstantsAssumption, DeviceAssumption, AgentInv, [DeviceNext]_allVars
  PROVE  AgentInv'
<1>0. /\ LiveInv' /\ conns \in [Conn -> Bound] /\ links \in [Pid -> 0 .. MaxConns]
      /\ answers \in [Conn -> Session \union {None}] /\ posts \in [Session -> Seq(Post)]
  BY LiveStepKeeps DEF AgentInv, LiveInv, DeviceInv, DeviceTypeOK, LinksOK, LinkTypeOK
<1>1. ASSUME NEW q \in Pid, ProcessStep(q) PROVE AgentInv'
  BY <1>0, <1>1, ProcessHeld, ProcessEnv DEF AgentInv
<1>2. ASSUME NEW s \in Session, Deliver(s) PROVE AgentInv'
  BY <1>0, <1>2, StartAgents, EndAgents DEF Deliver
<1>3. ASSUME NEW s \in Session, NEW i \in 1 .. MaxPosts, Spool(s, i) PROVE AgentInv'
  BY <1>3, <1>0, KeptIsSame, AgentsAlone DEF Spool, Kept, vars, linkVars
<1>4. CASE (\E s \in Session : GraceEnds(s)) \/ (\E key \in Key : HandoffEnds(key))
  BY <1>4, <1>0, AgentsAlone DEF GraceEnds, HandoffEnds, GraceOver, HandoffOver, deviceVars,
     linkVars
<1>5. CASE HubStopsAndStarts
  <2>1. /\ links' = [q \in Pid |-> 0] /\ answers' = [c \in Conn |-> None]
        /\ conns' = [c \in Conn |-> Closed] /\ UNCHANGED <<situation, procs, used>>
        /\ Restart
        /\ posts' = [ s \in Session |->
                       [ i \in DOMAIN posts[s] |-> [posts[s][i] EXCEPT !.live = Pid] ]]
    BY <1>5 DEF HubStopsAndStarts, HubRestart
  <2>2. sessions' = sessions /\ pids' = pids
    BY <2>1, NothingToHeal DEF AgentInv, LiveInv, DeviceInv, Restart
  <2>3. HeldOK' /\ NoUpdates' BY <2>1 DEF HeldOK, NoUpdates, Closed
  <2>4. Followed' BY <2>1 DEF Followed
  <2>5. \A s \in Session : /\ DOMAIN posts'[s] = DOMAIN posts[s]
                           /\ \A i \in DOMAIN posts[s] : posts'[s][i] = Kept(posts[s][i])
    BY <2>1 DEF Kept
  <2>6. \A s \in Session : posts[s] # <<>> => posts'[s] # <<>> BY <1>0, <2>5
  <2>7. \A s \in Session : \A i \in DOMAIN posts'[s] :
          posts'[s][i] \in StartPost => posts[s][i] \in StartPost
    BY <1>0, <2>5, KeptIsSame
  <2>8. \A q \in Pid : \A s \in Session : Runs(q, s) => procs[q].env \in Session
    BY DEF AgentInv, LiveInv, RunsOK, DeviceInv, DeviceTypeOK, Used
  <2>9. ASSUME Undisturbed PROVE EnvOK'
    <3> SUFFICES ASSUME NEW x \in Pid, NEW t \in Session, Runs(x, t), NEW e \in Session,
                        e = procs[x].env, e # t
                 PROVE  LeftOver(x, t, e)'
      BY <2>1, <2>8 DEF EnvOK, LeftOver, Runs
    <3>1. LeftOver(x, t, e) BY <2>9 DEF AgentInv, EnvOK, LeftOver
    <3>. QED BY <2>1, <2>2, <2>5, <2>6, <2>7, <3>1 DEF LeftOver, Runs, Named
  <2>. QED BY <1>0, <2>1, <2>3, <2>4, <2>9 DEF AgentInv, Undisturbed
<1>6. ASSUME NEW q \in Pid, LinkLost(q) PROVE AgentInv'
  BY <1>6, <1>0, LinksFewer DEF LinkLost, AgentInv, NoUpdates, linkVars
<1>7. ASSUME NEW q \in Pid, AnswerRead(q) PROVE AgentInv'
  BY <1>7, <1>0, LinksFewer DEF AnswerRead, NoUpdates, linkVars
<1>8. ASSUME NEW c \in Conn, LossNoticed(c) PROVE AgentInv'
  BY <1>8, <1>0, LinksFewer DEF LossNoticed, AgentDisconnected, LinkGone, Closed, AgentInv,
     NoUpdates
<1>9. ASSUME NEW c \in Conn, AnswerHandled(c) PROVE AgentInv'
  <2>1. /\ UNCHANGED <<situation, procs, posts, links, used, unsaid, vars>>
        /\ answers[c] # None
    BY <1>9 DEF AnswerHandled, AgentLeaves, AgentStays
  <2>2. PICK v \in BOOLEAN : conns' = [conns EXCEPT ![c].leaving = v]
    BY <1>9 DEF AnswerHandled, AgentLeaves, AgentStays
  <2>3. NoUpdates' BY <2>1 DEF AgentInv, NoUpdates
  <2>4. \A d \in Conn : /\ conns'[d].open = conns[d].open /\ conns'[d].session = conns[d].session
                        /\ conns'[d].host = conns[d].host /\ conns'[d].pid = conns[d].pid
    BY <1>0, <2>2 DEF Bound
  <2>. QED BY <1>0, <2>1, <2>3, <2>4, LinksFewer
<1>10. ASSUME NEW c \in Conn, NEW q \in Pid, LinkUp(q, c) \/ AnswerLost(q, c)
       PROVE  AgentInv'
  BY <1>0, <1>10, RegistrationAgents
<1>11. CASE UNCHANGED allVars
  BY <1>0, <1>11, AgentsAlone DEF allVars, deviceVars, vars, linkVars
<1>. QED BY <1>1, <1>2, <1>3, <1>4, <1>5, <1>6, <1>7, <1>8, <1>9, <1>10, <1>11 DEF DeviceNext

(* AgentInv is inductive, for a device the hub meets for the first time.   *)
THEOREM AgentInvariance == DeviceIsNew => (DeviceSpec => []AgentInv)
<1>1. DeviceIsNew /\ DeviceInit => AgentInv BY ConstantsAssumption, AgentInitHolds
<1>2. AgentInv /\ [DeviceNext]_allVars => AgentInv'
  BY ConstantsAssumption, DeviceAssumption, AgentStepKeeps
<1>. QED BY <1>1, <1>2, PTL DEF DeviceSpec

(* Where no process resumes what a live one left, what is written in the   *)
(* topic of a live process goes to the agent of that very process.         *)
THEOREM OwnAgentServes ==
  DeviceIsNew => (DeviceSpec => []("resume left" \notin situation => ServedByOwnAgent))
<1>1. AgentInv => ("resume left" \notin situation => ServedByOwnAgent)
  <2> SUFFICES ASSUME AgentInv, Undisturbed, LinksSettled, NEW q \in Pid, Alive(q), NEW s,
                      s = procs[q].session, agent[s] \notin unsaid \union {0}
               PROVE  conns[agent[s]].pid = q
    BY DEF ServedByOwnAgent, Undisturbed
  <2>1. s \in Session /\ Runs(q, s) BY AliveRuns DEF AgentInv, LiveInv, DeviceInv, Runs
  <2>2. PICK d \in Conn : d = agent[s]
    BY <2>1 DEF AgentInv, LiveInv, DeviceInv, LinksOK, LinkTypeOK, Conn
  <2>3. conns[d].open /\ conns[d].session = s
    BY <2>1, <2>2 DEF AgentInv, LiveInv, DeviceInv, LinksOK, LinksOwn, BoundIsOwn
  <2>4. PICK x \in Pid : links[x] = d BY <2>2, <2>3 DEF LinksSettled
  <2>5. Alive(x) /\ links[x] # 0 /\ conns[d].pid = x BY <2>2, <2>4 DEF AgentInv, HeldOK
  <2>6. PICK t \in Session : Runs(x, t)
    BY <2>5, AliveRuns DEF AgentInv, LiveInv, DeviceInv, Runs
  <2>7. t = s BY <2>3, <2>4, <2>5, <2>6 DEF AgentInv, Followed, LinksSettled, Settled
  <2>8. x = q BY <2>1, <2>6, <2>7 DEF AgentInv, LiveInv, RunsOK
  <2>. QED BY <2>2, <2>5, <2>8
<1>. QED BY <1>1, AgentInvariance, PTL

----------------------------------------------------------------------------
(* The links of live processes serve.                                      *)

(* What LiveIsServed is about: restarts and lost answers only.             *)
Plain == situation \subseteq {"hub stops", "answers lost"}

(* A process's first start finds its links waiting for it, a later one     *)
(* finds them all elsewhere.                                               *)
FirstStart ==
  \A s \in Session : \A q \in Pid : StartPending(s, q) =>
    /\ Alive(q) => (procs[q].env = s <=> posts[s][1].source = "startup")
    /\ \A d \in Conn : conns[d].open /\ conns[d].pid = q =>
         (conns[d].session = s <=> posts[s][1].source = "startup")

(* A link at its process's session serves it, or waits for its start.      *)
Served ==
  \A q \in Pid : \A s \in Session :
    Runs(q, s) /\ links[q] \notin used.robbed \union {0} /\ conns[links[q]].session = s =>
      links[q] \in {agent[s], pending[s]}

ServedInv ==
  /\ AgentInv
  /\ Plain => FirstStart /\ Served

LEMMA PlainIs ==
  ASSUME AgentInv, Plain
  PROVE  /\ Undisturbed /\ "compacts" \notin situation /\ EnvOK /\ Followed
         /\ \A c \in Conn : answers[c] = None /\ ~conns[c].leaving
BY DEF Plain, Undisturbed, AgentInv, NoUpdates

LEMMA ProcessServed ==
  ASSUME ConstantsAssumption, DeviceAssumption, ServedInv, AgentInv', Plain, NEW p \in Pid,
         ProcessStep(p)
  PROVE  FirstStart' /\ Served'
<1>1. /\ UNCHANGED vars /\ conns' = conns /\ answers' = answers /\ situation' = situation
      /\ \A x \in Pid \ {p} : procs'[x] = procs[x]
      /\ \A x \in Pid : links'[x] # 0 => links'[x] = links[x] /\ (Alive(x) => Alive(x)')
  BY ProcessMoves DEF ServedInv, AgentInv
<1>2. /\ procs \in [Pid -> Process \union {NoProcess}]
      /\ posts \in [Session -> Seq(Post)] /\ links \in [Pid -> 0 .. MaxConns]
      /\ used \in Used
  BY DEF ServedInv, AgentInv, LiveInv, DeviceInv, DeviceTypeOK
<1>3. FirstStart /\ Served /\ AgentInv /\ Undisturbed /\ "compacts" \notin situation
  BY PlainIs DEF ServedInv
<1>4. used'.robbed = used.robbed /\ agent' = agent /\ pending' = pending
  BY <1>2 DEF ProcessStep, Launch, Clear, Exit, Compact, Kill, linkVars, Used
<1>5. \A x \in Pid : links[x] # 0 => /\ links[x] \in Conn /\ Alive(x)
                                     /\ conns[links[x]].session \in used.sessions
  BY <1>2, <1>3 DEF Conn, AgentInv, HeldOK
<1>6. ASSUME NEW t \in Session, links'[p] # 0, Runs(p, t)', ~Runs(p, t)
      PROVE  conns[links[p]].session # t
  <2>1. links[p] # 0 /\ Alive(p) BY <1>1, <1>5, <1>6
  <2>2. PICK n \in Session : Clear(p, n)
    BY <2>1, <1>2, <1>6, <1>3 DEF Launch, Exit, Kill, Runs, NoProcess, ConstantsAssumption,
       Compact, ProcessStep
  <2>3. t = n BY <1>2, <1>6, <2>1, <2>2 DEF Clear, Runs, Process, Alive
  <2>. QED BY <1>5, <2>1, <2>2, <2>3 DEF Clear
<1>7. Served'
  <2> SUFFICES ASSUME NEW x \in Pid, NEW t \in Session, Runs(x, t)',
                      links'[x] \notin used'.robbed \union {0}, conns'[links'[x]].session = t
               PROVE  links'[x] \in {agent'[t], pending'[t]}
    BY DEF Served
  <2>1. Runs(x, t) /\ links'[x] = links[x] BY <1>1, <1>6 DEF Runs
  <2>. QED BY <1>1, <1>3, <1>4, <2>1 DEF Served
<1>8. ASSUME NEW t \in Session, NEW x \in Pid, StartPending(t, x), posts'[t][1] = posts[t][1],
             Alive(x)' => procs'[x].env = procs[x].env /\ Alive(x)
      PROVE  /\ Alive(x)' => (procs'[x].env = t <=> posts'[t][1].source = "startup")
             /\ \A d \in Conn : conns'[d].open /\ conns'[d].pid = x =>
                  (conns'[d].session = t <=> posts'[t][1].source = "startup")
  BY <1>1, <1>3, <1>8 DEF FirstStart
<1>9. ASSUME NEW n \in Session, Launch(p, n) PROVE FirstStart'
  <2> DEFINE m == StartOf(n, p, "startup", LivePids \union {p})
  <2>1. /\ procs' = [procs EXCEPT ![p] = [session |-> n, env |-> n]]
        /\ posts' = [posts EXCEPT ![n] = Append(@, m)] /\ posts[n] = <<>>
        /\ p \notin used.pids
    BY <1>9 DEF Launch
  <2>2. m.pid = p /\ m.source = "startup" BY PostFields
  <2> HIDE DEF m
  <2>3. posts'[n] = <<m>> /\ posts'[n][1] = m /\ \A t \in Session \ {n} : posts'[t] = posts[t]
    BY <1>2, <2>1, OnePost
  <2>4. \A d \in Conn : conns[d].open => conns[d].pid # p
    BY <2>1, <1>3 DEF AgentInv, HeldOK
  <2> SUFFICES ASSUME NEW t \in Session, NEW x \in Pid, StartPending(t, x)'
               PROVE  /\ Alive(x)' => (procs'[x].env = t <=> posts'[t][1].source = "startup")
                      /\ \A d \in Conn : conns'[d].open /\ conns'[d].pid = x =>
                           (conns'[d].session = t <=> posts'[t][1].source = "startup")
    BY DEF FirstStart
  <2>5. CASE t = n BY <1>1, <1>2, <2>1, <2>2, <2>3, <2>4, <2>5 DEF StartPending
  <2>6. CASE t # n
    BY <2>3, <2>6, <1>2, <1>3, <2>1, <1>1, <1>8 DEF StartPending, AgentInv, LiveInv, PostsOK,
       Alive
  <2>. QED BY <2>5, <2>6
<1>10. ASSUME NEW n \in Session, Clear(p, n) PROVE FirstStart'
  <2>1. PICK o \in Session : o = procs[p].session
    BY <1>10, AliveRuns DEF Clear, ServedInv, AgentInv, LiveInv, DeviceInv
  <2>2. Runs(p, o) /\ posts[o] = <<>> /\ n \notin used.sessions /\ Alive(p)
    BY <1>10, <2>1 DEF Clear, Runs
  <2>3. PICK a \in EndPost : a = EndOf(o, p, "clear", LivePids)
    BY <2>2, EndOfIsPost DEF LivePids
  <2> DEFINE m == StartOf(n, p, "clear", LivePids)
  <2>4. /\ posts' = [posts EXCEPT ![o] = Append(@, a), ![n] = Append(@, m)]
        /\ procs' = [procs EXCEPT ![p].session = n]
    BY <1>10, <2>1, <2>3 DEF Clear
  <2>5. m.pid = p /\ m.source = "clear" BY PostFields
  <2> HIDE DEF m
  <2>6. /\ procs[p].env \in used.sessions /\ o # n /\ posts[n] = <<>>
        /\ procs'[p].env = procs[p].env
    BY <1>2, <2>2, <1>3, <2>4 DEF Alive, AgentInv, LiveInv, RunsOK, UnusedOK, Process
  <2>7. /\ posts'[n][1] = m /\ posts'[o][1] = a
        /\ \A t \in Session \ {n, o} : posts'[t] = posts[t]
    BY <1>2, <2>2, <2>4, <2>6, OnePost
  <2>8. \A d \in Conn : conns[d].open => conns[d].session # n
    BY <2>2, <1>3 DEF AgentInv, HeldOK
  <2> SUFFICES ASSUME NEW t \in Session, NEW x \in Pid, StartPending(t, x)'
               PROVE  /\ Alive(x)' => (procs'[x].env = t <=> posts'[t][1].source = "startup")
                      /\ \A d \in Conn : conns'[d].open /\ conns'[d].pid = x =>
                           (conns'[d].session = t <=> posts'[t][1].source = "startup")
    BY DEF FirstStart
  <2>9. t # o BY <2>7, PostKinds DEF StartPending
  <2>10. CASE t = n BY <1>1, <2>2, <2>5, <2>6, <2>7, <2>8, <2>10 DEF StartPending
  <2>11. CASE t # n
    BY <2>7, <2>9, <2>11, <1>3, <2>2, <1>1, <1>8 DEF StartPending, AgentInv, LiveInv, StartsOK,
       Runs, Alive
  <2>. QED BY <2>10, <2>11
<1>11. ASSUME Exit(p) PROVE FirstStart'
  <2>1. PICK o \in Session : o = procs[p].session
    BY <1>11, AliveRuns DEF Exit, ServedInv, AgentInv, LiveInv, DeviceInv
  <2>2. PICK a \in EndPost : a = EndOf(o, p, "other", LivePids)
    BY <1>11, <2>1, EndOfIsPost DEF LivePids, Exit
  <2>3. /\ posts' = [posts EXCEPT ![o] = Append(@, a)]
        /\ procs' = [procs EXCEPT ![p] = NoProcess]
    BY <1>11, <2>1, <2>2 DEF Exit
  <2>4. /\ \A t \in Session \ {o} : posts'[t] = posts[t]
        /\ posts[o] # <<>> => posts'[o][1] = posts[o][1]
        /\ posts[o] = <<>> => posts'[o][1] = a
    BY <1>2, <2>3
  <2>5. ASSUME NEW t \in Session, NEW x \in Pid, StartPending(t, x)'
        PROVE  StartPending(t, x) /\ posts'[t][1] = posts[t][1]
    BY <2>4, <2>5, PostKinds DEF StartPending
  <2>6. \A x \in Pid : Alive(x)' => procs'[x].env = procs[x].env /\ Alive(x)
    BY <1>2, <2>3 DEF Alive
  <2>. QED BY <1>8, <2>5, <2>6 DEF FirstStart
<1>12. ASSUME Kill(p) PROVE FirstStart'
  BY <1>12, <1>2, <1>8 DEF Kill, Alive, FirstStart, StartPending
<1>13. ~Compact(p) BY <1>3 DEF Compact
<1>14. FirstStart' BY <1>9, <1>10, <1>11, <1>12, <1>13 DEF ProcessStep
<1>. QED BY <1>7, <1>14

(* The session an agent registers under is no other live process's.        *)
LEMMA RegistersOwn ==
  ASSUME ConstantsAssumption, AgentInv, Plain, NEW q \in Pid, NEW s \in Session, Runs(q, s),
         NEW x \in Pid, x # q, NEW t \in Session, Runs(x, t)
  PROVE  AgentSession(procs[q].env, Device, q) # t
<1>1. EnvOK BY PlainIs
<1>2. procs[q].env # t BY <1>1 DEF AgentInv, LiveInv, RunsOK, EnvOK
<1>3. LiveSessionOfPid(sessions, pids, Device, q) \in {None, Named(q)}
  BY DEF LiveSessionOfPid, Named
<1>4. Named(q) # t
  BY PostKinds DEF AgentInv, LiveInv, RunsOK, Handled, StartPending, StartPost, EndPending,
     ConstantsAssumption, StartsOK
<1>5. t # None BY DEF ConstantsAssumption
<1>. QED BY <1>2, <1>3, <1>4, <1>5 DEF AgentSession

LEMMA RegistrationServed ==
  ASSUME ConstantsAssumption, DeviceAssumption, ServedInv, AgentInv', Plain, NEW q \in Pid,
         NEW c \in Conn, LinkUp(q, c) \/ AnswerLost(q, c)
  PROVE  FirstStart' /\ Served'
<1> DEFINE env == procs[q].env
           own == AgentSession(env, Device, q)
           new == [ open |-> TRUE, session |-> own, host |-> Device, pid |-> q,
                    leaving |-> FALSE ]
<1>1. /\ Alive(q) /\ links[q] = 0 /\ c = used.links + 1
      /\ UNCHANGED <<vars, situation, procs, posts, answers>>
      /\ used' = [used EXCEPT !.links = c]
      /\ conns' = [conns EXCEPT ![c] = new]
      /\ links' = [links EXCEPT ![q] = c] \/ links' = links
      /\ \/ agent' = [agent EXCEPT ![own] = c] /\ pending' = pending
         \/ pending' = [pending EXCEPT ![own] = c] /\ agent' = agent
  BY DEF LinkUp, AnswerLost, Registers, AgentRegistered
<1>2. /\ conns \in [Conn -> Bound] /\ links \in [Pid -> 0 .. MaxConns] /\ used \in Used
      /\ agent \in [Session -> 0 .. MaxConns] /\ pending \in [Session -> 0 .. MaxConns]
      /\ used'.robbed = used.robbed
  BY <1>1 DEF ServedInv, AgentInv, LiveInv, DeviceInv, DeviceTypeOK, LinksOK, LinkTypeOK, Used
<1>3. PICK s \in Session : Runs(q, s)
  BY <1>1, AliveRuns DEF Runs, ServedInv, AgentInv, LiveInv, DeviceInv
<1>4. /\ posts[s] = <<>> => Handled(q, s)
      /\ posts[s] # <<>> => StartPending(s, q)
      /\ \A x \in Pid : Runs(x, s) => x = q
      /\ \A t \in Session : Runs(q, t) => t = s
  BY <1>3 DEF ServedInv, AgentInv, LiveInv, RunsOK, Runs
<1>5. own \in Session
  <2>1. env \in Session BY <1>1, AliveRuns DEF ServedInv, AgentInv, LiveInv, DeviceInv
  <2>2. <<Device, q>> \in Key /\ pids \in [Key -> Session \union {None}]
    BY DEF Key, DeviceAssumption, ServedInv, AgentInv, LiveInv, DeviceInv, IInv, TypeOK
  <2> HIDE DEF env
  <2>. QED BY <2>1, <2>2 DEF AgentSession, LiveSessionOfPid
<1>6. \A x \in Pid \ {q} : \A t \in Session : Runs(x, t) => own # t
  BY <1>3, RegistersOwn DEF ServedInv
<1>7. ASSUME StartPending(s, q)
      PROVE  own = s <=> posts[s][1].source = "startup"
  <2>1. env = s <=> posts[s][1].source = "startup"
    BY <1>1, <1>7 DEF ServedInv, FirstStart
  <2>2. posts[s][1].source \in {"startup", "clear"} BY <1>7 DEF StartPending, StartPost
  <2>3. posts[s][1].source = "startup" => Named(q) \in {None, s}
    BY <1>7 DEF ServedInv, AgentInv, LiveInv, StartsOK
  <2>4. posts[s][1].source = "clear" => ~LiveTop(sessions, s)
    BY <1>7 DEF ServedInv, AgentInv, LiveInv, StartsOK, LiveTop, Running, Known
  <2>5. s # None BY DEF ConstantsAssumption
  <2>6. own = LiveSessionOfPid(sessions, pids, Device, q) \/ own = env
    BY DEF AgentSession
  <2> HIDE DEF env
  <2>7. CASE posts[s][1].source = "startup"
    BY <2>3, <2>7, <2>1 DEF LiveSessionOfPid, Named, AgentSession
  <2>8. CASE posts[s][1].source = "clear"
    BY <2>4, <2>5, <2>8, <2>1, <2>6 DEF LiveSessionOfPid
  <2>. QED BY <2>2, <2>7, <2>8
<1> HIDE DEF own, env
<1>8. /\ conns'[c] = new /\ \A d \in Conn \ {c} : conns'[d] = conns[d]
      /\ new.open /\ new.pid = q /\ new.session = own
      /\ agent'[own] = c \/ pending'[own] = c
      /\ \A t \in Session \ {own} : agent'[t] = agent[t] /\ pending'[t] = pending[t]
  BY <1>1, <1>2, <1>5
<1> HIDE DEF new
<1>9. FirstStart'
  <2> SUFFICES ASSUME NEW t \in Session, NEW x \in Pid, StartPending(t, x)
               PROVE  /\ Alive(x) => (procs[x].env = t <=> posts[t][1].source = "startup")
                      /\ \A d \in Conn : conns'[d].open /\ conns'[d].pid = x =>
                           (conns'[d].session = t <=> posts[t][1].source = "startup")
    BY <1>1 DEF FirstStart, StartPending, Alive
  <2>1. /\ Alive(x) => (procs[x].env = t <=> posts[t][1].source = "startup")
        /\ \A d \in Conn : conns[d].open /\ conns[d].pid = x =>
             (conns[d].session = t <=> posts[t][1].source = "startup")
    BY DEF ServedInv, FirstStart
  <2>2. x = q => t = s BY <1>1, <1>4 DEF ServedInv, AgentInv, LiveInv, StartsOK
  <2>3. conns'[c].pid = x => (conns'[c].session = t <=> posts[t][1].source = "startup")
    BY <1>7, <1>8, <2>2
  <2>. QED BY <1>8, <2>1, <2>3
<1>10. Served'
  <2> SUFFICES ASSUME NEW x \in Pid, NEW t \in Session, Runs(x, t), NEW d, d = links'[x],
                      d \notin used.robbed \union {0}, conns'[d].session = t
               PROVE  d \in {agent'[t], pending'[t]}
    BY <1>1, <1>2 DEF Served, Runs
  <2>1. CASE d = c /\ x = q BY <1>8, <2>1
  <2>2. CASE x # q
    <3>1. d = links[x] /\ d \in Conn BY <1>1, <1>2, <2>2 DEF Conn
    <3>2. conns[d].open BY <3>1 DEF ServedInv, AgentInv, HeldOK
    <3>3. conns[c] = Closed /\ ~Closed.open
      <4>1. c > used.links BY <1>1, <1>2 DEF Used
      <4>. QED BY <4>1 DEF ServedInv, AgentInv, LiveInv, DeviceInv, LinksInOrder, Closed
    <3>4. conns'[d] = conns[d] BY <1>8, <3>1, <3>2, <3>3
    <3>5. d \in {agent[t], pending[t]} BY <3>1, <3>4 DEF ServedInv, Served
    <3>. QED BY <1>6, <1>8, <2>2, <3>5
  <2>. QED BY <1>1, <1>2, <2>1, <2>2
<1>. QED BY <1>9, <1>10

(* A post of one session takes another's agent only with the link robbed.  *)
LEMMA NotRobbed ==
  ASSUME LinksOK', NEW s \in Session, NEW t \in Session, t # s, NEW c \in Conn,
         agent[t] = c, c \notin Robbed(s), conns'[c].session = t
  PROVE  agent'[t] = c
<1>1. c # 0 /\ c \in {agent[x] : x \in Session \ {s}} BY DEF Conn
<1>2. PICK x \in Session : agent'[x] = c BY <1>1 DEF Robbed
<1>3. x = t BY <1>1, <1>2 DEF LinksOK, LinksOwn, BoundIsOwn
<1>. QED BY <1>2, <1>3

LEMMA PendingStays ==
  ASSUME ServedInv, NEW s \in Session, NEW t \in Session, t # s
  PROVE  PendingAfter(s)[t] = pending[t]
BY DEF PendingAfter, ServedInv, AgentInv, LiveInv, DeviceInv, LinksOK, LinkTypeOK

LEMMA EndServed ==
  ASSUME ConstantsAssumption, DeviceAssumption, ServedInv, AgentInv', Plain, NEW s \in Session,
         Deliver(s), Head(posts[s]) \in EndPost
  PROVE  FirstStart' /\ Served'
<1>0. /\ posts[s] # <<>> /\ posts[s] \in Seq(Post) /\ used \in Used
      /\ Head(posts[s]) = posts[s][1] /\ 1 \in DOMAIN posts[s]
  BY DEF Deliver, ServedInv, AgentInv, LiveInv, DeviceInv, DeviceTypeOK
<1>a. PICK m \in EndPost : m = posts[s][1] BY <1>0
<1>1. /\ posts' = [posts EXCEPT ![s] = Tail(@)] /\ HookEnd(m)
      /\ UNCHANGED <<situation, procs, links, conns>>
      /\ used'.robbed = used.robbed \union Robbed(s)
  BY <1>0, <1>a, PostKinds DEF Deliver, Used, HookEnd
<1>2. m.session = s BY <1>0, <1>a DEF ServedInv, AgentInv, LiveInv, PostsOK
<1>3. pending' = PendingAfter(s) BY <1>1, <1>2 DEF HookEnd
<1>4. /\ \A t \in Session \ {s} : posts'[t] = posts[t]
      /\ \A x \in Pid : ~StartPending(s, x)'
      /\ \A t \in Session \ {s} : \A x \in Pid : StartPending(t, x)' <=> StartPending(t, x)
  BY <1>0, <1>1, PostsLeft DEF ServedInv, AgentInv
<1>5. \A x \in Pid : ~Runs(x, s)
  BY <1>0, <1>a, PostKinds DEF ServedInv, AgentInv, LiveInv, RunsOK, StartPending
<1>6. FirstStart' BY <1>1, <1>4 DEF ServedInv, FirstStart, Alive
<1>7. Served'
  <2> SUFFICES ASSUME NEW x \in Pid, NEW t \in Session, Runs(x, t), NEW c, c = links[x],
                      c \notin used.robbed \union {0}, c \notin Robbed(s),
                      conns[c].session = t
               PROVE  c \in {agent'[t], pending'[t]}
    BY <1>1 DEF Served, Runs
  <2>1. c \in {agent[t], pending[t]} /\ c \in Conn /\ t # s
    <3>1. c \in Conn BY DEF ServedInv, AgentInv, LiveInv, DeviceInv, DeviceTypeOK, Conn
    <3>. QED BY <1>5, <3>1 DEF ServedInv, Served
  <2>2. agent[t] = c => agent'[t] = c
    BY <1>1, <2>1, NotRobbed DEF AgentInv, LiveInv, DeviceInv
  <2>. QED BY <1>3, <2>1, <2>2, PendingStays
<1>. QED BY <1>6, <1>7

LEMMA StartServed ==
  ASSUME ConstantsAssumption, DeviceAssumption, ServedInv, AgentInv', Plain, NEW s \in Session,
         Deliver(s), Head(posts[s]) \in StartPost
  PROVE  FirstStart' /\ Served'
<1>1. PICK m \in StartPost : StartTaken(s, m) BY StartIsTaken DEF ServedInv, AgentInv
<1> DEFINE q == m.pid
           M == Movers(Device, q, s)
           left == AgentsLeft(m)
           ag == AgentsAfter(s, left)
           pe == PendingAfter(s)
           mv == Max(M)
           old == conns[mv].session
<1>2. /\ m = posts[s][1] /\ m.session = s /\ q \in Pid /\ StartPending(s, q)
      /\ UNCHANGED <<situation, procs, links, answers, unsaid>>
      /\ used'.robbed = used.robbed \union Robbed(s)
      /\ posts' = [posts EXCEPT ![s] = Tail(@)]
      /\ LiveTop(sessions', s) /\ Known(s)'
  BY <1>1 DEF StartTaken, Handled, LiveTop, Running, Known
<1>3. \A c \in Conn :
        \/ conns'[c] = conns[c]
        \/ /\ conns[c].open /\ conns'[c].open /\ conns[c].pid = q
           /\ conns'[c].pid = q /\ conns'[c].session = s
  BY <1>1, StartMovesOne DEF StartTaken, ServedInv, AgentInv
<1>4. /\ \A t \in Session \ {s} : posts'[t] = posts[t]
      /\ \A x \in Pid : ~StartPending(s, x)'
      /\ \A t \in Session \ {s} : \A x \in Pid : StartPending(t, x)' <=> StartPending(t, x)
  <2>1. posts[s] # <<>> /\ LiveInv BY <1>2 DEF ServedInv, AgentInv, StartPending
  <2>. QED BY <1>2, <2>1, PostsLeft
<1>5. /\ \A t \in Session : StartPending(t, q) => t = s
      /\ \A x \in Pid : Runs(x, s) => x = q
  BY <1>2 DEF ServedInv, AgentInv, LiveInv, StartsOK, RunsOK, StartPending
<1>6. LiveSessionOfPid(sessions', pids', Device, q) = s /\ s # None /\ q # None
  BY <1>1 DEF ConstantsAssumption, StartTaken, Handled, Named, LiveSessionOfPid
<1>7. FollowPid(Device, q, ag, pe) BY <1>1 DEF HookStart, StartTaken
<1>8. /\ M = {} => agent' = ag /\ pending' = pe
      /\ M # {} => agent' = [Left(ag, old, mv) EXCEPT ![s] = mv] /\ pending' = Left(pe, old, mv)
  BY <1>6, <1>7 DEF FollowPid
<1>9. /\ M \in SUBSET Conn /\ conns \in [Conn -> Bound]
      /\ agent \in [Session -> 0 .. MaxConns] /\ pending \in [Session -> 0 .. MaxConns]
  BY DEF Movers, ServedInv, AgentInv, LiveInv, DeviceInv, LinksOK, LinkTypeOK
<1>10. M # {} => mv \in M
  <2> HIDE DEF M
  <2>. QED BY <1>9, GreatestLink
<1>11. \A c \in M : conns[c].open /\ conns[c].pid = q /\ conns[c].session # s
  BY DEF Movers
<1>12. \A x \in Pid : links[x] # 0 =>
         /\ links[x] \in Conn /\ conns[links[x]].open /\ conns[links[x]].pid = x
         /\ conns[links[x]].host = Device /\ ~conns[links[x]].leaving
         /\ \A d \in Conn : conns[d].open /\ conns[d].pid = x => d <= links[x]
  BY PlainIs DEF ServedInv, AgentInv, LiveInv, DeviceInv, DeviceTypeOK, Conn, HeldOK
<1>13. FirstStart'
  <2> SUFFICES ASSUME NEW t \in Session, NEW x \in Pid, StartPending(t, x)'
               PROVE  /\ Alive(x)' => (procs'[x].env = t <=> posts'[t][1].source = "startup")
                      /\ \A d \in Conn : conns'[d].open /\ conns'[d].pid = x =>
                           (conns'[d].session = t <=> posts'[t][1].source = "startup")
    BY DEF FirstStart
  <2>1. t # s /\ StartPending(t, x) /\ posts'[t] = posts[t] BY <1>4
  <2>2. x # q BY <1>5, <2>1
  <2>3. /\ Alive(x) => (procs[x].env = t <=> posts[t][1].source = "startup")
        /\ \A d \in Conn : conns[d].open /\ conns[d].pid = x =>
             (conns[d].session = t <=> posts[t][1].source = "startup")
    BY <2>1 DEF ServedInv, FirstStart
  <2> HIDE DEF q
  <2>. QED BY <1>2, <1>3, <2>1, <2>2, <2>3 DEF Alive
<1>14. ASSUME Runs(q, s), NEW c, c = links[q], c # 0, c \notin used.robbed
       PROVE  c \in {agent'[s], pending'[s]}
  <2>1. /\ \A d \in Conn : conns[d].open /\ conns[d].pid = q =>
             (conns[d].session = s <=> m.source = "startup")
        /\ c \in Conn /\ conns[c].open /\ conns[c].pid = q
    BY <1>2, <1>12, <1>14 DEF ServedInv, FirstStart
  <2>2. CASE m.source = "startup"
    <3>1. M = {} BY <1>11, <1>9, <2>1, <2>2
    <3>2. agent' = ag BY <1>8, <3>1
    <3>3. c = agent[s] \/ c = pending[s]
      <4>1. conns[c].session = s /\ Served BY <2>1, <2>2 DEF ServedInv
      <4> HIDE DEF q
      <4>. QED BY <1>2, <1>14, <4>1 DEF Served
    <3>4. c = agent[s] => pending[s] = 0
      BY <1>14 DEF ServedInv, AgentInv, LiveInv, DeviceInv, LinksOK, LinksOwn, PendingIsOwn,
                   Binds, RegistryOfDevice, Known
    <3>5. s \notin Reaped(m) BY <1>2 DEF Reaped
    <3>6. left \in [Session -> 0 .. MaxConns] /\ left[s] = agent[s]
      BY <1>2, <1>9, <3>5, AgentsLeftFacts
         DEF AgentsLeft, Known, ServedInv, AgentInv, LiveInv, DeviceInv
    <3>7. sessions'[s].known /\ sessions'[s].kind = "top" BY <1>2 DEF LiveTop, Running
    <3> HIDE DEF left
    <3>8. ag[s] = IF pending[s] # 0 THEN pending[s] ELSE left[s]
      BY <3>6, <3>7 DEF AgentsAfter, Waited
    <3>. QED BY <1>14, <3>2, <3>3, <3>4, <3>6, <3>8
  <2>3. CASE m.source # "startup"
    <3>q. /\ conns[c].host = Device /\ ~conns[c].leaving
          /\ \A d \in Conn : conns[d].open /\ conns[d].pid = q => d <= c
      <4> HIDE DEF q
      <4>. QED BY <1>2, <1>12, <1>14
    <3>1. c \in M BY <2>1, <2>3, <3>q DEF Movers
    <3>2. \A d \in M : d <= c
      <4> HIDE DEF q, M
      <4>. QED BY <1>9, <1>11, <3>q
    <3>3. mv = c
      <4> HIDE DEF M
      <4>. QED BY <1>9, <3>1, <3>2, GreatestIs
    <3>4. ag \in [Session -> 0 .. MaxConns]
      <4>1. left \in [Session -> 0 .. MaxConns]
        BY AgentsLeftFacts DEF ServedInv, AgentInv, LiveInv, DeviceInv
      <4> HIDE DEF left
      <4>. QED BY <1>9, <4>1 DEF AgentsAfter
    <3> HIDE DEF ag, M, mv
    <3>5. s \in DOMAIN Left(ag, old, mv) BY <3>4 DEF Left
    <3>6. agent'[s] = mv BY <1>8, <3>1, <3>5
    <3>. QED BY <3>3, <3>6
  <2>. QED BY <2>2, <2>3
<1>15. ASSUME NEW t \in Session, t # s, NEW c \in Conn, conns[c].pid # q, pending[t] = c
       PROVE  pending'[t] = c
  <2>1. pe[t] = c /\ pe \in [Session -> 0 .. MaxConns]
    BY MaxConnsAssumption, <1>9, <1>15, PendingStays DEF PendingAfter
  <2> HIDE DEF pe, M, mv, old, q
  <2>2. M # {} => mv # c BY <1>10, <1>11, <1>15
  <2>3. M # {} => Left(pe, old, mv)[t] = c BY <2>1, <2>2 DEF Left
  <2>. QED BY <1>8, <2>1, <2>3
<1>16. Served'
  <2> SUFFICES ASSUME NEW x \in Pid, NEW t \in Session, Runs(x, t), NEW c, c = links[x],
                      c \notin used.robbed \union {0}, c \notin Robbed(s),
                      conns'[c].session = t
               PROVE  c \in {agent'[t], pending'[t]}
    BY <1>2 DEF Served, Runs
  <2>1. CASE t = s BY <1>5, <1>14, <2>1
  <2>2. CASE t # s
    BY <1>12, <1>2, RunsAlive, <2>2, <1>3, NotRobbed, <1>15 DEF ServedInv, AgentInv, LiveInv,
       StartsOK, Runs, Served, DeviceInv
  <2>. QED BY <2>1, <2>2
<1>. QED BY <1>13, <1>16

LEMMA LossServed ==
  ASSUME ServedInv, Plain, NEW c \in Conn, LossNoticed(c)
  PROVE  FirstStart' /\ Served'
<1> DEFINE s == conns[c].session
<1>1. /\ UNCHANGED <<situation, procs, posts, links, used, vars>>
      /\ conns' = [conns EXCEPT ![c] = Closed] /\ ~Closed.open
      /\ \A q \in Pid : links[q] # c
      /\ \/ agent[s] = c /\ \E a : agent' = [agent EXCEPT ![s] = a]
         \/ agent' = agent
      /\ \/ pending[s] = c /\ \E a : pending' = [pending EXCEPT ![s] = a]
         \/ pending' = pending
  BY DEF LossNoticed, AgentDisconnected, LinkGone, Closed
<1>2. /\ conns \in [Conn -> Bound] /\ links \in [Pid -> 0 .. MaxConns]
      /\ agent \in [Session -> 0 .. MaxConns] /\ pending \in [Session -> 0 .. MaxConns]
  BY DEF ServedInv, AgentInv, LiveInv, DeviceInv, DeviceTypeOK, LinksOK, LinkTypeOK
<1> HIDE DEF s
<1>3. FirstStart' BY <1>1, <1>2, SMTT(30) DEF ServedInv, FirstStart, StartPending, Alive
<1>4. Served'
  <2> SUFFICES ASSUME NEW x \in Pid, NEW t \in Session, Runs(x, t), NEW d, d = links[x],
                      d \notin used.robbed \union {0}, conns'[d].session = t
               PROVE  d \in {agent'[t], pending'[t]}
    BY <1>1 DEF Served, Runs
  <2>1. d # c /\ d \in Conn BY <1>1, <1>2 DEF Conn
  <2>2. conns'[d] = conns[d] BY <1>1, <1>2, <2>1
  <2>3. d \in {agent[t], pending[t]} BY <2>2 DEF ServedInv, Served
  <2>4. agent[t] = d => agent'[t] = d BY <1>1, <1>2, <2>1
  <2>5. pending[t] = d => pending'[t] = d BY <1>1, <1>2, <2>1
  <2>. QED BY <2>3, <2>4, <2>5
<1>. QED BY <1>3, <1>4

(* Steps that leave links where they are, and the starts under way.        *)
LEMMA ServedAlone ==
  ASSUME ServedInv, Plain, UNCHANGED <<procs, used, conns, agent, pending>>,
         \A q \in Pid : links'[q] \in {0, links[q]},
         \A s \in Session : /\ posts'[s] = <<>> <=> posts[s] = <<>>
                            /\ posts[s] # <<>> =>
                                 \/ posts'[s][1] = posts[s][1]
                                 \/ posts[s][1] \in Post /\ posts'[s][1] = Kept(posts[s][1])
  PROVE  FirstStart' /\ Served'
<1>1. \A s \in Session : \A q \in Pid : StartPending(s, q)' =>
        StartPending(s, q) /\ posts'[s][1].source = posts[s][1].source
  <2> SUFFICES ASSUME NEW s \in Session, NEW q \in Pid, StartPending(s, q)'
               PROVE  StartPending(s, q) /\ posts'[s][1].source = posts[s][1].source
    OBVIOUS
  <2>1. CASE posts'[s][1] = posts[s][1] BY <2>1 DEF StartPending
  <2>2. CASE posts[s][1] \in Post /\ posts'[s][1] = Kept(posts[s][1])
    BY <2>2, KeptIsSame DEF StartPending
  <2>. QED BY <2>1, <2>2 DEF StartPending
<1>2. FirstStart' BY <1>1 DEF ServedInv, FirstStart, Alive
<1>3. Served' BY DEF ServedInv, Served, Runs
<1>. QED BY <1>2, <1>3

LEMMA ServedInitHolds ==
  ASSUME ConstantsAssumption, DeviceIsNew, DeviceInit
  PROVE  ServedInv
BY AgentInitHolds DEF DeviceInit, FirstStart, StartPending, Served, ServedInv

LEMMA ServedStepKeeps ==
  ASSUME ConstantsAssumption, DeviceAssumption, ServedInv, [DeviceNext]_allVars
  PROVE  ServedInv'
<1>0. /\ AgentInv' /\ conns \in [Conn -> Bound] /\ links \in [Pid -> 0 .. MaxConns]
      /\ posts \in [Session -> Seq(Post)]
  BY AgentStepKeeps DEF ServedInv, AgentInv, LiveInv, DeviceInv, DeviceTypeOK, LinksOK,
                        LinkTypeOK
<1>1. ASSUME NEW q \in Pid, ProcessStep(q) PROVE ServedInv'
  BY <1>0, <1>1, ProcessServed DEF ServedInv, ProcessStep, Plain
<1>2. ASSUME NEW s \in Session, Deliver(s) PROVE ServedInv'
  BY <1>2, <1>0, StartServed, EndServed DEF Deliver, ServedInv, Plain
<1>3. ASSUME NEW s \in Session, NEW i \in 1 .. MaxPosts, Spool(s, i) PROVE ServedInv'
  <2>1. /\ UNCHANGED <<vars, procs, used, situation, linkVars, links>>
        /\ posts' = [posts EXCEPT ![s][i].live = Pid] /\ i \in DOMAIN posts[s]
    BY <1>3 DEF Spool
  <2>2. posts'[s] = [posts[s] EXCEPT ![i] = Kept(posts[s][i])]
        /\ \A t \in Session \ {s} : posts'[t] = posts[t]
    BY <1>0, <2>1 DEF Kept
  <2>3. /\ DOMAIN posts'[s] = DOMAIN posts[s]
        /\ \A j \in DOMAIN posts[s] : posts'[s][j] \in {posts[s][j], Kept(posts[s][j])}
    BY <2>2
  <2>4. posts[s] # <<>> /\ posts'[s] # <<>> BY <2>1, <2>3
  <2>5. \A t \in Session : posts[t] # <<>> => 1 \in DOMAIN posts[t] /\ posts[t][1] \in Post
    BY <1>0
  <2>6. ASSUME NEW t \in Session
        PROVE  /\ posts'[t] = <<>> <=> posts[t] = <<>>
               /\ posts[t] # <<>> =>
                    \/ posts'[t][1] = posts[t][1]
                    \/ posts[t][1] \in Post /\ posts'[t][1] = Kept(posts[t][1])
    BY <2>2, <2>3, <2>4, <2>5
  <2>. QED BY <1>0, <2>1, <2>6, ServedAlone DEF ServedInv, Plain, linkVars
<1>4. CASE (\E s \in Session : GraceEnds(s)) \/ (\E key \in Key : HandoffEnds(key))
  BY <1>4, <1>0, ServedAlone DEF GraceEnds, HandoffEnds, ServedInv, Plain, deviceVars, linkVars
<1>5. CASE HubStopsAndStarts
  <2>1. /\ links' = [q \in Pid |-> 0] /\ conns' = [c \in Conn |-> Closed]
        /\ UNCHANGED <<situation, procs, used>>
        /\ posts' = [ s \in Session |->
                       [ i \in DOMAIN posts[s] |-> [posts[s][i] EXCEPT !.live = Pid] ]]
    BY <1>5 DEF HubStopsAndStarts, HubRestart
  <2>2. Served' BY <2>1 DEF Served
  <2>3. \A s \in Session : /\ DOMAIN posts'[s] = DOMAIN posts[s]
                           /\ \A i \in DOMAIN posts[s] : posts'[s][i] = Kept(posts[s][i])
    BY <2>1 DEF Kept
  <2>4. \A s \in Session : posts[s] # <<>> => 1 \in DOMAIN posts[s] /\ posts[s][1] \in Post
    BY <1>0
  <2>5. ASSUME NEW s \in Session, NEW q \in Pid, StartPending(s, q)'
        PROVE  StartPending(s, q) /\ posts'[s][1].source = posts[s][1].source
    <3>1. posts[s] # <<>> BY <2>3, <2>1, <2>5 DEF StartPending
    <3>2. posts[s][1] \in Post /\ posts'[s][1] = Kept(posts[s][1]) BY <2>3, <2>4, <3>1
    <3>. QED BY <2>5, <3>1, <3>2, KeptIsSame DEF StartPending
  <2>6. \A d \in Conn : ~conns'[d].open BY <2>1 DEF Closed
  <2>7. Plain => FirstStart' BY <2>1, <2>5, <2>6 DEF ServedInv, FirstStart, Alive
  <2>. QED BY <1>0, <2>1, <2>2, <2>7 DEF ServedInv, Plain
<1>6. ASSUME NEW q \in Pid, LinkLost(q) PROVE ServedInv'
  BY <1>6, <1>0, ServedAlone DEF LinkLost, ServedInv, Plain, linkVars
<1>7. ASSUME NEW q \in Pid, AnswerRead(q) PROVE ServedInv'
  BY <1>0, <1>7 DEF AnswerRead, ServedInv, Plain
<1>8. ASSUME NEW c \in Conn, LossNoticed(c) PROVE ServedInv'
  BY <1>0, <1>8, LossServed DEF ServedInv, Plain, LossNoticed
<1>9. ASSUME NEW c \in Conn, AnswerHandled(c) PROVE ServedInv'
  BY <1>9, PlainIs, <1>0 DEF AnswerHandled, ServedInv, Plain
<1>10. ASSUME NEW c \in Conn, NEW q \in Pid, LinkUp(q, c) \/ AnswerLost(q, c)
       PROVE  ServedInv'
  BY <1>10, <1>0, RegistrationServed DEF LinkUp, AnswerLost, Registers, ServedInv, Plain
<1>11. CASE UNCHANGED allVars
  BY <1>11, <1>0, ServedAlone DEF allVars, ServedInv, Plain, deviceVars, linkVars
<1>. QED BY <1>1, <1>2, <1>3, <1>4, <1>5, <1>6, <1>7, <1>8, <1>9, <1>10, <1>11 DEF DeviceNext

(* Neither agents asked to update, nor compactions, nor resumed sessions:  *)
(* the link of a live process serves or waits for its session, unless a    *)
(* reap took the session from it.                                          *)
THEOREM ServedInvariance == DeviceIsNew => (DeviceSpec => []ServedInv)
<1>1. DeviceIsNew /\ DeviceInit => ServedInv BY ConstantsAssumption, ServedInitHolds
<1>2. ServedInv /\ [DeviceNext]_allVars => ServedInv'
  BY ConstantsAssumption, DeviceAssumption, ServedStepKeeps
<1>. QED BY <1>1, <1>2, PTL DEF DeviceSpec

(* A live process whose agent has a link is served by that link: it is not *)
(* shown without a channel (session_serving).                              *)
THEOREM LiveLinkServes == DeviceIsNew => (DeviceSpec => []LiveIsServed)
<1>1. ServedInv => LiveIsServed
  <2> SUFFICES ASSUME ServedInv, LinksSettled, Plain, NEW q \in Pid, NEW c, c = links[q],
                      c \notin used.robbed \union {0}
               PROVE  agent[procs[q].session] = c
    BY DEF LiveIsServed, Plain
  <2>1. Alive(q) BY DEF ServedInv, AgentInv, HeldOK
  <2>2. PICK s \in Session : s = procs[q].session /\ Runs(q, s)
    BY <2>1, AliveRuns DEF ServedInv, AgentInv, LiveInv, DeviceInv, Runs
  <2>3. posts[s] = <<>> BY DEF LinksSettled, Settled
  <2>4. conns[c].session = s BY <2>2, <2>3, PlainIs DEF ServedInv, AgentInv, Followed
  <2>5. c = agent[s] \/ c = pending[s] BY <2>2, <2>4 DEF ServedInv, Served
  <2>6. Binds(sessions, s)
    BY <2>2, <2>3 DEF ServedInv, AgentInv, LiveInv, RunsOK, Handled, LiveTop, Running, Binds
  <2>7. pending[s] = 0
    BY <2>6 DEF ServedInv, AgentInv, LiveInv, DeviceInv, LinksOK, LinksOwn, PendingIsOwn
  <2>. QED BY <2>2, <2>5, <2>7
<1>. QED BY <1>1, ServedInvariance, PTL
=============================================================================
