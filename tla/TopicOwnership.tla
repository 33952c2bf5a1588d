--------------------------- MODULE TopicOwnership ---------------------------
(* What the slot registry promises the rest of the hub: every running      *)
(* top-level session owns one slot, nobody shares it, and it keeps the     *)
(* slot until it starts somewhere else itself or ends.                     *)
EXTENDS Naturals

CONSTANT Session

VARIABLE holder   (* the slot a running session owns, 0 for none            *)

(* Session s starts in slot k; the sessions in gone are ended by it.       *)
Start(s, k, gone) ==
  /\ k # 0
  /\ \A t \in Session \ (gone \union {s}) : holder[t] # k
  /\ holder' = [ t \in Session |-> IF t = s THEN k
                                   ELSE IF t \in gone THEN 0 ELSE holder[t] ]

End(gone) ==
  holder' = [ t \in Session |-> IF t \in gone THEN 0 ELSE holder[t] ]

Init ==
  /\ holder \in [Session -> Nat]
  /\ \A s, t \in Session : holder[s] # 0 /\ holder[s] = holder[t] => s = t

Next ==
  \E gone \in SUBSET Session :
    \/ End(gone)
    \/ \E s \in Session : Start(s, holder'[s], gone)

Spec == Init /\ [][Next]_holder

(* One owner per slot.                                                     *)
OneOwner ==
  \A s, t \in Session : holder[s] # 0 /\ holder[s] = holder[t] => s = t
=============================================================================
