------------------------ MODULE MCPermissionPrompts ------------------------
(* PermissionPrompts for TLC: how two dialogs are asked.                   *)
EXTENDS PermissionPrompts, TLC

CONSTANTS d, e, x, y

Plan(ofD, ofE, max, acks, ids, sessions, n) ==
  [ways |-> (d :> ofD) @@ (e :> ofE), max |-> max, acks |-> acks, ids |-> ids,
   sessions |-> sessions, faults |-> n]

MCPlans == { Plan({"channel", "hook"}, {}, 2, TRUE, {y}, 1, 1),
             Plan({"channel"}, {"hook"}, 1, TRUE, {x}, 2, 1),
             Plan({"channel"}, {"hook"}, 1, TRUE, {y}, 1, 1),
             Plan({"channel"}, {"channel"}, 2, TRUE, {}, 1, 1),
             Plan({"channel"}, {}, 1, TRUE, {}, 1, 2),
             Plan({"channel"}, {}, 1, FALSE, {}, 1, 1) }

MCLostPlans == { Plan({"channel"}, {}, 1, TRUE, {}, 1, 1) }

MCTool == (d :> "Bash") @@ (e :> "Edit")

MCSymmetry == Permutations(Behavior)
=============================================================================
