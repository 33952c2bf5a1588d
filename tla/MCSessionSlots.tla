--------------------------- MODULE MCSessionSlots ---------------------------
(* SessionSlots for TLC: a small device, and two registry files a starting *)
(* hub may find, none and one with a session current in two slots.         *)
EXTENDS SessionSlots

CONSTANTS a, h, f

SplitFile ==
  LET s1 == [host |-> h, folder |-> f, ordinal |-> 1, current |-> a]
      s2 == [s1 EXCEPT !.ordinal = 2]
      e  == [Unknown EXCEPT !.known = TRUE, !.host = h, !.slot = 2]
  IN [EmptyFile EXCEPT !.slots = <<s1, s2>>, !.sessions[a] = e]

MCFiles == {EmptyFile, SplitFile}
=============================================================================
