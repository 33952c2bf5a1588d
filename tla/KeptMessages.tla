---------------------------- MODULE KeptMessages ----------------------------
(* What the hub promises of the messages people write in a topic: one it   *)
(* took is kept until an agent of the topic's session got it or its author *)
(* was told that it does not go; only a crash of the hub loses one, and    *)
(* never one that was on disk.                                             *)
EXTENDS Naturals

CONSTANT Message

VARIABLES
  status,    (* of each message                                             *)
  saved      (* messages kept on disk                                       *)

Status == {"new", "kept", "handed", "told", "lost"}

Init == status = [m \in Message |-> "new"] /\ saved = {}

Move == { <<"new", "kept">>, <<"kept", "handed">>, <<"kept", "told">> }

Work == /\ status' \in [Message -> Status]
        /\ \A m \in Message : status'[m] = status[m] \/ <<status[m], status'[m]>> \in Move
        /\ UNCHANGED saved

Save == /\ saved' \in SUBSET { m \in Message : status[m] = "kept" }
        /\ UNCHANGED status

(* A message that went may be taken, or handed, once more after a crash.   *)
Crash == /\ status' \in [Message -> Status]
         /\ \A m \in Message :
              status'[m] \in IF m \in saved THEN {"kept"}
                             ELSE IF status[m] = "kept" THEN Status \ {"kept"}
                             ELSE {status[m], "new"}
         /\ UNCHANGED saved

Next == Work \/ Save \/ Crash

Spec == Init /\ [][Next]_<<status, saved>>
=============================================================================
