------------------------------ MODULE MCOutbox ------------------------------
(* Outbox for TLC: which ops the hub submits.                              *)
EXTENDS Outbox

CONSTANTS t, u, m   (* two topics, a message *)

Base == [kind |-> "send", place |-> t, msg |-> None, prompt |-> FALSE, status |-> FALSE,
         merge |-> FALSE, restart |-> FALSE, loud |-> FALSE, background |-> FALSE,
         form |-> "plain", before |-> 0]

Other   == [Base EXCEPT !.place = u]
Prompt  == [Base EXCEPT !.prompt = TRUE]
Status  == [Base EXCEPT !.status = TRUE]
Rich    == [Base EXCEPT !.kind = "line", !.form = "rich", !.before = 1]
Line    == [Base EXCEPT !.kind = "line"]
Restart == [Line EXCEPT !.restart = TRUE]
Tool    == [Line EXCEPT !.merge = TRUE, !.form = "html"]

Edit    == [Base EXCEPT !.kind = "edit", !.place = None, !.msg = m]
Refresh == [Edit EXCEPT !.background = TRUE, !.status = TRUE]
React   == [Edit EXCEPT !.kind = "react"]
Absorb  == [Line EXCEPT !.msg = m]
Grow    == [Tool EXCEPT !.msg = m]
Create  == [Base EXCEPT !.kind = "create", !.place = None]
Rename  == [Create EXCEPT !.kind = "topic"]

MCWorkloads ==
  { [ops |-> {Prompt, Status, Tool}, jobs |-> 4, faults |-> 1],
    [ops |-> {Rich, Restart, Tool}, jobs |-> 3, faults |-> 2],
    [ops |-> {Edit, Refresh, Absorb, Grow}, jobs |-> 3, faults |-> 1],
    [ops |-> {Other, Edit, Create, Rename}, jobs |-> 3, faults |-> 1] }
=============================================================================
