-------------------------- MODULE MCTranscriptStream --------------------------
(* Small transcripts, each with what may go wrong in it.  All the plans of *)
(* StreamPlans are checked in one run; BreakPlans is the one that shows    *)
(* how a break of the stream ends too early.                               *)
EXTENDS TranscriptStream

Nothing == [what \in Trouble |-> 0]

Turns    == <<"text", "end", "text", "end">>
Answers2 == <<"end", "prompt", "end">>
Growing  == <<"text", "text", "end">>
Calls    == <<"text", "call", "result", "end">>

StreamPlans ==
  { [script |-> Turns, bound |-> [Nothing EXCEPT !["failed"] = 1]],
    [script |-> Turns, bound |-> [Nothing EXCEPT !["link"] = 1]],
    [script |-> Turns, bound |-> [Nothing EXCEPT !["hold"] = 1]],
    [script |-> Answers2, bound |-> [Nothing EXCEPT !["failed"] = 1]],
    [script |-> Answers2, bound |-> [Nothing EXCEPT !["hold"] = 1, !["late"] = 1]],
    [script |-> Growing, bound |-> [Nothing EXCEPT !["failed"] = 2]],
    [script |-> Growing, bound |-> [Nothing EXCEPT !["failed"] = 1, !["hold"] = 1]],
    [script |-> Growing, bound |-> [Nothing EXCEPT !["failed"] = 1, !["refused"] = 1, !["deleted"] = 1]],
    [script |-> Growing, bound |-> [Nothing EXCEPT !["failed"] = 1, !["post"] = 1, !["leave"] = 1]],
    [script |-> Calls, bound |-> [Nothing EXCEPT !["failed"] = 1, !["restart"] = 1]],
    [script |-> Calls, bound |-> [Nothing EXCEPT !["failed"] = 2, !["leave"] = 1]] }

BreakPlans == {[script |-> Answers2, bound |-> [Nothing EXCEPT !["failed"] = 1]]}
=============================================================================
