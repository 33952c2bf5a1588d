------------------------- MODULE MCMessageDelivery -------------------------
(* MessageDelivery for TLC: what people write.                             *)
EXTENDS MessageDelivery

MCPlans == { <<"file", "text", "text">>, <<"voice", "mention">>, <<"text", "command">> }
=============================================================================
