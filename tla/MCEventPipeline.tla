--------------------------- MODULE MCEventPipeline ---------------------------
(* Small instances of EventPipeline: a message that carries two events (a  *)
(* tag_reads array), messages that carry one, and a batch size of two, so  *)
(* that a single push, a second push and the interval can all start a      *)
(* flush, and flushes overlap.                                             *)
EXTENDS EventPipeline, TLC

CONSTANTS e1, e2, e3, e4, m1, m2, m3

MCEvent == {e1, e2, e3, e4}
MCCarried == m1 :> <<e1, e2>> @@ m2 :> <<e3>> @@ m3 :> <<e4>>
MCMalformed == {e3}
=============================================================================
