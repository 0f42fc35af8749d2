------------------------- MODULE MCMessagePipeline -------------------------
(* Small instances of MessagePipeline for TLC. *)
EXTENDS MessagePipeline, TLC
CONSTANTS m1, r1
OneMessage == {m1}
OneRule == {r1}
ReplyAndNotify == [r \in OneRule |-> <<"AUTO_REPLY", "NOTIFY">>]
=============================================================================
