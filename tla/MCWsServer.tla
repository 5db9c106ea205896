----------------------------- MODULE MCWsServer -----------------------------
(* Instance of WsServer: frames with text before and after a blank line.   *)
EXTENDS WsServer

MCShapes == {<<TRUE, FALSE, TRUE>>}
=============================================================================
