------------------------------ MODULE MCEngine ------------------------------
(* Instances of Engine: one node reads what was inserted and emits to a    *)
(* channel a second node reads.                                            *)
EXTENDS Engine, TLC

CONSTANTS watcher, relay

MCNodes == <<watcher, relay>>
MCIns == watcher :> {"afterInsert"} @@ relay :> {"chan"}
MCOuts == watcher :> {"chan"} @@ relay :> {}
MCName == watcher :> "node:w" @@ relay :> "node:r"
MCSameName == watcher :> "node:n" @@ relay :> "node:n"
MCChannels == {"clock", "beforeInsert", "afterInsert", "chan"}
=============================================================================
