------------------------------- MODULE MCBoot -------------------------------
(* Instances of Boot: three pipelines, of which "broken" does not parse,   *)
(* an open and a gated build with different themes in two files, and       *)
(* documents with a peer's script, with a semantic router for which the    *)
(* gated build has no backend, and with a draft and a note on it.          *)
EXTENDS Boot

MCSubjects == {"node", "src", "peer", "extra", "router", "theme", "other", "draft"}
MCObjects ==
    MCSubjects \cup {"ScriptNode", "ScriptSource", "SemanticRouter", "http", "js1", "js2", "js3", "open",
                     "gated", "text"}
MCScript(node, src, body) ==
    {<<node, "type", "ScriptNode">>, <<node, "source", src>>,
     <<src, "type", "ScriptSource">>, <<src, "body", body>>}
MCRouter == {<<"router", "type", "SemanticRouter">>, <<"router", "backend", "http">>}
MCPipelines ==
    [v \in {"old", "new", "broken"} |->
        CASE v = "old" -> MCScript("node", "src", "js1") \cup MCScript("extra", "extra", "js1")
          [] v = "new" -> MCScript("node", "src", "js2")
          [] OTHER -> {}]
MCRouterPipelines ==
    [v \in {"old", "new"} |->
        IF v = "old" THEN MCRouter
                     ELSE MCScript("node", "src", "js2")]
MCPeerScripting == [b \in {"open", "gated"} |-> b = "open"]
MCBackends == [b \in {"open", "gated"} |-> IF b = "open" THEN {"http"} ELSE {}]
MCBundle == [b \in {"open", "gated"} |-> [i \in 1..2 |->
    IF i = 1 THEN {<<"theme", "other", b>>} ELSE {<<"other", "other", b>>}]]
MCResolver == [b \in {"open", "gated"} |-> {<<"theme", "body", b>>}]
MCEmoji == {<<"other", "other", "text">>}
MCSeed == {<<"draft", "other", "open">>}
MCDocs ==
    {MCScript("peer", "peer", "js3"), MCRouter, {<<"draft", "other", "text">>, <<"peer", "other", "text">>}}
\* A body for a subject that has no type yet.
MCUntypedDocs == {{<<"extra", "body", "js3">>}}
=============================================================================
