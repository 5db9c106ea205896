-------------------------- MODULE MCSemanticRouter --------------------------
(* Instances of SemanticRouter: one router is busy, the others are fed once. *)
EXTENDS SemanticRouter

CONSTANTS busy, Most
MCMaxDocs == [r \in Routers |-> IF r = busy THEN Most ELSE 1]
=============================================================================
