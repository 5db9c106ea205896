------------------------------ MODULE Dispatch ------------------------------
(***************************************************************************)
(* The router of src/src/dispatch.rs: a line is stripped of its leading    *)
(* directives, its type decides which handler gets it, and the handler     *)
(* writes the store, feeds the script DAG and answers on OUT.  With the    *)
(* signed block lists of src/src/blocklist.rs and the theme resolver of    *)
(* module Theme; the commands for the carrier are those of module Account. *)
(*                                                                         *)
(* One line is handled at a time, on the worker's thread.  A line is a     *)
(* record of what the parsing functions find in it, and a handler a list   *)
(* of steps: documents to send to OUT or to insert.                        *)
(***************************************************************************)
EXTENDS Theme

CONSTANTS
    Switchable,  \* themes that the host's updates select
    Lists,       \* payloads of block lists, sequences of their lines
    MaxRows,     \* bound on the solutions of a host's query
    Lossy        \* may OUT be full for longer than a send retries?  (The inboxes
                 \* of the scripts always may.)

ASSUME DispatchAssumption ==
    /\ Switchable \subseteq Themes /\ MaxRows \in Nat /\ Lossy \in BOOLEAN

VARIABLES
    line,    \* the line in hand, None between two lines
    steps,   \* what its handler has still to do, None before it is routed
    log      \* what the handler has done, in order, history

vars == <<graph, resolver, line, steps, log>>

Doc(kind, about) == [kind |-> kind, about |-> about]
Error == Doc("Error", None)
Step(op, doc) == [op |-> op, doc |-> doc]
Outs(docs) == [i \in DOMAIN docs |-> Step("out", docs[i])]
Refused == Outs(<<Error>>)

-----------------------------------------------------------------------------
(* The lines *)

\* Prefixes that insert_turtle puts in front of a document.
TURTLE_PREFIXES == {"carrier", "antenna", "design", "sp", "spin", "xsd"}

Data == [kind : {"data"}, uses : {"antenna", "rdf", "foaf"}, declares : BOOLEAN]

\* strip_leading_directives, and what insert_turtle can parse then.
Strip(l) == [l EXCEPT !.declares = FALSE]
Parses(l) == l.kind = "data" => l.uses \in TURTLE_PREFIXES \/ l.declares

\* What extract_property finds: an absent field and an empty literal are alike.
Questions == [kind : {"spin"}, form : {"Select", "Ask", "Construct", "Unknown", "NoText"}]
Updates ==
    [kind : {"update"}, text : {TRUE}, sets : {"active", "swap", "add"}, to : Switchable]
        \union [kind : {"update"}, text : BOOLEAN, sets : {"unset"}, to : {None}]
Designs == [kind : {"design"}, form : {"ResolveActiveTheme", "Unknown"}]
Subscriptions ==
    [kind : {"list"}, payload : Lists, sig : {"pinned", "other", "malformed"}]
        \union [kind : {"list"}, payload : {None}, sig : {"pinned"}]
Lines == [kind : {"blank"}] \union Data \union Questions \union Updates \union Designs
         \union Subscriptions

Init ==
    /\ ThemeInit
    /\ line = None /\ steps = None /\ log = <<>>

\* A line that is empty, a comment or nothing but directives ends here.
TakeLine ==
    /\ line = None
    /\ line' \in Lines
    /\ UNCHANGED <<graph, resolver, steps, log>>

-----------------------------------------------------------------------------
(* The handlers *)

Routed(kind) == line # None /\ line.kind = kind /\ steps = None
Answers(list) == steps' = list /\ UNCHANGED <<line, log>>

Ignored == Routed("blank") /\ Answers(<<>>) /\ UNCHANGED <<graph, resolver>>

InsertLine ==
    Routed("data") /\ Answers(<<Step("insert", Strip(line))>>) /\ UNCHANGED <<graph, resolver>>

\* Select answers with its solutions and nothing after them, Construct stores
\* each of the triples it sends, and what is not understood is an error.
Rows(doc) == {[i \in 1..n |-> doc] : n \in 0..MaxRows}
SentAndKept(docs) ==
    [i \in 1..(2 * Len(docs)) |-> Step(IF i % 2 = 1 THEN "out" ELSE "keep", docs[(i + 1) \div 2])]
handle_spin ==
    /\ Routed("spin")
    /\ \/ line.form = "Select" /\ \E rows \in Rows(Doc("Result", None)) : Answers(Outs(rows))
       \/ line.form = "Ask" /\ Answers(Outs(<<Doc("AskResult", None)>>))
       \/ line.form = "Construct" /\ \E rows \in Rows(Doc("triple", None)) : Answers(SentAndKept(rows))
       \/ Answers(Refused)
    /\ UNCHANGED <<graph, resolver>>

\* The sp:Modify, sp:InsertData and sp:DeleteData of a theme picker.
Applied ==
    /\ active' = IF line.sets = "active" THEN {line.to} ELSE active
    /\ hasTheme' = CASE line.sets = "swap" -> {line.to}
                     [] line.sets = "add" -> hasTheme \union {line.to}
                     [] line.sets = "unset" -> {}
                     [] OTHER -> hasTheme
    /\ UNCHANGED <<extends, gives>>

handle_update ==
    /\ Routed("update")
    /\ \/ line.text /\ Applied /\ Answers(<<>>)
       \/ Answers(Refused) /\ UNCHANGED graph
    /\ UNCHANGED resolver

\* ResolveActiveTheme, with the steps of the resolver in between: nothing is
\* sent before the whole bundle is there.
design_other ==
    /\ Routed("design") /\ line.form = "Unknown"
    /\ Answers(Refused) /\ UNCHANGED <<graph, resolver>>

resolve_active_theme ==
    /\ Routed("design") /\ line.form = "ResolveActiveTheme"
    /\ Resolve \/ Walk \/ Construct \/ ResolveFails
    /\ UNCHANGED <<graph, line, steps, log>>

\* Mutation: the marker goes first.
BundleMarkerFirst ==
    Outs(<<Doc("ThemeBundleComplete", Len(bundle))>> \o [i \in DOMAIN bundle |-> Doc("triple", bundle[i])])

Bundle ==
    Outs([i \in DOMAIN bundle |-> Doc("triple", bundle[i])] \o <<Doc("ThemeBundleComplete", Len(bundle))>>)

design_resolved ==
    /\ Routed("design") /\ rpc \in {"done", "failed"}
    /\ Answers(IF rpc = "done" THEN Bundle ELSE Refused)
    /\ Resolved /\ UNCHANGED graph

\* verify_signed_blocklist and parse_entries: the entries of a list, None
\* when it is not to be trusted.
parse_entries(text) == SelectSeq(text, LAMBDA l : l \notin {"blank", "comment"})

\* Mutation: entries are parsed and used before the signature is looked at.
verify_late(payload, sig) == IF sig = "malformed" THEN None ELSE parse_entries(payload)

verify_signed_blocklist(payload, sig) == IF sig = "pinned" THEN parse_entries(payload) ELSE None

handle_subscribe_blocklist ==
    /\ Routed("list")
    /\ IF line.payload = None THEN Answers(Refused)
       ELSE LET entries == verify_signed_blocklist(line.payload, line.sig)
                docs == IF entries = None THEN <<Doc("BlocklistRejected", None)>>
                        ELSE [i \in DOMAIN entries |-> Doc("BlocklistApply", entries[i])]
            IN  Answers([i \in DOMAIN docs |-> Step("insert", docs[i])])
    /\ UNCHANGED <<graph, resolver>>

-----------------------------------------------------------------------------
(* The steps of a handler *)

\* What it may have to send or to insert, and what comes of it.
Entries == UNION {Range(l) : l \in Lists}
Kinds == {"Error", "Result", "AskResult", "triple", "ThemeBundleComplete",
          "BlocklistApply", "BlocklistRejected"}
Documents ==
    Data \union [kind : Kinds, about : {None} \union Nat \union Entries
                                         \union (Themes \X (AllItems \union {"ResolvedTheme"}))]
Shown == {"before", "beforeFull"}  \* a broadcast, with room for it in every inbox or not
Told == {"after", "afterFull"}
Ops == {"out", "keep", "insert", "lost", "stored", "unparsed", "failed"} \union Shown \union Told
AllSteps == [op : Ops, doc : Documents]

\* None is no sequence, and SelectSeq leaves lines of the list.
ASSUME HandlerAssumption ==
    /\ None \notin Seq(Entries) \union Seq(AllSteps)
    /\ \A l \in Lists : parse_entries(l) \in Seq(Entries)

Pending(op) == steps # None /\ steps # <<>> /\ Head(steps).op = op
Done(ops) ==
    /\ log' = log \o [i \in DOMAIN ops |-> Step(ops[i], Head(steps).doc)]
    /\ steps' = Tail(steps)
    /\ UNCHANGED <<graph, resolver, line>>

\* AntennaOut::send, whose result nobody sees.
Sent == {"out"} \union (IF Lossy THEN {"lost"} ELSE {})
SendOut == Pending("out") /\ \E op \in Sent : Done(<<op>>)

\* The insert_turtle after a constructed triple, whose error is ignored.
Keep == Pending("keep") /\ (Done(<<"stored">>) \/ Done(<<"failed">>))

\* insert_with_dag: the store may fail, or not be able to parse.  A broadcast
\* leaves out a script whose inbox stays full, and nobody sees that either.
insert_with_dag ==
    /\ Pending("insert")
    /\ \E shown \in Shown :
        \/ /\ Parses(Head(steps).doc)
           /\ \E told \in Told, echo \in Sent : Done(<<shown, "stored", told, echo>>)
        \/ ~Parses(Head(steps).doc) /\ Done(<<shown, "unparsed">>)
        \/ Done(<<shown, "failed">>)

LineDone ==
    /\ steps = <<>>
    /\ line' = None /\ steps' = None /\ log' = <<>>
    /\ UNCHANGED <<graph, resolver>>

Next ==
    \/ TakeLine \/ Ignored \/ InsertLine \/ handle_spin \/ handle_update \/ design_other
    \/ resolve_active_theme \/ design_resolved \/ handle_subscribe_blocklist
    \/ SendOut \/ Keep \/ insert_with_dag \/ LineDone

Spec == Init /\ [][Next]_vars

-----------------------------------------------------------------------------
TypeOK ==
    /\ ThemeTypeOK
    /\ line = None \/ line \in Lines
    /\ line = None => steps = None /\ log = <<>>

\* The places in the log of the documents that have reached OUT, and of the
\* entries of a block list that were broadcast to the scripts.
OnOut == {i \in DOMAIN log : log[i].op = "out"}
Offers == {i \in DOMAIN log : log[i].op \in Shown /\ log[i].doc.kind = "BlocklistApply"}
UpTo(places, i) == {j \in places : j <= i}

\* A client that swaps themes at the marker has the whole theme and nothing
\* else: the documents that it counts back from ThemeBundleComplete are the
\* items that the theme selected in the store inherits, each once.
MarkerFollowsBundle ==
    \A n \in OnOut : log[n].doc.kind = "ThemeBundleComplete" =>
        /\ log[n].doc.about = Cardinality(UpTo(OnOut, n)) - 1
        /\ LET values == {log[i].doc.about : i \in UpTo(OnOut, n) \ {n}}
           IN  \/ values = {} /\ active_theme_iri = {}
               \/ \E t \in active_theme_iri :
                    {v \in values : v[2] # "ResolvedTheme"} =
                        {v \in Themes \X AllItems : InheritsFrom(t, v[2], v[1])}

\* A block list is broadcast to the scripts entry by entry, in order and to its
\* end, when its signature is that of the pinned key, even where an inbox was
\* full or the store failed for an entry before; otherwise no entry of it is,
\* and the refusal does not go unanswered.
ListIsOfferedIfSigned ==
    line # None /\ line.kind = "list" =>
        IF line.sig = "pinned" /\ line.payload # None
        THEN LET entries == parse_entries(line.payload)
             IN  /\ \A i \in Offers : LET n == Cardinality(UpTo(Offers, i))
                                       IN  n <= Len(entries) /\ log[i].doc.about = entries[n]
                 /\ steps = <<>> => Cardinality(Offers) = Len(entries)
        ELSE Offers = {} /\ (steps = <<>> => log # <<>>)

\* The scripts get every entry of a signed list (they do not: an inbox that is
\* full loses it, and the list says nothing of that).
SignedListIsSeen ==
    line # None /\ line.kind = "list" /\ line.sig = "pinned" /\ steps = <<>> =>
        \A i \in Offers : log[i].op = "before"

\* A line whose prefixes are all declared, by itself or by insert_turtle, is not
\* refused for want of a declaration: the directives it is stripped of are
\* redundant.
DeclaredIsParsed ==
    line # None /\ line.kind = "data" /\ Parses(line) => \A s \in Range(log) : s.op # "unparsed"
=============================================================================
