------------------------------- MODULE Account -------------------------------
(***************************************************************************)
(* The active account of an AntennaContext behind the C ABI: the tri-state *)
(* bootstrap of new_with_ttl, the one-shots of the first tick and the      *)
(* AccountReady handling of src/src/lib.rs, the account commands of        *)
(* src/src/dispatch.rs, and the auto-export path that                      *)
(* src/src/carrier.rs stashes between the two.                             *)
(*                                                                         *)
(* Accounts are numbered in the order in which they come into being.       *)
(* libjami registers an account asynchronously and answers with an         *)
(* AccountReady or AccountError event from a later carrier_iterate.        *)
(***************************************************************************)
EXTENDS Naturals, Sequences, TLC

CONSTANTS
    Modes,      \* how antenna_create may be called: "mint", "wait", "attach"
    Patient,    \* the host creates accounts only as the onboarding flow does
    MaxCommands,\* bound on the commands sent
    None

ASSUME AccountAssumption ==
    /\ Modes \subseteq {"mint", "wait", "attach"} /\ Patient \in BOOLEAN
    /\ MaxCommands \in Nat \ {0} /\ None \notin Nat

Accounts == 1..(MaxCommands + 1)
Shown(kind, about) == [kind |-> kind, about |-> about]

\* The antenna:Error of carrier_error and missing_field.
Refusal == Shown("refused", None)

VARIABLES
    mode,           \* account_id of antenna_create: none, "", or an id
    account,        \* account_id, None for ""
    started,        \* startup_emitted
    bootstrap,      \* bootstrap_emit is Some
    pendingLoad,    \* pending_account_load
    pendingExport,  \* pending_auto_export: how many accounts there were when
                    \* the path was stashed, None when there is no path
    made,           \* accounts that exist
    jobs,           \* accounts libjami is registering
    evq, inq,       \* carrier events and commands not yet taken
    pc, snapshot,   \* place in tick, acct_snapshot
    out, drained,   \* documents sent to OUT, and how many the host has read
    sent,           \* commands sent
    \* history: the account a command was last applied to, auto-exports done,
    \* accounts whose creation asked for one
    used, exports, wanted

bootVars == <<mode, started, bootstrap, pendingLoad>>
vars == <<bootVars, account, pendingExport, made, jobs, evq, inq, pc, snapshot, out, drained,
          sent, used, exports, wanted>>

\* new_with_ttl
Init ==
    /\ mode \in Modes
    /\ account = IF mode = "wait" THEN None ELSE 1
    /\ made = IF mode = "wait" THEN 0 ELSE 1
    /\ jobs = IF mode = "mint" THEN {1} ELSE {}
    /\ bootstrap = (mode = "wait")
    /\ pendingLoad = IF mode = "attach" THEN 1 ELSE None
    /\ started = FALSE /\ pendingExport = None
    /\ evq = <<>> /\ inq = <<>> /\ pc = "sleep" /\ snapshot = None
    /\ out = <<>> /\ drained = 0 /\ sent = 0 /\ used = None
    /\ exports = {} /\ wanted = {}
-----------------------------------------------------------------------------
(* The host, at the other end of the rings. *)

SeenReady == \E i \in 1..drained : out[i].kind = "ready"

\* During onboarding one create is tried at a time until one succeeds, and
\* nothing is loaded before that.
MayCreate ==
    Patient => /\ mode = "wait" /\ ~SeenReady
               /\ inq = <<>> /\ jobs = {} /\ evq = <<>> /\ drained = Len(out)
MayLoad == Patient => SeenReady

HostSends ==
    /\ sent < MaxCommands /\ sent' = sent + 1
    /\ \E op \in {"create", "link", "use", "load"}, backup \in BOOLEAN :
        /\ op \in {"create", "link"} => MayCreate
        /\ op = "load" => MayLoad
        /\ op # "create" => ~backup
        /\ inq' = Append(inq, [op |-> op, backup |-> backup, knew |-> SeenReady])
    /\ UNCHANGED <<bootVars, account, pendingExport, made, jobs, evq,
                   pc, snapshot, out, drained, used, exports, wanted>>

HostDrains ==
    /\ drained < Len(out) /\ drained' = drained + 1
    /\ UNCHANGED <<bootVars, account, pendingExport, made, jobs, evq,
                   inq, pc, snapshot, out, sent, used, exports, wanted>>
-----------------------------------------------------------------------------
(* tick *)

\* handle_design: the resolved bundle, or the error that stopped the resolver.
ResolveActiveTheme == {Shown("theme", None), Refusal}

\* First tick: the theme bundle, then the deferred load_account.
Startup ==
    /\ pc = "sleep" /\ pc' = "bootstrap" /\ started' = TRUE /\ pendingLoad' = None
    /\ IF started THEN UNCHANGED out
       ELSE \E doc \in ResolveActiveTheme : out' = Append(out, doc)
    /\ IF started \/ pendingLoad = None
       THEN UNCHANGED jobs
       ELSE \E ok \in BOOLEAN : jobs' = IF ok THEN jobs \cup {pendingLoad} ELSE jobs
    /\ UNCHANGED <<mode, account, bootstrap, pendingExport, made, evq, inq, snapshot, drained, sent,
                   used, exports, wanted>>

\* Faulty variant: bootstrap_emit is read and not taken.
BootstrapEveryTick ==
    /\ pc = "bootstrap" /\ pc' = "iterate"
    /\ out' = IF bootstrap THEN Append(out, Shown("onboarding", None)) ELSE out
    /\ UNCHANGED <<bootVars, account, pendingExport, made, jobs, evq,
                   inq, snapshot, drained, sent, used, exports, wanted>>

Bootstrap ==
    /\ pc = "bootstrap" /\ pc' = "iterate" /\ bootstrap' = FALSE
    /\ out' = IF bootstrap THEN Append(out, Shown("onboarding", None)) ELSE out
    /\ UNCHANGED <<mode, account, started, pendingLoad, pendingExport, made, jobs, evq, inq,
                   snapshot, drained, sent, used, exports, wanted>>

\* carrier_iterate fails: the rest of the tick is skipped, and the worker of the
\* C ABI goes on with the next one.
IterateFails ==
    /\ pc = "iterate" /\ pc' = "sleep"
    /\ UNCHANGED <<bootVars, account, pendingExport, made, jobs, evq,
                   inq, snapshot, out, drained, sent, used, exports, wanted>>

Iterate ==
    /\ pc = "iterate" /\ pc' = "events"
    /\ UNCHANGED <<bootVars, account, pendingExport, made, jobs, evq,
                   inq, snapshot, out, drained, sent, used, exports, wanted>>

\* Faulty variant: the callback has no Turtle for AccountError.
IterateDropsErrors(a) ==
    /\ pc = "iterate" /\ pc' = "events" /\ a \in jobs
    /\ jobs' = jobs \ {a}
    /\ \E kind \in {"ready", "error"} :
        evq' = IF kind = "error" THEN evq ELSE Append(evq, Shown(kind, a))
    /\ UNCHANGED <<bootVars, account, pendingExport, made, inq,
                   snapshot, out, drained, sent, used, exports, wanted>>

\* The registration of a comes to its end and libjami calls back.
IterateReports(a) ==
    /\ pc = "iterate" /\ pc' = "events" /\ a \in jobs
    /\ jobs' = jobs \ {a}
    /\ \E kind \in {"ready", "error"} : evq' = Append(evq, Shown(kind, a))
    /\ UNCHANGED <<bootVars, account, pendingExport, made, inq,
                   snapshot, out, drained, sent, used, exports, wanted>>

\* Faulty variant: the id is left to the synchronous create.
TakeEventForgets ==
    LET event == Head(evq)
    IN  /\ pc = "events" /\ evq # <<>>
        /\ evq' = Tail(evq) /\ out' = Append(out, event)
        /\ pendingExport' = IF event.kind = "ready" THEN None ELSE pendingExport
        /\ UNCHANGED <<bootVars, account, made, jobs, inq, pc, snapshot,
                       drained, sent, used, exports, wanted>>

\* Faulty variant: the id is learnt from AccountError as well.
TakeEventAny ==
    LET event == Head(evq)
        now == IF account = None THEN event.about ELSE account
    IN  /\ pc = "events" /\ evq # <<>>
        /\ evq' = Tail(evq) /\ out' = Append(out, event) /\ account' = now
        /\ IF event.kind = "ready"
           THEN /\ pendingExport' = None
                /\ exports' = IF pendingExport = None THEN exports
                              ELSE exports \cup {[account |-> now, existed |-> pendingExport]}
           ELSE UNCHANGED <<pendingExport, exports>>
        /\ UNCHANGED <<bootVars, made, jobs, inq, pc, snapshot, drained,
                       sent, used, wanted>>

\* AccountReady fills in an empty account_id and takes the pending export.
TakeEvent ==
    LET event == Head(evq)
        now == IF account = None THEN event.about ELSE account
    IN  /\ pc = "events" /\ evq # <<>>
        /\ evq' = Tail(evq) /\ out' = Append(out, event)
        /\ IF event.kind = "ready"
           THEN /\ account' = now /\ pendingExport' = None
                /\ exports' = IF pendingExport = None THEN exports
                              ELSE exports \cup {[account |-> now, existed |-> pendingExport]}
           ELSE UNCHANGED <<account, pendingExport, exports>>
        /\ UNCHANGED <<bootVars, made, jobs, inq, pc, snapshot, drained,
                       sent, used, wanted>>

EventsDone ==
    /\ pc = "events" /\ evq = <<>> /\ pc' = "input" /\ snapshot' = account
    /\ UNCHANGED <<bootVars, account, pendingExport, made, jobs, evq,
                   inq, out, drained, sent, used, exports, wanted>>

\* CreateAccount and ImportAccount: the path is stashed before the account is
\* asked for, and stays when libjami refuses.
Create(cmd) ==
    /\ pendingExport' = IF cmd.backup THEN made ELSE pendingExport
    /\ \/ /\ made' = made + 1 /\ jobs' = jobs \cup {made + 1}
          /\ wanted' = IF cmd.backup THEN wanted \cup {made + 1} ELSE wanted
          /\ UNCHANGED out
       \/ out' = Append(out, Refusal) /\ UNCHANGED <<made, jobs, wanted>>
    /\ UNCHANGED used

account_or_default(named) == IF named = None THEN snapshot ELSE named

\* What becomes of a call of the carrier: it is made for the account, or the
\* carrier or an argument with a NUL in it makes it fail.
CarrierCall(target, cmd) ==
    \/ used' = [account |-> target, knew |-> cmd.knew] /\ UNCHANGED out
    \/ out' = Append(out, Refusal) /\ UNCHANGED used

\* The commands on an account, and the fields without which each is refused.
AccountCommands ==
    [c \in {"GetId", "SetAccountConfig"} |-> {}]
    @@ [ExportAccount |-> {"path"}, SetNick |-> {"displayName"}]

ContactCommands ==
    [c \in {"SendTrustRequest", "AcceptTrustRequest", "DiscardTrustRequest", "RemoveContact",
            "BlockContact", "UnblockContact"} |-> {"contactUri"}]
    @@ [SendMsg |-> {"contactUri", "text"}]

ConversationCommands ==
    [c \in {"CreateConversation", "CreateGroup", "GetSavedConversation"} |-> {}]
    @@ [c \in {"LoadConversationMessages", "ClearConversationCache", "AcceptConversationRequest",
               "DeclineConversationRequest", "RemoveConversation"} |-> {"conversationId"}]
    @@ [SendConversationMsg |-> {"conversationId", "text"},
        InviteContact |-> {"conversationId", "contactUri"}]

FileCommands ==
    [c \in {"SubscribePresence", "UnsubscribePresence"} |-> {"contactUri"}]
    @@ [SendReaction |-> {"conversationId", "messageId", "reaction"},
        SendFile |-> {"conversationId", "path"},
        AcceptFile |-> {"conversationId", "messageId", "fileId", "path"},
        CancelFile |-> {"conversationId", "fileId"}]

DeviceCommands == [AuthorizeDevice |-> {"pin"}, RevokeDevice |-> {"contactUri"}]

Required ==
    AccountCommands @@ ContactCommands @@ ConversationCommands @@ FileCommands @@ DeviceCommands

\* Such a command may name the account; one that lacks a field is refused before
\* the call, and one that is not in the tables is only logged.
UseAccount(cmd) ==
    /\ \E c \in DOMAIN Required \cup {"Other"} :
        \/ c = "Other" /\ UNCHANGED <<out, used>>
        \/ c # "Other" /\ Required[c] # {} /\ out' = Append(out, Refusal) /\ UNCHANGED used
        \/ /\ c # "Other"
           /\ \E named \in {None} \cup 1..made : CarrierCall(account_or_default(named), cmd)
    /\ UNCHANGED <<pendingExport, made, jobs, wanted>>

\* LinkDevice: an account that a device already in use is to fill.
Link(cmd) ==
    /\ \/ made' = made + 1 /\ jobs' = jobs \cup {made + 1} /\ UNCHANGED out
       \/ out' = Append(out, Refusal) /\ UNCHANGED <<made, jobs>>
    /\ UNCHANGED <<pendingExport, used, wanted>>

\* LoadAccount names an account that exists.
Load(cmd) ==
    /\ \/ \E a \in 1..made : jobs' = jobs \cup {a} /\ UNCHANGED out
       \/ out' = Append(out, Refusal) /\ UNCHANGED jobs
    /\ UNCHANGED <<pendingExport, made, used, wanted>>

TakeCommand ==
    /\ pc = "input" /\ inq # <<>>
    /\ inq' = Tail(inq)
    /\ \/ Head(inq).op = "create" /\ Create(Head(inq))
       \/ Head(inq).op = "link" /\ Link(Head(inq))
       \/ Head(inq).op = "use" /\ UseAccount(Head(inq))
       \/ Head(inq).op = "load" /\ Load(Head(inq))
    /\ UNCHANGED <<bootVars, account, evq, pc, snapshot, drained, sent,
                   exports>>

InputDone ==
    /\ pc = "input" /\ inq = <<>> /\ pc' = "sleep"
    /\ UNCHANGED <<bootVars, account, pendingExport, made, jobs, evq,
                   inq, snapshot, out, drained, sent, used, exports, wanted>>
-----------------------------------------------------------------------------
Tick ==
    \/ Startup \/ Bootstrap \/ IterateFails \/ Iterate \/ TakeEvent \/ EventsDone
    \/ TakeCommand \/ InputDone \/ \E a \in Accounts : IterateReports(a)

Next == HostSends \/ HostDrains \/ Tick

Spec == Init /\ [][Next]_vars

\* The worker runs, carrier_iterate does not fail for ever and libjami brings
\* each registration to an end.
FairSpec ==
    Spec /\ WF_vars(Tick) /\ \A a \in Accounts : SF_vars(IterateReports(a))
-----------------------------------------------------------------------------
TypeOK ==
    /\ account \in Accounts \cup {None} /\ snapshot \in Accounts \cup {None}
    /\ started \in BOOLEAN /\ bootstrap \in BOOLEAN
    /\ pendingLoad \in {1, None} /\ pendingExport \in (0..(MaxCommands + 1)) \cup {None}
    /\ made \in 0..(MaxCommands + 1) /\ jobs \subseteq 1..made
    /\ pc \in {"sleep", "bootstrap", "iterate", "events", "input"}
    /\ \A i \in 1..Len(out) : out[i].kind \in {"theme", "onboarding", "ready", "error", "refused"}
    /\ drained \in 0..Len(out) /\ sent \in 0..MaxCommands /\ wanted \subseteq 1..made

\* The theme bundle of the first tick, or the error of its resolver, is the
\* first document on OUT, and OnboardingRequired, in the mode that has it, the
\* second: both come once and before the answer to any command.
BootOrder ==
    /\ \A i \in 1..Len(out) : out[i].kind = "theme" => i = 1
    /\ out # <<>> => out[1] \in ResolveActiveTheme
    /\ \A i \in 1..Len(out) : out[i].kind = "onboarding" <=> mode = "wait" /\ i = 2

\* Once AccountReady is on OUT the active id is set, and a host that waits for
\* it before it sends a command that uses the active account never has the
\* command applied to no account.
ReadyHostHasAccount ==
    /\ (\E i \in 1..Len(out) : out[i].kind = "ready") => account # None
    /\ used # None => (used.knew => used.account # None)

\* The archive that carrier:autoExportPath asks for is that of an account
\* created at the request, not of one that was there before.
BackupIsOfNewAccount == \A e \in exports : e.account > e.existed

\* An archive is written of an account whose creation asked for it, and not of
\* another after that creation was refused or its registration failed.
BackupIsAskedFor == \A e \in exports : e.account \in wanted

Announced(a) == \E i \in 1..Len(out) : out[i].about = a

\* Every registration that libjami has taken on, successful or not, is shown on
\* OUT in the end.
RegistrationIsShown == \A a \in Accounts : a \in jobs ~> Announced(a)

\* So is the outcome of the load that the first tick makes up for.
DeferredLoadIsShown == \A a \in Accounts : pendingLoad = a ~> Announced(a)
=============================================================================
