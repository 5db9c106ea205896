---------------------------- MODULE Account_proofs ----------------------------
(***************************************************************************)
(* For every number of commands: the theme bundle and OnboardingRequired   *)
(* come first and once, a host that waited for AccountReady never has a    *)
(* command applied to no account, and the archive that a create asked for  *)
(* is that of an account made after it, when the host creates accounts the *)
(* way the onboarding flow does.                                           *)
(***************************************************************************)
EXTENDS Account, SequenceTheorems, TLAPS

Kinds == {"theme", "onboarding", "ready", "error", "refused"}
Documents == [kind : Kinds, about : Nat \cup {None}]
Events == [kind : {"ready", "error"}, about : Nat]
Commands == [op : {"create", "link", "use", "load"}, backup : BOOLEAN, knew : BOOLEAN]

AccountType ==
    /\ mode \in {"mint", "wait", "attach"} /\ started \in BOOLEAN /\ bootstrap \in BOOLEAN
    /\ account \in Nat \cup {None} /\ snapshot \in Nat \cup {None}
    /\ pendingLoad \in Nat \cup {None} /\ pendingExport \in Nat \cup {None}
    /\ made \in Nat /\ jobs \subseteq Nat /\ drained \in Nat
    /\ evq \in Seq(Events) /\ inq \in Seq(Commands) /\ out \in Seq(Documents)
    /\ pc \in {"sleep", "bootstrap", "iterate", "events", "input"}
    /\ exports \subseteq [account : Nat \cup {None}, existed : Nat]

-----------------------------------------------------------------------------
(* The one-shots of the first tick. *)

Booted == started /\ ~bootstrap

\* Where the boot is and what it has sent.
BootProgress ==
    /\ ~started => pc = "sleep" /\ out = <<>> /\ (bootstrap <=> mode = "wait")
    /\ started => Len(out) >= 1
    /\ started /\ bootstrap => pc = "bootstrap" /\ Len(out) = 1 /\ mode = "wait"
    /\ Booted /\ mode = "wait" => Len(out) >= 2

-----------------------------------------------------------------------------
(* The active account. *)

ReadyShown == \E i \in 1..Len(out) : out[i].kind = "ready"

\* The snapshot that the commands of a tick use is the account of that tick,
\* and a host that knows of an account sends its commands after it was set.
AccountKnown ==
    /\ drained <= Len(out)
    /\ ReadyShown => account # None
    /\ pc = "input" => snapshot = account
    /\ \A i \in 1..Len(inq) : inq[i].knew => account # None
    /\ used # None => (used.knew => used.account # None)

-----------------------------------------------------------------------------
(* The onboarding flow. *)

Makes(cmd) == cmd.op \in {"create", "link"}

\* One account is made at a time, before any is ready; until then the accounts
\* being registered are younger than the request for an archive.
Onboarding ==
    /\ mode = "wait" => pendingLoad = None /\ (account # None => ReadyShown)
    /\ \A i \in 1..Len(inq) : Makes(inq[i]) =>
        /\ mode = "wait" /\ jobs = {} /\ evq = <<>> /\ ~ReadyShown
        /\ \A j \in 1..Len(inq) : Makes(inq[j]) => i = j
    /\ \A i \in 1..Len(inq) : inq[i].op = "load" => ReadyShown
    /\ pendingExport # None =>
        /\ mode = "wait" /\ ~ReadyShown /\ pendingExport <= made
        /\ \A a \in jobs : a > pendingExport
        /\ \A i \in 1..Len(evq) : evq[i].about > pendingExport

-----------------------------------------------------------------------------
(* What a step does to the three queues. *)

\* A document sent to OUT comes after those sent before it.
Sends(doc) ==
    /\ out' \in Seq(Documents) /\ Len(out') = Len(out) + 1
    /\ \A i \in 1..Len(out) : out'[i] = out[i]
    /\ out'[Len(out) + 1] = doc

\* A document that send_out appends, and the others where they were.
LEMMA SendsFacts ==
    ASSUME AccountType, NEW doc \in Documents, out' = Append(out, doc)
    PROVE  Sends(doc) /\ Len(out) \in Nat
  BY AppendProperties, LenProperties DEF AccountType, Sends

\* The documents of the first tick and the refusals are documents.
LEMMA RefusalIsDocument ==
    /\ Refusal \in Documents /\ Refusal.kind = "refused"
    /\ ResolveActiveTheme \subseteq Documents
    /\ \A doc \in ResolveActiveTheme : doc.kind \in {"theme", "refused"}
    /\ \E doc \in Documents : doc.kind = "onboarding" /\ doc = Shown("onboarding", None)
<1>1. \A kind \in Kinds : Shown(kind, None) \in Documents /\ Shown(kind, None).kind = kind
  BY DEF Shown, Documents
<1>2. Refusal \in Documents /\ Refusal.kind = "refused"
  BY <1>1 DEF Refusal, Kinds
<1>3. \A doc \in ResolveActiveTheme : doc \in Documents /\ doc.kind \in {"theme", "refused"}
  BY <1>1, <1>2 DEF ResolveActiveTheme, Kinds
<1>4. Shown("onboarding", None) \in Documents /\ Shown("onboarding", None).kind = "onboarding"
  BY <1>1 DEF Kinds
<1> QED BY <1>2, <1>3, <1>4

\* The head of the event queue, and what stays.
LEMMA TakeEventFacts ==
    ASSUME AccountType, evq # <<>>
    PROVE  /\ Head(evq) \in Events /\ Head(evq) \in Documents /\ Head(evq) = evq[1]
           /\ 1 \in 1..Len(evq) /\ Head(evq).about \in Nat /\ Head(evq).kind \in {"ready", "error"}
           /\ Tail(evq) \in Seq(Events)
           /\ \A i \in 1..Len(Tail(evq)) : i + 1 \in 1..Len(evq) /\ Tail(evq)[i] = evq[i + 1]
<1>1. evq \in Seq(Events) /\ Len(evq) \in Nat \ {0}
  BY EmptySeq DEF AccountType
<1>2. /\ Head(evq) \in Events /\ Tail(evq) \in Seq(Events) /\ Len(Tail(evq)) = Len(evq) - 1
      /\ \A i \in 1..Len(Tail(evq)) : Tail(evq)[i] = evq[i + 1]
  BY <1>1, HeadTailProperties
<1>3. Head(evq) = evq[1]
  BY <1>1
<1>4. \A e \in Events : e \in Documents /\ e.about \in Nat /\ e.kind \in {"ready", "error"}
  BY DEF Events, Documents, Kinds
<1> QED BY <1>1, <1>2, <1>3, <1>4

\* The same for the commands.
LEMMA TakeCommandFacts ==
    ASSUME AccountType, inq # <<>>
    PROVE  /\ Head(inq) \in Commands /\ Head(inq) = inq[1] /\ 1 \in 1..Len(inq)
           /\ Tail(inq) \in Seq(Commands)
           /\ \A i \in 1..Len(Tail(inq)) : i + 1 \in 1..Len(inq) /\ Tail(inq)[i] = inq[i + 1]
<1>1. inq \in Seq(Commands) /\ Len(inq) \in Nat \ {0}
  BY EmptySeq DEF AccountType
<1>2. /\ Head(inq) \in Commands /\ Tail(inq) \in Seq(Commands) /\ Len(Tail(inq)) = Len(inq) - 1
      /\ \A i \in 1..Len(Tail(inq)) : Tail(inq)[i] = inq[i + 1]
  BY <1>1, HeadTailProperties
<1>3. Head(inq) = inq[1]
  BY <1>1
<1> QED BY <1>1, <1>2, <1>3

\* What a command does to OUT, whatever it is: nothing, or a refusal.
LEMMA CommandFacts ==
    ASSUME AccountType, TakeCommand
    PROVE  /\ out' = out \/ out' = Append(out, Refusal)
           /\ pc = "input" /\ inq # <<>> /\ inq' = Tail(inq)
           /\ UNCHANGED <<bootVars, account, evq, pc, snapshot, drained, exports>>
  BY DEF TakeCommand, Create, Link, UseAccount, Load, CarrierCall

-----------------------------------------------------------------------------
(* Types. *)

\* Type correctness, one step per operation of the tick, libjami and the host.
LEMMA AccountTypeNext ==
    ASSUME AccountType, [Next]_vars
    PROVE  AccountType'
<1> USE DEF bootVars
<1>1. CASE UNCHANGED vars
  BY <1>1 DEF vars, AccountType
<1>2. CASE HostSends
  <2>1. PICK cmd \in Commands : inq' = Append(inq, cmd)
    <3>1. SeenReady \in BOOLEAN
      BY DEF SeenReady
    <3> QED BY <1>2, <3>1 DEF HostSends, Commands
  <2>2. inq' \in Seq(Commands)
    BY <2>1, AppendProperties DEF AccountType
  <2> QED BY <1>2, <2>2 DEF HostSends, AccountType
<1>3. CASE HostDrains
  BY <1>3 DEF HostDrains, AccountType
<1>4. CASE Startup
  <2>1. out' \in Seq(Documents)
    <3>1. CASE started
      BY <1>4, <3>1 DEF Startup, AccountType
    <3>2. CASE ~started
      <4>1. PICK doc \in Documents : out' = Append(out, doc)
        BY <1>4, <3>2, RefusalIsDocument DEF Startup
      <4> QED BY <4>1, AppendProperties DEF AccountType
    <3> QED BY <3>1, <3>2
  <2>2. jobs' \subseteq Nat
    BY <1>4 DEF Startup, AccountType
  <2> QED BY <1>4, <2>1, <2>2 DEF Startup, AccountType
<1>5. CASE Bootstrap
  <2>1. out' \in Seq(Documents)
    <3>1. out' = out \/ out' = Append(out, Shown("onboarding", None))
      BY <1>5 DEF Bootstrap
    <3>2. CASE out' = Append(out, Shown("onboarding", None))
      <4>1. PICK doc \in Documents : doc = Shown("onboarding", None)
        BY RefusalIsDocument
      <4>2. out' = Append(out, doc)
        BY <3>2, <4>1, Zenon
      <4> QED BY <4>2, SendsFacts DEF Sends
    <3> QED BY <3>1, <3>2 DEF AccountType
  <2> QED BY <1>5, <2>1 DEF Bootstrap, AccountType
<1>6. CASE IterateFails \/ Iterate
  BY <1>6 DEF IterateFails, Iterate, AccountType
<1>7. ASSUME NEW a \in Accounts, IterateReports(a) PROVE AccountType'
  <2>1. PICK kind \in {"ready", "error"} : evq' = Append(evq, Shown(kind, a))
    BY <1>7 DEF IterateReports
  <2>2. a \in Nat
    BY AccountAssumption DEF Accounts
  <2>3. Shown(kind, a) \in Events
    BY <2>2 DEF Shown, Events
  <2>4. evq' \in Seq(Events)
    BY <2>1, <2>3, AppendProperties DEF AccountType
  <2> QED BY <1>7, <2>4 DEF IterateReports, AccountType
<1>8. CASE TakeEvent
  <2>1. Tail(evq) \in Seq(Events) /\ Head(evq) \in Documents /\ Head(evq).about \in Nat
    BY <1>8, TakeEventFacts DEF TakeEvent
  <2>2. out' \in Seq(Documents) /\ evq' \in Seq(Events)
    BY <1>8, <2>1, AppendProperties DEF TakeEvent, AccountType
  <2>3. /\ account' \in Nat \cup {None} /\ pendingExport' \in Nat \cup {None}
        /\ exports' \subseteq [account : Nat \cup {None}, existed : Nat]
    BY <1>8, <2>1 DEF TakeEvent, AccountType
  <2> QED BY <1>8, <2>2, <2>3 DEF TakeEvent, AccountType
<1>9. CASE EventsDone \/ InputDone
  BY <1>9 DEF EventsDone, InputDone, AccountType
<1>10. CASE TakeCommand
  <2>1. out' \in Seq(Documents)
    <3>1. out' = out \/ out' = Append(out, Refusal)
      BY <1>10, CommandFacts
    <3> QED BY <3>1, RefusalIsDocument, SendsFacts DEF AccountType, Sends
  <2>2. inq' \in Seq(Commands)
    BY <1>10, CommandFacts, TakeCommandFacts
  <2>3. made' \in Nat /\ jobs' \subseteq Nat /\ pendingExport' \in Nat \cup {None}
    <3>1. CASE Create(Head(inq))
      <4>1. made' \in {made, made + 1} /\ jobs' \in {jobs, jobs \cup {made + 1}}
            /\ pendingExport' \in {made, pendingExport}
        BY <3>1 DEF Create
      <4> QED BY <4>1 DEF AccountType
    <3>2. CASE Link(Head(inq))
      <4>1. made' \in {made, made + 1} /\ jobs' \in {jobs, jobs \cup {made + 1}}
            /\ pendingExport' = pendingExport
        BY <3>2 DEF Link
      <4> QED BY <4>1 DEF AccountType
    <3>3. CASE UseAccount(Head(inq))
      BY <3>3 DEF UseAccount, AccountType
    <3>4. CASE Load(Head(inq))
      <4>1. made' = made /\ pendingExport' = pendingExport
            /\ (jobs' = jobs \/ \E a \in 1..made : jobs' = jobs \cup {a})
        BY <3>4 DEF Load
      <4>2. \A a \in 1..made : a \in Nat
        BY DEF AccountType
      <4> QED BY <4>1, <4>2 DEF AccountType
    <3> QED BY <1>10, <3>1, <3>2, <3>3, <3>4 DEF TakeCommand
  <2> QED BY <1>10, <2>1, <2>2, <2>3, CommandFacts DEF AccountType
<1> QED BY <1>1, <1>2, <1>3, <1>4, <1>5, <1>6, <1>7, <1>8, <1>9, <1>10 DEF Next, Tick

-----------------------------------------------------------------------------
(* The order of the boot. *)

\* A document that is no part of the boot comes after it.
LEMMA LaterDocument ==
    ASSUME AccountType, BootProgress, BootOrder, Booted, NEW doc,
           Sends(doc), doc.kind \in {"ready", "error", "refused"}, UNCHANGED <<mode, started, bootstrap>>
    PROVE  BootProgress' /\ BootOrder'
<1>1. Len(out) \in Nat /\ Len(out) >= 1 /\ (mode = "wait" => Len(out) >= 2) /\ started /\ ~bootstrap
  BY LenProperties DEF AccountType, BootProgress, Booted
<1>2. BootProgress'
  BY <1>1 DEF BootProgress, Booted, Sends
<1>3. \A i \in 1..Len(out') : i \in 1..Len(out) \/ (i = Len(out) + 1 /\ i # 1)
  BY <1>1 DEF Sends
<1>4. out # <<>> /\ 1 \in 1..Len(out)
  BY <1>1
<1>5. out'[1] = out[1]
  BY <1>4 DEF Sends
<1>6. ~(mode = "wait" /\ Len(out) + 1 = 2)
  BY <1>1
<1>7. \A i \in 1..Len(out') : out'[i].kind = "theme" => i = 1
  BY <1>3 DEF BootOrder, Sends
<1>8. \A i \in 1..Len(out') : out'[i].kind = "onboarding" <=> mode = "wait" /\ i = 2
  BY <1>3, <1>6 DEF BootOrder, Sends
<1> QED BY <1>2, <1>4, <1>5, <1>7, <1>8 DEF BootOrder, ResolveActiveTheme

\* What the first tick sends, against each step.
LEMMA BootOrderNext ==
    ASSUME AccountType, BootProgress, BootOrder, [Next]_vars
    PROVE  BootProgress' /\ BootOrder'
<1> USE DEF bootVars
<1>1. CASE UNCHANGED <<mode, started, bootstrap, out, pc>>
  BY <1>1 DEF BootProgress, BootOrder, Booted, ResolveActiveTheme
<1>2. CASE UNCHANGED vars \/ HostSends \/ HostDrains
  BY <1>1, <1>2 DEF vars, HostSends, HostDrains
<1>3. CASE Startup
  <2>1. CASE started
    BY <1>3, <2>1 DEF Startup, AccountType, BootProgress, BootOrder, Booted, ResolveActiveTheme
  <2>2. CASE ~started
    <3>1. out = <<>> /\ (bootstrap <=> mode = "wait") /\ Len(out) = 0
      BY <2>2 DEF BootProgress
    <3>2. PICK doc \in ResolveActiveTheme : out' = Append(out, doc)
      BY <1>3, <2>2 DEF Startup
    <3>3. Len(out') = 1 /\ out'[1] = doc /\ doc.kind \in {"theme", "refused"}
      BY <3>1, <3>2, SendsFacts, RefusalIsDocument DEF Sends
    <3>4. started' /\ pc' = "bootstrap" /\ UNCHANGED <<mode, bootstrap>>
      BY <1>3 DEF Startup
    <3>5. BootProgress'
      BY <3>1, <3>3, <3>4 DEF BootProgress, Booted, AccountType
    <3> QED BY <3>3, <3>5 DEF BootOrder, ResolveActiveTheme
  <2> QED BY <2>1, <2>2 DEF AccountType
<1>4. CASE Bootstrap
  <2>1. CASE ~bootstrap
    BY <1>4, <2>1 DEF Bootstrap, AccountType, BootProgress, BootOrder, Booted, ResolveActiveTheme
  <2>2. CASE bootstrap
    <3>1. started /\ Len(out) = 1 /\ mode = "wait"
      BY <1>4, <2>2 DEF Bootstrap, BootProgress
    <3>2. out' = Append(out, Shown("onboarding", None))
      BY <1>4, <2>2 DEF Bootstrap
    <3>3. Len(out') = 2 /\ out'[1] = out[1] /\ out'[2].kind = "onboarding"
      <4>1. PICK doc \in Documents : doc.kind = "onboarding" /\ doc = Shown("onboarding", None)
        BY RefusalIsDocument
      <4>2. out' = Append(out, doc)
        BY <3>2, <4>1, Zenon
      <4> QED BY <3>1, <4>1, <4>2, SendsFacts DEF Sends
    <3>4. started' /\ pc' = "iterate" /\ mode' = mode /\ ~bootstrap'
      BY <1>4, <3>1 DEF Bootstrap
    <3>5. BootProgress'
      BY <3>1, <3>3, <3>4 DEF BootProgress, Booted
    <3>6. out # <<>> /\ out[1].kind # "onboarding"
      BY <3>1 DEF BootOrder
    <3> QED BY <3>1, <3>3, <3>4, <3>5, <3>6 DEF BootOrder, ResolveActiveTheme
  <2> QED BY <2>1, <2>2
<1>5. CASE IterateFails \/ Iterate \/ EventsDone \/ InputDone \/ \E a \in Accounts : IterateReports(a)
  <2>1. pc \in {"iterate", "events", "input"} /\ UNCHANGED <<mode, started, bootstrap, out>>
    BY <1>5 DEF IterateFails, Iterate, EventsDone, InputDone, IterateReports
  <2> QED BY <2>1 DEF AccountType, BootProgress, BootOrder, Booted, ResolveActiveTheme
<1>6. CASE TakeEvent
  <2>1. Booted /\ UNCHANGED <<mode, started, bootstrap>>
    BY <1>6 DEF TakeEvent, BootProgress, Booted, AccountType
  <2>2. Sends(Head(evq)) /\ Head(evq).kind \in {"ready", "error"}
    BY <1>6, TakeEventFacts, SendsFacts DEF TakeEvent
  <2> QED BY <2>1, <2>2, LaterDocument
<1>7. CASE TakeCommand
  <2>1. Booted /\ UNCHANGED <<mode, started, bootstrap, pc>>
    BY <1>7, CommandFacts DEF BootProgress, Booted, AccountType
  <2>2. CASE out' = out
    BY <1>1, <2>1, <2>2
  <2>3. CASE out' = Append(out, Refusal)
    BY <2>1, <2>3, RefusalIsDocument, SendsFacts, LaterDocument
  <2> QED BY <1>7, <2>2, <2>3, CommandFacts
<1> QED BY <1>2, <1>3, <1>4, <1>5, <1>6, <1>7 DEF Next, Tick

-----------------------------------------------------------------------------
(* The account that commands are applied to. *)

\* A document other than AccountReady does not make an account known.
LEMMA ReadyKept ==
    ASSUME AccountType, NEW doc, Sends(doc)
    PROVE  ReadyShown' <=> ReadyShown \/ doc.kind = "ready"
<1>1. Len(out) \in Nat
  BY LenProperties DEF AccountType
<1>2. \A i \in 1..Len(out') : i \in 1..Len(out) \/ i = Len(out) + 1
  BY <1>1 DEF Sends
<1>3. \A i \in 1..Len(out) : i \in 1..Len(out')
  BY <1>1 DEF Sends
<1>4. Len(out) + 1 \in 1..Len(out')
  BY <1>1 DEF Sends
<1> QED BY <1>2, <1>3, <1>4 DEF ReadyShown, Sends

\* What the host has drained was sent.
LEMMA SeenIsShown ==
    ASSUME AccountType, drained <= Len(out), SeenReady
    PROVE  ReadyShown
<1>1. \A i \in 1..drained : i \in 1..Len(out)
  BY LenProperties DEF AccountType
<1> QED BY <1>1 DEF SeenReady, ReadyShown

\* That the account is set before AccountReady is shown, against each step.
LEMMA AccountKnownNext ==
    ASSUME AccountType, AccountKnown, [Next]_vars
    PROVE  AccountKnown'
<1> USE DEF bootVars
<1>0. Len(out) \in Nat /\ drained \in Nat /\ Len(inq) \in Nat
  BY LenProperties DEF AccountType
<1>1. CASE UNCHANGED <<account, snapshot, out, drained, inq, pc, used>>
  BY <1>1 DEF AccountKnown, ReadyShown
<1>2. CASE HostSends
  <2>1. PICK cmd \in Commands : inq' = Append(inq, cmd) /\ (cmd.knew => SeenReady)
    <3>1. SeenReady \in BOOLEAN
      BY DEF SeenReady
    <3> QED BY <1>2, <3>1 DEF HostSends, Commands
  <2>2. Len(inq') = Len(inq) + 1 /\ inq'[Len(inq) + 1] = cmd
        /\ \A i \in 1..Len(inq) : inq'[i] = inq[i]
    BY <2>1, AppendProperties DEF AccountType
  <2>3. cmd.knew => account # None
    BY <2>1, SeenIsShown DEF AccountKnown
  <2>4. \A i \in 1..Len(inq') : i \in 1..Len(inq) \/ i = Len(inq) + 1
    BY <1>0, <2>2
  <2>5. UNCHANGED <<account, snapshot, out, drained, pc, used>>
    BY <1>2 DEF HostSends
  <2>6. \A i \in 1..Len(inq') : inq'[i].knew => account' # None
    BY <2>2, <2>3, <2>4, <2>5 DEF AccountKnown
  <2> QED BY <2>5, <2>6 DEF AccountKnown, ReadyShown
<1>3. CASE HostDrains
  BY <1>0, <1>3 DEF HostDrains, AccountKnown, ReadyShown
<1>4. ASSUME NEW doc \in Documents, out' = Append(out, doc), doc.kind # "ready" \/ account' # None,
             account' = account \/ account' # None, drained' = drained
      PROVE  drained' <= Len(out') /\ (ReadyShown' => account' # None)
  <2>1. Sends(doc)
    BY <1>4, SendsFacts
  <2>2. drained' <= Len(out')
    BY <1>0, <1>4, <2>1 DEF Sends, AccountKnown
  <2> QED BY <1>4, <2>1, <2>2, ReadyKept DEF AccountKnown
<1>5. CASE Startup \/ Bootstrap
  <2>1. UNCHANGED <<account, snapshot, drained, inq, used>> /\ pc' # "input"
    BY <1>5 DEF Startup, Bootstrap
  <2>2. out' = out \/ \E doc \in Documents : doc.kind # "ready" /\ out' = Append(out, doc)
    <3>1. CASE Startup
      BY <3>1, RefusalIsDocument DEF Startup
    <3>2. CASE Bootstrap
      <4>1. PICK doc \in Documents : doc.kind = "onboarding" /\ doc = Shown("onboarding", None)
        BY RefusalIsDocument
      <4>2. out' = out \/ out' = Append(out, doc)
        BY <3>2, <4>1, Zenon DEF Bootstrap
      <4> QED BY <4>1, <4>2
    <3> QED BY <1>5, <3>1, <3>2
  <2> QED BY <1>4, <2>1, <2>2 DEF AccountKnown, ReadyShown
<1>6. CASE IterateFails \/ Iterate \/ InputDone \/ \E a \in Accounts : IterateReports(a)
  <2>1. UNCHANGED <<account, snapshot, out, drained, inq, used>> /\ pc' # "input"
    BY <1>6 DEF IterateFails, Iterate, InputDone, IterateReports
  <2> QED BY <2>1 DEF AccountKnown, ReadyShown
<1>7. CASE EventsDone
  BY <1>7 DEF EventsDone, AccountKnown, ReadyShown
<1>8. CASE TakeEvent
  <2>1. /\ Head(evq) \in Documents /\ Head(evq).about \in Nat /\ out' = Append(out, Head(evq))
        /\ Head(evq).kind \in {"ready", "error"}
        /\ pc' = "events" /\ UNCHANGED <<drained, inq, used, snapshot>>
    BY <1>8, TakeEventFacts DEF TakeEvent
  <2>2. (Head(evq).kind # "ready" \/ account' # None) /\ (account' = account \/ account' # None)
        /\ (account # None => account' # None)
    BY <1>8, <2>1, AccountAssumption DEF TakeEvent
  <2> QED BY <1>4, <2>1, <2>2 DEF AccountKnown
<1>9. CASE TakeCommand
  <2>1. /\ out' = out \/ out' = Append(out, Refusal)
        /\ pc = "input" /\ UNCHANGED <<account, snapshot, pc, drained>>
        /\ inq # <<>> /\ inq' = Tail(inq)
    BY <1>9, CommandFacts
  <2>2. drained' <= Len(out') /\ (ReadyShown' => account' # None)
    <3>1. CASE out' = out
      BY <2>1, <3>1 DEF AccountKnown, ReadyShown
    <3>2. CASE out' = Append(out, Refusal)
      BY <1>4, <2>1, <3>2, RefusalIsDocument
    <3> QED BY <2>1, <3>1, <3>2
  <2>3. \A i \in 1..Len(inq') : inq'[i].knew => account' # None
    BY <2>1, TakeCommandFacts DEF AccountKnown
  <2>4. used' # None => (used'.knew => used'.account # None)
    <3>1. CASE used' = used
      BY <3>1 DEF AccountKnown
    <3>2. CASE used' # used
      <4>1. PICK named \in {None} \cup 1..made :
               used' = [account |-> account_or_default(named), knew |-> Head(inq).knew]
        BY <1>9, <3>2 DEF TakeCommand, Create, Link, Load, UseAccount, CarrierCall
      <4>2. Head(inq).knew => account # None /\ snapshot = account
        BY <2>1, TakeCommandFacts DEF AccountKnown
      <4>3. Head(inq).knew => account_or_default(named) # None
        BY <4>2 DEF account_or_default
      <4> QED BY <4>1, <4>3
    <3> QED BY <3>1, <3>2
  <2> QED BY <2>1, <2>2, <2>3, <2>4 DEF AccountKnown
<1> QED BY <1>1, <1>2, <1>3, <1>5, <1>6, <1>7, <1>8, <1>9 DEF Next, Tick, vars

-----------------------------------------------------------------------------
(* The archive of a new account. *)

\* A command that is taken is gone: what is said of all of inq is said of the rest.
LEMMA OnboardingFrame ==
    ASSUME Onboarding, ReadyShown' <=> ReadyShown,
           UNCHANGED <<mode, pendingLoad, account, pendingExport, made, jobs, evq>>,
           inq' = inq \/ \A i \in 1..Len(inq') : i + 1 \in 1..Len(inq) /\ inq'[i] = inq[i + 1],
           \A i \in 1..Len(inq') : i \in Nat
    PROVE  Onboarding'
<1>1. \A i \in 1..Len(inq') : \E k \in 1..Len(inq) : inq'[i] = inq[k]
  OBVIOUS
<1>2. ASSUME NEW i \in 1..Len(inq'), NEW j \in 1..Len(inq'), Makes(inq'[i]), Makes(inq'[j])
      PROVE  i = j
  BY <1>2 DEF Onboarding
<1>3. \A i \in 1..Len(inq') : Makes(inq'[i]) => mode = "wait" /\ jobs = {} /\ evq = <<>> /\ ~ReadyShown
  BY <1>1 DEF Onboarding
<1>4. \A i \in 1..Len(inq') : inq'[i].op = "load" => ReadyShown
  BY <1>1 DEF Onboarding
<1> QED BY <1>2, <1>3, <1>4 DEF Onboarding, Makes

\* The onboarding flow of a patient host, against each step.
LEMMA OnboardingNext ==
    ASSUME Patient, AccountType, AccountKnown, Onboarding, BackupIsOfNewAccount, [Next]_vars
    PROVE  Onboarding' /\ BackupIsOfNewAccount'
<1> USE DEF bootVars
<1>0. Len(out) \in Nat /\ drained \in Nat /\ Len(inq) \in Nat /\ Len(evq) \in Nat
  BY LenProperties DEF AccountType
<1>1. ASSUME UNCHANGED <<mode, pendingLoad, account, pendingExport, made, jobs, evq, inq, exports>>,
             ReadyShown' <=> ReadyShown
      PROVE  Onboarding' /\ BackupIsOfNewAccount'
  BY <1>0, <1>1, OnboardingFrame DEF BackupIsOfNewAccount
<1>2. CASE HostSends
  <2>1. PICK cmd \in Commands :
           /\ inq' = Append(inq, cmd)
           /\ Makes(cmd) => MayCreate
           /\ cmd.op = "load" => MayLoad
    <3>1. SeenReady \in BOOLEAN
      BY DEF SeenReady
    <3> QED BY <1>2, <3>1 DEF HostSends, Commands, Makes
  <2>2. Len(inq') = Len(inq) + 1 /\ inq'[Len(inq) + 1] = cmd
        /\ \A i \in 1..Len(inq) : inq'[i] = inq[i]
    BY <2>1, AppendProperties DEF AccountType
  <2>3. \A i \in 1..Len(inq') : i \in 1..Len(inq) \/ i = Len(inq) + 1
    BY <1>0, <2>2
  <2>4. UNCHANGED <<mode, pendingLoad, account, pendingExport, made, jobs, evq, out, exports>>
        /\ (ReadyShown' <=> ReadyShown)
    BY <1>2 DEF HostSends, ReadyShown
  <2>5. cmd.op = "load" => ReadyShown
    BY <2>1, SeenIsShown DEF MayLoad, AccountKnown
  <2>6. Makes(cmd) => mode = "wait" /\ jobs = {} /\ evq = <<>> /\ ~ReadyShown /\ inq = <<>>
    BY <2>1 DEF MayCreate, SeenReady, ReadyShown
  <2>7. ASSUME NEW i \in 1..Len(inq'), Makes(inq'[i])
        PROVE  mode = "wait" /\ jobs = {} /\ evq = <<>> /\ ~ReadyShown
    BY <2>2, <2>3, <2>6, <2>7 DEF Onboarding
  <2>8. ASSUME NEW i \in 1..Len(inq'), NEW j \in 1..Len(inq'), Makes(inq'[i]), Makes(inq'[j])
        PROVE  i = j
    <3>1. CASE Makes(cmd)
      BY <1>0, <2>2, <2>3, <2>6, <3>1
    <3>2. CASE ~Makes(cmd)
      BY <2>2, <2>3, <2>8, <3>2 DEF Onboarding
    <3> QED BY <3>1, <3>2
  <2>9. \A i \in 1..Len(inq') : inq'[i].op = "load" => ReadyShown
    BY <2>2, <2>3, <2>5 DEF Onboarding
  <2> QED BY <2>4, <2>7, <2>8, <2>9 DEF Onboarding, Makes, BackupIsOfNewAccount
<1>3. CASE HostDrains \/ UNCHANGED vars
  BY <1>1, <1>3 DEF HostDrains, vars, ReadyShown
<1>4. CASE IterateFails \/ Iterate \/ EventsDone \/ InputDone
  BY <1>1, <1>4 DEF IterateFails, Iterate, EventsDone, InputDone, ReadyShown
<1>5. CASE Bootstrap
  <2>1. PICK doc \in Documents : doc.kind = "onboarding" /\ doc = Shown("onboarding", None)
    BY RefusalIsDocument
  <2>2. out' = out \/ out' = Append(out, doc)
    BY <1>5, <2>1, Zenon DEF Bootstrap
  <2>3. ReadyShown' <=> ReadyShown
    BY <2>1, <2>2, SendsFacts, ReadyKept DEF ReadyShown
  <2> QED BY <1>1, <1>5, <2>3 DEF Bootstrap
<1>6. CASE Startup
  <2>1. ReadyShown' <=> ReadyShown
    BY <1>6, RefusalIsDocument, SendsFacts, ReadyKept DEF Startup, ReadyShown
  <2>2. pendingLoad' = None /\ (mode = "wait" => jobs' = jobs)
        /\ UNCHANGED <<mode, account, pendingExport, made, evq, inq, exports>>
    BY <1>6 DEF Startup, Onboarding
  <2>3. Onboarding'
    BY <2>1, <2>2 DEF Onboarding, Makes
  <2> QED BY <2>2, <2>3 DEF BackupIsOfNewAccount
<1>7. ASSUME NEW a \in Accounts, IterateReports(a) PROVE Onboarding' /\ BackupIsOfNewAccount'
  <2>1. PICK e \in Events : e.about = a /\ evq' = Append(evq, e)
    <3>1. a \in Nat
      BY AccountAssumption DEF Accounts
    <3> QED BY <1>7, <3>1 DEF IterateReports, Shown, Events
  <2>2. Len(evq') = Len(evq) + 1 /\ evq'[Len(evq) + 1] = e
        /\ \A i \in 1..Len(evq) : evq'[i] = evq[i]
    BY <2>1, AppendProperties DEF AccountType
  <2>3. \A i \in 1..Len(evq') : i \in 1..Len(evq) \/ i = Len(evq) + 1
    BY <1>0, <2>2
  <2>4. a \in jobs /\ jobs' \subseteq jobs
        /\ UNCHANGED <<mode, pendingLoad, account, pendingExport, made, inq, out, exports>>
    BY <1>7 DEF IterateReports
  <2>5. ReadyShown' <=> ReadyShown
    BY <2>4 DEF ReadyShown
  <2>6. pendingExport # None => \A i \in 1..Len(evq') : evq'[i].about > pendingExport
    BY <2>1, <2>2, <2>3, <2>4 DEF Onboarding
  <2>7. \A i \in 1..Len(inq) : ~Makes(inq[i])
    BY <2>4 DEF Onboarding
  <2> QED BY <2>4, <2>5, <2>6, <2>7 DEF Onboarding, Makes, BackupIsOfNewAccount
<1>8. CASE TakeEvent
  <2>1. /\ evq # <<>> /\ evq' = Tail(evq) /\ out' = Append(out, Head(evq))
        /\ UNCHANGED <<mode, pendingLoad, made, jobs, inq>>
    BY <1>8 DEF TakeEvent
  <2>2. /\ Head(evq) \in Documents /\ Head(evq) = evq[1] /\ 1 \in 1..Len(evq)
        /\ Head(evq).about \in Nat /\ Head(evq).kind \in {"ready", "error"}
        /\ \A i \in 1..Len(Tail(evq)) : i + 1 \in 1..Len(evq) /\ Tail(evq)[i] = evq[i + 1]
    BY <2>1, TakeEventFacts
  <2>3. ReadyShown' <=> ReadyShown \/ Head(evq).kind = "ready"
    BY <2>1, <2>2, SendsFacts, ReadyKept
  <2>4. \A i \in 1..Len(inq) : ~Makes(inq[i])
    BY <2>1 DEF Onboarding
  <2>5. CASE Head(evq).kind = "error"
    <3>1. UNCHANGED <<account, pendingExport, exports>> /\ (ReadyShown' <=> ReadyShown)
      BY <1>8, <2>3, <2>5 DEF TakeEvent
    <3>2. pendingExport # None => \A i \in 1..Len(evq') : evq'[i].about > pendingExport
      BY <2>1, <2>2 DEF Onboarding
    <3> QED BY <2>1, <2>4, <3>1, <3>2 DEF Onboarding, Makes, BackupIsOfNewAccount
  <2>6. CASE Head(evq).kind = "ready"
    <3>1. ReadyShown' /\ pendingExport' = None
      BY <1>8, <2>3, <2>6 DEF TakeEvent
    <3>2. Onboarding'
      BY <2>1, <2>4, <3>1 DEF Onboarding, Makes
    <3>3. CASE pendingExport = None
      BY <1>8, <2>6, <3>2, <3>3 DEF TakeEvent, BackupIsOfNewAccount
    <3>4. CASE pendingExport # None
      <4>1. account = None /\ Head(evq).about > pendingExport
        BY <2>2, <3>4 DEF Onboarding
      <4>2. exports' = exports \cup {[account |-> Head(evq).about, existed |-> pendingExport]}
        BY <1>8, <2>6, <3>4, <4>1 DEF TakeEvent
      <4> QED BY <3>2, <4>1, <4>2 DEF BackupIsOfNewAccount
    <3> QED BY <3>2, <3>3, <3>4
  <2> QED BY <2>2, <2>5, <2>6
<1>9. CASE TakeCommand
  <2>1. /\ out' = out \/ out' = Append(out, Refusal)
        /\ inq # <<>> /\ inq' = Tail(inq)
        /\ UNCHANGED <<mode, pendingLoad, account, evq, exports>>
    BY <1>9, CommandFacts
  <2>2. ReadyShown' <=> ReadyShown
    BY <2>1, RefusalIsDocument, SendsFacts, ReadyKept DEF ReadyShown
  <2>3. /\ Head(inq) \in Commands /\ Head(inq) = inq[1] /\ 1 \in 1..Len(inq)
        /\ \A i \in 1..Len(inq') : i + 1 \in 1..Len(inq) /\ inq'[i] = inq[i + 1]
        /\ \A i \in 1..Len(inq') : i \in Nat
    BY <2>1, TakeCommandFacts
  <2>4. BackupIsOfNewAccount'
    BY <2>1 DEF BackupIsOfNewAccount
  <2>5. CASE Head(inq).op = "use"
    <3>1. UNCHANGED <<pendingExport, made, jobs>>
      BY <1>9, <2>5 DEF TakeCommand, UseAccount
    <3> QED BY <2>1, <2>2, <2>3, <2>4, <3>1, OnboardingFrame
  <2>6. CASE Makes(Head(inq))
    <3>1. mode = "wait" /\ jobs = {} /\ evq = <<>> /\ ~ReadyShown
          /\ \A i \in 1..Len(inq) : Makes(inq[i]) => i = 1
      BY <2>3, <2>6 DEF Onboarding
    <3>2. \A i \in 1..Len(inq') : ~Makes(inq'[i])
      BY <2>3, <3>1
    <3>3. \A i \in 1..Len(inq') : inq'[i].op # "load"
      BY <2>3, <3>1 DEF Onboarding
    <3>4. /\ pendingExport' \in {made, pendingExport}
          /\ \/ made' = made + 1 /\ jobs' = {made + 1}
             \/ made' = made /\ jobs' = {}
      BY <1>9, <2>6, <3>1 DEF TakeCommand, Create, Link, Makes
    <3>5. made \in Nat /\ pendingExport \in Nat \cup {None} /\ Len(evq) = 0
      BY <3>1 DEF AccountType
    <3>6. pendingExport' # None =>
            pendingExport' \in Nat /\ pendingExport' <= made' /\ \A a \in jobs' : a > pendingExport'
      BY <3>4, <3>5 DEF Onboarding
    <3> QED BY <2>1, <2>2, <2>4, <3>1, <3>2, <3>3, <3>5, <3>6 DEF Onboarding, Makes
  <2>7. CASE Head(inq).op = "load"
    <3>1. ReadyShown
      BY <2>3, <2>7 DEF Onboarding
    <3>2. pendingExport = None /\ \A i \in 1..Len(inq) : ~Makes(inq[i])
      BY <3>1 DEF Onboarding
    <3>3. UNCHANGED <<pendingExport, made>>
      BY <1>9, <2>7 DEF TakeCommand, Load
    <3>4. \A i \in 1..Len(inq') : ~Makes(inq'[i])
      BY <2>3, <3>2
    <3> QED BY <2>1, <2>2, <2>4, <3>1, <3>2, <3>3, <3>4 DEF Onboarding, Makes
  <2> QED BY <2>3, <2>5, <2>6, <2>7 DEF Commands, Makes
<1> QED BY <1>2, <1>3, <1>4, <1>5, <1>6, <1>7, <1>8, <1>9 DEF Next, Tick

-----------------------------------------------------------------------------
(* What holds of all behaviours. *)

\* A new context.
LEMMA AccountInit ==
    Init => AccountType /\ BootProgress /\ BootOrder /\ AccountKnown /\ Onboarding
            /\ BackupIsOfNewAccount
<1> SUFFICES ASSUME Init
             PROVE  AccountType /\ BootProgress /\ BootOrder /\ AccountKnown /\ Onboarding
                    /\ BackupIsOfNewAccount
  OBVIOUS
<1> USE AccountAssumption
<1>1. AccountType
  <2>1. bootstrap \in BOOLEAN
    BY Zenon DEF Init
  <2>2. mode \in {"mint", "wait", "attach"}
    BY DEF Init
  <2>3. evq \in Seq(Events) /\ inq \in Seq(Commands) /\ out \in Seq(Documents)
    BY DEF Init
  <2>4. account \in Nat \cup {None} /\ made \in Nat /\ pendingLoad \in Nat \cup {None}
        /\ jobs \subseteq Nat
    BY DEF Init
  <2> QED BY <2>1, <2>2, <2>3, <2>4 DEF Init, AccountType
<1>2. BootProgress /\ BootOrder
  <2>1. bootstrap <=> mode = "wait"
    BY Zenon DEF Init
  <2> QED BY <2>1 DEF Init, BootProgress, BootOrder, Booted
<1>3. AccountKnown
  BY DEF Init, AccountKnown, ReadyShown
<1>4. Onboarding /\ BackupIsOfNewAccount
  BY DEF Init, Onboarding, Makes, ReadyShown, BackupIsOfNewAccount
<1> QED BY <1>1, <1>2, <1>3, <1>4

\* Whatever the host sends: the one-shots of the first tick go out in their order,
\* and what a host knows of accounts, the context knows.
THEOREM AccountInvariant == Spec => [](AccountType /\ BootProgress /\ BootOrder /\ AccountKnown)
<1>1. AccountType /\ BootProgress /\ BootOrder /\ AccountKnown /\ [Next]_vars
        => (AccountType /\ BootProgress /\ BootOrder /\ AccountKnown)'
  BY AccountTypeNext, BootOrderNext, AccountKnownNext
<1> QED BY <1>1, AccountInit, PTL DEF Spec

\* Whatever the host sends before the first tick, the theme bundle is the first
\* document on OUT and OnboardingRequired, in the mode that has it, the second.
THEOREM BootIsOrdered == Spec => []BootOrder
  BY AccountInvariant, PTL

\* AccountReady comes after the id is set, and a command of a host that has seen
\* it is never applied to no account.
THEOREM ReadyHostIsServed == Spec => []ReadyHostHasAccount
<1>1. AccountKnown => ReadyHostHasAccount
  BY DEF AccountKnown, ReadyShown, ReadyHostHasAccount
<1> QED BY <1>1, AccountInvariant, PTL

\* With a host that creates accounts as the onboarding flow does, an automatic
\* archive is that of an account made after it was asked for.
THEOREM BackupIsNew == Patient /\ Spec => []BackupIsOfNewAccount
<1>1. ASSUME Patient
      PROVE  AccountType /\ AccountKnown /\ Onboarding /\ BackupIsOfNewAccount /\ [Next]_vars
                => (Onboarding /\ BackupIsOfNewAccount)'
  BY <1>1, OnboardingNext
<1>2. CASE Patient
  BY <1>1, <1>2, AccountInit, AccountInvariant, PTL DEF Spec
<1> QED BY <1>2
===============================================================================
