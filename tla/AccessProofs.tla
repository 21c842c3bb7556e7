---------------------------- MODULE AccessProofs ----------------------------
(***************************************************************************)
(* The owner's password, the credentials and the re-authentication tokens, *)
(* for every set of clients, passwords and credentials, and every number   *)
(* of commands and of lost answers.                                        *)
(***************************************************************************)
EXTENDS Access, TLAPS

\* What was typed, if a password was.
Typed == {{}} \cup {{p} : p \in Password}

CredRow == [kind : Kinds, state : {"free", "live", "revoked"}]
Command == [pc : {"idle"} \cup InServer \cup Answered,
            cmd : Critical \cup {"none", "bootstrap", "run"},
            cred : Cred \cup {StaticKey}, arg : Cred \cup {0}, kind : Kinds,
            typed : Typed,
            next : Typed,
            attempt : 1..2, verified : Nat, sent : Nat, late : BOOLEAN,
            effects : Nat, res : {"none", "ok", "refused", "failed"}]
TokenRow == [state : {"none", "live", "revoked", "expired"}, verified : Nat, inserted : Nat]

\* The types, by these names.
Types ==
  /\ mode \in {"dev", "prod"} /\ admins \in Nat /\ history \in Seq(Password)
  /\ creds \in [Cred -> CredRow] /\ held \subseteq Cred \cup {StaticKey}
  /\ client \in [Client -> Command] /\ token \in [Client -> TokenRow]
  /\ started \in 0..MaxCommands /\ lost \in 0..MaxLost

\* One owner, who has a password; API keys come from the owner.
Owned ==
  /\ admins <= 1
  /\ admins = 0 <=> history = <<>>
  /\ \A k \in Cred : creds[k].kind = "api" /\ creds[k].state # "free" => admins = 1

\* The one effect comes with the last answer.
EffectIsLast(c) ==
  client[c].effects = 0 \/ (client[c].effects = 1 /\ client[c].pc = "reply" /\ client[c].res = "ok")

\* A token is issued between the two attempts of a critical command in prod mode.
Attempts(c) ==
  /\ token[c].state # "none" <=> (client[c].attempt = 2 \/ client[c].pc = "token")
  /\ client[c].pc \in {"idle", "reauth", "verify", "issue", "token"} => client[c].attempt = 1
  /\ \/ client[c].attempt = 2 \/ client[c].res = "refused"
     \/ client[c].pc \in {"gate", "change", "reauth", "verify", "issue", "token"}
     => client[c].cmd \in Critical
  /\ client[c].attempt = 2 \/ client[c].pc \in {"verify", "issue", "token", "change"} => mode = "prod"

\* A token stands for a password that the owner once had.
Proven(c) ==
  /\ mode = "prod" /\ client[c].cmd \in Critical
       /\ (client[c].pc \in {"handle", "change"} \/ client[c].effects = 1)
     => token[c].state # "none"
  /\ token[c].state # "none" =>
       token[c].verified \in 1..Version /\ client[c].typed = {history[token[c].verified]}
  /\ client[c].pc = "issue" =>
       client[c].verified \in 1..Version /\ client[c].typed = {history[client[c].verified]}

\* A live token was inserted under the current password; one that was not can
\* no longer let anything through.
Fresh(c) ==
  /\ token[c].state = "live" => token[c].inserted = Version
  /\ client[c].attempt = 2 /\ token[c].inserted < client[c].sent =>
       /\ token[c].state # "live" /\ client[c].effects = 0
       /\ client[c].pc \notin {"handle", "change"}

\* A command whose credential was revoked before it does not pass the middleware.
KeptOut(c) ==
  client[c].late =>
    /\ client[c].cred \in Cred /\ creds[client[c].cred].state = "revoked"
    /\ client[c].pc \in {"request", "reply"} /\ client[c].cmd # "bootstrap"
    /\ client[c].res # "refused" /\ client[c].effects = 0 /\ client[c].attempt = 1

Sane(c) == EffectIsLast(c) /\ Attempts(c) /\ Proven(c) /\ Fresh(c) /\ KeptOut(c)

AccessInv == Types /\ Owned /\ \A c \in Client : Sane(c)

-----------------------------------------------------------------------------
(* What other commands' steps leave.                                       *)

\* Revoked stays revoked, and the history of passwords only grows.
Forward ==
  /\ mode' = mode
  /\ \A k \in Cred : creds[k].state = "revoked" => creds'[k].state = "revoked"
  /\ Version \in Nat /\ Version' \in Nat /\ Version <= Version'
  /\ \A i \in 1..Version : history'[i] = history[i]

\* A command that does not move stays sane; its token may have ended, and has
\* if the password changed.
LEMMA BystanderSane ==
  ASSUME NEW c \in Client, Types, Sane(c), Forward, client'[c] = client[c],
         token'[c].verified = token[c].verified, token'[c].inserted = token[c].inserted,
         token'[c].state = "none" <=> token[c].state = "none",
         token'[c].state = "live" => token[c].state = "live" /\ Version' = Version
  PROVE  Sane(c)'
<1>1. client[c] \in Command /\ token[c] \in TokenRow
  BY DEF Types
<1>2. EffectIsLast(c)'
  BY DEF Sane, EffectIsLast
<1>3. Attempts(c)'
  BY DEF Sane, Attempts, Forward
<1>4. Proven(c)'
  BY <1>1 DEF Sane, Proven, Forward, Command, TokenRow
<1>5. Fresh(c)'
  BY DEF Sane, Fresh
<1>6. KeptOut(c)'
  BY DEF Sane, KeptOut, Forward
<1> QED
  BY <1>2, <1>3, <1>4, <1>5, <1>6 DEF Sane

\* Of all commands, c alone moves.
Alone(c) ==
  /\ client' \in [Client -> Command] /\ token' \in [Client -> TokenRow]
  /\ \A d \in Client \ {c} : client'[d] = client[d] /\ token'[d] = token[d]

\* A step of one command that sets no password keeps the invariant if it keeps
\* its command sane.
LEMMA StepInv ==
  ASSUME AccessInv, NEW c \in Client, Alone(c), UNCHANGED <<mode, admins, history>>,
         creds' \in [Cred -> CredRow],
         \A k \in Cred : creds[k].state = "revoked" => creds'[k].state = "revoked",
         \A k \in Cred : creds'[k].kind = "api" /\ creds'[k].state # "free" => admins = 1,
         held' \subseteq Cred \cup {StaticKey}, started' \in 0..MaxCommands, lost' \in 0..MaxLost,
         Sane(c)'
  PROVE  AccessInv'
<1>1. Types'
  BY DEF AccessInv, Types, Alone
<1>2. Owned'
  BY DEF AccessInv, Owned
<1>3. Forward
  BY DEF Forward, Version, AccessInv, Types
<1>4. Version' = Version
  BY DEF Version
<1>5. ASSUME NEW d \in Client \ {c} PROVE Sane(d)'
  BY <1>3, <1>4, BystanderSane DEF AccessInv, Alone
<1> QED
  BY <1>1, <1>2, <1>5 DEF AccessInv

-----------------------------------------------------------------------------
(* What a step does to its own command.                                    *)

\* All that the invariant says of a command, its place, attempt, effects and
\* result apart.
Same(old, new) ==
  /\ new.cmd = old.cmd /\ new.cred = old.cred /\ new.typed = old.typed
  /\ new.verified = old.verified /\ new.sent = old.sent /\ new.late = old.late

\* The rows that the steps make, and that they are commands.
AnswerRow(old, res) == [old EXCEPT !.pc = "reply", !.res = res]
DoneRow(old, one) == [old EXCEPT !.pc = "reply", !.res = "ok", !.effects = one]
MadeRow(old, one, arg) == [old EXCEPT !.pc = "reply", !.res = "ok", !.effects = one, !.arg = arg]
StartRow(cmd, cred, arg, kind, typed, next, sent, late) ==
  [Idle EXCEPT !.pc = "request", !.cmd = cmd, !.cred = cred, !.arg = arg, !.kind = kind,
               !.typed = typed, !.next = next, !.sent = sent, !.late = late]

\* The row of an answer.
LEMMA AnswerRowType ==
  ASSUME NEW old \in Command, NEW res \in {"none", "ok", "refused", "failed"}
  PROVE  /\ AnswerRow(old, res) \in Command /\ Same(old, AnswerRow(old, res))
         /\ AnswerRow(old, res).pc = "reply" /\ AnswerRow(old, res).res = res
         /\ AnswerRow(old, res).attempt = old.attempt /\ AnswerRow(old, res).effects = old.effects
<1>1. AnswerRow(old, res) \in Command
  BY DEF AnswerRow, Command, Answered
<1> QED
  BY <1>1 DEF AnswerRow, Command, Same

\* The row of an effect.
LEMMA DoneRowType ==
  ASSUME NEW old \in Command, NEW one \in Nat
  PROVE  /\ DoneRow(old, one) \in Command /\ Same(old, DoneRow(old, one))
         /\ DoneRow(old, one).pc = "reply" /\ DoneRow(old, one).res = "ok"
         /\ DoneRow(old, one).attempt = old.attempt /\ DoneRow(old, one).effects = one
<1>1. DoneRow(old, one) \in Command
  BY DEF DoneRow, Command, Answered
<1> QED
  BY <1>1 DEF DoneRow, Command, Same

\* The row of a new credential.
LEMMA MadeRowType ==
  ASSUME NEW old \in Command, NEW one \in Nat, NEW arg \in Cred \cup {0}
  PROVE  /\ MadeRow(old, one, arg) \in Command /\ Same(old, MadeRow(old, one, arg))
         /\ MadeRow(old, one, arg).pc = "reply" /\ MadeRow(old, one, arg).res = "ok"
         /\ MadeRow(old, one, arg).attempt = old.attempt /\ MadeRow(old, one, arg).effects = one
<1>1. MadeRow(old, one, arg) \in Command
  BY DEF MadeRow, Command, Answered
<1> QED
  BY <1>1 DEF MadeRow, Command, Same

\* The row between commands.
LEMMA IdleType == /\ Idle \in Command /\ Idle.pc = "idle" /\ Idle.cmd = "none"
                  /\ Idle.attempt = 1 /\ Idle.effects = 0 /\ Idle.res = "none" /\ Idle.late = FALSE
BY DEF Idle, Command, Typed, Kinds, StaticKey

\* The row of a command that starts.
LEMMA StartRowType ==
  ASSUME NEW cmd \in Critical \cup {"bootstrap", "run"}, NEW cred \in Cred \cup {StaticKey},
         NEW arg \in Cred \cup {0}, NEW kind \in Kinds, NEW typed \in Typed, NEW next \in Typed,
         NEW sent \in Nat, NEW late \in BOOLEAN
  PROVE  StartRow(cmd, cred, arg, kind, typed, next, sent, late) \in Command
<1>1. "request" \in InServer
  BY DEF InServer
<1>2. Idle \in Command
  BY IdleType
<1> QED
  BY <1>1, <1>2, ZenonT(30) DEF StartRow, Command

Others(c) == \A d \in Client \ {c} : client'[d] = client[d]

\* The request goes on.
LEMMA GotoStep ==
  ASSUME client \in [Client -> Command], NEW c \in Client, NEW pc \in InServer \cup Answered,
         Goto(c, pc)
  PROVE  /\ client' \in [Client -> Command] /\ Others(c) /\ Same(client[c], client'[c])
         /\ client'[c].pc = pc /\ client'[c].res = client[c].res
         /\ client'[c].attempt = client[c].attempt /\ client'[c].effects = client[c].effects
BY DEF Goto, Command, Others, Same

\* It is answered without an effect.
LEMMA AnswerStep ==
  ASSUME client \in [Client -> Command], NEW c \in Client,
         NEW res \in {"none", "ok", "refused", "failed"}, Answer(c, res)
  PROVE  /\ client' \in [Client -> Command] /\ Others(c) /\ Same(client[c], client'[c])
         /\ client'[c].pc = "reply" /\ client'[c].res = res
         /\ client'[c].attempt = client[c].attempt /\ client'[c].effects = client[c].effects
<1>1. client' = [client EXCEPT ![c] = AnswerRow(client[c], res)]
  BY Zenon DEF Answer, AnswerRow
<1> QED
  BY <1>1, AnswerRowType DEF Others

\* It has its effect.
LEMMA DoneStep ==
  ASSUME client \in [Client -> Command], NEW c \in Client, Done(c)
  PROVE  /\ client' \in [Client -> Command] /\ Others(c) /\ Same(client[c], client'[c])
         /\ client'[c].pc = "reply" /\ client'[c].res = "ok"
         /\ client'[c].attempt = client[c].attempt /\ client'[c].effects = client[c].effects + 1
<1>1. client' = [client EXCEPT ![c] = DoneRow(client[c], client[c].effects + 1)]
  BY Zenon DEF Done, DoneRow
<1>2. client[c].effects + 1 \in Nat
  BY DEF Command
<1> QED
  BY <1>1, <1>2, DoneRowType, SMTT(20) DEF Others

\* It makes a credential.
LEMMA MadeStep ==
  ASSUME client \in [Client -> Command], NEW c \in Client, NEW arg \in Cred \cup {0},
         client' = [client EXCEPT ![c] = MadeRow(client[c], client[c].effects + 1, arg)]
  PROVE  /\ client' \in [Client -> Command] /\ Others(c) /\ Same(client[c], client'[c])
         /\ client'[c].pc = "reply" /\ client'[c].res = "ok"
         /\ client'[c].attempt = client[c].attempt /\ client'[c].effects = client[c].effects + 1
<1>1. client[c].effects + 1 \in Nat
  BY DEF Command
<1> QED
  BY <1>1, MadeRowType DEF Others

-----------------------------------------------------------------------------
(* The steps.                                                              *)

\* A Brain without an owner.
LEMMA InitAccessInv == Init => AccessInv
<1> SUFFICES ASSUME Init PROVE AccessInv
  OBVIOUS
<1>1. Idle \in Command /\ NoToken \in TokenRow
  BY DEF Idle, NoToken, Command, Typed, TokenRow, Kinds, StaticKey
<1>2. /\ \A c \in Client : client[c] = Idle /\ token[c] = NoToken
      /\ client \in [Client -> Command] /\ token \in [Client -> TokenRow]
      /\ creds \in [Cred -> CredRow] /\ \A k \in Cred : creds[k].state = "free"
      /\ history = <<>> /\ history \in Seq(Password) /\ admins = 0 /\ started = 0 /\ lost = 0
      /\ mode \in {"dev", "prod"} /\ held \subseteq Cred \cup {StaticKey}
  BY <1>1 DEF Init, CredRow, Kinds
<1>3. Types
  BY <1>2, AccessAssumption DEF Types
<1>4. /\ Idle.pc = "idle" /\ Idle.attempt = 1 /\ Idle.effects = 0 /\ Idle.late = FALSE
      /\ Idle.res = "none" /\ Idle.cmd = "none" /\ NoToken.state = "none"
  BY DEF Idle, NoToken
<1>5. \A c \in Client : Sane(c)
  BY <1>2, <1>4 DEF Sane, EffectIsLast, Attempts, Proven, Fresh, KeptOut, Critical
<1> QED
  BY <1>2, <1>3, <1>5 DEF AccessInv, Owned

\* Before its second attempt, or the answer that leads to it, a command has no
\* token.
LEMMA NoTokenYet ==
  ASSUME AccessInv, NEW c \in Client, client[c].pc # "token",
         client[c].attempt = 1 \/ client[c].pc \in {"idle", "reauth", "verify", "issue"}
  PROVE  token[c].state = "none"
<1>1. client[c].attempt = 1
  BY DEF AccessInv, Sane, Attempts
<1> QED
  BY <1>1 DEF AccessInv, Sane, Attempts

\* `ovek' starts a command.
LEMMA StartInv ==
  ASSUME AccessInv, NEW c \in Client, Start(c)
  PROVE  AccessInv'
<1> USE DEF AccessInv, Types
<1>1. PICK cmd \in Critical \cup {"bootstrap", "run"}, cred \in Cred \cup {StaticKey},
           arg \in Cred \cup {0}, kind \in Kinds,
           typed \in Typed, next \in Typed :
        /\ Begin(c, cmd, cred, arg, kind, typed, next)
        /\ cmd = "bootstrap" => cred = StaticKey
  <2>1. \A k \in HeldKeys : k \in Cred \cup {StaticKey}
    BY DEF HeldKeys
  <2>2. "api" \in Kinds /\ "trigger" \in Kinds
    BY DEF Kinds
  <2>3. {} \in Typed /\ \A p \in Password : {p} \in Typed
    BY DEF Typed
  <2>4. CASE StartBootstrap(c)
    BY <2>2, <2>3, <2>4 DEF StartBootstrap
  <2>5. CASE StartKeyCreate(c) \/ StartTokenCreate(c) \/ StartDeploy(c)
    <3>1. PICK k \in HeldKeys, cmd \in {"create", "deploy"}, kind \in Kinds :
            Begin(c, cmd, k, 0, kind, {}, {})
      BY <2>2, <2>5 DEF StartKeyCreate, StartTokenCreate, StartDeploy
    <3>2. cmd \in Critical /\ cmd # "bootstrap" /\ k \in Cred \cup {StaticKey}
      BY <2>1 DEF Critical
    <3> QED
      BY <2>3, <3>1, <3>2
  <2>6. CASE StartKeyRemove(c)
    <3>1. PICK k \in HeldKeys, target \in Cred :
            Begin(c, "revoke", k, target, creds[target].kind, {}, {})
      BY <2>6 DEF StartKeyRemove
    <3>2. "revoke" \in Critical /\ creds[target].kind \in Kinds /\ k \in Cred \cup {StaticKey}
      BY <2>1 DEF Critical, CredRow
    <3> QED
      BY <2>3, <3>1, <3>2
  <2>7. CASE StartPassword(c)
    <3>1. PICK k \in HeldKeys, current \in Password, next \in Password :
            Begin(c, "change", k, 0, "api", {current}, {next})
      BY <2>7 DEF StartPassword
    <3>2. /\ "change" \in Critical /\ "change" # "bootstrap" /\ k \in Cred \cup {StaticKey}
          /\ {current} \in Typed
          /\ {next} \in Typed
      BY <2>1, <2>3 DEF Critical
    <3> QED
      BY <2>2, <3>1, <3>2
  <2>8. CASE StartRun(c)
    <3>1. PICK k \in held :
            Begin(c, "run", k, 0, IF k = StaticKey THEN "api" ELSE creds[k].kind, {}, {})
      BY <2>8 DEF StartRun
    <3> DEFINE kind == IF k = StaticKey THEN "api" ELSE creds[k].kind
    <3>2. k \in Cred \cup {StaticKey} /\ kind \in Kinds
      BY <2>2 DEF CredRow
    <3> HIDE DEF kind
    <3>3. Begin(c, "run", k, 0, kind, {}, {})
      BY <3>1 DEF kind
    <3> QED
      BY <2>3, <3>2, <3>3
  <2> QED
    BY <2>4, <2>5, <2>6, <2>7, <2>8 DEF Start
<1>2. /\ client[c].pc = "idle" /\ started' = started + 1 /\ started < MaxCommands
      /\ UNCHANGED <<mode, admins, history, creds, held, token, lost>>
  BY <1>1, Zenon DEF Begin, Busy
<1>3. PICK late \in BOOLEAN, sent \in Nat :
        /\ client' = [client EXCEPT ![c] = StartRow(cmd, cred, arg, kind, typed, next, sent, late)]
        /\ late => cred \in Cred /\ creds[cred].state = "revoked"
  <2> DEFINE L == cred \in Cred /\ creds[cred].state = "revoked"
  <2>1. L \in BOOLEAN /\ Version \in Nat
    BY DEF Version
  <2>2. client' = [client EXCEPT ![c] = StartRow(cmd, cred, arg, kind, typed, next, Version, L)]
    BY <1>1, Zenon DEF Begin, StartRow
  <2> QED
    BY <2>1, <2>2, Zenon
<1> DEFINE row == StartRow(cmd, cred, arg, kind, typed, next, sent, late)
<1>4. cmd # "bootstrap" \/ ~late
  BY <1>1, <1>3, AccessAssumption DEF StaticKey
<1>5. client' = [client EXCEPT ![c] = row]
  BY <1>3
<1>6. /\ row \in Command /\ row.pc = "request" /\ row.cmd = cmd /\ row.cred = cred
      /\ row.late = late /\ row.attempt = 1 /\ row.effects = 0 /\ row.res = "none"
  <2>1. row \in Command
    BY StartRowType
  <2> QED
    BY <2>1, IdleType DEF StartRow, Command
<1> HIDE DEF row
<1>7. client'[c] = row /\ token'[c] = token[c] /\ Alone(c)
  BY <1>2, <1>5, <1>6 DEF Alone
<1>8. token[c].state = "none"
  BY <1>2, NoTokenYet
<1>9. Sane(c)'
  BY <1>2, <1>3, <1>4, <1>6, <1>7, <1>8 DEF Sane, EffectIsLast, Attempts, Proven, Fresh, KeptOut
<1>10. started' \in 0..MaxCommands
  BY <1>2, AccessAssumption
<1> QED
  BY <1>2, <1>7, <1>9, <1>10, StepInv DEF CredRow, Owned

\* A request that goes on, or is answered, by the rules of the route.
LEMMA MoveInv ==
  ASSUME AccessInv, NEW c \in Client, client' \in [Client -> Command], Others(c),
         Same(client[c], client'[c]), client'[c].attempt = client[c].attempt,
         UNCHANGED <<mode, admins, history, held, token, started, lost>>,
         creds' \in [Cred -> CredRow],
         \A k \in Cred : creds[k].state = "revoked" => creds'[k].state = "revoked",
         \A k \in Cred : creds'[k].kind = "api" /\ creds'[k].state # "free" => admins = 1,
         client[c].pc # "token", client'[c].pc \notin {"idle", "issue", "token"},
         \/ client'[c].effects = 0
         \/ client'[c].effects = 1 /\ client'[c].pc = "reply" /\ client'[c].res = "ok",
         client'[c].pc \in {"reauth", "verify"} => client[c].attempt = 1,
         client'[c].res = "refused" \/ client'[c].pc \in {"gate", "change", "reauth", "verify"}
           => client[c].cmd \in Critical,
         client'[c].pc \in {"verify", "change"} => mode = "prod",
         client'[c].pc \in {"handle", "change"} \/ client'[c].effects = 1 =>
           /\ mode = "prod" /\ client[c].cmd \in Critical => token[c].state # "none"
           /\ client[c].attempt = 2 => token[c].inserted >= client[c].sent
           /\ ~client[c].late,
         client[c].late => client'[c].pc \in {"request", "reply"} /\ client'[c].res # "refused"
  PROVE  AccessInv'
<1>1. Sane(c) /\ client[c] \in Command /\ token[c] \in TokenRow /\ UNCHANGED <<Version, token[c]>>
  BY DEF AccessInv, Types, Version
<1>2. token[c].inserted \in Nat /\ client[c].sent \in Nat
  BY <1>1 DEF Command, TokenRow
<1>3. EffectIsLast(c)'
  BY DEF EffectIsLast
<1>4. Attempts(c)'
  BY <1>1 DEF Sane, Attempts, Same
<1>5. Proven(c)'
  BY <1>1 DEF Sane, Proven, Same
<1>6. Fresh(c)'
  BY <1>1, <1>2 DEF Sane, Fresh, Same
<1>7. KeptOut(c)'
  BY <1>1 DEF Sane, KeptOut, Same
<1>8. Alone(c)
  BY DEF Alone, Others, AccessInv, Types
<1> QED
  BY <1>3, <1>4, <1>5, <1>6, <1>7, <1>8, StepInv DEF Sane, AccessInv, Types

\* In the middle of a request there has been no effect, and a late command is
\* not there.
LEMMA InTheMiddle ==
  ASSUME AccessInv, NEW c \in Client, client[c].pc \notin {"request", "reply"}
  PROVE  client[c].effects = 0 /\ ~client[c].late
BY DEF AccessInv, Sane, EffectIsLast, KeptOut

\* The middleware refuses a revoked credential.
LEMMA LateRefused ==
  ASSUME AccessInv, NEW c \in Client, client[c].late
  PROVE  ~Authenticated(c)
<1>1. /\ client[c].cred \in Cred /\ client[c].cred # StaticKey
      /\ creds[client[c].cred].state = "revoked" /\ creds[client[c].cred] \in CredRow
  BY AccessAssumption DEF AccessInv, Types, Sane, KeptOut, StaticKey
<1> QED
  BY <1>1 DEF Authenticated, RunAuthenticated, StaticKeyAccepted, APIKeyAccepted,
              TriggerTokenAccepted, CredRow

\* The middleware.
LEMMA RouteInv ==
  ASSUME AccessInv, NEW c \in Client, Route(c)
  PROVE  AccessInv'
<1>1. /\ client[c].pc = "request" /\ client \in [Client -> Command] /\ creds \in [Cred -> CredRow]
      /\ UNCHANGED <<mode, admins, history, creds, held, token, started, lost>>
  BY DEF Route, AccessInv, Types
<1>2. client[c].effects = 0 /\ (client[c].late => client[c].cmd # "bootstrap" /\ client[c].res # "refused")
  BY <1>1 DEF AccessInv, Sane, EffectIsLast, KeptOut
<1>3. client[c].res = "refused" \/ client[c].attempt = 2 => client[c].cmd \in Critical
  BY DEF AccessInv, Sane, Attempts
<1>4. "bootstrap" \notin Critical /\ "run" \notin Critical
  BY DEF Critical
<1>5. CASE client[c].cmd \in {"bootstrap", "run"} /\ Goto(c, "handle") /\ ~client[c].late
  <2>1. "handle" \in InServer
    BY DEF InServer
  <2>2. client[c].attempt # 2 /\ client[c].cmd \notin Critical /\ client[c].res # "refused"
    BY <1>3, <1>4, <1>5
  <2> QED
    BY <1>1, <1>2, <1>5, <2>1, <2>2, GotoStep, MoveInv DEF AccessInv, Owned
<1>6. CASE client[c].cmd \in Critical /\ Goto(c, "gate") /\ ~client[c].late
  <2>1. "gate" \in InServer
    BY DEF InServer
  <2> QED
    BY <1>1, <1>2, <1>6, <2>1, GotoStep, MoveInv DEF AccessInv, Owned
<1>7. CASE Answer(c, "failed")
  BY <1>1, <1>2, <1>7, AnswerStep, MoveInv DEF AccessInv, Owned
<1>8. \/ client[c].cmd = "bootstrap" /\ Goto(c, "handle")
      \/ client[c].cmd = "run" /\ Authenticated(c) /\ Goto(c, "handle")
      \/ client[c].cmd \in Critical /\ Authenticated(c) /\ Goto(c, "gate")
      \/ Answer(c, "failed")
  BY <1>4, Zenon DEF Route
<1> QED
  BY <1>2, <1>5, <1>6, <1>7, <1>8, LateRefused

\* requireCriticalReauth: in prod mode only a live token lets a command through,
\* and it was inserted under the current password.
LEMMA GateInv ==
  ASSUME AccessInv, NEW c \in Client, Gate(c)
  PROVE  AccessInv'
<1>1. /\ client[c].pc = "gate" /\ client \in [Client -> Command] /\ creds \in [Cred -> CredRow]
      /\ mode \in {"dev", "prod"} /\ token[c] \in TokenRow
      /\ UNCHANGED <<mode, admins, history, creds, held, token, started, lost>>
  BY DEF Gate, AccessInv, Types
<1>2. client[c].effects = 0 /\ ~client[c].late
  BY <1>1, InTheMiddle
<1>3. client[c].cmd \in Critical /\ (client[c].attempt = 2 => mode = "prod")
  BY <1>1 DEF AccessInv, Sane, Attempts
<1>4. CASE Goto(c, "handle") /\ (mode = "dev" \/ TokenAccepted(c))
  <2>1. "handle" \in InServer
    BY DEF InServer
  <2>2. mode = "prod" => token[c].state # "none"
    BY <1>4 DEF TokenAccepted
  <2>3. client[c].attempt = 2 => token[c].inserted >= client[c].sent
    <3> SUFFICES ASSUME client[c].attempt = 2 PROVE token[c].inserted >= client[c].sent
      OBVIOUS
    <3>1. token[c].state = "live"
      BY <1>3, <1>4 DEF TokenAccepted
    <3>2. token[c].inserted \in Nat /\ client[c].sent \in Nat
      BY <1>1 DEF Command, TokenRow
    <3> QED
      BY <3>1, <3>2 DEF AccessInv, Sane, Fresh
  <2> QED
    BY <1>1, <1>2, <1>3, <1>4, <2>1, <2>2, <2>3, GotoStep, MoveInv DEF AccessInv, Owned
<1>5. CASE Answer(c, "refused")
  BY <1>1, <1>2, <1>3, <1>5, AnswerStep, MoveInv DEF AccessInv, Owned
<1> QED
  BY <1>4, <1>5 DEF Gate

\* A handler that has been let through may have its effect.
LEMMA MayAct ==
  ASSUME AccessInv, NEW c \in Client, client[c].pc \in {"handle", "change"}
  PROVE  /\ mode = "prod" /\ client[c].cmd \in Critical => token[c].state # "none"
         /\ client[c].attempt = 2 => token[c].inserted >= client[c].sent
         /\ ~client[c].late /\ client[c].effects = 0
<1>1. token[c].inserted \in Nat /\ client[c].sent \in Nat
  BY DEF AccessInv, Types, Command, TokenRow
<1>2. client[c].attempt = 2 => token[c].inserted >= client[c].sent
  BY <1>1 DEF AccessInv, Sane, Fresh
<1>3. mode = "prod" /\ client[c].cmd \in Critical => token[c].state # "none"
  BY DEF AccessInv, Sane, Proven
<1> QED
  BY <1>2, <1>3, InTheMiddle

\* Handlers that answer, and those of a mutation that touches no credential.
LEMMA HandlerInv ==
  ASSUME AccessInv, NEW c \in Client,
         HandlePassword(c) \/ HandleMutation(c) \/ HandleReauth(c)
           \/ (AskPassword(c) /\ client[c].cmd = "change")
  PROVE  AccessInv'
<1>1. /\ client \in [Client -> Command] /\ creds \in [Cred -> CredRow]
      /\ UNCHANGED <<mode, admins, history, creds, held, token, started, lost>>
  BY DEF HandlePassword, HandleMutation, HandleReauth, AskPassword, AccessInv, Types
<1>2. {"change", "verify", "reauth"} \subseteq InServer
  BY DEF InServer
<1>3. CASE Answer(c, "failed") /\ client[c].pc \in {"handle", "reauth"}
  BY <1>1, <1>3, InTheMiddle, AnswerStep, MoveInv DEF AccessInv, Owned
<1>4. CASE HandlePassword(c) /\ Goto(c, "change")
  <2>1. client[c].pc = "handle" /\ client[c].cmd = "change" /\ "change" \in Critical
    BY <1>4 DEF HandlePassword, Critical
  <2>2. mode = "prod"
    <3>1. CASE Principal
      BY <3>1 DEF Principal
    <3>2. CASE ~Principal
      <4>1. Answer(c, "failed")
        BY <1>4, <3>2 DEF HandlePassword
      <4> QED
        BY <1>1, <1>2, <1>4, <4>1, AnswerStep, GotoStep
    <3> QED
      BY <3>1, <3>2
  <2> QED
    BY <1>1, <1>2, <1>4, <2>1, <2>2, MayAct, GotoStep, MoveInv DEF AccessInv, Owned
<1>5. CASE HandleMutation(c)
  BY <1>1, <1>5, MayAct, DoneStep, MoveInv DEF HandleMutation, AccessInv, Owned, Sane, Attempts
<1>6. CASE HandleReauth(c) /\ Goto(c, "verify") /\ Principal
  <2>1. client[c].pc = "reauth" /\ client[c].attempt = 1 /\ client[c].cmd \in Critical /\ mode = "prod"
    BY <1>6 DEF HandleReauth, Principal, AccessInv, Sane, Attempts
  <2> QED
    BY <1>1, <1>2, <1>6, <2>1, InTheMiddle, GotoStep, MoveInv DEF AccessInv, Owned
<1>7. CASE AskPassword(c) /\ client[c].cmd = "change"
  <2>1. /\ client[c].pc = "reply" /\ client[c].res = "refused" /\ client[c].attempt = 1
        /\ Goto(c, "reauth") /\ "change" \in Critical
    BY <1>7 DEF AskPassword, MayRetry, Critical
  <2>2. client[c].effects = 0 /\ ~client[c].late
    BY <2>1 DEF AccessInv, Sane, EffectIsLast, KeptOut
  <2> QED
    BY <1>1, <1>2, <1>7, <2>1, <2>2, GotoStep, MoveInv DEF AccessInv, Owned
<1> QED
  BY <1>3, <1>4, <1>5, <1>6, <1>7 DEF HandlePassword, HandleReauth

\* A new credential is live, of the kind asked for, and takes a free place.
LEMMA NewCredStep ==
  ASSUME Types, NEW kind \in Kinds, NewCred(kind)
  PROVE  \E k \in Cred :
           /\ creds[k].state = "free" /\ creds'[k].state = "live" /\ creds'[k].kind = kind
           /\ creds' \in [Cred -> CredRow]
           /\ \A j \in Cred \ {k} : creds'[j] = creds[j]
           /\ creds'[k] # creds[k]
BY DEF NewCred, Types, CredRow

\* Creation and revocation of keys and trigger tokens.
LEMMA CredentialInv ==
  ASSUME AccessInv, NEW c \in Client, HandleCreate(c) \/ HandleRevoke(c)
  PROVE  AccessInv'
<1>1. /\ client[c].pc = "handle" /\ client[c].cmd \in Critical /\ client \in [Client -> Command]
      /\ client[c].kind \in Kinds /\ creds \in [Cred -> CredRow]
      /\ UNCHANGED <<mode, admins, history, held, token, started, lost>>
  BY DEF HandleCreate, HandleRevoke, AccessInv, Types, Command, Critical
<1>2. CASE Answer(c, "failed") /\ UNCHANGED creds
  BY <1>1, <1>2, InTheMiddle, AnswerStep, MoveInv DEF AccessInv, Owned
<1>3. CASE CreateTx(c) /\ (Principal \/ client[c].kind = "trigger")
  <2>1. PICK n \in Cred :
          /\ creds[n].state = "free" /\ creds'[n].state = "live" /\ creds'[n].kind = client[c].kind
          /\ creds' \in [Cred -> CredRow]
          /\ \A j \in Cred \ {n} : creds'[j] = creds[j]
          /\ creds'[n] # creds[n]
    BY <1>1, <1>3, NewCredStep DEF CreateTx, AccessInv
  <2>2. Made(c) # {} /\ Made(c) \subseteq Cred
    BY <2>1 DEF Made
  <2>3. PICK arg \in Cred :
          client' = [client EXCEPT ![c] = MadeRow(client[c], client[c].effects + 1, arg)]
    <3> DEFINE new == CHOOSE k \in Made(c) : TRUE
    <3>1. client' = [client EXCEPT ![c].pc = "reply", ![c].res = "ok", ![c].effects = @ + 1,
                                   ![c].arg = new]
      BY <1>3 DEF CreateTx
    <3>2. new \in Cred
      BY <2>2
    <3> HIDE DEF new
    <3>3. client' = [client EXCEPT ![c] = MadeRow(client[c], client[c].effects + 1, new)]
      BY <3>1, Zenon DEF MadeRow
    <3> QED
      BY <3>2, <3>3
  <2>4. client[c].kind = "api" => admins = 1
    <3> SUFFICES ASSUME client[c].kind = "api" PROVE admins = 1
      OBVIOUS
    <3>1. mode = "prod"
      BY <1>3 DEF Principal
    <3>2. token[c].state # "none"
      BY <1>1, <3>1, MayAct
    <3>3. history # <<>>
      BY <3>2 DEF AccessInv, Sane, Proven, Version
    <3> QED
      BY <3>3 DEF AccessInv, Owned, Types
  <2>5. /\ \A j \in Cred : creds[j].state = "revoked" => creds'[j].state = "revoked"
        /\ \A j \in Cred : creds'[j].kind = "api" /\ creds'[j].state # "free" => admins = 1
    BY <2>1, <2>4 DEF AccessInv, Owned
  <2>6. creds' \in [Cred -> CredRow]
    BY <2>1
  <2>7. /\ client' \in [Client -> Command] /\ Others(c) /\ Same(client[c], client'[c])
        /\ client'[c].pc = "reply" /\ client'[c].res = "ok"
        /\ client'[c].attempt = client[c].attempt /\ client'[c].effects = client[c].effects + 1
    BY <1>1, <2>3, MadeStep
  <2> QED
    BY <1>1, <2>5, <2>6, <2>7, MayAct, MoveInv DEF AccessInv, Sane, Attempts
<1>4. CASE RevokeTx(c) /\ ~(Answer(c, "failed") /\ UNCHANGED creds)
  <2> DEFINE k == client[c].arg
  <2>1. creds' = [creds EXCEPT ![k].state = "revoked"] /\ creds[k].state = "live" /\ Done(c)
    BY <1>4 DEF RevokeTx
  <2>2. /\ creds' \in [Cred -> CredRow]
        /\ \A j \in Cred : creds[j].state = "revoked" => creds'[j].state = "revoked"
        /\ \A j \in Cred : /\ creds'[j].kind = creds[j].kind
                           /\ creds'[j].state # "free" => creds[j].state # "free"
    BY <1>1, <2>1 DEF CredRow
  <2> QED
    BY <1>1, <2>1, <2>2, MayAct, DoneStep, MoveInv DEF AccessInv, Owned, Sane, Attempts
<1> QED
  BY <1>2, <1>3, <1>4 DEF HandleCreate, HandleRevoke

\* Steps that change one field of a command, or a few, and not the rest.
LEMMA TypedStep ==
  ASSUME client \in [Client -> Command], NEW c \in Client, NEW p \in Password,
         client' = [client EXCEPT ![c].pc = "reauth", ![c].typed = {p}]
  PROVE  /\ client' \in [Client -> Command] /\ Others(c)
         /\ client'[c].pc = "reauth" /\ client'[c].cmd = client[c].cmd
         /\ client'[c].late = client[c].late /\ client'[c].sent = client[c].sent
         /\ client'[c].attempt = client[c].attempt /\ client'[c].effects = client[c].effects
<1> DEFINE typed == {p}
           row == [client[c] EXCEPT !.pc = "reauth", !.typed = typed]
<1>1. client' = [client EXCEPT ![c] = row]
  BY Zenon
<1>2. typed \in Typed /\ "reauth" \in InServer
  BY DEF Typed, InServer
<1> HIDE DEF typed
<1>3. row \in Command
  BY <1>2, ZenonT(30) DEF Command
<1>4. /\ row.pc = "reauth" /\ row.cmd = client[c].cmd /\ row.late = client[c].late
      /\ row.sent = client[c].sent /\ row.attempt = client[c].attempt
      /\ row.effects = client[c].effects
  BY DEF Command
<1> HIDE DEF row
<1> QED
  BY <1>1, <1>3, <1>4 DEF Others

\* The operator types a password: there is no token yet that it could be at odds
\* with.
LEMMA AskInv ==
  ASSUME AccessInv, NEW c \in Client, AskPassword(c), client[c].cmd # "change"
  PROVE  AccessInv'
<1>1. /\ client[c].pc = "reply" /\ client[c].res = "refused" /\ client[c].attempt = 1
      /\ client \in [Client -> Command]
      /\ UNCHANGED <<mode, admins, history, creds, held, token, started, lost>>
  BY DEF AskPassword, MayRetry, AccessInv, Types
<1>2. PICK p \in Password : client' = [client EXCEPT ![c].pc = "reauth", ![c].typed = {p}]
  BY DEF AskPassword
<1>3. /\ client' \in [Client -> Command] /\ Others(c)
      /\ client'[c].pc = "reauth" /\ client'[c].cmd = client[c].cmd
      /\ client'[c].late = client[c].late /\ client'[c].sent = client[c].sent
      /\ client'[c].attempt = 1 /\ client'[c].effects = client[c].effects
  BY <1>1, <1>2, TypedStep
<1>4. /\ client[c].effects = 0 /\ ~client[c].late /\ client[c].cmd \in Critical
      /\ token[c].state = "none"
  BY <1>1, NoTokenYet DEF AccessInv, Sane, EffectIsLast, KeptOut, Attempts
<1>5. UNCHANGED <<Version, token[c]>>
  BY <1>1 DEF Version
<1>6. Sane(c)'
  BY <1>1, <1>3, <1>4, <1>5 DEF Sane, EffectIsLast, Attempts, Proven, Fresh, KeptOut
<1> QED
  BY <1>1, <1>3, <1>6, StepInv DEF Alone, Others, AccessInv, Types, Owned

\* The password is the owner's at the moment it is verified.
LEMMA VerifyInv ==
  ASSUME AccessInv, NEW c \in Client, VerifyPassword(c)
  PROVE  AccessInv'
<1>1. /\ client[c].pc = "verify" /\ client \in [Client -> Command] /\ history \in Seq(Password)
      /\ creds \in [Cred -> CredRow]
      /\ UNCHANGED <<mode, admins, history, creds, held, token, started, lost>>
  BY DEF VerifyPassword, AccessInv, Types
<1>2. client[c].effects = 0 /\ ~client[c].late
  BY <1>1, InTheMiddle
<1>3. CASE Answer(c, "failed")
  BY <1>1, <1>2, <1>3, AnswerStep, MoveInv DEF AccessInv, Owned
<1>4. CASE /\ client' = [client EXCEPT ![c].pc = "issue", ![c].verified = Version]
           /\ PasswordAccepted(c)
  <2> DEFINE row == [client[c] EXCEPT !.pc = "issue", !.verified = Version]
  <2>1. client' = [client EXCEPT ![c] = row]
    BY <1>4, Zenon
  <2>2. Version \in Nat /\ "issue" \in InServer
    BY <1>1 DEF Version, InServer
  <2>3. row \in Command
    <3>1. client[c] \in Command
      BY <1>1
    <3> QED
      BY <2>2, <3>1 DEF Command
  <2>4. /\ row.pc = "issue" /\ row.cmd = client[c].cmd /\ row.late = client[c].late
        /\ row.sent = client[c].sent /\ row.attempt = client[c].attempt
        /\ row.effects = client[c].effects /\ row.verified = Version
        /\ row.typed = client[c].typed /\ row.res = client[c].res
    BY <1>1 DEF Command
  <2> HIDE DEF row
  <2>5. client'[c] = row /\ Alone(c)
    BY <1>1, <2>1, <2>3 DEF Alone, AccessInv, Types
  <2>6. client[c].attempt = 1 /\ client[c].cmd \in Critical /\ mode = "prod" /\ token[c].state = "none"
    BY <1>1, NoTokenYet DEF AccessInv, Sane, Attempts
  <2>7. Version \in 1..Version /\ client[c].typed = {history[Version]}
    BY <1>1, <1>4 DEF PasswordAccepted, CurrentPassword, Version
  <2>8. UNCHANGED <<Version, token[c]>>
    BY <1>1 DEF Version
  <2>9. Sane(c)'
    BY <1>1, <1>2, <2>4, <2>5, <2>6, <2>7, <2>8
       DEF Sane, EffectIsLast, Attempts, Proven, Fresh, KeptOut
  <2> QED
    BY <1>1, <2>5, <2>9, StepInv DEF AccessInv, Types, Owned
<1> QED
  BY <1>3, <1>4 DEF VerifyPassword

\* The token stands for the password that was verified, whatever it is now.
LEMMA IssueInv ==
  ASSUME AccessInv, NEW c \in Client, IssueToken(c)
  PROVE  AccessInv'
<1>1. /\ client[c].pc = "issue" /\ client \in [Client -> Command] /\ token \in [Client -> TokenRow]
      /\ history \in Seq(Password) /\ Goto(c, "token")
      /\ UNCHANGED <<mode, admins, history, creds, held, started, lost>>
  BY DEF IssueToken, AccessInv, Types
<1> DEFINE row == [state |-> "live", verified |-> client[c].verified, inserted |-> Version]
<1>2. token' = [token EXCEPT ![c] = row]
  BY DEF IssueToken
<1>3. row \in TokenRow /\ row.state = "live" /\ row.verified = client[c].verified /\ row.inserted = Version
  BY <1>1 DEF TokenRow, Command, Version
<1> HIDE DEF row
<1>4. token' \in [Client -> TokenRow] /\ token'[c] = row /\ \A d \in Client \ {c} : token'[d] = token[d]
  BY <1>1, <1>2, <1>3
<1>5. /\ client' \in [Client -> Command] /\ Others(c) /\ Same(client[c], client'[c])
      /\ client'[c].pc = "token" /\ client'[c].res = client[c].res
      /\ client'[c].attempt = client[c].attempt /\ client'[c].effects = client[c].effects
  BY <1>1, GotoStep DEF Answered
<1>6. /\ client[c].attempt = 1 /\ client[c].cmd \in Critical /\ mode = "prod"
      /\ client[c].effects = 0 /\ ~client[c].late
  BY <1>1, InTheMiddle DEF AccessInv, Sane, Attempts
<1>7. client[c].verified \in 1..Version /\ client[c].typed = {history[client[c].verified]}
  BY <1>1 DEF AccessInv, Sane, Proven
<1>8. Version' = Version
  BY <1>1 DEF Version
<1>9. Sane(c)'
  BY <1>1, <1>3, <1>4, <1>5, <1>6, <1>7, <1>8
     DEF Sane, EffectIsLast, Attempts, Proven, Fresh, KeptOut, Same
<1> QED
  BY <1>1, <1>4, <1>5, <1>9, StepInv DEF Alone, Others, AccessInv, Types, Owned

\* The command is sent again: a token that an older password left cannot be live.
LEMMA ReceiveInv ==
  ASSUME AccessInv, NEW c \in Client, ReceiveToken(c)
  PROVE  AccessInv'
<1>1. /\ client[c].pc = "token" /\ client \in [Client -> Command] /\ token \in [Client -> TokenRow]
      /\ history \in Seq(Password)
      /\ UNCHANGED <<mode, admins, history, creds, held, token, started, lost>>
  BY DEF ReceiveToken, AccessInv, Types
<1> DEFINE row == [client[c] EXCEPT !.pc = "request", !.attempt = 2, !.sent = Version, !.res = "none"]
<1>2. client' = [client EXCEPT ![c] = row]
  BY Zenon DEF ReceiveToken
<1>3. Version \in Nat /\ "request" \in InServer
  BY <1>1 DEF Version, InServer
<1>4. row \in Command
  <2> DEFINE old == client[c]
             version == Version
  <2>1. old \in Command /\ version \in Nat /\ 2 \in 1..2
    BY <1>1, <1>3
  <2> HIDE DEF old, version
  <2>2. [old EXCEPT !.pc = "request", !.attempt = 2, !.sent = version, !.res = "none"] \in Command
    BY <1>3, <2>1 DEF Command
  <2> QED
    BY <2>2 DEF old, version
<1>5. /\ row.pc = "request" /\ row.cmd = client[c].cmd /\ row.late = client[c].late
      /\ row.sent = Version /\ row.attempt = 2 /\ row.res = "none"
      /\ row.effects = client[c].effects /\ row.typed = client[c].typed
  BY <1>1 DEF Command
<1> HIDE DEF row
<1>6. client'[c] = row /\ Alone(c)
  BY <1>1, <1>2, <1>4 DEF Alone, AccessInv, Types
<1>7. /\ client[c].cmd \in Critical /\ mode = "prod" /\ token[c].state # "none"
      /\ client[c].effects = 0 /\ ~client[c].late
  BY <1>1, InTheMiddle DEF AccessInv, Sane, Attempts
<1>8. token[c].state = "live" => token[c].inserted = Version
  BY DEF AccessInv, Sane, Fresh
<1>9. token[c].verified \in 1..Version /\ client[c].typed = {history[token[c].verified]}
  BY <1>7 DEF AccessInv, Sane, Proven
<1>10. UNCHANGED <<Version, token[c]>>
  BY <1>1 DEF Version
<1>11. Sane(c)'
  BY <1>1, <1>3, <1>5, <1>6, <1>7, <1>8, <1>9, <1>10
     DEF Sane, EffectIsLast, Attempts, Proven, Fresh, KeptOut
<1> QED
  BY <1>1, <1>6, <1>11, StepInv DEF AccessInv, Types, Owned

\* The command ends, or its answer is lost.
LEMMA EndInv ==
  ASSUME AccessInv, NEW c \in Client, Finish(c) \/ Lose(c)
  PROVE  AccessInv'
<1>1. /\ client \in [Client -> Command] /\ token \in [Client -> TokenRow] /\ End(c)
      /\ UNCHANGED <<mode, admins, history, creds, started>>
  BY DEF Finish, Lose, AccessInv, Types
<1>2. held' \subseteq Cred \cup {StaticKey}
  BY <1>1 DEF Finish, Lose, AccessInv, Types, Command, StaticKey
<1>3. lost' \in 0..MaxLost
  BY AccessAssumption DEF Finish, Lose, AccessInv, Types
<1>4. NoToken \in TokenRow /\ NoToken.state = "none"
  BY DEF NoToken, TokenRow
<1>5. client'[c] = Idle /\ token'[c] = NoToken /\ Alone(c)
  BY <1>1, <1>4, IdleType DEF End, Alone
<1>6. Sane(c)'
  BY <1>4, <1>5, IdleType DEF Sane, EffectIsLast, Attempts, Proven, Fresh, KeptOut
<1> QED
  BY <1>1, <1>2, <1>3, <1>5, <1>6, StepInv DEF AccessInv, Types, Owned

\* Ten minutes go by.
LEMMA ExpireInv ==
  ASSUME AccessInv, NEW c \in Client, Expire(c)
  PROVE  AccessInv'
<1>1. /\ token \in [Client -> TokenRow] /\ token[c].state = "live"
      /\ token' = [token EXCEPT ![c].state = "expired"]
      /\ UNCHANGED <<mode, admins, history, creds, held, client, started, lost>>
  BY DEF Expire, AccessInv, Types
<1>2. /\ token' \in [Client -> TokenRow] /\ \A d \in Client \ {c} : token'[d] = token[d]
      /\ token'[c].state = "expired" /\ token'[c].verified = token[c].verified
      /\ token'[c].inserted = token[c].inserted
  BY <1>1 DEF TokenRow
<1>3. Forward /\ Version' = Version
  BY <1>1 DEF Forward, Version, AccessInv, Types
<1>4. Sane(c)'
  BY <1>1, <1>2, <1>3, BystanderSane DEF AccessInv
<1> QED
  BY <1>1, <1>2, <1>4, StepInv DEF Alone, AccessInv, Types, Owned

\* Bootstrap: the owner comes with a password and a key, and nobody can have
\* been issued a token before that.
LEMMA BootstrapInv ==
  ASSUME AccessInv, NEW c \in Client, HandleBootstrap(c)
  PROVE  AccessInv'
<1>1. /\ client[c].pc = "handle" /\ client[c].cmd = "bootstrap" /\ client \in [Client -> Command]
      /\ creds \in [Cred -> CredRow] /\ history \in Seq(Password) /\ admins \in Nat
      /\ token \in [Client -> TokenRow]
      /\ UNCHANGED <<mode, held, token, started, lost>>
  BY DEF HandleBootstrap, AccessInv, Types
<1>2. client[c].effects = 0 /\ ~client[c].late
  BY <1>1, InTheMiddle
<1>3. CASE Answer(c, "failed") /\ UNCHANGED <<admins, history, creds>>
  BY <1>1, <1>2, <1>3, AnswerStep, MoveInv DEF AccessInv, Owned
<1>4. CASE BootstrapTx(c)
  <2>1. admins = 0 /\ history = <<>> /\ admins' = 1
    BY <1>1, <1>4 DEF BootstrapTx, BootstrapOpen, AccessInv, Owned
  <2>2. PICK p \in client[c].typed : history' = Append(history, p)
    BY <1>4 DEF BootstrapTx
  <2>3. p \in Password
    <3>1. client[c].typed \in Typed
      BY <1>1 DEF Command
    <3> QED
      BY <2>2, <3>1 DEF Typed
  <2>4. /\ history' \in Seq(Password) /\ history' # <<>> /\ Version = 0 /\ Version' = 1
    BY <1>1, <2>1, <2>2, <2>3 DEF Version
  <2>5. PICK n \in Cred :
          /\ creds[n].state = "free" /\ creds'[n].state = "live" /\ creds'[n].kind = "api"
          /\ creds' \in [Cred -> CredRow]
          /\ \A j \in Cred \ {n} : creds'[j] = creds[j]
          /\ creds'[n] # creds[n]
    BY <1>4, NewCredStep DEF BootstrapTx, AccessInv, Kinds
  <2>6. Made(c) # {} /\ Made(c) \subseteq Cred
    BY <2>5 DEF Made
  <2>7. PICK arg \in Cred :
          client' = [client EXCEPT ![c] = MadeRow(client[c], client[c].effects + 1, arg)]
    <3> DEFINE new == CHOOSE k \in Made(c) : TRUE
    <3>1. client' = [client EXCEPT ![c].pc = "reply", ![c].res = "ok", ![c].effects = @ + 1,
                                   ![c].arg = new]
      BY <1>4 DEF BootstrapTx
    <3>2. new \in Cred
      BY <2>6
    <3> HIDE DEF new
    <3>3. client' = [client EXCEPT ![c] = MadeRow(client[c], client[c].effects + 1, new)]
      BY <3>1, Zenon DEF MadeRow
    <3> QED
      BY <3>2, <3>3
  <2>8. /\ client' \in [Client -> Command] /\ Others(c) /\ Same(client[c], client'[c])
        /\ client'[c].pc = "reply" /\ client'[c].res = "ok"
        /\ client'[c].attempt = client[c].attempt /\ client'[c].effects = client[c].effects + 1
    BY <1>1, <2>7, MadeStep
  <2>9. \A d \in Client : token[d].state = "none" /\ token'[d] = token[d]
    BY <1>1, <2>4 DEF AccessInv, Sane, Proven
  <2>10. Forward
    BY <1>1, <2>4, <2>5 DEF Forward
  <2>11. \A d \in Client \ {c} : Sane(d)'
    BY <2>8, <2>9, <2>10, BystanderSane DEF AccessInv, Others
  <2>12. client[c].attempt # 2 /\ client[c].cmd \notin Critical
    BY <1>1 DEF AccessInv, Sane, Attempts, Critical
  <2>13. Sane(c)'
    BY <1>2, <2>8, <2>9, <2>12 DEF Sane, EffectIsLast, Attempts, Proven, Fresh, KeptOut, Same
  <2>14. Types'
    BY <1>1, <2>1, <2>4, <2>5, <2>8 DEF AccessInv, Types
  <2>15. Owned'
    BY <2>1, <2>4 DEF Owned
  <2> QED
    BY <2>11, <2>13, <2>14, <2>15 DEF AccessInv
<1> QED
  BY <1>3, <1>4 DEF HandleBootstrap

\* The password changes, and no token is live any more.
LEMMA ChangeInv ==
  ASSUME AccessInv, NEW c \in Client, ChangePasswordTx(c)
  PROVE  AccessInv'
<1>1. /\ client[c].pc = "change" /\ client \in [Client -> Command] /\ history \in Seq(Password)
      /\ admins \in Nat /\ token \in [Client -> TokenRow] /\ Done(c)
      /\ UNCHANGED <<mode, admins, creds, held, started, lost>>
  BY DEF ChangePasswordTx, AccessInv, Types
<1>2. PICK p \in client[c].next : history' = Append(history, p)
  BY DEF ChangePasswordTx
<1>3. p \in Password
  BY <1>1 DEF Command, Typed
<1>4. /\ history' \in Seq(Password) /\ history' # <<>> /\ Version \in Nat /\ Version' = Version + 1
      /\ \A i \in 1..Version : history'[i] = history[i]
  BY <1>1, <1>2, <1>3 DEF Version
<1>5. Forward
  BY <1>1, <1>4 DEF Forward
<1>6. /\ token' \in [Client -> TokenRow]
      /\ \A d \in Client : /\ token'[d].verified = token[d].verified
                           /\ token'[d].inserted = token[d].inserted
                           /\ token'[d].state # "live"
                           /\ token'[d].state = "none" <=> token[d].state = "none"
  BY <1>1 DEF ChangePasswordTx, RevokeAllTokens, TokenRow
<1>7. /\ client' \in [Client -> Command] /\ Others(c) /\ Same(client[c], client'[c])
      /\ client'[c].pc = "reply" /\ client'[c].res = "ok"
      /\ client'[c].attempt = client[c].attempt /\ client'[c].effects = client[c].effects + 1
  BY <1>1, DoneStep
<1>8. \A d \in Client \ {c} : Sane(d)'
  BY <1>5, <1>6, <1>7, BystanderSane DEF AccessInv, Others
<1>9. client[c].cmd \in Critical /\ mode = "prod"
  BY <1>1 DEF AccessInv, Sane, Attempts
<1>10. /\ token[c].state # "none" /\ ~client[c].late /\ client[c].effects = 0
       /\ client[c].attempt = 2 => token[c].inserted >= client[c].sent
  BY <1>1, <1>9, MayAct
<1>11. client[c].attempt = 2 /\ token[c].verified \in 1..Version
       /\ client[c].typed = {history[token[c].verified]}
  BY <1>1, <1>10 DEF AccessInv, Sane, Attempts, Proven
<1>12. Sane(c)'
  <2>1. token[c].inserted \in Nat /\ client[c].sent \in Nat /\ token[c].verified \in 1..Version'
    BY <1>1, <1>4, <1>11 DEF Command, TokenRow
  <2>2. EffectIsLast(c)' /\ Attempts(c)' /\ KeptOut(c)'
    BY <1>1, <1>6, <1>7, <1>9, <1>10, <1>11 DEF EffectIsLast, Attempts, KeptOut, Same
  <2>3. Proven(c)'
    BY <1>4, <1>6, <1>7, <1>10, <1>11, <2>1 DEF Proven, Same
  <2>4. Fresh(c)'
    BY <1>6, <1>7, <1>10, <1>11, <2>1 DEF Fresh, Same
  <2> QED
    BY <2>2, <2>3, <2>4 DEF Sane
<1>13. Types'
  BY <1>1, <1>4, <1>6, <1>7 DEF AccessInv, Types
<1>14. Owned'
  <2>1. history # <<>>
    BY <1>11 DEF Version
  <2> QED
    BY <1>1, <1>4, <2>1 DEF AccessInv, Owned
<1> QED
  BY <1>8, <1>12, <1>13, <1>14 DEF AccessInv

\* Every step keeps the invariant.
LEMMA NextAccessInv == AccessInv /\ [Next]_vars => AccessInv'
<1> SUFFICES ASSUME AccessInv, [Next]_vars PROVE AccessInv'
  OBVIOUS
<1>1. ASSUME NEW c \in Client, Start(c) PROVE AccessInv'
  BY <1>1, StartInv
<1>2. ASSUME NEW c \in Client, Progress(c) PROVE AccessInv'
  BY <1>2, RouteInv, GateInv, BootstrapInv, CredentialInv, HandlerInv, ChangeInv, VerifyInv,
     IssueInv, AskInv, ReceiveInv, EndInv DEF Progress
<1>3. ASSUME NEW c \in Client, Expire(c) \/ Lose(c) PROVE AccessInv'
  BY <1>3, ExpireInv, EndInv
<1>4. CASE UNCHANGED vars
  BY <1>4 DEF vars, AccessInv, Types, Owned, Sane, EffectIsLast, Attempts, Proven, Fresh, KeptOut,
              Version
<1> QED
  BY <1>1, <1>2, <1>3, <1>4 DEF Next

-----------------------------------------------------------------------------
(* The properties.                                                         *)

\* The invariant holds whatever the clients do and whatever is lost.
THEOREM AccessInvariant == Spec => []AccessInv
<1> QED
  BY InitAccessInv, NextAccessInv, PTL DEF Spec

\* The types of what the authentication keeps.
THEOREM AccessTypes == Spec => []AccessTypeOK
<1>1. AccessInv => AccessTypeOK
  BY DEF AccessInv, Types, AccessTypeOK, Command, Typed, TokenRow, CredRow
<1> QED
  BY <1>1, AccessInvariant, PTL

\* No live token was inserted under another password than the current one.
THEOREM TokensAreRevoked == Spec => []RevocationComplete
<1>1. AccessInv => RevocationComplete
  BY DEF AccessInv, Sane, Fresh, RevocationComplete
<1> QED
  BY <1>1, AccessInvariant, PTL

\* Concurrent bootstraps make one owner, and no API key is older than the owner.
THEOREM OnlyOneOwner == Spec => []OneOwner
<1>1. AccessInv => OneOwner
  BY DEF AccessInv, Owned, OneOwner
<1> QED
  BY <1>1, AccessInvariant, PTL

\* A command has the effect its credentials allow when they are read, once:
\* none with a revoked credential, none without the owner's password in prod
\* mode, none with a token older than the password.
THEOREM EffectsAreAuthorized == Spec => []EffectsAuthorized
<1>1. ASSUME AccessInv PROVE EffectsAuthorized
  <2>1. OneEffect
    BY <1>1 DEF AccessInv, Sane, EffectIsLast, OneEffect
  <2>2. RevokedNeverActs
    BY <1>1 DEF AccessInv, Sane, KeptOut, Attempts, RevokedNeverActs
  <2>3. EffectsProven
    <3> SUFFICES ASSUME NEW c \in Client, mode = "prod", client[c].cmd \in Critical,
                        client[c].effects > 0
                 PROVE  token[c].state # "none" /\ client[c].typed = {history[token[c].verified]}
      BY DEF EffectsProven
    <3>1. client[c].effects = 1
      BY <1>1 DEF AccessInv, Sane, EffectIsLast
    <3> QED
      BY <1>1, <3>1 DEF AccessInv, Sane, Proven
  <2>4. OldTokenNeverActs
    BY <1>1 DEF AccessInv, Sane, Fresh, OldTokenNeverActs
  <2> QED
    BY <2>1, <2>2, <2>3, <2>4 DEF EffectsAuthorized
<1> QED
  BY <1>1, AccessInvariant, PTL

-----------------------------------------------------------------------------
(* The owner's first key.                                                  *)

\* Bootstrap was answered, and the answer with the key is on its way.
Granted(c) == client[c].cmd = "bootstrap" /\ client[c].pc = "reply" /\ client[c].res = "ok"

\* An API key that somebody holds or is about to receive, or that was revoked.
Accounted(k) ==
  /\ creds[k].kind = "api"
  /\ \/ creds[k].state = "revoked"
     \/ creds[k].state = "live" /\ (k \in held \/ \E c \in Client : Granted(c) /\ client[c].arg = k)

OwnersKey == admins > 0 /\ lost = 0 => \E k \in Cred : Accounted(k)

\* A step of c that loses neither a key nor an answer with one.
LEMMA KeyKept ==
  ASSUME Types, OwnersKey, NEW c \in Client, Others(c), admins' = admins, lost' = lost,
         held \subseteq held',
         \A k \in Cred : creds[k].kind = "api" /\ creds[k].state # "free" =>
           creds'[k].kind = "api" /\ creds'[k].state \in {creds[k].state, "revoked"},
         Granted(c) => client'[c] = client[c] \/ client[c].arg \in held'
  PROVE  OwnersKey'
<1> SUFFICES ASSUME admins > 0, lost = 0 PROVE \E k \in Cred : Accounted(k)'
  BY DEF OwnersKey
<1>1. PICK k \in Cred : Accounted(k)
  BY DEF OwnersKey
<1>2. CASE creds[k].state = "revoked" \/ creds'[k].state = "revoked"
  BY <1>1, <1>2 DEF Accounted
<1>3. CASE creds[k].state = "live" /\ creds'[k].state = "live"
  <2>1. CASE k \in held
    BY <1>1, <1>3, <2>1 DEF Accounted
  <2>2. ASSUME NEW d \in Client, Granted(d), client[d].arg = k PROVE Accounted(k)'
    <3>1. CASE client'[d] = client[d]
      BY <1>1, <1>3, <2>2, <3>1 DEF Accounted, Granted
    <3>2. CASE k \in held'
      BY <1>1, <1>3, <3>2 DEF Accounted
    <3> QED
      BY <2>2, <3>1, <3>2 DEF Others
  <2> QED
    BY <1>1, <1>3, <2>1, <2>2 DEF Accounted
<1> QED
  BY <1>1, <1>2, <1>3 DEF Accounted

\* The bootstrap transaction answers with the key it makes.
LEMMA BootstrapKey ==
  ASSUME AccessInv, NEW c \in Client, client[c].cmd = "bootstrap", BootstrapTx(c)
  PROVE  OwnersKey'
<1>1. client \in [Client -> Command] /\ creds \in [Cred -> CredRow]
  BY DEF AccessInv, Types
<1>2. PICK n \in Cred :
        /\ creds[n].state = "free" /\ creds'[n].state = "live" /\ creds'[n].kind = "api"
        /\ creds' \in [Cred -> CredRow]
        /\ \A j \in Cred \ {n} : creds'[j] = creds[j]
        /\ creds'[n] # creds[n]
  BY NewCredStep DEF BootstrapTx, AccessInv, Kinds
<1>3. Made(c) = {n}
  BY <1>2 DEF Made
<1>4. client' = [client EXCEPT ![c].pc = "reply", ![c].res = "ok", ![c].effects = @ + 1,
                               ![c].arg = n]
  <2>1. (CHOOSE k \in Made(c) : TRUE) = n
    BY <1>3
  <2> QED
    BY <2>1 DEF BootstrapTx
<1>5. client'[c].pc = "reply" /\ client'[c].res = "ok" /\ client'[c].arg = n
      /\ client'[c].cmd = client[c].cmd
  <2>1. client' = [client EXCEPT ![c] = MadeRow(client[c], client[c].effects + 1, n)]
    BY <1>4, Zenon DEF MadeRow
  <2>2. client'[c] = MadeRow(client[c], client[c].effects + 1, n)
    BY <1>1, <2>1
  <2> QED
    BY <1>1, <2>2 DEF MadeRow, Command
<1> QED
  BY <1>2, <1>5 DEF OwnersKey, Accounted, Granted

\* Every step keeps track of the owner's key.
LEMMA NextOwnersKey == AccessInv /\ OwnersKey /\ [Next]_vars => OwnersKey'
<1> SUFFICES ASSUME AccessInv, OwnersKey, [Next]_vars PROVE OwnersKey'
  OBVIOUS
<1>1. /\ Types /\ client \in [Client -> Command] /\ creds \in [Cred -> CredRow] /\ lost \in Nat
      /\ token \in [Client -> TokenRow]
  BY AccessAssumption DEF AccessInv, Types
<1>2. ASSUME NEW c \in Client, Start(c) PROVE OwnersKey'
  <2>1. ASSUME NEW cmd, NEW cred, NEW arg, NEW kind, NEW typed, NEW next,
               Begin(c, cmd, cred, arg, kind, typed, next)
        PROVE  /\ client[c].pc = "idle" /\ Others(c)
               /\ UNCHANGED <<admins, creds, held, lost>>
    <3>1. client[c].pc = "idle" /\ UNCHANGED <<admins, creds, held, lost>>
      BY <2>1 DEF Begin, Busy
    <3>2. \E row : client' = [client EXCEPT ![c] = row]
      BY <2>1, Zenon DEF Begin
    <3> QED
      BY <1>1, <3>1, <3>2 DEF Others
  <2>2. client[c].pc = "idle" /\ Others(c) /\ UNCHANGED <<admins, creds, held, lost>>
    BY <1>2, <2>1, Zenon DEF Start, StartBootstrap, StartKeyCreate, StartTokenCreate,
       StartKeyRemove, StartPassword, StartDeploy, StartRun
  <2> QED
    BY <1>1, <2>2, KeyKept DEF Granted
<1>3. ASSUME NEW c \in Client,
             \/ Route(c) \/ Gate(c) \/ HandlePassword(c) \/ ChangePasswordTx(c)
             \/ HandleMutation(c) \/ HandleReauth(c) \/ VerifyPassword(c) \/ IssueToken(c)
             \/ AskPassword(c) \/ ReceiveToken(c)
      PROVE  OwnersKey'
  <2>1. /\ client[c].pc # "reply" \/ client[c].res # "ok"
        /\ UNCHANGED <<admins, creds, held, lost>>
    BY <1>3 DEF Route, Gate, HandlePassword, ChangePasswordTx, HandleMutation, HandleReauth,
                VerifyPassword, IssueToken, AskPassword, ReceiveToken, MayRetry
  <2>2. Others(c)
    BY <1>1, <1>3 DEF Route, Gate, HandlePassword, ChangePasswordTx, HandleMutation, HandleReauth,
                VerifyPassword, IssueToken, AskPassword, ReceiveToken, Goto, Answer, Done, Others
  <2> QED
    BY <1>1, <2>1, <2>2, KeyKept DEF Granted
<1>4. ASSUME NEW c \in Client, HandleBootstrap(c) PROVE OwnersKey'
  <2>1. CASE BootstrapTx(c)
    BY <1>4, <2>1, BootstrapKey DEF HandleBootstrap
  <2>2. CASE Answer(c, "failed") /\ UNCHANGED <<admins, history, creds>>
    <3>1. Others(c) /\ UNCHANGED <<held, lost>> /\ client[c].pc = "handle"
      BY <1>1, <1>4, <2>2 DEF HandleBootstrap, Answer, Others
    <3> QED
      BY <1>1, <2>2, <3>1, KeyKept DEF Granted
  <2> QED
    BY <1>4, <2>1, <2>2 DEF HandleBootstrap
<1>5. ASSUME NEW c \in Client, HandleCreate(c) PROVE OwnersKey'
  <2>1. /\ UNCHANGED <<admins, held, lost>> /\ client[c].pc = "handle" /\ Others(c)
    BY <1>1, <1>5 DEF HandleCreate, CreateTx, Answer, Others
  <2>2. \A k \in Cred : creds[k].state # "free" => creds'[k] = creds[k]
    <3>1. CASE creds' = creds
      BY <3>1
    <3>2. CASE CreateTx(c)
      <4>1. client[c].kind \in Kinds
        BY <1>1 DEF Command
      <4> QED
        BY <1>1, <3>2, <4>1, NewCredStep DEF CreateTx
    <3> QED
      BY <1>5, <3>1, <3>2 DEF HandleCreate
  <2> QED
    BY <1>1, <2>1, <2>2, KeyKept DEF Granted
<1>6. ASSUME NEW c \in Client, HandleRevoke(c) PROVE OwnersKey'
  <2>1. /\ UNCHANGED <<admins, held, lost>> /\ client[c].pc = "handle" /\ Others(c)
    BY <1>1, <1>6 DEF HandleRevoke, RevokeTx, Answer, Done, Others
  <2>2. creds' = creds \/ creds' = [creds EXCEPT ![client[c].arg].state = "revoked"]
    BY <1>6 DEF HandleRevoke, RevokeTx
  <2>3. \A k \in Cred : /\ creds'[k].kind = creds[k].kind
                        /\ creds'[k].state \in {creds[k].state, "revoked"}
    BY <1>1, <2>2 DEF CredRow
  <2> QED
    BY <1>1, <2>1, <2>3, KeyKept DEF Granted
<1>7. ASSUME NEW c \in Client, Finish(c) PROVE OwnersKey'
  <2>1. UNCHANGED <<admins, creds, lost>> /\ Others(c) /\ held \subseteq held'
    BY <1>1, <1>7 DEF Finish, End, Others
  <2>2. Granted(c) => client[c].arg \in held'
    BY <1>7 DEF Finish, Granted
  <2> QED
    BY <1>1, <2>1, <2>2, KeyKept
<1>8. ASSUME NEW c \in Client, Lose(c) PROVE OwnersKey'
  BY <1>1, <1>8 DEF Lose, OwnersKey
<1>9. CASE \/ UNCHANGED vars \/ \E c \in Client : Expire(c)
  BY <1>9 DEF vars, Expire, OwnersKey, Accounted, Granted
<1> QED
  BY <1>2, <1>3, <1>4, <1>5, <1>6, <1>7, <1>8, <1>9 DEF Next, Progress

\* There is one owner, and bootstrap locks the owner out only by a lost answer or after a
\* revocation of the key.
THEOREM OwnerNotLockedOut == Spec => []OwnerKeepsAccess
<1>1. Init => OwnersKey
  BY DEF Init, OwnersKey
<1>2. ASSUME AccessInv, OwnersKey PROVE OwnerKeepsAccess
  <2>1. OneOwner
    BY <1>2 DEF AccessInv, Owned, OneOwner
  <2>2. ASSUME admins > 0, ~ (lost > 0) PROVE LockedOutOnlyByFaults
    <3>1. lost = 0
      BY <1>2, <2>2, AccessAssumption DEF AccessInv, Types
    <3>2. PICK k \in Cred : Accounted(k)
      BY <1>2, <2>2, <3>1 DEF OwnersKey
    <3>3. creds[k] = [kind |-> "api", state |-> creds[k].state] /\ k # 0
      BY <1>2, <3>2, AccessAssumption DEF AccessInv, Types, CredRow, Accounted
    <3> QED
      BY <3>2, <3>3 DEF Accounted, Granted, LockedOutOnlyByFaults
  <2> QED
    BY <2>1, <2>2 DEF OwnerKeepsAccess, LockedOutOnlyByFaults
<1> QED
  BY <1>1, <1>2, NextOwnersKey, AccessInvariant, PTL DEF Spec
=============================================================================
