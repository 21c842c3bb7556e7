------------------------------- MODULE Access -------------------------------
(***************************************************************************)
(* Who may do what: the owner's password, API keys, workflow trigger       *)
(* tokens and re-authentication tokens of the Brain, with the `ovek auth'  *)
(* commands that use them.                                                 *)
(*                                                                         *)
(* A client is one run of the CLI; between runs it is "idle".  Its pc says *)
(* where its current HTTP request is.  The database has one connection     *)
(* (db.SetMaxOpenConns(1)), so a statement or a transaction is one step,   *)
(* and everything between two of them interleaves with other requests.     *)
(* The CLI forgets its re-authentication token when it exits, so a token   *)
(* row that matters belongs to the command that was issued it: token[c].   *)
(* Bounds: MaxCommands commands, MaxLost lost answers, the finite sets.    *)
(***************************************************************************)
EXTENDS Naturals, Sequences, FiniteSets

CONSTANTS Client, Password, Cred, MaxCommands, MaxLost

ASSUME AccessAssumption ==
  /\ MaxCommands \in Nat
  /\ MaxLost \in Nat
  /\ Cred \subseteq Nat \ {0}

VARIABLES
  mode,      \* cfg.AuthMode, fixed when the Brain starts
  admins,    \* number of rows of admin_users
  history,   \* the owner's passwords in the order they were set; the last one counts
  creds,     \* api_keys and workflow_trigger_tokens
  held,      \* credentials whose plaintext reached somebody
  client,    \* the commands in progress
  token,     \* the reauth_tokens row issued to each of them
  started,   \* commands started so far
  lost       \* answers that never arrived

vars == <<mode, admins, history, creds, held, client, token, started, lost>>

StaticKey == 0                 \* BRAIN_API_KEY, the only key of dev mode
Kinds     == {"api", "trigger"}
Critical  == {"create", "revoke", "change", "deploy"}
InServer  == {"request", "gate", "handle", "change", "reauth", "verify", "issue"}
Answered  == {"reply", "token"}

Idle    == [pc |-> "idle", cmd |-> "none", cred |-> StaticKey, arg |-> 0,
            kind |-> "api", typed |-> {}, next |-> {}, attempt |-> 1,
            verified |-> 0, sent |-> 0, late |-> FALSE, effects |-> 0,
            res |-> "none"]
NoToken == [state |-> "none", verified |-> 0, inserted |-> 0]

Version == Len(history)
Busy(c) == client[c].pc # "idle"

AccessTypeOK ==
  /\ mode \in {"dev", "prod"}
  /\ admins \in Nat
  /\ history \in Seq(Password)
  /\ creds \in [Cred -> [kind : Kinds, state : {"free", "live", "revoked"}]]
  /\ held \subseteq Cred \cup {StaticKey}
  /\ client \in [Client ->
       [pc : {"idle"} \cup InServer \cup Answered,
        cmd : Critical \cup {"none", "bootstrap", "run"},
        cred : Cred \cup {StaticKey}, arg : Cred \cup {0}, kind : Kinds,
        typed : {{}} \cup {{p} : p \in Password},
        next : {{}} \cup {{p} : p \in Password},
        attempt : 1..2, verified : Nat, sent : Nat, late : BOOLEAN,
        effects : Nat, res : {"none", "ok", "refused", "failed"}]]
  /\ token \in [Client -> [state : {"none", "live", "revoked", "expired"},
                           verified : Nat, inserted : Nat]]
  /\ started \in 0..MaxCommands
  /\ lost \in 0..MaxLost

Init ==
  /\ mode \in {"dev", "prod"}
  /\ admins = 0
  /\ history = <<>>
  /\ creds = [k \in Cred |-> [kind |-> "api", state |-> "free"]]
  /\ held = IF mode = "dev" THEN {StaticKey} ELSE {}
  /\ client = [c \in Client |-> Idle]
  /\ token = [c \in Client |-> NoToken]
  /\ started = 0
  /\ lost = 0

-----------------------------------------------------------------------------
(* What a step does to its own command.                                    *)

Goto(c, pc)    == client' = [client EXCEPT ![c].pc = pc]
Answer(c, res) == client' = [client EXCEPT ![c].pc = "reply", ![c].res = res]
Done(c)        == client' = [client EXCEPT ![c].pc = "reply", ![c].res = "ok",
                                           ![c].effects = @ + 1]
End(c)         == /\ client' = [client EXCEPT ![c] = Idle]
                  /\ token' = [token EXCEPT ![c] = NoToken]

(* `ovek' starts: the profile's key is one whose plaintext was delivered.  *)
Begin(c, cmd, cred, arg, kind, typed, next) ==
  /\ ~Busy(c)
  /\ started < MaxCommands
  /\ started' = started + 1
  /\ client' = [client EXCEPT ![c] =
       [Idle EXCEPT !.pc = "request", !.cmd = cmd, !.cred = cred, !.arg = arg,
                    !.kind = kind, !.typed = typed, !.next = next,
                    !.sent = Version,
                    !.late = cred \in Cred /\ creds[cred].state = "revoked"]]
  /\ UNCHANGED <<mode, admins, history, creds, held, token, lost>>

(* Bound: a command that makes a credential starts only while Cred has one *)
(* left for it.                                                            *)
Room == Cardinality({d \in Client : client[d].cmd \in {"bootstrap", "create"}})
          < Cardinality({k \in Cred : creds[k].state = "free"})

HeldKeys == {k \in held : k = StaticKey \/ (k \in Cred /\ creds[k].kind = "api")}

StartBootstrap(c) == Room /\ \E p \in Password :
  Begin(c, "bootstrap", StaticKey, 0, "api", {p}, {})

StartKeyCreate(c) == Room /\ \E k \in HeldKeys :
  Begin(c, "create", k, 0, "api", {}, {})

StartTokenCreate(c) == Room /\ \E k \in HeldKeys :
  Begin(c, "create", k, 0, "trigger", {}, {})

StartKeyRemove(c) == \E k \in HeldKeys, target \in Cred :
  /\ creds[target].state # "free"
  /\ Begin(c, "revoke", k, target, creds[target].kind, {}, {})

StartPassword(c) == \E k \in HeldKeys, current, next \in Password :
  Begin(c, "change", k, 0, "api", {current}, {next})

StartDeploy(c) == \E k \in HeldKeys :
  Begin(c, "deploy", k, 0, "api", {}, {})

StartRun(c) == \E k \in held :
  Begin(c, "run", k, 0, IF k = StaticKey THEN "api" ELSE creds[k].kind, {}, {})

-----------------------------------------------------------------------------
(* The request passes the middleware.                                      *)

StaticKeyAccepted(k)    == mode = "dev" /\ k = StaticKey
APIKeyKnown(k)          == mode = "prod" /\ k \in Cred /\ creds[k].kind = "api"   \* mutant: revoked_at unread
APIKeyAccepted(k)       == mode = "prod" /\ k \in Cred /\ creds[k] = [kind |-> "api", state |-> "live"]
TriggerTokenAccepted(k) == k \in Cred /\ creds[k] = [kind |-> "trigger", state |-> "live"]

(* A run request is authenticated by its trigger token if it carries one.  *)
RunAuthenticated(k) ==
  IF k \in Cred /\ creds[k].kind = "trigger"
  THEN TriggerTokenAccepted(k)
  ELSE StaticKeyAccepted(k) \/ APIKeyAccepted(k)

Authenticated(c) ==
  LET k == client[c].cred
  IN  IF client[c].cmd = "run" THEN RunAuthenticated(k)
                               ELSE StaticKeyAccepted(k) \/ APIKeyAccepted(k)

(* The routes of main.go: bootstrap and runs are outside the middleware,   *)
(* every other mutation is behind requireCriticalReauth.                   *)
Route(c) ==
  /\ client[c].pc = "request"
  /\ CASE client[c].cmd = "bootstrap"           -> Goto(c, "handle")
       [] client[c].cmd = "run" /\ Authenticated(c) -> Goto(c, "handle")
       [] client[c].cmd \in Critical /\ Authenticated(c) -> Goto(c, "gate")
       [] OTHER                                 -> Answer(c, "failed")
  /\ UNCHANGED <<mode, admins, history, creds, held, token, started, lost>>

(* A live token row for this user, key and scope.  The first attempt       *)
(* carries no token.                                                       *)
TokenAccepted(c) == client[c].attempt = 2 /\ token[c].state = "live"

Gate(c) ==
  /\ client[c].pc = "gate"
  /\ IF mode = "dev" \/ TokenAccepted(c) THEN Goto(c, "handle")
                                         ELSE Answer(c, "refused")
  /\ UNCHANGED <<mode, admins, history, creds, held, token, started, lost>>

-----------------------------------------------------------------------------
(* The handlers.                                                           *)

Principal == mode = "prod"    \* dev mode puts no principal into the context

CurrentPassword(typed) == history # <<>> /\ typed = {history[Len(history)]}

NewCred(kind) == \E k \in Cred :
  /\ creds[k].state = "free"
  /\ \A j \in Cred : j < k => creds[j].state # "free"
  /\ creds' = [creds EXCEPT ![k] = [kind |-> kind, state |-> "live"]]

Made(c) == {k \in Cred : creds'[k] # creds[k]}

NoKeyInUse    == held = {}      \* mutant: closed by the first delivered key
BootstrapOpen == admins = 0

(* Count, insert the owner and the first key in one transaction.           *)
BootstrapTx(c) ==
  /\ BootstrapOpen
  /\ admins' = admins + 1
  /\ \E p \in client[c].typed : history' = Append(history, p)
  /\ NewCred("api")
  /\ client' = [client EXCEPT ![c].pc = "reply", ![c].res = "ok", ![c].effects = @ + 1,
                              ![c].arg = CHOOSE k \in Made(c) : TRUE]

HandleBootstrap(c) ==
  /\ client[c].pc = "handle" /\ client[c].cmd = "bootstrap"
  /\ \/ mode = "prod" /\ BootstrapTx(c)
     \/ /\ mode = "dev" \/ ~BootstrapOpen
        /\ Answer(c, "failed")
        /\ UNCHANGED <<admins, history, creds>>
  /\ UNCHANGED <<mode, held, token, started, lost>>

(* A key needs the caller's user; a trigger token does not.                *)
CreateTx(c) ==
  /\ NewCred(client[c].kind)
  /\ client' = [client EXCEPT ![c].pc = "reply", ![c].res = "ok", ![c].effects = @ + 1,
                              ![c].arg = CHOOSE k \in Made(c) : TRUE]

HandleCreate(c) ==
  /\ client[c].pc = "handle" /\ client[c].cmd = "create"
  /\ \/ (Principal \/ client[c].kind = "trigger") /\ CreateTx(c)
     \/ /\ ~Principal /\ client[c].kind = "api"
        /\ Answer(c, "failed")
        /\ UNCHANGED creds
  /\ UNCHANGED <<mode, admins, history, held, token, started, lost>>

(* UPDATE ... WHERE id = ? AND revoked_at IS NULL; no row is a 404.  The   *)
(* re-authentication tokens issued under the key are left as they are.     *)
RevokeTx(c) ==
  LET k == client[c].arg
  IN  IF creds[k].state = "live"
      THEN creds' = [creds EXCEPT ![k].state = "revoked"] /\ Done(c)
      ELSE Answer(c, "failed") /\ UNCHANGED creds

HandleRevoke(c) ==
  /\ client[c].pc = "handle" /\ client[c].cmd = "revoke"
  /\ \/ (Principal \/ client[c].kind = "trigger") /\ RevokeTx(c)
     \/ ~Principal /\ client[c].kind = "api" /\ Answer(c, "failed") /\ UNCHANGED creds
  /\ UNCHANGED <<mode, admins, history, held, token, started, lost>>

(* The current password is checked before the transaction that sets the    *)
(* new one and revokes every token of the user.                            *)
HandlePassword(c) ==
  /\ client[c].pc = "handle" /\ client[c].cmd = "change"
  /\ IF Principal /\ CurrentPassword(client[c].typed) THEN Goto(c, "change")
                                                      ELSE Answer(c, "failed")
  /\ UNCHANGED <<mode, admins, history, creds, held, token, started, lost>>

RevokeNoToken == UNCHANGED token    \* mutant: the second UPDATE is missing

RevokeAllTokens ==
  token' = [c \in Client |-> IF token[c].state = "live"
                             THEN [token[c] EXCEPT !.state = "revoked"] ELSE token[c]]

ChangePasswordTx(c) ==
  /\ client[c].pc = "change"
  /\ \E p \in client[c].next : history' = Append(history, p)
  /\ RevokeAllTokens
  /\ Done(c)
  /\ UNCHANGED <<mode, admins, creds, held, started, lost>>

(* Any other critical mutation, and a workflow run.                        *)
HandleMutation(c) ==
  /\ client[c].pc = "handle" /\ client[c].cmd \in {"deploy", "run"}
  /\ Done(c)
  /\ UNCHANGED <<mode, admins, history, creds, held, token, started, lost>>

-----------------------------------------------------------------------------
(* Re-authentication: POST /v1/auth/reauth.                                *)

HandleReauth(c) ==
  /\ client[c].pc = "reauth"
  /\ IF Authenticated(c) /\ Principal THEN Goto(c, "verify") ELSE Answer(c, "failed")
  /\ UNCHANGED <<mode, admins, history, creds, held, token, started, lost>>

PasswordAccepted(c) == CurrentPassword(client[c].typed)

VerifyPassword(c) ==
  /\ client[c].pc = "verify"
  /\ IF PasswordAccepted(c)
     THEN client' = [client EXCEPT ![c].pc = "issue", ![c].verified = Version]
     ELSE Answer(c, "failed")
  /\ UNCHANGED <<mode, admins, history, creds, held, token, started, lost>>

IssueOtherScope(c) ==    \* mutant: a scope that no handler checks
  /\ client[c].pc = "issue"
  /\ token' = [token EXCEPT ![c] = [state |-> "other_scope", verified |-> client[c].verified,
                                    inserted |-> Version]]
  /\ Goto(c, "token")
  /\ UNCHANGED <<mode, admins, history, creds, held, started, lost>>

IssueToken(c) ==
  /\ client[c].pc = "issue"
  /\ token' = [token EXCEPT ![c] = [state |-> "live", verified |-> client[c].verified,
                                    inserted |-> Version]]
  /\ Goto(c, "token")
  /\ UNCHANGED <<mode, admins, history, creds, held, started, lost>>

Expire(c) ==    \* ten minutes go by
  /\ token[c].state = "live"
  /\ token' = [token EXCEPT ![c].state = "expired"]
  /\ UNCHANGED <<mode, admins, history, creds, held, client, started, lost>>

-----------------------------------------------------------------------------
(* The answer reaches the CLI, or does not.                                *)

RetryForever(c) == client[c].res = "refused"    \* mutant: the attempts are not counted
MayRetry(c) == client[c].res = "refused" /\ client[c].attempt = 1

(* runReauthMutation asks for the password, runPasswordChangeMutation      *)
(* sends the current password the operator typed at the start.             *)
AskPassword(c) ==
  /\ client[c].pc = "reply" /\ MayRetry(c)
  /\ IF client[c].cmd = "change"
     THEN Goto(c, "reauth")
     ELSE \E p \in Password : client' = [client EXCEPT ![c].pc = "reauth", ![c].typed = {p}]
  /\ UNCHANGED <<mode, admins, history, creds, held, token, started, lost>>

ReceiveToken(c) ==
  /\ client[c].pc = "token"
  /\ client' = [client EXCEPT ![c].pc = "request", ![c].attempt = 2, ![c].sent = Version,
                              ![c].res = "none"]
  /\ UNCHANGED <<mode, admins, history, creds, held, token, started, lost>>

(* A new credential is shown once.                                         *)
Finish(c) ==
  /\ client[c].pc = "reply" /\ ~MayRetry(c)
  /\ held' = IF client[c].res = "ok" /\ client[c].cmd \in {"bootstrap", "create"}
             THEN held \cup {client[c].arg} ELSE held
  /\ End(c)
  /\ UNCHANGED <<mode, admins, history, creds, started, lost>>

(* The connection breaks or the Brain is restarted: nothing more of the    *)
(* request happens, and no answer arrives.                                 *)
Lose(c) ==
  /\ client[c].pc \in InServer \cup Answered
  /\ lost < MaxLost
  /\ lost' = lost + 1
  /\ End(c)
  /\ UNCHANGED <<mode, admins, history, creds, held, started>>

-----------------------------------------------------------------------------
Start(c) ==
  \/ StartBootstrap(c) \/ StartKeyCreate(c) \/ StartTokenCreate(c) \/ StartKeyRemove(c)
  \/ StartPassword(c) \/ StartDeploy(c) \/ StartRun(c)

Progress(c) ==
  \/ Route(c) \/ Gate(c)
  \/ HandleBootstrap(c) \/ HandleCreate(c) \/ HandleRevoke(c)
  \/ HandlePassword(c) \/ ChangePasswordTx(c) \/ HandleMutation(c)
  \/ HandleReauth(c) \/ VerifyPassword(c) \/ IssueToken(c)
  \/ AskPassword(c) \/ ReceiveToken(c) \/ Finish(c)

Next == \E c \in Client : Start(c) \/ Progress(c) \/ Expire(c) \/ Lose(c)

(* The server and the CLI keep running; operators, losses and the clock    *)
(* owe nothing.                                                            *)
Spec == Init /\ [][Next]_vars /\ \A c \in Client : WF_vars(Progress(c))

-----------------------------------------------------------------------------
(* Two concurrent bootstraps make one owner, and nobody has an API key     *)
(* before there is one (bootstrapAdminUser counts and inserts in one       *)
(* transaction).                                                           *)
OneOwner ==
  /\ admins <= 1
  /\ \A k \in Cred : creds[k].kind = "api" /\ creds[k].state # "free" => admins = 1

(* The retry after a re-authentication does not run the mutation twice,    *)
(* whatever was lost or refused on the way (runReauthMutation).            *)
OneEffect == \A c \in Client : client[c].effects <= 1

(* "Revoked keys stop working immediately": a command started after its    *)
(* key or trigger token was revoked has no effect and is issued no token,  *)
(* while a request that was already past the middleware may still finish.  *)
RevokedNeverActs ==
  \A c \in Client : client[c].late => client[c].effects = 0 /\ token[c].state = "none"

(* In prod mode a critical mutation has an effect only in a command whose  *)
(* operator typed the password the owner had at the moment it was checked. *)
EffectsProven ==
  \A c \in Client :
    mode = "prod" /\ client[c].cmd \in Critical /\ client[c].effects > 0 =>
      /\ token[c].state # "none"
      /\ client[c].typed = {history[token[c].verified]}

(* A password change leaves no live token that was inserted before it: the *)
(* update and the revocations are one transaction.                         *)
RevocationComplete ==
  \A c \in Client : token[c].state = "live" => token[c].inserted = Version

(* A request sent after a password change gets nothing from a token that   *)
(* was inserted before the change, although the command that holds it was  *)
(* told the token is good for ten minutes.                                 *)
OldTokenNeverActs ==
  \A c \in Client :
    client[c].attempt = 2 /\ token[c].inserted < client[c].sent => client[c].effects = 0

(* Once there is an owner, somebody holds a live key or an answer with one *)
(* is on its way, unless an answer was lost or a key was revoked: both     *)
(* lock the owner out, because bootstrap never opens again.                *)
LockedOutOnlyByFaults ==
  admins > 0 =>
    \/ lost > 0
    \/ \E k \in Cred : creds[k] = [kind |-> "api", state |-> "revoked"]
    \/ \E k \in held \cap Cred : creds[k] = [kind |-> "api", state |-> "live"]
    \/ \E c \in Client : client[c].cmd = "bootstrap" /\ client[c].res = "ok" /\ client[c].arg # 0

(* Whatever is revoked, changed or lost in between, a command has the      *)
(* effect its credentials allow when they are read, and has it once.       *)
EffectsAuthorized == OneEffect /\ RevokedNeverActs /\ EffectsProven /\ OldTokenNeverActs

(* The Brain has one owner, and bootstrap does not lock the owner out.     *)
OwnerKeepsAccess == OneOwner /\ LockedOutOnlyByFaults

(* Every command ends: the CLI retries once, so a token that keeps being   *)
(* revoked or keeps expiring cannot hold it.                               *)
CommandEnds == \A c \in Client : Busy(c) ~> ~Busy(c)

(* docs/auth.md:57: "Outstanding reauth tokens are revoked after the       *)
(* password changes."  A token whose password was checked before the       *)
(* change and that was inserted after it is not.                           *)
NoTokenOfOldPassword ==
  \A c \in Client : token[c].state = "live" => token[c].verified = Version
=============================================================================
