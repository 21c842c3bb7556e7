--------------------------- MODULE ProjectConfig ---------------------------
(***************************************************************************)
(* The environment and the secrets of one project: the requests that       *)
(* change them, the jobs that capture a revision, and the key that         *)
(* encrypts the secrets across crashes and restarts of the Brain.          *)
(*                                                                         *)
(* The database has one connection, so a request waits between the instant *)
(* it takes for created_at and its transaction, and other requests commit  *)
(* meanwhile.  A transaction is one step.                                  *)
(* Bounds: MaxSec seconds of clock, MaxRevisions revisions, MaxCrashes     *)
(* crashes, the finite sets.                                               *)
(***************************************************************************)
EXTENDS ConfigRevisions, FiniteSets

CONSTANTS
  Client, Job, Value, Key, NoKey,
  Name,                \* the valid names of environment variables
  EnvName, SecretName, \* those that users set with `ovek env', with `ovek secret'
  Email, Password,     \* PB_SUPERUSER_EMAIL and PB_SUPERUSER_PASSWORD
  MaxSec, MaxRevisions, MaxCrashes

ASSUME ConfigAssumption ==
  /\ Email \in Name /\ Password \in Name
  /\ EnvName \subseteq Name /\ SecretName \subseteq Name
  /\ Key # {} /\ NoKey \notin Key /\ {"absent", "empty"} \cap Key = {}
  /\ MaxSec \in Nat /\ MaxRevisions \in Nat /\ MaxCrashes \in Nat

VARIABLES
  brain,      \* where the process is
  envKey,     \* OVEK_SECRETS_KEY; changing it is a manual rotation, not modelled
  keyFile,    \* master.key: its key, or that it is absent or empty
  key,        \* the key in use
  clock,
  revs,       \* the revisions, in the order of their commits
  request,    \* the changes in progress
  job,        \* deployment jobs and workflow runs
  crashes,
  intended    \* history: what the committed changes, in their order, ask for

vars == <<brain, envKey, keyFile, key, clock, revs, request, job, crashes, intended>>

keyVars == <<brain, envKey, keyFile, key, crashes>>

NoEntry   == [value |-> {}, key |-> NoKey]
Plain(v)  == [value |-> {v}, key |-> NoKey]
Secret(v) == [value |-> {v}, key |-> key]          \* Encrypt
NoEntries == [n \in Name |-> NoEntry]

IsSecret(entry) == entry.key # NoKey
Present(entry)  == entry.value # {}

Idle  == [pc |-> "idle", at |-> [sec |-> 0, frac |-> 0], changes |-> <<>>, must |-> {}]
NoJob == [status |-> "none", rev |-> 0, env |-> NoEntries, want |-> NoEntries,
          sure |-> TRUE]

(* Some commit is not the greatest text, so "latest" is not the newest.    *)
Misordered == \E i, j \in DOMAIN revs : i < j /\ ~TextBefore(revs[i].at, revs[j].at)

Entry == [value : {{}} \cup {{v} : v \in Value}, key : Key \cup {NoKey}]

ConfigTypeOK ==
  /\ brain \in {"down", "reading", "creating", "writing", "up"}
  /\ envKey \in Key \cup {NoKey} /\ key \in Key \cup {NoKey}
  /\ keyFile \in Key \cup {"absent", "empty"}
  /\ clock \in Instant
  /\ \A i \in DOMAIN revs : /\ revs[i].at \in Instant /\ revs[i].committed \in Instant
                            /\ revs[i].entries \in [Name -> Entry]
                            /\ NotAfter(revs[i].at, revs[i].committed)
  /\ \A c \in Client : request[c].pc \in {"idle", "stamped"} /\ request[c].at \in Instant
  /\ \A j \in Job : /\ job[j].status \in {"none", "queued", "building", "started", "failed"}
                    /\ job[j].rev \in 0..Len(revs)
  /\ crashes \in 0..MaxCrashes
  /\ brain = "up" <=> key # NoKey

Init ==
  /\ brain = "down" /\ envKey \in Key \cup {NoKey} /\ keyFile = "absent" /\ key = NoKey
  /\ clock = [sec |-> 0, frac |-> 0]
  /\ revs = <<>>
  /\ request = [c \in Client |-> Idle]
  /\ job = [j \in Job |-> NoJob]
  /\ crashes = 0
  /\ intended = NoEntries

-----------------------------------------------------------------------------
(* The start of the Brain: loadSecretCipher.                               *)

dataVars == <<clock, revs, request, job, intended>>

(* OVEK_SECRETS_KEY goes before the file.                                  *)
Start ==
  /\ brain = "down"
  /\ IF envKey # NoKey THEN brain' = "up" /\ key' = envKey
                       ELSE brain' = "reading" /\ UNCHANGED key
  /\ UNCHANGED <<envKey, keyFile, crashes, dataVars>>

(* A key file that holds no key stops the Brain; one that is absent is     *)
(* made.  Mutants: what is there is not looked at, or not checked.         *)
ReadNothing == brain = "reading" /\ brain' = "creating" /\ UNCHANGED key
ReadUnchecked ==
  /\ brain = "reading"
  /\ \/ keyFile \in Key /\ brain' = "up" /\ key' = keyFile
     \/ keyFile = "empty" /\ brain' = "up" /\ UNCHANGED key
     \/ keyFile = "absent" /\ brain' = "creating" /\ UNCHANGED key
ReadKeyFile ==
  /\ brain = "reading"
  /\ \/ keyFile \in Key /\ brain' = "up" /\ key' = keyFile
     \/ keyFile = "empty" /\ brain' = "down" /\ UNCHANGED key
     \/ keyFile = "absent" /\ brain' = "creating" /\ UNCHANGED key

ReadKey == ReadKeyFile /\ UNCHANGED <<envKey, keyFile, crashes, dataVars>>

FreshKey == CHOOSE k \in Key : \A i \in DOMAIN revs, n \in Name : revs[i].entries[n].key # k

(* O_CREATE|O_EXCL makes the file, a second call writes the key, and may   *)
(* fail: the file stays, empty.                                            *)
CreateKey ==
  /\ brain = "creating"
  /\ keyFile' = "empty" /\ brain' = "writing"
  /\ UNCHANGED <<envKey, key, crashes, dataVars>>

WriteKey ==
  /\ brain = "writing"
  /\ \/ /\ brain' = "up"
        /\ keyFile' = FreshKey /\ key' = FreshKey
     \/ brain' = "down" /\ UNCHANGED <<keyFile, key>>
  /\ UNCHANGED <<envKey, crashes, dataVars>>

(* A crash ends the requests; start-up reconciliation fails the jobs that  *)
(* were being worked on, and the queued ones stay.                         *)
Crash ==
  /\ brain # "down"
  /\ crashes < MaxCrashes
  /\ crashes' = crashes + 1
  /\ brain' = "down" /\ key' = NoKey
  /\ request' = [c \in Client |-> Idle]
  /\ job' = [j \in Job |-> IF job[j].status = "building"
                           THEN [job[j] EXCEPT !.status = "failed"] ELSE job[j]]
  /\ UNCHANGED <<envKey, keyFile, clock, revs, intended>>

Tick ==
  /\ \/ clock.frac + 1 < PerSecond /\ clock' = [clock EXCEPT !.frac = @ + 1]
     \/ clock.sec < MaxSec /\ clock' = [sec |-> clock.sec + 1, frac |-> 0]
  /\ UNCHANGED <<keyVars, revs, request, job, intended>>

-----------------------------------------------------------------------------
(* Changes.  The handler validates, takes its instant, and waits for the   *)
(* connection.                                                             *)

Stamp(c, changes, must) ==
  /\ brain = "up" /\ request[c].pc = "idle"
  /\ request' = [request EXCEPT ![c] =
       [Idle EXCEPT !.pc = "stamped", !.at = clock, !.changes = changes, !.must = must]]
  /\ UNCHANGED <<keyVars, clock, revs, job, intended>>

(* `ovek env set', `ovek secret set'.                                      *)
StampSet(c) == \E n \in Name, v \in Value : \E e \in {Plain(v), Secret(v)} :
  /\ n \in IF IsSecret(e) THEN SecretName ELSE EnvName
  /\ Stamp(c, [m \in {n} |-> e], {})

(* `ovek db init --app-secrets': the address plain, the password secret.   *)
StampAppSecrets(c) == \E v \in Value :
  Stamp(c, [m \in {Email, Password} |-> IF m = Email THEN Plain(v) ELSE Secret(v)], {})

(* `ovek env unset', `ovek secret unset': the entry must be there.         *)
StampUnset(c) == \E n \in Name : Stamp(c, [m \in {n} |-> NoEntry], {n})

(* The revision that a transaction starts from, read in the transaction.   *)
(* Mutant: the changes go over nothing.                                    *)
BasisNone(id) == NoEntries
Basis(id) == EntryMap(revs, id, NoEntries)

(* The history is kept up to date by the commit, in the order of commits.  *)
(* An unset that does not find its entry in the latest revision changes    *)
(* nothing.                                                                *)
ChangeTx(c) ==
  /\ request[c].pc = "stamped"
  /\ request' = [request EXCEPT ![c] = Idle]
  /\ \E id \in LatestIDs(revs) :
       IF \A n \in request[c].must : Present(EntryMap(revs, id, NoEntries)[n])
       THEN /\ Len(revs) < MaxRevisions
            /\ revs' = Append(revs, [at |-> request[c].at, committed |-> clock,
                                     entries |-> Changed(Basis(id), request[c].changes)])
            /\ intended' = Changed(intended, request[c].changes)
       ELSE UNCHANGED <<revs, intended>>
  /\ UNCHANGED <<keyVars, clock, job>>

-----------------------------------------------------------------------------
(* Jobs and runs capture a revision when they are admitted and resolve it  *)
(* twice: for the scrubber of the log, and for the container.              *)

Admit(j) ==
  /\ brain = "up" /\ job[j].status = "none"
  /\ \E id \in LatestIDs(revs) :
       job' = [job EXCEPT ![j] = [NoJob EXCEPT !.status = "queued", !.rev = id,
                                               !.want = intended, !.sure = ~Misordered]]
  /\ UNCHANGED <<keyVars, clock, revs, request, intended>>

(* Decrypt needs the key that encrypted.                                   *)
Decrypts(entries) == \A n \in Name : IsSecret(entries[n]) => entries[n].key = key

(* The revision a job resolves.  Mutant: the latest one.                   *)
LatestOf(j) == IF revs = <<>> THEN 0 ELSE CHOOSE id \in LatestRows(revs) : TRUE
RevisionOf(j) == job[j].rev

Resolve(j, status) ==
  LET entries == EntryMap(revs, RevisionOf(j), NoEntries)
  IN  /\ brain = "up"
      /\ job' = [job EXCEPT ![j] =
                   IF Decrypts(entries) THEN [@ EXCEPT !.status = status, !.env = entries]
                                        ELSE [@ EXCEPT !.status = "failed"]]
      /\ UNCHANGED <<keyVars, clock, revs, request, intended>>

OpenLog(j)  == job[j].status = "queued" /\ Resolve(j, "building")
StartApp(j) == job[j].status = "building" /\ Resolve(j, "started")

-----------------------------------------------------------------------------
Next ==
  \/ Start \/ ReadKey \/ CreateKey \/ WriteKey \/ Crash \/ Tick
  \/ \E c \in Client : \/ StampSet(c) \/ StampAppSecrets(c) \/ StampUnset(c) \/ ChangeTx(c)
  \/ \E j \in Job : Admit(j) \/ OpenLog(j) \/ StartApp(j)

Spec == Init /\ [][Next]_vars

-----------------------------------------------------------------------------
(* No change is lost or undone: as long as the texts of the instants are   *)
(* in the order of the commits, the latest revision is what the committed  *)
(* changes add up to (SetEnvironmentEntry, DeleteEnvironmentEntry and      *)
(* configureAppSecrets read the revision they extend in their transaction).*)
LatestIsIntended ==
  ~Misordered => \A id \in LatestIDs(revs) : EntryMap(revs, id, NoEntries) = intended

(* And out of order or not: a change that is asked for in a later second   *)
(* than the one in which an earlier change was committed is never hidden   *)
(* by it (project_config.go takes created_at before the transaction and    *)
(* sorts it as a text).                                                    *)
LaterChangeWins ==
  \A i, j \in DOMAIN revs :
    i < j /\ revs[i].committed.sec < revs[j].at.sec => i \notin LatestRows(revs)

(* Changes affect the next run only: what is in the container is what was  *)
(* intended when its job was admitted, through later changes, crashes and  *)
(* restarts.  It presumes that no commit was out of order at the admission.*)
RunUsesItsRevision ==
  \A j \in Job : job[j].status = "started" /\ job[j].sure => job[j].env = job[j].want

(* Every secret ever stored can be decrypted by every later process of the *)
(* Brain: a crash at any point of the first start does not change the key. *)
SecretsReadable ==
  brain = "up" => \A i \in DOMAIN revs : Decrypts(revs[i].entries)

(* Expected to fail.  docs/project-env-secrets.md:3 says that a run job    *)
(* captures the latest revision when `ovek run' creates it.  Overlapping   *)
(* changes, or two changes in one second, may commit in the other order    *)
(* than that of their texts, and the job captures the older revision.      *)
RunCapturesLatest ==
  \A j \in Job : job[j].status # "none" => EntryMap(revs, job[j].rev, NoEntries) = job[j].want
=============================================================================
