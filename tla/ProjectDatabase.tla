--------------------------- MODULE ProjectDatabase ---------------------------
(***************************************************************************)
(* The managed database of one project: the network, the PocketBase        *)
(* container and its data directory (pocketbase.go, runtime.go), the       *)
(* stored superuser credential and the app secrets copied from it          *)
(* (project_pocketbase.go), and the handlers that use them: db init, the   *)
(* deploy worker's EnsureProjectPocketBase, and the removal of the         *)
(* database (cleanup.go).                                                  *)
(*                                                                         *)
(* A handler makes one Docker or database call after another with no lock; *)
(* req[r].pc is the call it makes next.  A request is served once, so it   *)
(* names the container it created and the password it generated.           *)
(***************************************************************************)
EXTENDS Naturals, FiniteSets

CONSTANTS
  Inits,        \* db init requests
  Deploys,      \* deployments that ensure the database
  Removals,     \* removals of the database
  Emails,       \* superuser emails: the default one and those asked for
  Default,      \* defaultPocketBaseSuperuserEmail of the project
  MaxAttempts,  \* projectPocketBaseUpsertAttempts
  MaxFaults,    \* bound: crashes of Brain and clients that leave
  None

Requests == Inits \cup Deploys \cup Removals

ASSUME DatabaseAssumption ==
  /\ Default \in Emails /\ None \notin Requests \cup Emails
  /\ Inits \cap Deploys = {} /\ Inits \cap Removals = {} /\ Deploys \cap Removals = {}
  /\ MaxAttempts \in Nat \ {0} /\ MaxFaults \in Nat

VARIABLES
  network,    \* the project network exists
  container,  \* the PocketBase container
  data,       \* the data directory: its generation and the accounts in it
  project,    \* the projects row exists
  credential, \* the row of project_pocketbase_credentials
  secret,     \* PB_SUPERUSER_EMAIL and _PASSWORD of the latest configuration
  req,        \* what each request does
  faults,     \* crashes and departures so far
  seen        \* history, for the properties: what happened that excuses a loss

world == <<network, container, data>>
tables == <<project, credential, secret>>
vars == <<world, tables, req, faults, seen>>

NoCredential == [email |-> None, password |-> None]
NoContainer == [id |-> None, running |-> FALSE, mount |-> 0]
NewRequest == [pc |-> "new", live |-> TRUE, id |-> None, cred |-> NoCredential,
               created |-> FALSE, attempt |-> 1, secrets |-> FALSE,
               email |-> None, wipe |-> FALSE]

Credential == [email : Emails, password : Inits] \cup {NoCredential}
Ended == {"done", "failed"}
Step == {"network", "createNetwork", "mkdir", "inspect", "create", "start",
         "ready", "credential", "insert", "upsert", "rollback", "secrets",
         "find", "remove", "wipe", "disconnect"}

\* Every variable stays in its range.
DatabaseTypeOK ==
  /\ network \in BOOLEAN /\ project \in BOOLEAN
  /\ container \in [id : Requests \cup {None}, running : BOOLEAN, mount : Nat]
  /\ data \in [here : BOOLEAN, gen : Nat, accounts : [Emails -> Inits \cup {None}]]
  /\ credential \in Credential /\ secret \in Credential
  /\ req \in [Requests -> [pc : Step \cup Ended \cup {"new"}, live : BOOLEAN,
              id : Requests \cup {None}, cred : Credential, created : BOOLEAN,
              attempt : 1..MaxAttempts, secrets : BOOLEAN,
              email : Emails \cup {None}, wipe : BOOLEAN]]
  /\ faults \in 0..MaxFaults /\ seen \subseteq {"fault", "wiped", "shared", "mixed"}

Active(r) == req[r].pc \notin Ended \cup {"new"}
Quiet == \A r \in Requests : ~Active(r)
NoAccounts == [e \in Emails |-> None]

\* r is about to make call pc, and its request context is still live.
At(r, pc) == req[r].pc = pc /\ req[r].live
\* r goes on to call pc; a request that ends keeps nothing but its outcome.
Go(r, pc) == req' = [req EXCEPT ![r] = IF pc \in Ended THEN [NewRequest EXCEPT !.pc = pc]
                                                      ELSE [@ EXCEPT !.pc = pc]]

Init ==
  /\ network = FALSE /\ container = NoContainer
  /\ data = [here |-> FALSE, gen |-> 0, accounts |-> NoAccounts]
  /\ project = FALSE /\ credential = NoCredential /\ secret = NoCredential
  /\ req = [r \in Requests |-> NewRequest] /\ faults = 0 /\ seen = {}

-----------------------------------------------------------------------------
(* Requests arrive.                                                        *)

\* A removal beside any other request is noted: nothing orders the two.
Mixes(r) == IF \E o \in Requests \ {r} : Active(o) /\ (r \in Removals \/ o \in Removals)
            THEN {"mixed"} ELSE {}
Arrive(r, request) ==
  /\ req[r].pc = "new" /\ req' = [req EXCEPT ![r] = request]
  /\ seen' = seen \cup Mixes(r)
  /\ UNCHANGED <<world, credential, secret, faults>>

\* Init: ensureProject, with an email or without, with --app-secrets or not.
StartInit(r) == \E e \in (Emails \ {Default}) \cup {None}, s \in BOOLEAN :
  /\ Arrive(r, [NewRequest EXCEPT !.pc = "network", !.email = e, !.secrets = s])
  /\ project' = TRUE

\* Process: a job's project exists.
StartDeploy(r) == Arrive(r, [NewRequest EXCEPT !.pc = "network"]) /\ project' = TRUE

\* RemoveRuntime with RemoveDatabase, and Cleanup: 404 without a project.
StartRemoval(r) == \E w \in BOOLEAN :
  /\ project
  /\ Arrive(r, [NewRequest EXCEPT !.pc = "find", !.wipe = w]) /\ UNCHANGED project

-----------------------------------------------------------------------------
(* ensureProjectPocketBase: an init and a deployment do the same.          *)

\* EnsureProjectNetwork: inspect, then create what was not found.
InspectNetwork(r) ==
  /\ At(r, "network") /\ Go(r, IF network THEN "mkdir" ELSE "createNetwork")
  /\ UNCHANGED <<world, tables, faults, seen>>
CreateNetwork(r) ==
  /\ At(r, "createNetwork") /\ ~network
  /\ network' = TRUE /\ Go(r, "mkdir")
  /\ UNCHANGED <<container, data, tables, faults, seen>>

\* ensurePocketBaseDataDir does not use the context.
MakeDataDir(r) ==
  /\ req[r].pc = "mkdir" /\ Go(r, "inspect")
  /\ data' = IF data.here THEN data
             ELSE [here |-> TRUE, gen |-> data.gen + 1, accounts |-> NoAccounts]
  /\ UNCHANGED <<network, container, tables, faults, seen>>

\* What follows a running database: a deployment goes on to its app.
Ensured(r) == IF r \in Inits THEN "ready" ELSE "done"
Forget(r, pc) == IF pc \in Ended THEN [NewRequest EXCEPT !.pc = pc]
                 ELSE [req[r] EXCEPT !.pc = pc, !.id = None]

\* The container found is validated: its mount and network are those of the
\* project by name, so a directory that was deleted under it goes unnoticed.
InspectContainer(r) ==
  /\ At(r, "inspect")
  /\ IF container # NoContainer /\ ~container.running
     THEN req' = [req EXCEPT ![r].pc = "start", ![r].id = container.id]
     ELSE Go(r, IF container = NoContainer THEN "create" ELSE Ensured(r))
  /\ UNCHANGED <<world, tables, faults, seen>>

\* After the image pull: the name must still be free and the directory there.
CreateContainer(r) ==
  /\ At(r, "create") /\ container = NoContainer /\ data.here
  /\ container' = [id |-> r, running |-> FALSE, mount |-> data.gen]
  /\ req' = [req EXCEPT ![r].id = r, ![r].pc = "start"]
  /\ UNCHANGED <<network, data, tables, faults, seen>>

\* The container's directory has not been deleted since it was created.
Mounted == data.here /\ container.mount = data.gen

\* ContainerStart addresses the container by the id inspect or create gave.
StartContainer(r) ==
  /\ At(r, "start") /\ container.id = req[r].id /\ network /\ Mounted
  /\ container' = [container EXCEPT !.running = TRUE]
  /\ req' = [req EXCEPT ![r] = Forget(r, Ensured(r))]
  /\ UNCHANGED <<network, data, tables, faults, seen>>

-----------------------------------------------------------------------------
(* Init after the container runs.                                          *)

\* WaitForProjectPocketBaseReady attaches Brain to the network and dials.
BecomeReady(r) ==
  /\ At(r, "ready") /\ container.running /\ network
  /\ Go(r, "credential")
  /\ UNCHANGED <<world, tables, faults, seen>>

\* Mutant: a credential found in the store counts as created by this request.
LoadCredentialAsOwn(r) ==
  /\ At(r, "credential")
  /\ IF credential # NoCredential
     THEN /\ req[r].email \in {None, credential.email}
          /\ req' = [req EXCEPT ![r].pc = "upsert", ![r].cred = credential,
                                ![r].created = TRUE]
     ELSE req' = [req EXCEPT ![r].pc = "insert", ![r].cred =
            [email |-> IF req[r].email = None THEN Default ELSE req[r].email,
             password |-> r]]
  /\ seen' = seen
  /\ UNCHANGED <<world, tables, faults>>

\* GetOrCreate, its read: another email than the stored one is refused
\* (Fail); nothing stored means a new password.  A credential whose creator
\* is still at work is shared with it.
LoadCredential(r) ==
  /\ At(r, "credential")
  /\ IF credential # NoCredential
     THEN /\ req[r].email \in {None, credential.email}
          /\ req' = [req EXCEPT ![r].pc = "upsert", ![r].cred = credential]
          /\ seen' = seen \cup IF Active(credential.password) THEN {"shared"} ELSE {}
     ELSE /\ req' = [req EXCEPT ![r].pc = "insert", ![r].cred =
               [email |-> IF req[r].email = None THEN Default ELSE req[r].email,
                password |-> r]]
          /\ seen' = seen
  /\ UNCHANGED <<world, tables, faults>>

\* Mutant: INSERT OR REPLACE instead of INSERT.
ReplaceCredential(r) ==
  /\ At(r, "insert") /\ credential' = req[r].cred
  /\ req' = [req EXCEPT ![r].pc = "upsert", ![r].created = TRUE]
  /\ UNCHANGED <<world, project, secret, faults, seen>>

\* Insert: the project name is the table's primary key.
InsertCredential(r) ==
  /\ At(r, "insert") /\ credential = NoCredential
  /\ credential' = req[r].cred
  /\ req' = [req EXCEPT ![r].pc = "upsert", ![r].created = TRUE]
  /\ UNCHANGED <<world, project, secret, faults, seen>>

\* Where a failed superuser upsert leads: a created credential is deleted.
AfterUpsertFailure(r) == IF req[r].created THEN "rollback" ELSE "failed"

\* The superuser command runs in the container, on its directory.
CommandRuns(r) == At(r, "upsert") /\ container.running /\ Mounted
Recorded(r) ==
  /\ data' = [data EXCEPT !.accounts[req[r].cred.email] = req[r].cred.password]
  /\ seen' = seen \ {"wiped"}

Upsert(r) ==
  /\ CommandRuns(r) /\ Recorded(r)
  /\ Go(r, IF req[r].secrets THEN "secrets" ELSE "done")
  /\ UNCHANGED <<network, container, tables, faults>>

\* The command succeeds but its output or exit code cannot be read.
UpsertUnread(r) ==
  /\ CommandRuns(r) /\ Recorded(r) /\ Go(r, AfterUpsertFailure(r))
  /\ UNCHANGED <<network, container, tables, faults>>

\* A locked or starting database: the next attempt, until there is none.
UpsertLocked(r) ==
  /\ At(r, "upsert")
  /\ IF req[r].attempt < MaxAttempts
     THEN req' = [req EXCEPT ![r].attempt = @ + 1]
     ELSE Go(r, AfterUpsertFailure(r))
  /\ UNCHANGED <<world, tables, faults, seen>>

\* Any other failure: no container, no directory, a refused or cancelled call.
UpsertFails(r) ==
  /\ req[r].pc = "upsert" /\ Go(r, AfterUpsertFailure(r))
  /\ UNCHANGED <<world, tables, faults, seen>>

\* Mutant: the new credential is kept when its account could not be made.
KeepCredential(r) ==
  /\ req[r].pc = "rollback" /\ Go(r, "failed")
  /\ UNCHANGED <<world, tables, faults, seen>>

\* Delete, by project name; its error is ignored, and a request whose client
\* left cannot delete any more.
Rollback(r) ==
  /\ req[r].pc = "rollback" /\ Go(r, "failed")
  /\ IF req[r].live THEN credential' = NoCredential /\ seen' = seen
                    ELSE credential' = credential /\ seen' = seen \cup {"fault"}
  /\ UNCHANGED <<world, project, secret, faults>>

\* configureAppSecrets: one transaction, with this request's credential.
ConfigureSecrets(r) ==
  /\ At(r, "secrets") /\ secret' = req[r].cred /\ Go(r, "done")
  /\ UNCHANGED <<world, project, credential, faults, seen>>

-----------------------------------------------------------------------------
(* RemoveRuntime with RemoveDatabase, Cleanup.                             *)

\* RemoveProjectPocketBase: inspect, then stop and remove by id.
FindContainer(r) ==
  /\ At(r, "find")
  /\ req' = [req EXCEPT ![r].id = container.id,
             ![r].pc = IF container # NoContainer THEN "remove"
                       ELSE IF req[r].wipe THEN "wipe" ELSE "disconnect"]
  /\ UNCHANGED <<world, tables, faults, seen>>

\* A container that is gone already is no error.
RemoveContainer(r) ==
  /\ At(r, "remove") /\ Go(r, IF req[r].wipe THEN "wipe" ELSE "disconnect")
  /\ container' = IF container.id = req[r].id THEN NoContainer ELSE container
  /\ UNCHANGED <<network, data, tables, faults, seen>>

\* removeManagedContainer stops the container and then fails to remove it.
StopOnly(r) ==
  /\ At(r, "remove") /\ Go(r, "failed") /\ container.id = req[r].id
  /\ container' = [container EXCEPT !.running = FALSE]
  /\ UNCHANGED <<network, data, tables, faults, seen>>

\* os.RemoveAll of the data directory; the credential row stays.
WipeData(r) ==
  /\ req[r].pc = "wipe" /\ Go(r, "disconnect")
  /\ data' = [data EXCEPT !.here = FALSE, !.accounts = NoAccounts]
  /\ seen' = seen \cup {"wiped"}
  /\ UNCHANGED <<network, container, tables, faults>>

\* RemoveProjectNetwork, by id.  Whether the runtime removes a network that a
\* container, or Brain's own, is still on is left open: it may (here) or may not
\* (Fail).
RemoveNetwork(r) ==
  /\ At(r, "disconnect") /\ Go(r, "done")
  /\ network' = FALSE
  /\ UNCHANGED <<container, data, tables, faults, seen>>

-----------------------------------------------------------------------------
(* Failures.                                                               *)

\* A call fails, for an outside reason, after its retries, by a timeout or
\* because another request got there first: the handler returns the error.
Fail(r) ==
  /\ Active(r) /\ req[r].pc \notin {"upsert", "rollback"}
  /\ Go(r, "failed")
  /\ UNCHANGED <<world, tables, faults, seen>>

\* The client of an HTTP request goes away: its context is cancelled.
Leave(r) ==
  /\ Active(r) /\ r \notin Deploys /\ req[r].live /\ faults < MaxFaults
  /\ req' = [req EXCEPT ![r].live = FALSE] /\ faults' = faults + 1
  /\ UNCHANGED <<world, tables, seen>>

\* Brain crashes: its requests are gone, containers and tables stay.
Crash ==
  /\ faults < MaxFaults /\ ~Quiet
  /\ req' = [r \in Requests |-> IF Active(r) THEN [NewRequest EXCEPT !.pc = "failed"]
                                             ELSE req[r]]
  /\ faults' = faults + 1 /\ seen' = seen \cup {"fault"}
  /\ UNCHANGED <<world, tables>>

Ensure(r) == InspectNetwork(r) \/ CreateNetwork(r) \/ MakeDataDir(r)
             \/ InspectContainer(r) \/ CreateContainer(r) \/ StartContainer(r)
Initialize(r) == BecomeReady(r) \/ LoadCredential(r) \/ InsertCredential(r)
                 \/ Upsert(r) \/ UpsertUnread(r) \/ UpsertLocked(r)
                 \/ UpsertFails(r) \/ Rollback(r) \/ ConfigureSecrets(r)
Remove(r) == FindContainer(r) \/ RemoveContainer(r) \/ StopOnly(r)
             \/ WipeData(r) \/ RemoveNetwork(r)
Work(r) == Ensure(r) \/ Initialize(r) \/ Remove(r) \/ Fail(r)

Next ==
  \/ \E r \in Inits : StartInit(r)
  \/ \E r \in Deploys : StartDeploy(r)
  \/ \E r \in Removals : StartRemoval(r)
  \/ \E r \in Requests : Work(r) \/ Leave(r)
  \/ Crash

Spec == Init /\ [][Next]_vars

-----------------------------------------------------------------------------
(* Properties.                                                             *)

\* Whatever calls fail, a stored credential is one the database accepts once
\* no request is under way, unless Brain crashed, a client left during the
\* roll back, the data was wiped since, or two inits shared the credential.
CredentialWorks ==
  Quiet /\ seen \cap {"fault", "wiped", "shared"} = {} /\ credential # NoCredential
    => data.accounts[credential.email] = credential.password

\* No container is left on a deleted directory, where every later init and
\* deployment would accept it, unless a removal ran beside another request.
DataUnderContainer ==
  container # NoContainer /\ "mixed" \notin seen => Mounted

\* The database a project keeps is sound: the credential works, and the
\* container has its data under it.
DatabaseSound == DatabaseTypeOK /\ CredentialWorks /\ DataUnderContainer

\* The secrets the apps of the project run with stay those of the stored
\* credential, whatever fails later, data removal and crashes included: only
\* an init that shared the credential with its failing creator loses them.
SecretsStayValid == secret # NoCredential /\ "shared" \notin seen => credential = secret

\* An init never deletes or replaces a credential that another one stored.
RollbackIsOwn ==
  [][credential' # credential /\ credential # NoCredential
       => credential' = NoCredential /\ req[credential.password].pc = "rollback"]_vars
=============================================================================
