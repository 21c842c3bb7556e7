----------------------- MODULE ProjectDatabaseProofs -----------------------
(***************************************************************************)
(* The superuser credential of a project's database, for every set of      *)
(* inits, deployments, removals and emails, and every number of faults.    *)
(***************************************************************************)
EXTENDS ProjectDatabase, TLAPS

Row == [pc : Step \cup Ended \cup {"new"}, live : BOOLEAN,
        id : Requests \cup {None}, cred : Credential, created : BOOLEAN,
        attempt : 1..MaxAttempts, secrets : BOOLEAN,
        email : Emails \cup {None}, wipe : BOOLEAN]

\* Only an init gets past the container; it inserts a password of its own.
InitsOnly ==
  \A r \in Requests :
    /\ req[r].pc \in {"ready", "credential", "insert", "upsert", "rollback", "secrets"} => r \in Inits
    /\ req[r].pc = "insert" => req[r].cred.password = r

\* A request that created a credential finds it stored until it ends: it is
\* the only one that rolls back.
CreatorKeeps ==
  \A r \in Requests :
    /\ req[r].pc = "rollback" => req[r].created
    /\ req[r].created => /\ req[r].pc \in {"upsert", "rollback", "secrets"}
                         /\ credential = req[r].cred /\ credential.password = r

\* The creator of the stored credential has been served, or is being.
CreatorCame == credential # NoCredential => req[credential.password].pc # "new"

\* No creator that is still at work can delete what another init works with,
\* or what the secrets hold: it was noted when the credential was shared.
NoSharer ==
  "shared" \notin seen =>
    /\ \A r \in Requests :
         req[r].pc \in {"upsert", "secrets"} /\ ~req[r].created =>
           /\ credential = req[r].cred /\ credential # NoCredential
           /\ req[credential.password].pc \in Ended
    /\ secret # NoCredential =>
         /\ credential = secret
         /\ req[credential.password].pc \in Ended

CredentialInv == InitsOnly /\ CreatorKeeps /\ CreatorCame /\ NoSharer
DatabaseInv == DatabaseTypeOK /\ CredentialInv

\* Of all requests, r alone has moved.
Moved(r) == req' \in [Requests -> Row] /\ \A o \in Requests \ {r} : req'[o] = req[o]

-----------------------------------------------------------------------------
(* Rows.                                                                   *)

\* A request that has not come, or that has ended, has nothing.
LEMMA NewRow == /\ NewRequest \in Row /\ NewRequest.created = FALSE
                /\ NewRequest.pc = "new" /\ NewRequest.id = None
                /\ NoCredential \in Credential /\ NoCredential.password = None
                /\ NoContainer \in [id : Requests \cup {None}, running : BOOLEAN, mount : Nat]
                /\ NoAccounts \in [Emails -> Inits \cup {None}]
BY DatabaseAssumption DEF NewRequest, Row, Credential, NoCredential, NoContainer, NoAccounts

\* The handler goes on to its next call, or ends.
LEMMA GoStep ==
  ASSUME req \in [Requests -> Row], NEW r \in Requests, NEW pc \in Step \cup Ended, Go(r, pc)
  PROVE  /\ Moved(r)
         /\ req'[r].pc = pc
         /\ pc \in Ended => req'[r].created = FALSE
         /\ pc \notin Ended => req'[r].created = req[r].created /\ req'[r].cred = req[r].cred
<1>1. CASE pc \in Ended
  <2> DEFINE row == [NewRequest EXCEPT !.pc = pc]
  <2>1. row \in Row /\ row.pc = pc /\ row.created = FALSE
    BY NewRow DEF Row
  <2>2. req' = [req EXCEPT ![r] = row]
    BY <1>1 DEF Go
  <2> HIDE DEF row
  <2> QED
    BY <1>1, <2>1, <2>2 DEF Moved
<1>2. CASE pc \notin Ended
  <2>1. req' = [req EXCEPT ![r].pc = pc]
    BY <1>2 DEF Go
  <2> QED
    BY <1>2, <2>1 DEF Moved, Row
<1> QED
  BY <1>1, <1>2

\* No step that leaves the stored credential and the secrets alone can
\* disturb what is known of them, if it takes the request to a call before the
\* credential is made, ends it, or goes on with the same credential.
LEMMA PlainStep ==
  ASSUME DatabaseInv, NEW r \in Requests, Moved(r),
         UNCHANGED <<credential, secret>>, "shared" \in seen => "shared" \in seen',
         req[r].pc \notin Ended, req'[r].pc # "new",
         \/ /\ req'[r].created = FALSE
            /\ req'[r].pc \notin {"insert", "upsert", "rollback", "secrets"}
            /\ req'[r].pc \in {"ready", "credential"} => r \in Inits
         \/ /\ req'[r].created = req[r].created /\ req'[r].cred = req[r].cred
            /\ \/ req'[r].pc = req[r].pc
               \/ req[r].pc = "upsert" /\ req'[r].pc = "secrets"
               \/ req[r].pc = "upsert" /\ req'[r].pc = "rollback" /\ req[r].created
  PROVE  CredentialInv'
<1> USE DEF DatabaseInv, CredentialInv
<1>1. credential \in Credential /\ (credential # NoCredential => credential.password \in Inits)
  BY NewRow DEF DatabaseTypeOK, Credential
<1>2. InitsOnly'
  BY DEF InitsOnly, Moved
<1>3. CreatorKeeps'
  BY DEF CreatorKeeps, Moved
<1>4. CreatorCame'
  BY <1>1 DEF CreatorCame, Moved, Requests
<1>5. NoSharer'
  BY <1>1 DEF NoSharer, Moved, Requests
<1> QED
  BY <1>2, <1>3, <1>4, <1>5

-----------------------------------------------------------------------------
(* The steps.                                                              *)

\* Nothing has happened yet.
LEMMA InitDatabaseInv == Init => DatabaseInv
<1> SUFFICES ASSUME Init PROVE DatabaseInv
  OBVIOUS
<1> USE DEF Init
<1>1. /\ req \in [Requests -> Row] /\ \A r \in Requests : req[r] = NewRequest
      /\ NoContainer.id = None /\ NoContainer.running = FALSE /\ NoContainer.mount = 0
  BY NewRow DEF NoContainer
<1>2. NoContainer \in [id : Requests \cup {None}, running : BOOLEAN, mount : Nat]
  BY DEF NoContainer
<1>3. DatabaseTypeOK
  <2>1. data \in [here : BOOLEAN, gen : Nat, accounts : [Emails -> Inits \cup {None}]]
    BY DEF NoAccounts
  <2>2. faults \in 0..MaxFaults
    BY DatabaseAssumption
  <2> QED
    BY <1>1, <1>2, <2>1, <2>2, NewRow DEF DatabaseTypeOK, Row
<1>4. CredentialInv
  BY <1>1, NewRow DEF CredentialInv, InitsOnly, CreatorKeeps, CreatorCame, NoSharer
<1> QED
  BY <1>3, <1>4 DEF DatabaseInv

\* A request arrives.
LEMMA ArriveInv ==
  ASSUME DatabaseInv, NEW r \in Requests,
         (r \in Inits /\ StartInit(r)) \/ (r \in Deploys /\ StartDeploy(r))
           \/ (r \in Removals /\ StartRemoval(r))
  PROVE  DatabaseInv'
<1>1. PICK pc \in {"network", "find"}, e \in Emails \cup {None}, s \in BOOLEAN, w \in BOOLEAN :
        Arrive(r, [NewRequest EXCEPT !.pc = pc, !.email = e, !.secrets = s, !.wipe = w])
  <2>1. /\ NewRequest.email = None /\ NewRequest.secrets = FALSE /\ NewRequest.wipe = FALSE
    BY DEF NewRequest
  <2>2. CASE r \in Inits /\ StartInit(r)
    <3>1. PICK e \in (Emails \ {Default}) \cup {None}, s \in BOOLEAN :
            Arrive(r, [NewRequest EXCEPT !.pc = "network", !.email = e, !.secrets = s])
      BY <2>2 DEF StartInit
    <3>2. [NewRequest EXCEPT !.pc = "network", !.email = e, !.secrets = s]
          = [NewRequest EXCEPT !.pc = "network", !.email = e, !.secrets = s, !.wipe = FALSE]
      BY <2>1 DEF NewRequest
    <3> QED
      BY <3>1, <3>2
  <2>3. CASE r \in Deploys /\ StartDeploy(r)
    <3>1. Arrive(r, [NewRequest EXCEPT !.pc = "network"])
      BY <2>3 DEF StartDeploy
    <3>2. [NewRequest EXCEPT !.pc = "network"]
          = [NewRequest EXCEPT !.pc = "network", !.email = None, !.secrets = FALSE, !.wipe = FALSE]
      BY <2>1 DEF NewRequest
    <3> QED
      BY <3>1, <3>2
  <2>4. CASE r \in Removals /\ StartRemoval(r)
    <3>1. PICK w \in BOOLEAN : Arrive(r, [NewRequest EXCEPT !.pc = "find", !.wipe = w])
      BY <2>4 DEF StartRemoval
    <3>2. [NewRequest EXCEPT !.pc = "find", !.wipe = w]
          = [NewRequest EXCEPT !.pc = "find", !.email = None, !.secrets = FALSE, !.wipe = w]
      BY <2>1 DEF NewRequest
    <3> QED
      BY <3>1, <3>2
  <2> QED
    BY <2>2, <2>3, <2>4
<1> DEFINE row == [NewRequest EXCEPT !.pc = pc, !.email = e, !.secrets = s, !.wipe = w]
<1>2. row \in Row /\ row.pc = pc /\ row.created = FALSE
  BY NewRow DEF Row, Step
<1>3. req' = [req EXCEPT ![r] = row] /\ req[r].pc = "new"
  BY <1>1 DEF Arrive
<1> HIDE DEF row
<1>4. Moved(r) /\ req'[r].pc = pc /\ req'[r].created = FALSE
  BY <1>2, <1>3 DEF DatabaseInv, DatabaseTypeOK, Row, Moved
<1>5. /\ UNCHANGED <<world, credential, secret, faults>>
      /\ project' \in BOOLEAN
      /\ seen \subseteq seen' /\ seen' \subseteq seen \cup {"mixed"}
  BY <1>1 DEF Arrive, Mixes, StartInit, StartDeploy, StartRemoval, DatabaseInv, DatabaseTypeOK
<1>6. CredentialInv'
  BY <1>3, <1>4, <1>5, PlainStep DEF Ended
<1>7. DatabaseTypeOK'
  BY <1>4, <1>5 DEF DatabaseInv, DatabaseTypeOK, Moved, Row, world
<1> QED
  BY <1>6, <1>7 DEF DatabaseInv

\* r is at a call that no credential hangs on, or has ended.
Early(r) ==
  /\ Moved(r) /\ req[r].pc \notin Ended /\ req'[r].pc # "new"
  /\ req'[r].created = FALSE
  /\ req'[r].pc \notin {"insert", "upsert", "rollback", "secrets"}
  /\ req'[r].pc \in {"ready", "credential"} => r \in Inits

\* The handler goes on to such a call, or ends.
LEMMA GoEarly ==
  ASSUME DatabaseInv, NEW r \in Requests, Active(r),
         NEW pc \in Ended \cup (Step \ {"insert", "upsert", "rollback", "secrets"}), Go(r, pc),
         pc \in {"ready", "credential"} => r \in Inits,
         pc \in Ended \/ req[r].pc \notin {"upsert", "rollback", "secrets"}
  PROVE  Early(r)
<1>1. req \in [Requests -> Row] /\ (pc \in Ended \/ req[r].created = FALSE)
  BY DEF DatabaseInv, DatabaseTypeOK, Row, CredentialInv, CreatorKeeps
<1>2. pc \in Step \cup Ended /\ pc # "new"
  BY DEF Step, Ended
<1>3. /\ Moved(r) /\ req'[r].pc = pc
      /\ pc \in Ended => req'[r].created = FALSE
      /\ pc \notin Ended => req'[r].created = req[r].created
  BY <1>1, <1>2, GoStep
<1> QED
  BY <1>1, <1>2, <1>3 DEF Early, Active, Ended

\* The calls of ensureProjectPocketBase.
LEMMA EnsureEarly ==
  ASSUME DatabaseInv, NEW r \in Requests, Ensure(r)
  PROVE  Early(r)
<1>1. CASE InspectNetwork(r) \/ CreateNetwork(r) \/ MakeDataDir(r)
  <2>1. PICK pc \in {"createNetwork", "mkdir", "inspect"} : Go(r, pc)
    BY <1>1, Zenon DEF InspectNetwork, CreateNetwork, MakeDataDir
  <2>2. req[r].pc \in {"network", "createNetwork", "mkdir"}
    BY <1>1 DEF InspectNetwork, CreateNetwork, MakeDataDir, At
  <2> QED
    BY <2>1, <2>2, GoEarly DEF Active, Step, Ended
<1>2. CASE InspectContainer(r) /\ container # NoContainer /\ ~container.running
  <2>1. req' = [req EXCEPT ![r].pc = "start", ![r].id = container.id] /\ req[r].pc = "inspect"
    BY <1>2 DEF InspectContainer, At
  <2>2. container.id \in Requests \cup {None}
    BY DEF DatabaseInv, DatabaseTypeOK
  <2> DEFINE row == [req[r] EXCEPT !.pc = "start", !.id = container.id]
  <2>3. req[r] \in Row /\ req[r].created = FALSE
    BY <2>1 DEF Row, DatabaseInv, DatabaseTypeOK, CredentialInv, CreatorKeeps
  <2>4. row \in Row /\ row.created = FALSE /\ row.pc = "start"
    BY <2>2, <2>3 DEF Row, Step
  <2>5. req' = [req EXCEPT ![r] = row]
    BY <2>1, Zenon
  <2>6. req[r].pc \notin Ended /\ req \in [Requests -> Row]
    BY <2>1 DEF Ended, Row, DatabaseInv, DatabaseTypeOK
  <2> HIDE DEF row
  <2> QED
    BY <2>4, <2>5, <2>6 DEF Early, Moved, Ended
<1>3. CASE InspectContainer(r) /\ ~(container # NoContainer /\ ~container.running)
  <2> DEFINE pc == IF container = NoContainer THEN "create" ELSE Ensured(r)
  <2>1. /\ Go(r, pc) /\ req[r].pc = "inspect"
        /\ pc \in {"create", "ready", "done"} /\ (pc = "ready" => r \in Inits)
    BY <1>3 DEF InspectContainer, At, Ensured
  <2> HIDE DEF pc
  <2> QED
    BY <2>1, GoEarly DEF Active, Step, Ended
<1>4. CASE CreateContainer(r)
  <2>1. req' = [req EXCEPT ![r].id = r, ![r].pc = "start"] /\ req[r].pc = "create"
    BY <1>4 DEF CreateContainer, At
  <2> QED
    BY <2>1 DEF Early, Moved, Row, Step, Ended, DatabaseInv, DatabaseTypeOK, CredentialInv, CreatorKeeps
<1>5. CASE StartContainer(r)
  <2> DEFINE row == Forget(r, Ensured(r))
  <2>1. req' = [req EXCEPT ![r] = row] /\ req[r].pc = "start"
    BY <1>5 DEF StartContainer, At
  <2>2. req[r] \in Row /\ req[r].created = FALSE
    BY <2>1 DEF Row, DatabaseInv, DatabaseTypeOK, CredentialInv, CreatorKeeps
  <2>3. /\ row \in Row /\ row.created = FALSE /\ row.pc \in {"ready", "done"}
        /\ row.pc = "ready" => r \in Inits
    <3>1. CASE r \in Inits
      <4>1. row = [req[r] EXCEPT !.pc = "ready", !.id = None]
        BY <3>1 DEF Forget, Ensured, Ended
      <4> QED
        BY <2>2, <3>1, <4>1 DEF Row, Step
    <3>2. CASE r \notin Inits
      <4>1. row = [NewRequest EXCEPT !.pc = "done"]
        BY <3>2 DEF Forget, Ensured, Ended
      <4> QED
        BY <3>2, <4>1, NewRow DEF Row, Ended
    <3> QED
      BY <3>1, <3>2
  <2> HIDE DEF row
  <2> QED
    BY <2>1, <2>3 DEF Early, Moved, Ended, Row, DatabaseInv, DatabaseTypeOK
<1> QED
  BY <1>1, <1>2, <1>3, <1>4, <1>5 DEF Ensure

\* The calls of a removal.
LEMMA RemoveEarly ==
  ASSUME DatabaseInv, NEW r \in Requests, Remove(r)
  PROVE  Early(r)
<1>1. CASE FindContainer(r)
  <2> DEFINE pc == IF container # NoContainer THEN "remove"
                   ELSE IF req[r].wipe THEN "wipe" ELSE "disconnect"
  <2>1. req' = [req EXCEPT ![r].id = container.id, ![r].pc = pc] /\ req[r].pc = "find"
    BY <1>1 DEF FindContainer, At
  <2>2. pc \in {"remove", "wipe", "disconnect"} /\ container.id \in Requests \cup {None}
    BY DEF DatabaseInv, DatabaseTypeOK
  <2> HIDE DEF pc
  <2> QED
    BY <2>1, <2>2 DEF Early, Moved, Row, Step, Ended, DatabaseInv, DatabaseTypeOK, CredentialInv,
                      CreatorKeeps
<1>2. CASE RemoveContainer(r) \/ StopOnly(r) \/ WipeData(r) \/ RemoveNetwork(r)
  <2>1. PICK pc \in {"wipe", "disconnect", "failed", "done"} : Go(r, pc)
    BY <1>2, Zenon DEF RemoveContainer, StopOnly, WipeData, RemoveNetwork
  <2>2. req[r].pc \in {"remove", "wipe", "disconnect"}
    BY <1>2 DEF RemoveContainer, StopOnly, WipeData, RemoveNetwork, At
  <2> QED
    BY <2>1, <2>2, GoEarly DEF Active, Step, Ended
<1> QED
  BY <1>1, <1>2 DEF Remove

\* The calls before the credential, those of a removal, and a call that fails
\* leave the credential and the secrets alone.
LEMMA EarlyInv ==
  ASSUME DatabaseInv, NEW r \in Requests, Ensure(r) \/ BecomeReady(r) \/ Remove(r) \/ Fail(r)
  PROVE  DatabaseInv'
<1> USE DEF DatabaseInv, DatabaseTypeOK, Row
<1>1. UNCHANGED <<tables, faults>>
  BY DEF Ensure, InspectNetwork, CreateNetwork, MakeDataDir, InspectContainer, CreateContainer,
         StartContainer, BecomeReady, Remove, FindContainer, RemoveContainer, StopOnly, WipeData,
         RemoveNetwork, Fail
<1>2. seen' = seen \/ seen' = seen \cup {"wiped"}
  BY DEF Ensure, InspectNetwork, CreateNetwork, MakeDataDir, InspectContainer, CreateContainer,
         StartContainer, BecomeReady, Remove, FindContainer, RemoveContainer, StopOnly, WipeData,
         RemoveNetwork, Fail
<1>3. /\ network' \in BOOLEAN
      /\ container' \in [id : Requests \cup {None}, running : BOOLEAN, mount : Nat]
      /\ data' \in [here : BOOLEAN, gen : Nat, accounts : [Emails -> Inits \cup {None}]]
  <2>1. CASE InspectNetwork(r) \/ CreateNetwork(r) \/ InspectContainer(r) \/ BecomeReady(r)
               \/ FindContainer(r) \/ RemoveNetwork(r) \/ Fail(r)
    BY <2>1 DEF world, InspectNetwork, CreateNetwork, InspectContainer, BecomeReady, FindContainer,
                RemoveNetwork, Fail
  <2>2. CASE MakeDataDir(r)
    <3>1. UNCHANGED <<network, container>>
      BY <2>2 DEF MakeDataDir
    <3> DEFINE gen == data.gen + 1
    <3>2. gen \in Nat
      OBVIOUS
    <3>3. data' = data \/ data' = [here |-> TRUE, gen |-> gen, accounts |-> NoAccounts]
      BY <2>2 DEF MakeDataDir
    <3> HIDE DEF gen
    <3>4. CASE data' = data
      BY <3>1, <3>4
    <3>5. CASE data' = [here |-> TRUE, gen |-> gen, accounts |-> NoAccounts]
      BY <3>1, <3>2, <3>5, NewRow
    <3> QED
      BY <3>3, <3>4, <3>5
  <2>3. CASE WipeData(r)
    <3>1. /\ UNCHANGED <<network, container>>
          /\ data' = [data EXCEPT !.here = FALSE, !.accounts = NoAccounts]
      BY <2>3 DEF WipeData
    <3> QED
      BY <3>1, NewRow
  <2>4. CASE CreateContainer(r)
    <3>1. UNCHANGED <<network, data>>
      BY <2>4 DEF CreateContainer
    <3>2. container' = [id |-> r, running |-> FALSE, mount |-> data.gen]
      BY <2>4 DEF CreateContainer
    <3> QED
      BY <3>1, <3>2
  <2>5. CASE StartContainer(r)
    BY <2>5 DEF StartContainer
  <2>6. CASE RemoveContainer(r)
    BY <2>6, NewRow DEF RemoveContainer
  <2>7. CASE StopOnly(r)
    BY <2>7 DEF StopOnly
  <2> QED
    BY <2>1, <2>2, <2>3, <2>4, <2>5, <2>6, <2>7 DEF Ensure, Remove
<1>4. Early(r)
  <2>1. CASE BecomeReady(r)
    <3>1. Go(r, "credential") /\ req[r].pc = "ready" /\ r \in Inits
      BY <2>1 DEF BecomeReady, At, CredentialInv, InitsOnly
    <3> QED
      BY <3>1, GoEarly DEF Active, Step, Ended
  <2>2. CASE Fail(r)
    BY <2>2, GoEarly DEF Fail, Ended
  <2> QED
    BY <2>1, <2>2, EnsureEarly, RemoveEarly
<1>5. CredentialInv'
  BY <1>1, <1>2, <1>4, PlainStep DEF tables, Early
<1> QED
  BY <1>1, <1>2, <1>3, <1>4, <1>5 DEF Early, Moved, tables

\* The superuser command, whatever comes of it: an init that created the
\* credential is the one that goes on to roll it back.
LEMMA UpsertInv ==
  ASSUME DatabaseInv, NEW r \in Requests,
         Upsert(r) \/ UpsertUnread(r) \/ UpsertLocked(r) \/ UpsertFails(r)
  PROVE  DatabaseInv'
<1>1. /\ req \in [Requests -> Row] /\ req[r].pc = "upsert"
      /\ req[r].attempt \in 1..MaxAttempts /\ MaxAttempts \in Nat
      /\ req[r].cred.password \in Inits \cup {None}
  BY NewRow, DatabaseAssumption
     DEF DatabaseInv, DatabaseTypeOK, Row, Credential, Upsert, UpsertUnread, UpsertLocked,
         UpsertFails, CommandRuns, At
<1>2. /\ UNCHANGED <<network, container, tables, faults>>
      /\ seen' \subseteq seen /\ ("shared" \in seen => "shared" \in seen')
      /\ data' = data \/ data' = [data EXCEPT !.accounts[req[r].cred.email] = req[r].cred.password]
  BY DEF Upsert, UpsertUnread, UpsertLocked, UpsertFails, Recorded, world
<1>3. \/ \E pc \in {"secrets", "done", AfterUpsertFailure(r)} : Go(r, pc)
      \/ req[r].attempt < MaxAttempts /\ req' = [req EXCEPT ![r].attempt = @ + 1]
  BY Zenon DEF Upsert, UpsertUnread, UpsertLocked, UpsertFails
<1>4. /\ Moved(r) /\ req'[r].pc # "new"
      /\ \/ req'[r].created = FALSE /\ req'[r].pc \in Ended
         \/ /\ req'[r].created = req[r].created /\ req'[r].cred = req[r].cred
            /\ \/ req'[r].pc = req[r].pc
               \/ req'[r].pc = "secrets"
               \/ req'[r].pc = "rollback" /\ req[r].created
  <2>1. CASE \E pc \in {"secrets", "done", AfterUpsertFailure(r)} : Go(r, pc)
    <3>1. PICK pc \in {"secrets", "done", "rollback", "failed"} :
            Go(r, pc) /\ (pc = "rollback" => req[r].created)
      BY <2>1 DEF AfterUpsertFailure
    <3>2. pc \in Step \cup Ended /\ pc # "new" /\ (pc \notin Ended => pc \in {"secrets", "rollback"})
      BY DEF Step, Ended
    <3> QED
      BY <1>1, <3>1, <3>2, GoStep
  <2>2. CASE req[r].attempt < MaxAttempts /\ req' = [req EXCEPT ![r].attempt = @ + 1]
    <3>1. req[r].attempt + 1 \in 1..MaxAttempts
      BY <1>1, <2>2
    <3> QED
      BY <1>1, <2>2, <3>1 DEF Moved, Row
  <2> QED
    BY <1>3, <2>1, <2>2
<1>5. CredentialInv'
  BY <1>1, <1>2, <1>4, PlainStep DEF tables, Ended
<1>6. data' \in [here : BOOLEAN, gen : Nat, accounts : [Emails -> Inits \cup {None}]]
  BY <1>1, <1>2 DEF DatabaseInv, DatabaseTypeOK
<1> QED
  BY <1>2, <1>4, <1>5, <1>6 DEF DatabaseInv, DatabaseTypeOK, Moved, Row, tables

\* GetOrCreate, its read: a credential that is found is shared with a creator
\* at work, which is noted, or belongs to one that has ended.
LEMMA LoadInv ==
  ASSUME DatabaseInv, NEW r \in Requests, LoadCredential(r)
  PROVE  DatabaseInv'
<1> USE DEF DatabaseInv, CredentialInv
<1>1. /\ req \in [Requests -> Row] /\ req[r].pc = "credential" /\ r \in Inits
      /\ req[r].created = FALSE
  BY DEF LoadCredential, At, InitsOnly, CreatorKeeps, DatabaseTypeOK, Row
<1>2. UNCHANGED <<world, tables, faults>>
  BY DEF LoadCredential
<1>3. credential \in Credential /\ (credential # NoCredential => credential.password \in Inits)
  BY NewRow DEF DatabaseTypeOK, Credential
<1>4. CASE credential # NoCredential
  <2>1. /\ req' = [req EXCEPT ![r].pc = "upsert", ![r].cred = credential]
        /\ seen' = seen \cup IF Active(credential.password) THEN {"shared"} ELSE {}
    BY <1>4 DEF LoadCredential
  <2>2. /\ Moved(r) /\ req'[r].pc = "upsert" /\ req'[r].cred = credential
        /\ req'[r].created = FALSE
    <3> DEFINE row == [req[r] EXCEPT !.pc = "upsert", !.cred = credential]
    <3>1. row \in Row /\ row.pc = "upsert" /\ row.cred = credential /\ row.created = FALSE
      BY <1>1, <1>3, ZenonT(30) DEF Row, Step
    <3>2. req' = [req EXCEPT ![r] = row]
      BY <2>1, Zenon
    <3> HIDE DEF row
    <3> QED
      BY <1>1, <3>1, <3>2 DEF Moved
  <2>3. InitsOnly' /\ CreatorKeeps' /\ CreatorCame'
    BY <1>1, <1>2, <1>3, <2>2 DEF InitsOnly, CreatorKeeps, CreatorCame, Moved, tables, Requests
  <2>4. NoSharer'
    <3> SUFFICES ASSUME "shared" \notin seen' PROVE NoSharer'
      BY DEF NoSharer
    <3>1. ~Active(credential.password) /\ "shared" \notin seen
      BY <2>1
    <3>2. req[credential.password].pc \in Ended
      BY <1>4, <3>1 DEF Active, CreatorCame
    <3>3. credential.password \in Requests \ {r}
      BY <1>1, <1>3, <1>4, <3>2 DEF Requests, Ended
    <3> QED
      BY <1>2, <1>4, <2>2, <3>1, <3>2, <3>3 DEF NoSharer, Moved, tables
  <2>5. DatabaseTypeOK'
    BY <1>2, <2>1, <2>2 DEF DatabaseTypeOK, Moved, Row, world, tables
  <2> QED
    BY <2>3, <2>4, <2>5
<1>5. CASE credential = NoCredential
  <2> DEFINE email == IF req[r].email = None THEN Default ELSE req[r].email
  <2>1. /\ req' = [req EXCEPT ![r].pc = "insert", ![r].cred = [email |-> email, password |-> r]]
        /\ seen' = seen
    BY <1>5 DEF LoadCredential
  <2>2. email \in Emails
    BY <1>1, DatabaseAssumption DEF Row
  <2> HIDE DEF email
  <2>3. [email |-> email, password |-> r] \in Credential
    BY <1>1, <2>2 DEF Credential
  <2> DEFINE cred == [email |-> email, password |-> r]
             row == [req[r] EXCEPT !.pc = "insert", !.cred = cred]
  <2>4. cred \in Credential /\ cred.password = r
    BY <2>3
  <2>5. req' = [req EXCEPT ![r] = row]
    BY <2>1, Zenon
  <2> HIDE DEF cred
  <2>6. row \in Row /\ row.pc = "insert" /\ row.cred = cred /\ row.created = FALSE
    <3>1. req[r] \in Row /\ req[r].created = FALSE
      BY <1>1
    <3> QED
      BY <2>4, <3>1 DEF Row, Step
  <2> HIDE DEF row
  <2>7. /\ Moved(r) /\ req'[r].pc = "insert" /\ req'[r].cred.password = r
        /\ req'[r].created = FALSE
    <3>1. req \in [Requests -> Row] /\ req' = [req EXCEPT ![r] = row]
      BY <1>1, <2>5
    <3> QED
      BY <3>1, <2>4, <2>6 DEF Moved
  <2>8. CredentialInv'
    BY <1>1, <1>2, <1>3, <1>5, <2>1, <2>7
       DEF InitsOnly, CreatorKeeps, CreatorCame, NoSharer, Moved, tables, Requests
  <2>9. DatabaseTypeOK'
    BY <1>2, <2>1, <2>7 DEF DatabaseTypeOK, Moved, Row, world, tables
  <2> QED
    BY <2>8, <2>9
<1> QED
  BY <1>4, <1>5

\* Insert: the new credential has its creator, which is at work.
LEMMA InsertInv ==
  ASSUME DatabaseInv, NEW r \in Requests, InsertCredential(r)
  PROVE  DatabaseInv'
<1> USE DEF DatabaseInv, CredentialInv
<1>1. /\ req \in [Requests -> Row] /\ req[r].pc = "insert" /\ r \in Inits
      /\ req[r].cred \in Credential /\ req[r].cred.password = r
      /\ credential = NoCredential /\ credential' = req[r].cred
      /\ UNCHANGED <<world, project, secret, faults, seen>>
  BY DEF InsertCredential, At, InitsOnly, DatabaseTypeOK, Row
<1>2. /\ Moved(r) /\ req'[r].pc = "upsert" /\ req'[r].created = TRUE
      /\ req'[r].cred = req[r].cred
  <2> DEFINE row == [req[r] EXCEPT !.pc = "upsert", !.created = TRUE]
  <2>1. row \in Row /\ row.pc = "upsert" /\ row.created = TRUE /\ row.cred = req[r].cred
    BY <1>1, ZenonT(30) DEF Row, Step
  <2>2. req' = [req EXCEPT ![r] = row]
    BY Zenon DEF InsertCredential
  <2> HIDE DEF row
  <2> QED
    BY <1>1, <2>1, <2>2 DEF Moved
<1>3. \A o \in Requests \ {r} : req[o].created = FALSE
  <2>1. None \notin Requests
    BY DatabaseAssumption
  <2> QED
    BY <1>1, <2>1, NewRow DEF CreatorKeeps, DatabaseTypeOK, Row
<1>4. InitsOnly' /\ CreatorKeeps' /\ CreatorCame'
  BY <1>1, <1>2, <1>3 DEF InitsOnly, CreatorKeeps, CreatorCame, Moved
<1>5. NoSharer'
  BY <1>1, <1>2 DEF NoSharer, Moved
<1>6. DatabaseTypeOK'
  BY <1>1, <1>2 DEF DatabaseTypeOK, Moved, Row, world
<1> QED
  BY <1>4, <1>5, <1>6

\* Delete: the credential that goes is the one this request created, and
\* nothing else hangs on it.
LEMMA RollbackInv ==
  ASSUME DatabaseInv, NEW r \in Requests, Rollback(r)
  PROVE  DatabaseInv'
<1> USE DEF DatabaseInv, CredentialInv
<1>1. /\ req \in [Requests -> Row] /\ req[r].pc = "rollback" /\ req[r].created /\ r \in Inits
      /\ credential.password = r
  BY DEF Rollback, InitsOnly, CreatorKeeps, DatabaseTypeOK, Row
<1>2. /\ UNCHANGED <<world, project, secret, faults>>
      /\ seen \subseteq seen' /\ seen' \subseteq seen \cup {"fault"}
      /\ credential' \in {credential, NoCredential}
  BY DEF Rollback
<1>3. Moved(r) /\ req'[r].pc = "failed" /\ req'[r].created = FALSE
  <2>1. Go(r, "failed")
    BY DEF Rollback
  <2> QED
    BY <1>1, <2>1, GoStep DEF Ended
<1>4. credential.password \in Inits /\ r # None /\ credential # NoCredential
  BY <1>1, DatabaseAssumption, NewRow DEF Requests
<1>5. \A o \in Requests \ {r} : req[o].created = FALSE
  BY <1>1 DEF CreatorKeeps, DatabaseTypeOK, Row
<1>6. "shared" \notin seen => /\ \A o \in Requests \ {r} : req[o].pc \notin {"upsert", "secrets"}
                              /\ secret = NoCredential
  BY <1>1, <1>5 DEF NoSharer, Ended
<1>7. InitsOnly' /\ CreatorKeeps'
  BY <1>3, <1>5 DEF InitsOnly, CreatorKeeps, Moved
<1>8. CreatorCame'
  BY <1>1, <1>2, <1>3 DEF CreatorCame, Moved
<1>9. NoSharer'
  BY <1>2, <1>3, <1>6 DEF NoSharer, Moved
<1>10. DatabaseTypeOK'
  BY <1>2, <1>3, NewRow DEF DatabaseTypeOK, Moved, Row, world
<1> QED
  BY <1>7, <1>8, <1>9, <1>10

\* configureAppSecrets: what is copied is what is stored, unless it was shared.
LEMMA SecretsInv ==
  ASSUME DatabaseInv, NEW r \in Requests, ConfigureSecrets(r)
  PROVE  DatabaseInv'
<1> USE DEF DatabaseInv, CredentialInv
<1>1. /\ req \in [Requests -> Row] /\ req[r].pc = "secrets" /\ req[r].cred \in Credential
      /\ secret' = req[r].cred
      /\ UNCHANGED <<world, project, credential, faults, seen>>
  BY DEF ConfigureSecrets, At, DatabaseTypeOK, Row
<1>2. Moved(r) /\ req'[r].pc = "done" /\ req'[r].created = FALSE
  <2>1. Go(r, "done")
    BY DEF ConfigureSecrets
  <2> QED
    BY <1>1, <2>1, GoStep DEF Ended
<1>3. credential \in Credential /\ (credential # NoCredential => credential.password \in Inits)
  BY NewRow DEF DatabaseTypeOK, Credential
<1>4. InitsOnly' /\ CreatorKeeps' /\ CreatorCame'
  BY <1>1, <1>2, <1>3 DEF InitsOnly, CreatorKeeps, CreatorCame, Moved, Requests
<1>5. NoSharer'
  <2> SUFFICES ASSUME "shared" \notin seen PROVE NoSharer'
    BY <1>1 DEF NoSharer
  <2>1. \A o \in Requests \ {r} : req[o].pc \in {"upsert", "secrets"} /\ ~req[o].created =>
          credential = req[o].cred /\ credential # NoCredential /\ req[credential.password].pc \in Ended
    BY DEF NoSharer
  <2>2. credential = req[r].cred /\ (req[r].created => credential.password = r)
    BY <1>1 DEF NoSharer, CreatorKeeps
  <2>3. ~req[r].created => credential # NoCredential /\ req[credential.password].pc \in Ended
    BY <1>1 DEF NoSharer
  <2>4. credential # NoCredential => req'[credential.password].pc \in Ended
    BY <1>1, <1>2, <1>3, <2>2, <2>3 DEF Moved, Ended, Requests
  <2>5. UNCHANGED <<credential, seen>> /\ secret' = credential
    BY <1>1, <2>2
  <2>6. \A o \in Requests :
          req'[o].pc \in {"upsert", "secrets"} /\ ~req'[o].created =>
            credential = req'[o].cred /\ credential # NoCredential
    BY <1>2, <2>1 DEF Moved
  <2> QED
    BY <2>4, <2>5, <2>6 DEF NoSharer
<1>6. DatabaseTypeOK'
  BY <1>1, <1>2 DEF DatabaseTypeOK, Moved, Row, world
<1> QED
  BY <1>4, <1>5, <1>6

\* A client leaves: its request goes on, without a context.
LEMMA LeaveInv ==
  ASSUME DatabaseInv, NEW r \in Requests, Leave(r)
  PROVE  DatabaseInv'
<1>1. /\ req \in [Requests -> Row] /\ req[r].pc \notin Ended /\ req[r].pc # "new"
      /\ req' = [req EXCEPT ![r].live = FALSE] /\ faults' = faults + 1
      /\ UNCHANGED <<world, tables, seen>>
  BY DEF Leave, Active, DatabaseInv, DatabaseTypeOK, Row
<1>2. Moved(r) /\ req'[r].pc = req[r].pc /\ req'[r].created = req[r].created /\ req'[r].cred = req[r].cred
  BY <1>1, ZenonT(30) DEF Moved, Row
<1>3. CredentialInv'
  BY <1>1, <1>2, PlainStep DEF tables
<1>4. faults' \in 0..MaxFaults
  BY <1>1, DatabaseAssumption DEF Leave, DatabaseInv, DatabaseTypeOK
<1> QED
  BY <1>1, <1>2, <1>3, <1>4 DEF DatabaseInv, DatabaseTypeOK, Moved, Row, world, tables

\* Brain crashes: no request is at work any more.
LEMMA CrashDatabaseInv == DatabaseInv /\ Crash => DatabaseInv'
<1> SUFFICES ASSUME DatabaseInv, Crash PROVE DatabaseInv'
  OBVIOUS
<1> USE DEF DatabaseInv, CredentialInv
<1>1. /\ req \in [Requests -> Row] /\ UNCHANGED <<world, tables>>
      /\ faults' = faults + 1 /\ faults' \in 0..MaxFaults /\ seen' = seen \cup {"fault"}
  BY DatabaseAssumption DEF Crash, DatabaseTypeOK, Row
<1> DEFINE failed == [NewRequest EXCEPT !.pc = "failed"]
<1>2. failed \in Row /\ failed.pc = "failed" /\ failed.created = FALSE
  BY NewRow DEF Row, Ended
<1>3. req' = [o \in Requests |-> IF Active(o) THEN failed ELSE req[o]]
  BY DEF Crash
<1> HIDE DEF failed
<1>4. /\ req' \in [Requests -> Row]
      /\ \A o \in Requests : /\ req'[o].pc \in Ended \cup {"new"}
                             /\ req[o].pc # "new" => req'[o].pc \in Ended
                             /\ req'[o].created = FALSE
  BY <1>1, <1>2, <1>3 DEF Active, CreatorKeeps, Ended, Row
<1>5. credential \in Credential /\ (credential # NoCredential => credential.password \in Inits)
  BY NewRow DEF DatabaseTypeOK, Credential
<1>6. CredentialInv'
  BY <1>1, <1>4, <1>5
     DEF InitsOnly, CreatorKeeps, CreatorCame, NoSharer, tables, Ended, Requests
<1>7. DatabaseTypeOK'
  BY <1>1, <1>4 DEF DatabaseTypeOK, Row, world, tables
<1> QED
  BY <1>6, <1>7

\* A stuttering step does nothing.
LEMMA StutterDatabaseInv == DatabaseInv /\ UNCHANGED vars => DatabaseInv'
<1> SUFFICES ASSUME DatabaseInv, UNCHANGED vars PROVE DatabaseInv'
  OBVIOUS
<1>1. /\ UNCHANGED <<network, container, data, project, credential, secret, req, faults, seen>>
  BY DEF vars, world, tables
<1>2. DatabaseTypeOK'
  BY <1>1 DEF DatabaseInv, DatabaseTypeOK
<1>3. CredentialInv'
  BY <1>1 DEF DatabaseInv, CredentialInv, InitsOnly, CreatorKeeps, CreatorCame, NoSharer
<1> QED
  BY <1>2, <1>3 DEF DatabaseInv

\* Every step keeps the invariant.
LEMMA NextDatabaseInv == DatabaseInv /\ [Next]_vars => DatabaseInv'
<1> SUFFICES ASSUME DatabaseInv, [Next]_vars PROVE DatabaseInv'
  OBVIOUS
<1>1. CASE \/ \E r \in Inits : StartInit(r)
           \/ \E r \in Deploys : StartDeploy(r)
           \/ \E r \in Removals : StartRemoval(r)
  BY <1>1, ArriveInv DEF Requests
<1>2. ASSUME NEW r \in Requests, Work(r) PROVE DatabaseInv'
  BY <1>2, EarlyInv, UpsertInv, LoadInv, InsertInv, RollbackInv, SecretsInv DEF Work, Initialize
<1>3. ASSUME NEW r \in Requests, Leave(r) PROVE DatabaseInv'
  BY <1>3, LeaveInv
<1> QED
  BY <1>1, <1>2, <1>3, CrashDatabaseInv, StutterDatabaseInv DEF Next

-----------------------------------------------------------------------------
(* The properties.                                                         *)

\* The invariant holds whatever the requests, failures and crashes do.
THEOREM DatabaseInvariant == Spec => []DatabaseInv
<1> QED
  BY InitDatabaseInv, NextDatabaseInv, PTL DEF Spec

\* The types of what the database of a project keeps.
THEOREM DatabaseTypes == Spec => []DatabaseTypeOK
<1>1. DatabaseInv => DatabaseTypeOK
  BY DEF DatabaseInv
<1> QED
  BY <1>1, DatabaseInvariant, PTL

\* The secrets that the apps run with stay those of the stored credential,
\* whatever fails: only an init that shared it with its creator loses them.
THEOREM SecretsKept == Spec => []SecretsStayValid
<1>1. DatabaseInv => SecretsStayValid
  BY DEF DatabaseInv, CredentialInv, NoSharer, SecretsStayValid
<1> QED
  BY <1>1, DatabaseInvariant, PTL

\* Only the request that stored a credential deletes it, by its roll back, and
\* none replaces it.
THEOREM CreatorRollsBack == Spec => RollbackIsOwn
<1>1. ASSUME DatabaseInv, [Next]_vars, credential' # credential, credential # NoCredential
      PROVE  credential' = NoCredential /\ req[credential.password].pc = "rollback"
  <2>1. PICK r \in Requests : Rollback(r) \/ InsertCredential(r)
    BY <1>1 DEF Next, vars, tables, Arrive, StartInit, StartDeploy, StartRemoval, Work, Ensure,
                Initialize, Remove, InspectNetwork, CreateNetwork, MakeDataDir, InspectContainer,
                CreateContainer, StartContainer, BecomeReady, LoadCredential, Upsert, UpsertUnread,
                UpsertLocked, UpsertFails, ConfigureSecrets, FindContainer, RemoveContainer,
                StopOnly, WipeData, RemoveNetwork, Fail, Leave, Crash, Requests
  <2>2. Rollback(r)
    BY <1>1, <2>1 DEF InsertCredential
  <2>3. req[r].pc = "rollback" /\ credential.password = r
    BY <1>1, <2>2 DEF Rollback, DatabaseInv, CredentialInv, CreatorKeeps
  <2> QED
    BY <1>1, <2>2, <2>3 DEF Rollback
<1> QED
  BY <1>1, DatabaseInvariant, PTL DEF Spec, RollbackIsOwn

-----------------------------------------------------------------------------
(* The accounts: the stored credential is one that the database accepts.   *)

\* A directory that was never wiped holds no accounts before it exists.
Unwiped == "wiped" \notin seen /\ ~data.here => data.accounts = NoAccounts

\* The creator of the stored credential knows it as its own while it works.
CreatorKnows ==
  credential # NoCredential /\ Active(credential.password) => req[credential.password].created

\* Once its creator is past the superuser command, the credential is recorded.
Recording ==
  /\ seen \cap {"fault", "wiped", "shared"} = {} /\ credential # NoCredential
  /\ ~Active(credential.password) \/ req[credential.password].pc = "secrets"
  => data.accounts[credential.email] = credential.password

AccountsInv == Unwiped /\ CreatorKnows /\ Recording

\* The other requests stay where they are.
OthersStay(r) == \A o \in Requests \ {r} : req'[o] = req[o]

\* What is stored has an email and the password of an init.
LEMMA Stored ==
  ASSUME DatabaseInv
  PROVE  /\ credential # NoCredential =>
              credential.email \in Emails /\ credential.password \in Inits
         /\ req \in [Requests -> Row]
BY DEF DatabaseInv, DatabaseTypeOK, Credential, Row

\* A step of r that keeps the credential and the accounts.
LEMMA AccountsKept ==
  ASSUME DatabaseInv, AccountsInv, NEW r \in Requests, OthersStay(r), credential' = credential,
         seen \subseteq seen',
         "wiped" \notin seen' => /\ data'.accounts = data.accounts
                                 /\ ~data'.here => ~data.here,
         credential # NoCredential /\ credential.password = r =>
           /\ Active(r)' => req'[r].created
           /\ ~Active(r)' \/ req'[r].pc = "secrets" => ~Active(r) \/ req[r].pc = "secrets"
  PROVE  AccountsInv'
<1>1. credential # NoCredential => credential.password \in Requests
  BY Stored DEF Requests
<1>2. Unwiped'
  BY DEF AccountsInv, Unwiped
<1>3. CreatorKnows'
  BY <1>1 DEF AccountsInv, CreatorKnows, OthersStay, Active
<1>4. Recording'
  BY <1>1 DEF AccountsInv, Recording, OthersStay, Active
<1> QED
  BY <1>2, <1>3, <1>4 DEF AccountsInv

\* An active creator is at the superuser command, at its roll back or at the secrets.
LEMMA CreatorPlace ==
  ASSUME DatabaseInv, AccountsInv, NEW r \in Requests, credential # NoCredential,
         credential.password = r, Active(r)
  PROVE  req[r].created /\ req[r].pc \in {"upsert", "rollback", "secrets"}
BY DEF DatabaseInv, CredentialInv, CreatorKeeps, AccountsInv, CreatorKnows

\* The calls that no creator of the stored credential makes.
LEMMA BeforeAccounts ==
  ASSUME DatabaseInv, AccountsInv, NEW r \in Requests, Active(r),
         req[r].pc \notin {"upsert", "rollback", "secrets"}, OthersStay(r),
         credential' = credential, seen \subseteq seen',
         "wiped" \notin seen' => /\ data'.accounts = data.accounts
                                 /\ ~data'.here => ~data.here
  PROVE  AccountsInv'
<1>1. ~(credential # NoCredential /\ credential.password = r)
  BY CreatorPlace
<1> QED
  BY <1>1, AccountsKept

\* The calls of ensureProjectPocketBase and of a removal, and a failing call.
LEMMA EarlyAccounts ==
  ASSUME DatabaseInv, AccountsInv, NEW r \in Requests,
         Ensure(r) \/ BecomeReady(r) \/ LoadCredential(r) \/ Remove(r) \/ Fail(r)
  PROVE  AccountsInv'
<1>1. req \in [Requests -> Row]
  BY Stored
<1>2. CASE Fail(r)
  <2>1. Active(r) /\ Go(r, "failed") /\ UNCHANGED <<world, tables, faults, seen>>
        /\ req[r].pc \notin {"upsert", "rollback"}
    BY <1>2 DEF Fail
  <2>2. Moved(r) /\ req'[r].pc = "failed"
    BY <1>1, <2>1, GoStep DEF Ended
  <2>3. CASE credential # NoCredential /\ credential.password = r
    <3>1. req[r].pc = "secrets"
      BY <2>1, <2>3, CreatorPlace
    <3> QED
      BY <2>1, <2>2, <3>1, AccountsKept DEF world, tables, Moved, OthersStay, Active, Ended
  <2>4. CASE ~(credential # NoCredential /\ credential.password = r)
    BY <2>1, <2>2, <2>4, AccountsKept DEF world, tables, Moved, OthersStay
  <2> QED
    BY <2>3, <2>4
<1>3. CASE Ensure(r) \/ Remove(r)
  <2>1. OthersStay(r)
    BY <1>3, EnsureEarly, RemoveEarly DEF Early, Moved, OthersStay
  <2>2. Active(r) /\ req[r].pc \notin {"upsert", "rollback", "secrets"}
    BY <1>3 DEF Ensure, InspectNetwork, CreateNetwork, MakeDataDir, InspectContainer,
       CreateContainer, StartContainer, Remove, FindContainer, RemoveContainer, StopOnly,
       WipeData, RemoveNetwork, At, Active, Ended
  <2>3. CASE MakeDataDir(r)
    <3>1. credential' = credential /\ seen' = seen
      BY <2>3 DEF MakeDataDir, tables
    <3>2. \/ data' = data
          \/ ~data.here /\ data' = [here |-> TRUE, gen |-> data.gen + 1, accounts |-> NoAccounts]
      <4>1. data' = IF data.here THEN data
                    ELSE [here |-> TRUE, gen |-> data.gen + 1, accounts |-> NoAccounts]
        BY <2>3 DEF MakeDataDir
      <4>2. CASE data.here
        BY <4>1, <4>2
      <4>3. CASE ~data.here
        BY <4>1, <4>3
      <4> QED
        BY <4>2, <4>3
    <3>3. "wiped" \notin seen => data'.accounts = data.accounts /\ (~data'.here => ~data.here)
      <4>1. CASE data' = data
        BY <4>1
      <4>2. CASE ~data.here /\ data' = [here |-> TRUE, gen |-> data.gen + 1,
                                        accounts |-> NoAccounts]
        BY <4>2 DEF AccountsInv, Unwiped
      <4> QED
        BY <3>2, <4>1, <4>2
    <3> QED
      BY <2>1, <2>2, <3>1, <3>3, BeforeAccounts
  <2>4. CASE WipeData(r)
    <3>1. credential' = credential /\ seen' = seen \cup {"wiped"}
      BY <2>4 DEF WipeData, tables
    <3> QED
      BY <2>1, <2>2, <3>1, BeforeAccounts
  <2>5. CASE ~MakeDataDir(r) /\ ~WipeData(r)
    <3>1. UNCHANGED <<credential, data, seen>>
      BY <1>3, <2>5 DEF Ensure, InspectNetwork, CreateNetwork, InspectContainer,
         CreateContainer, StartContainer, Remove, FindContainer, RemoveContainer, StopOnly,
         RemoveNetwork, world, tables
    <3> QED
      BY <2>1, <2>2, <3>1, BeforeAccounts
  <2> QED
    BY <2>3, <2>4, <2>5
<1>4. CASE BecomeReady(r)
  <2>1. /\ Go(r, "credential") /\ req[r].pc = "ready" /\ UNCHANGED <<credential, data, seen>>
    BY <1>4 DEF BecomeReady, At, world, tables
  <2>2. Moved(r)
    BY <1>1, <2>1, GoStep DEF Step
  <2> QED
    BY <2>1, <2>2, BeforeAccounts DEF Moved, OthersStay, Active, Ended
<1>5. CASE LoadCredential(r)
  <2>1. req[r].pc = "credential" /\ UNCHANGED <<credential, data>> /\ seen \subseteq seen'
    BY <1>5 DEF LoadCredential, At, world, tables
  <2>2. OthersStay(r)
    BY <1>1, <1>5 DEF LoadCredential, OthersStay
  <2> QED
    BY <2>1, <2>2, BeforeAccounts DEF Active, Ended
<1> QED
  BY <1>2, <1>3, <1>4, <1>5

\* The superuser command: what it records is the stored credential.
LEMMA UpsertAccounts ==
  ASSUME DatabaseInv, AccountsInv, NEW r \in Requests,
         Upsert(r) \/ UpsertUnread(r) \/ UpsertLocked(r) \/ UpsertFails(r)
  PROVE  AccountsInv'
<1>1. req \in [Requests -> Row] /\ req[r].pc = "upsert" /\ credential' = credential
  BY Stored DEF Upsert, UpsertUnread, UpsertLocked, UpsertFails, CommandRuns, At, tables
<1>2. credential # NoCredential /\ credential.password = r => req[r].created
  BY <1>1, CreatorPlace DEF Active, Ended
<1>3. ASSUME NEW pc \in {"secrets", "done", "rollback", "failed"}, Go(r, pc)
      PROVE  /\ OthersStay(r) /\ req'[r].pc = pc
             /\ Active(r)' => req'[r].created = req[r].created
  <2>1. pc \in Step \cup Ended
    BY <1>3 DEF Step, Ended
  <2>2. Moved(r) /\ req'[r].pc = pc /\ (pc \notin Ended => req'[r].created = req[r].created)
    BY <1>1, <1>3, <2>1, GoStep
  <2> QED
    BY <2>2 DEF Moved, OthersStay, Active
<1>4. CASE UpsertFails(r) \/ (UpsertLocked(r) /\ Go(r, AfterUpsertFailure(r)))
  <2>1. Go(r, AfterUpsertFailure(r)) /\ UNCHANGED <<data, seen>>
    BY <1>4 DEF UpsertFails, UpsertLocked, world
  <2>2. AfterUpsertFailure(r) \in {"rollback", "failed"}
        /\ (req[r].created => AfterUpsertFailure(r) = "rollback")
    BY DEF AfterUpsertFailure
  <2>3. /\ OthersStay(r) /\ req'[r].pc = AfterUpsertFailure(r)
        /\ Active(r)' => req'[r].created = req[r].created
    BY <1>3, <2>1, <2>2
  <2> QED
    BY <1>1, <1>2, <2>1, <2>2, <2>3, AccountsKept DEF Active, Ended
<1>5. CASE UpsertLocked(r) /\ ~Go(r, AfterUpsertFailure(r))
  <2>1. req' = [req EXCEPT ![r].attempt = @ + 1] /\ UNCHANGED <<data, seen>>
    BY <1>5 DEF UpsertLocked, world
  <2>2. OthersStay(r) /\ req'[r].pc = req[r].pc /\ req'[r].created = req[r].created
    BY <1>1, <2>1 DEF OthersStay, Row
  <2> QED
    BY <1>1, <1>2, <2>1, <2>2, AccountsKept DEF Active, Ended
<1>6. CASE Upsert(r) \/ UpsertUnread(r)
  <2>1. PICK pc \in {"secrets", "done", "rollback", "failed"} : Go(r, pc)
    BY <1>6, Zenon DEF Upsert, UpsertUnread, AfterUpsertFailure
  <2>2. /\ OthersStay(r) /\ req'[r].pc = pc
        /\ Active(r)' => req'[r].created = req[r].created
    BY <1>3, <2>1
  <2>3. /\ data.here /\ seen' = seen \ {"wiped"}
        /\ data' = [data EXCEPT !.accounts[req[r].cred.email] = req[r].cred.password]
    BY <1>6 DEF Upsert, UpsertUnread, CommandRuns, Recorded, Mounted
  <2>4. Unwiped'
    BY <2>3, Stored DEF Unwiped, DatabaseInv, DatabaseTypeOK
  <2>5. CreatorKnows'
    BY <1>1, <1>2, <2>2, Stored DEF AccountsInv, CreatorKnows, OthersStay, Active, Requests
  <2>6. Recording'
    <3> SUFFICES ASSUME "shared" \notin seen, credential # NoCredential
                 PROVE  data'.accounts[credential.email] = credential.password
      BY <1>1, <2>3 DEF Recording
    <3>1. req[r].cred = credential
      BY <1>1 DEF DatabaseInv, CredentialInv, CreatorKeeps, NoSharer
    <3>2. credential.email \in Emails /\ data.accounts \in [Emails -> Inits \cup {None}]
      BY Stored DEF DatabaseInv, DatabaseTypeOK
    <3>3. data'.accounts = [data.accounts EXCEPT ![credential.email] = credential.password]
      BY <2>3, <3>1 DEF DatabaseInv, DatabaseTypeOK
    <3> QED
      BY <3>2, <3>3
  <2> QED
    BY <2>4, <2>5, <2>6 DEF AccountsInv
<1> QED
  BY <1>4, <1>5, <1>6

\* The other steps: arrivals, the store, the secrets and the failures.
LEMMA NextAccounts ==
  ASSUME DatabaseInv, AccountsInv, [Next]_vars
  PROVE  AccountsInv'
<1>1. req \in [Requests -> Row]
  BY Stored
<1>2. ASSUME NEW r \in Requests, StartInit(r) \/ StartDeploy(r) \/ StartRemoval(r)
      PROVE  AccountsInv'
  <2>1. PICK row : Arrive(r, row)
    BY <1>2, Zenon DEF StartInit, StartDeploy, StartRemoval
  <2>2. /\ req[r].pc = "new" /\ OthersStay(r) /\ UNCHANGED <<credential, data>>
        /\ seen \subseteq seen'
    BY <1>1, <2>1 DEF Arrive, OthersStay, world
  <2>3. ~(credential # NoCredential /\ credential.password = r)
    BY <2>2 DEF DatabaseInv, CredentialInv, CreatorCame
  <2> QED
    BY <2>2, <2>3, AccountsKept
<1>3. ASSUME NEW r \in Requests, InsertCredential(r) PROVE AccountsInv'
  <2>1. /\ credential' = req[r].cred /\ UNCHANGED <<data, seen>> /\ req[r].cred.password = r
        /\ req' = [req EXCEPT ![r].pc = "upsert", ![r].created = TRUE]
    BY <1>3 DEF InsertCredential, At, world, DatabaseInv, CredentialInv, InitsOnly
  <2>2. req'[r].pc = "upsert" /\ req'[r].created
    BY <1>1, <2>1 DEF Row
  <2> QED
    BY <2>1, <2>2 DEF AccountsInv, Unwiped, CreatorKnows, Recording, Active, Ended
<1>4. ASSUME NEW r \in Requests, Rollback(r) PROVE AccountsInv'
  <2>1. /\ req[r].pc = "rollback" /\ Go(r, "failed") /\ data' = data /\ seen \subseteq seen'
        /\ \/ credential' = NoCredential
           \/ credential' = credential /\ "fault" \in seen'
    BY <1>4 DEF Rollback, world
  <2>2. Moved(r) /\ req'[r].pc = "failed"
    BY <1>1, <2>1, GoStep DEF Ended
  <2>3. Unwiped'
    BY <2>1 DEF AccountsInv, Unwiped
  <2>4. CreatorKnows'
    BY <2>1, <2>2, Stored DEF AccountsInv, CreatorKnows, Moved, Active, Ended, Requests
  <2>5. Recording'
    BY <2>1 DEF Recording
  <2> QED
    BY <2>3, <2>4, <2>5 DEF AccountsInv
<1>5. ASSUME NEW r \in Requests, ConfigureSecrets(r) PROVE AccountsInv'
  <2>1. /\ req[r].pc = "secrets" /\ Go(r, "done") /\ UNCHANGED <<data, credential, seen>>
    BY <1>5 DEF ConfigureSecrets, At, world
  <2>2. Moved(r) /\ req'[r].pc = "done"
    BY <1>1, <2>1, GoStep DEF Ended
  <2> QED
    BY <2>1, <2>2, AccountsKept DEF Moved, OthersStay, Active, Ended
<1>6. ASSUME NEW r \in Requests, Leave(r) PROVE AccountsInv'
  <2>1. /\ Active(r) /\ req' = [req EXCEPT ![r].live = FALSE]
        /\ UNCHANGED <<data, credential, seen>>
    BY <1>6 DEF Leave, world, tables
  <2>2. OthersStay(r) /\ req'[r].pc = req[r].pc /\ req'[r].created = req[r].created
    BY <1>1, <2>1 DEF OthersStay, Row
  <2>3. credential # NoCredential /\ credential.password = r => req[r].created
    BY <2>1, CreatorPlace
  <2> QED
    BY <2>1, <2>2, <2>3, AccountsKept DEF Active
<1>7. CASE Crash
  <2>1. UNCHANGED <<data, credential>> /\ "fault" \in seen' /\ seen \subseteq seen'
    BY <1>7 DEF Crash, world, tables
  <2>2. ASSUME NEW r \in Requests PROVE ~Active(r)'
    <3>1. [NewRequest EXCEPT !.pc = "failed"].pc = "failed"
      BY DEF NewRequest
    <3>2. req'[r] = IF Active(r) THEN [NewRequest EXCEPT !.pc = "failed"] ELSE req[r]
      BY <1>7 DEF Crash
    <3> QED
      BY <3>1, <3>2 DEF Active, Ended
  <2>3. CreatorKnows'
    BY <2>1, <2>2, Stored DEF CreatorKnows, Requests
  <2> QED
    BY <2>1, <2>3 DEF AccountsInv, Unwiped, Recording
<1>8. CASE UNCHANGED vars
  <2>1. UNCHANGED <<data, credential, req, seen>>
    BY <1>8 DEF vars, world, tables
  <2> QED
    BY <2>1 DEF AccountsInv, Unwiped, CreatorKnows, Recording, Active
<1> QED
  BY <1>2, <1>3, <1>4, <1>5, <1>6, <1>7, <1>8, EarlyAccounts, UpsertAccounts
     DEF Next, Work, Initialize, Requests

-----------------------------------------------------------------------------
(* The layout: a container has its data under it.                          *)

RemovalCalls == {"find", "remove", "wipe", "disconnect"}

\* A removal makes its own calls and no others.
OwnCalls ==
  \A r \in Requests :
    /\ req[r].pc \in RemovalCalls => r \in Removals
    /\ r \in Removals => req[r].pc \in RemovalCalls \cup Ended \cup {"new"}

\* Unless it was noted, a removal is alone; it wipes only what has no container,
\* and the container it is about to remove is the one it found.
AloneToRemove ==
  "mixed" \notin seen =>
    \A r \in Removals :
      /\ Active(r) => \A o \in Requests \ {r} : ~Active(o)
      /\ req[r].pc = "wipe" => container = NoContainer
      /\ req[r].pc = "remove" => container = NoContainer \/ container.id = req[r].id

LayoutInv == OwnCalls /\ AloneToRemove /\ DataUnderContainer

\* A step of an active request that keeps the data under the container.
LEMMA LayoutKept ==
  ASSUME LayoutInv, NEW r \in Requests, Active(r), OthersStay(r),
         "mixed" \in seen => "mixed" \in seen',
         r \in Removals => req'[r].pc \in RemovalCalls \cup Ended,
         r \notin Removals => req'[r].pc \notin RemovalCalls,
         "mixed" \notin seen => DataUnderContainer',
         "mixed" \notin seen /\ r \in Removals =>
           /\ req'[r].pc = "wipe" => container' = NoContainer
           /\ req'[r].pc = "remove" => container' = NoContainer \/ container'.id = req'[r].id
  PROVE  LayoutInv'
<1>1. "mixed" \in seen => "mixed" \in seen'
  OBVIOUS
<1>2. OwnCalls'
  BY DEF LayoutInv, OwnCalls, OthersStay
<1>3. DataUnderContainer'
  BY <1>1 DEF DataUnderContainer
<1>4. AloneToRemove'
  <2> SUFFICES ASSUME "mixed" \notin seen, NEW x \in Removals
               PROVE  /\ Active(x)' => \A o \in Requests \ {x} : ~Active(o)'
                      /\ req'[x].pc = "wipe" => container' = NoContainer
                      /\ req'[x].pc = "remove" =>
                           container' = NoContainer \/ container'.id = req'[x].id
    BY <1>1 DEF AloneToRemove
  <2>1. x \in Requests
    BY DEF Requests
  <2>2. CASE x = r
    BY <2>1, <2>2 DEF LayoutInv, AloneToRemove, OthersStay, Active
  <2>3. CASE x # r
    <3>1. ~Active(x) /\ req'[x] = req[x]
      BY <2>1, <2>3 DEF LayoutInv, AloneToRemove, OthersStay
    <3> QED
      BY <3>1 DEF Active, Ended
  <2> QED
    BY <2>2, <2>3
<1> QED
  BY <1>2, <1>3, <1>4 DEF LayoutInv

\* The calls of an init and of a deployment are none of a removal.
LEMMA WorkerCalls ==
  ASSUME DatabaseInv, NEW r \in Requests, Ensure(r) \/ Initialize(r)
  PROVE  /\ OthersStay(r) /\ Active(r) /\ req[r].pc \notin RemovalCalls
         /\ req'[r].pc \notin RemovalCalls
<1>1. req \in [Requests -> Row]
  BY Stored
<1>2. ASSUME NEW pc \in (Step \cup Ended) \ RemovalCalls, Go(r, pc)
      PROVE  OthersStay(r) /\ req'[r].pc \notin RemovalCalls
  <2>1. Moved(r) /\ req'[r].pc = pc
    BY <1>1, <1>2, GoStep
  <2> QED
    BY <2>1 DEF Moved, OthersStay
<1>3. ASSUME NEW row, row.pc \notin RemovalCalls, req' = [req EXCEPT ![r] = row]
      PROVE  OthersStay(r) /\ req'[r].pc \notin RemovalCalls
  BY <1>1, <1>3 DEF OthersStay
<1>4. Active(r) /\ req[r].pc \notin RemovalCalls
  BY DEF Ensure, InspectNetwork, CreateNetwork, MakeDataDir, InspectContainer, CreateContainer,
     StartContainer, Initialize, BecomeReady, LoadCredential, InsertCredential, Upsert,
     UpsertUnread, UpsertLocked, UpsertFails, Rollback, ConfigureSecrets, CommandRuns, At,
     Active, Ended, RemovalCalls
<1>5. CASE \E pc \in {"createNetwork", "mkdir", "inspect", "create", "ready", "done",
                      "credential", "secrets", "rollback", "failed"} : Go(r, pc)
  BY <1>2, <1>4, <1>5 DEF Step, Ended, RemovalCalls
<1>6. CASE StartContainer(r)
  <2> DEFINE row == Forget(r, Ensured(r))
  <2>1. req' = [req EXCEPT ![r] = row]
    BY <1>6 DEF StartContainer
  <2>2. row.pc \in {"ready", "done"}
    <3>1. CASE r \in Inits
      <4>1. row = [req[r] EXCEPT !.pc = "ready", !.id = None]
        BY <3>1 DEF Forget, Ensured, Ended
      <4> QED
        BY <1>1, <4>1 DEF Row
    <3>2. CASE r \notin Inits
      <4>1. row = [NewRequest EXCEPT !.pc = "done"]
        BY <3>2 DEF Forget, Ensured, Ended
      <4> QED
        BY <4>1 DEF NewRequest
    <3> QED
      BY <3>1, <3>2
  <2> HIDE DEF row
  <2> QED
    BY <1>3, <1>4, <2>1, <2>2 DEF RemovalCalls
<1>7. CASE InspectContainer(r) \/ CreateContainer(r) \/ LoadCredential(r) \/ InsertCredential(r)
           \/ UpsertLocked(r)
  <2>1. CASE \E pc \in {"create", "ready", "done", "rollback", "failed"} : Go(r, pc)
    BY <1>5, <2>1
  <2>2. ASSUME NEW i, req' = [req EXCEPT ![r].pc = "start", ![r].id = i]
        PROVE  OthersStay(r) /\ req'[r].pc \notin RemovalCalls
    BY <1>1, <2>2 DEF OthersStay, RemovalCalls, Row
  <2>3. ASSUME NEW i, req' = [req EXCEPT ![r].id = i, ![r].pc = "start"]
        PROVE  OthersStay(r) /\ req'[r].pc \notin RemovalCalls
    BY <1>1, <2>3 DEF OthersStay, RemovalCalls, Row
  <2>4. CASE InspectContainer(r)
    <3>1. Ensured(r) \in {"ready", "done"}
      BY DEF Ensured
    <3>2. \/ \E pc \in {"create", "ready", "done"} : Go(r, pc)
          \/ req' = [req EXCEPT ![r].pc = "start", ![r].id = container.id]
      BY <2>4, <3>1, Zenon DEF InspectContainer
    <3> QED
      BY <1>4, <2>1, <2>2, <3>2
  <2>5. CASE CreateContainer(r)
    BY <1>4, <2>3, <2>5 DEF CreateContainer
  <2>6. CASE LoadCredential(r)
    <3>1. \E cred : req' = [req EXCEPT ![r].pc = "upsert", ![r].cred = cred]
                  \/ req' = [req EXCEPT ![r].pc = "insert", ![r].cred = cred]
      BY <2>6, Zenon DEF LoadCredential
    <3> QED
      BY <1>1, <1>4, <3>1 DEF OthersStay, RemovalCalls, Row
  <2>7. CASE InsertCredential(r)
    BY <1>1, <1>4, <2>7 DEF InsertCredential, OthersStay, RemovalCalls, Row
  <2>8. CASE UpsertLocked(r)
    <3>1. \/ \E pc \in {"rollback", "failed"} : Go(r, pc)
          \/ req' = [req EXCEPT ![r].attempt = @ + 1]
      BY <2>8, Zenon DEF UpsertLocked, AfterUpsertFailure
    <3>2. CASE req' = [req EXCEPT ![r].attempt = @ + 1]
      BY <1>1, <1>4, <3>2 DEF OthersStay, Row
    <3> QED
      BY <2>1, <3>1, <3>2
  <2> QED
    BY <1>7, <2>4, <2>5, <2>6, <2>7, <2>8
<1>8. CASE InspectNetwork(r) \/ CreateNetwork(r) \/ MakeDataDir(r) \/ BecomeReady(r) \/ Upsert(r)
           \/ UpsertUnread(r) \/ UpsertFails(r) \/ Rollback(r) \/ ConfigureSecrets(r)
  <2>1. \E pc \in {"createNetwork", "mkdir", "inspect", "credential", "secrets", "done",
                   "rollback", "failed"} : Go(r, pc)
    BY <1>8, Zenon DEF InspectNetwork, CreateNetwork, MakeDataDir, BecomeReady, Upsert,
       UpsertUnread, UpsertFails, Rollback, ConfigureSecrets, AfterUpsertFailure
  <2> QED
    BY <1>5, <2>1
<1> QED
  BY <1>6, <1>7, <1>8 DEF Ensure, Initialize

\* An init or a deployment never puts a container on a directory that is not there.
LEMMA WorkerLayout ==
  ASSUME DatabaseInv, LayoutInv, NEW r \in Requests, Ensure(r) \/ Initialize(r)
  PROVE  LayoutInv'
<1>1. /\ OthersStay(r) /\ Active(r) /\ req[r].pc \notin RemovalCalls
      /\ req'[r].pc \notin RemovalCalls
  BY WorkerCalls
<1>2. r \notin Removals
  BY <1>1 DEF LayoutInv, OwnCalls, Active
<1>3. "mixed" \in seen => "mixed" \in seen'
  BY DEF Ensure, InspectNetwork, CreateNetwork, MakeDataDir, InspectContainer, CreateContainer,
     StartContainer, Initialize, BecomeReady, LoadCredential, InsertCredential, Upsert,
     UpsertUnread, UpsertLocked, UpsertFails, Rollback, ConfigureSecrets, Recorded
<1>4. ASSUME "mixed" \notin seen PROVE DataUnderContainer'
  <2>1. container # NoContainer => data.here /\ container.mount = data.gen
    BY <1>4 DEF LayoutInv, DataUnderContainer, Mounted
  <2>2. /\ container \in [id : Requests \cup {None}, running : BOOLEAN, mount : Nat]
        /\ data \in [here : BOOLEAN, gen : Nat, accounts : [Emails -> Inits \cup {None}]]
    BY DEF DatabaseInv, DatabaseTypeOK
  <2>3. CASE MakeDataDir(r)
    <3>1. container' = container /\ (data' = data \/ ~data.here)
      BY <2>3, Zenon DEF MakeDataDir
    <3> QED
      BY <2>1, <3>1 DEF DataUnderContainer, Mounted
  <2>4. CASE CreateContainer(r)
    BY <2>4 DEF CreateContainer, DataUnderContainer, Mounted
  <2>5. CASE StartContainer(r)
    <3>1. data' = data /\ data.here /\ container.mount = data.gen
          /\ container' = [container EXCEPT !.running = TRUE]
      BY <2>5 DEF StartContainer, Mounted
    <3> QED
      BY <2>2, <3>1 DEF DataUnderContainer, Mounted
  <2>6. CASE Upsert(r) \/ UpsertUnread(r)
    <3>1. /\ container' = container
          /\ data' = [data EXCEPT !.accounts[req[r].cred.email] = req[r].cred.password]
      BY <2>6 DEF Upsert, UpsertUnread, Recorded
    <3> QED
      BY <2>1, <2>2, <3>1 DEF DataUnderContainer, Mounted
  <2>7. CASE ~(MakeDataDir(r) \/ CreateContainer(r) \/ StartContainer(r) \/ Upsert(r)
               \/ UpsertUnread(r))
    <3>1. UNCHANGED <<container, data>>
      BY <2>7 DEF Ensure, InspectNetwork, CreateNetwork, InspectContainer, Initialize,
         BecomeReady, LoadCredential, InsertCredential, UpsertLocked, UpsertFails, Rollback,
         ConfigureSecrets, world
    <3> QED
      BY <2>1, <3>1 DEF DataUnderContainer, Mounted
  <2> QED
    BY <2>3, <2>4, <2>5, <2>6, <2>7
<1> QED
  BY <1>1, <1>2, <1>3, <1>4, LayoutKept

\* A removal wipes the data only after the container is gone.
LEMMA RemovalLayout ==
  ASSUME DatabaseInv, LayoutInv, NEW r \in Requests, Remove(r) \/ Fail(r) \/ Leave(r)
  PROVE  LayoutInv'
<1>1. /\ req \in [Requests -> Row]
      /\ container \in [id : Requests \cup {None}, running : BOOLEAN, mount : Nat]
  BY Stored DEF DatabaseInv, DatabaseTypeOK
<1>2. "mixed" \notin seen /\ container # NoContainer => data.here /\ container.mount = data.gen
  BY DEF LayoutInv, DataUnderContainer, Mounted
<1>3. CASE Leave(r)
  <2>1. /\ Active(r) /\ req' = [req EXCEPT ![r].live = FALSE] /\ UNCHANGED <<data, container, seen>>
    BY <1>3 DEF Leave, world
  <2>2. OthersStay(r) /\ req'[r].pc = req[r].pc /\ req'[r].id = req[r].id
    BY <1>1, <2>1 DEF OthersStay, Row
  <2> QED
    BY <1>2, <2>1, <2>2, LayoutKept DEF LayoutInv, OwnCalls, AloneToRemove, DataUnderContainer,
       Mounted, Active
<1>4. CASE Fail(r) \/ RemoveNetwork(r)
  <2>1. PICK pc \in {"failed", "done"} : Go(r, pc)
    BY <1>4, Zenon DEF Fail, RemoveNetwork
  <2>2. Moved(r) /\ req'[r].pc = pc
    BY <1>1, <2>1, GoStep DEF Ended
  <2>3. Active(r) /\ UNCHANGED <<data, container, seen>>
    BY <1>4 DEF Fail, RemoveNetwork, At, Active, Ended, world
  <2> QED
    BY <1>2, <2>2, <2>3, LayoutKept DEF Moved, OthersStay, DataUnderContainer, Mounted, Ended,
       RemovalCalls
<1>5. CASE FindContainer(r)
  <2> DEFINE pc == IF container # NoContainer THEN "remove"
                   ELSE IF req[r].wipe THEN "wipe" ELSE "disconnect"
  <2>1. /\ req' = [req EXCEPT ![r].id = container.id, ![r].pc = pc]
        /\ UNCHANGED <<data, container, seen>> /\ req[r].pc = "find"
    BY <1>5 DEF FindContainer, At, world
  <2>2. /\ pc \in {"remove", "wipe", "disconnect"}
        /\ pc = "wipe" => container = NoContainer
    OBVIOUS
  <2> HIDE DEF pc
  <2>3. OthersStay(r) /\ req'[r].pc = pc /\ req'[r].id = container.id
    BY <1>1, <2>1 DEF OthersStay, Row
  <2>4. r \in Removals /\ Active(r)
    BY <2>1 DEF LayoutInv, OwnCalls, RemovalCalls, Active, Ended
  <2> QED
    BY <1>2, <2>1, <2>2, <2>3, <2>4, LayoutKept DEF DataUnderContainer, Mounted, RemovalCalls
<1>6. CASE RemoveContainer(r) \/ StopOnly(r) \/ WipeData(r)
  <2>1. req[r].pc \in {"remove", "wipe"}
    BY <1>6 DEF RemoveContainer, StopOnly, WipeData, At
  <2>2. r \in Removals /\ Active(r)
    BY <2>1 DEF LayoutInv, OwnCalls, RemovalCalls, Active, Ended
  <2>3. PICK pc \in {"wipe", "disconnect", "failed"} : Go(r, pc)
    BY <1>6, Zenon DEF RemoveContainer, StopOnly, WipeData
  <2>4. Moved(r) /\ req'[r].pc = pc
    BY <1>1, <2>3, GoStep DEF Step, Ended
  <2>5. "mixed" \in seen => "mixed" \in seen'
    BY <1>6 DEF RemoveContainer, StopOnly, WipeData
  <2>6. ASSUME "mixed" \notin seen
        PROVE  DataUnderContainer' /\ (pc = "wipe" => container' = NoContainer)
    <3>1. /\ req[r].pc = "wipe" => container = NoContainer
          /\ req[r].pc = "remove" => container = NoContainer \/ container.id = req[r].id
      BY <2>2, <2>6 DEF LayoutInv, AloneToRemove
    <3>2. CASE RemoveContainer(r)
      <4>1. container' = NoContainer
        BY <3>1, <3>2 DEF RemoveContainer, At
      <4> QED
        BY <4>1 DEF DataUnderContainer
    <3>3. CASE StopOnly(r)
      <4>1. container' = [container EXCEPT !.running = FALSE] /\ data' = data
            /\ pc # "wipe"
        <5>1. Go(r, "failed") /\ container' = [container EXCEPT !.running = FALSE] /\ data' = data
          BY <3>3 DEF StopOnly
        <5>2. req'[r].pc = "failed"
          BY <1>1, <5>1, GoStep DEF Ended
        <5> QED
          BY <2>4, <5>1, <5>2
      <4>2. CASE container = NoContainer
        <5>1. container' = NoContainer
          BY <4>1, <4>2 DEF NoContainer
        <5> QED
          BY <4>1, <5>1 DEF DataUnderContainer
      <4>3. CASE container # NoContainer
        BY <1>1, <1>2, <2>6, <4>1, <4>3 DEF DataUnderContainer, Mounted
      <4> QED
        BY <4>2, <4>3
    <3>4. CASE WipeData(r)
      <4>1. container' = NoContainer
        BY <3>1, <3>4 DEF WipeData
      <4> QED
        BY <4>1 DEF DataUnderContainer
    <3> QED
      BY <1>6, <3>2, <3>3, <3>4
  <2>7. pc # "remove"
    BY <2>3
  <2> QED
    BY <2>2, <2>4, <2>5, <2>6, <2>7, LayoutKept DEF Moved, OthersStay, RemovalCalls, Ended
<1> QED
  BY <1>3, <1>4, <1>5, <1>6 DEF Remove

\* Every step keeps the layout.
LEMMA NextLayout ==
  ASSUME DatabaseInv, LayoutInv, [Next]_vars
  PROVE  LayoutInv'
<1>1. req \in [Requests -> Row]
  BY Stored
<1>2. ASSUME NEW r \in Requests,
             \/ r \in Inits /\ StartInit(r)
             \/ r \in Deploys /\ StartDeploy(r)
             \/ r \in Removals /\ StartRemoval(r)
      PROVE  LayoutInv'
  <2>1. PICK row : Arrive(r, row) /\ row.pc = IF r \in Removals THEN "find" ELSE "network"
    <3>1. CASE r \in Inits /\ StartInit(r)
      <4>1. PICK e, s : Arrive(r, [NewRequest EXCEPT !.pc = "network", !.email = e, !.secrets = s])
        BY <3>1, Zenon DEF StartInit
      <4>2. [NewRequest EXCEPT !.pc = "network", !.email = e, !.secrets = s].pc = "network"
        BY DEF NewRequest
      <4> QED
        BY <3>1, <4>1, <4>2, DatabaseAssumption
    <3>2. CASE r \in Deploys /\ StartDeploy(r)
      <4>1. [NewRequest EXCEPT !.pc = "network"].pc = "network"
        BY DEF NewRequest
      <4> QED
        BY <3>2, <4>1, DatabaseAssumption DEF StartDeploy
    <3>3. CASE r \in Removals /\ StartRemoval(r)
      <4>1. PICK w : Arrive(r, [NewRequest EXCEPT !.pc = "find", !.wipe = w])
        BY <3>3, Zenon DEF StartRemoval
      <4>2. [NewRequest EXCEPT !.pc = "find", !.wipe = w].pc = "find"
        BY DEF NewRequest
      <4> QED
        BY <3>3, <4>1, <4>2
    <3> QED
      BY <1>2, <3>1, <3>2, <3>3
  <2>2. /\ req' = [req EXCEPT ![r] = row] /\ seen' = seen \cup Mixes(r)
        /\ UNCHANGED <<container, data>>
    BY <2>1 DEF Arrive, world
  <2>3. OthersStay(r) /\ req'[r].pc = row.pc
    BY <1>1, <2>2 DEF OthersStay
  <2>4. OwnCalls'
    BY <2>1, <2>3 DEF LayoutInv, OwnCalls, OthersStay, RemovalCalls
  <2>5. DataUnderContainer'
    BY <2>2 DEF LayoutInv, DataUnderContainer, Mounted
  <2>6. AloneToRemove'
    <3> SUFFICES ASSUME "mixed" \notin seen', NEW x \in Removals
                 PROVE  /\ Active(x)' => \A o \in Requests \ {x} : ~Active(o)'
                        /\ req'[x].pc = "wipe" => container' = NoContainer
                        /\ req'[x].pc = "remove" =>
                             container' = NoContainer \/ container'.id = req'[x].id
      BY DEF AloneToRemove
    <3>1. "mixed" \notin seen /\ x \in Requests
      BY <2>2 DEF Requests
    <3>2. \A o \in Requests \ {r} : Active(o) => r \notin Removals /\ o \notin Removals
      BY <2>2 DEF Mixes
    <3>3. CASE x = r
      BY <2>1, <2>3, <3>1, <3>2, <3>3 DEF OthersStay, Active
    <3>4. CASE x # r
      <4>1. req'[x] = req[x] /\ ~Active(x)
        BY <2>3, <3>1, <3>2, <3>4 DEF OthersStay
      <4> QED
        BY <4>1 DEF Active, Ended
    <3> QED
      BY <3>3, <3>4
  <2> QED
    BY <2>4, <2>5, <2>6 DEF LayoutInv
<1>3. CASE Crash
  <2>1. UNCHANGED <<data, container>> /\ seen \subseteq seen'
    BY <1>3 DEF Crash, world
  <2>2. ASSUME NEW r \in Requests
        PROVE  ~Active(r)' /\ (req'[r] = req[r] \/ req'[r].pc = "failed")
    <3>1. [NewRequest EXCEPT !.pc = "failed"].pc = "failed"
      BY DEF NewRequest
    <3>2. req'[r] = IF Active(r) THEN [NewRequest EXCEPT !.pc = "failed"] ELSE req[r]
      BY <1>3 DEF Crash
    <3> QED
      BY <3>1, <3>2 DEF Active, Ended
  <2>3. OwnCalls'
    BY <2>2 DEF LayoutInv, OwnCalls, RemovalCalls, Ended
  <2>4. AloneToRemove'
    BY <2>1, <2>2 DEF LayoutInv, AloneToRemove, Requests
  <2>5. DataUnderContainer'
    BY <2>1 DEF LayoutInv, DataUnderContainer, Mounted
  <2> QED
    BY <2>3, <2>4, <2>5 DEF LayoutInv
<1>4. CASE UNCHANGED vars
  <2>1. UNCHANGED <<data, container, req, seen>>
    BY <1>4 DEF vars, world, tables
  <2> QED
    BY <2>1 DEF LayoutInv, OwnCalls, AloneToRemove, DataUnderContainer, Mounted, Active
<1> QED
  BY <1>2, <1>3, <1>4, WorkerLayout, RemovalLayout DEF Next, Work, Requests

\* The database a project keeps is sound: its credential works and its container has its
\* data, whatever fails, but for the mishaps that are noted.
THEOREM DatabaseStaysSound == Spec => []DatabaseSound
<1>1. Init => AccountsInv /\ LayoutInv
  <2> SUFFICES ASSUME Init PROVE AccountsInv /\ LayoutInv
    OBVIOUS
  <2>1. \A r \in Requests : req[r].pc = "new"
    BY NewRow DEF Init
  <2>2. AccountsInv
    BY DEF Init, AccountsInv, Unwiped, CreatorKnows, Recording
  <2>3. LayoutInv
    BY <2>1 DEF Init, LayoutInv, OwnCalls, AloneToRemove, DataUnderContainer, RemovalCalls,
       Active, Requests
  <2> QED
    BY <2>2, <2>3
<1>2. DatabaseInv /\ AccountsInv /\ LayoutInv /\ [Next]_vars => AccountsInv' /\ LayoutInv'
  BY NextAccounts, NextLayout
<1>3. DatabaseInv /\ AccountsInv /\ LayoutInv => DatabaseSound
  BY Stored DEF DatabaseInv, AccountsInv, LayoutInv, Recording, DatabaseSound, CredentialWorks,
     Quiet, Requests
<1> QED
  BY <1>1, <1>2, <1>3, DatabaseInvariant, PTL DEF Spec
=============================================================================
