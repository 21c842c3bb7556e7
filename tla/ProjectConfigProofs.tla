------------------------ MODULE ProjectConfigProofs ------------------------
(***************************************************************************)
(* The environment and secrets of a project, for every set of requests,    *)
(* jobs, names, values and keys and every length of the run.               *)
(***************************************************************************)
EXTENDS ProjectConfig, TLAPS

Revision == [at : Instant, committed : Instant, entries : [Name -> Entry]]
JobRow == [status : {"none", "queued", "building", "started", "failed"}, rev : Nat,
           env : [Name -> Entry], want : [Name -> Entry], sure : BOOLEAN]

\* The key that a start of the Brain would come up with, if there is one.
KeyInPlace == IF envKey # NoKey THEN envKey ELSE keyFile

\* The types, as the steps need them.
Typed ==
  /\ ConfigTypeOK
  /\ revs \in Seq(Revision)
  /\ DOMAIN request = Client
  /\ job \in [Job -> JobRow]
  /\ intended \in [Name -> Entry]

\* A stamped change was made by this process: its instant has passed and its
\* secrets have the key in use.
ChangesInOrder ==
  \A c \in Client : request[c].pc = "stamped" =>
    /\ brain = "up"
    /\ NotAfter(request[c].at, clock)
    /\ \A n \in Name \cap DOMAIN request[c].changes :
         request[c].changes[n] \in Entry /\ request[c].changes[n].key \in {NoKey, key}

\* Whatever the start of the Brain is at, the stored secrets have the key that
\* is in place; before there is one, there are no secrets.
OneKey ==
  /\ brain = "up" => key = KeyInPlace
  /\ brain \in {"reading", "creating", "writing"} => envKey = NoKey
  /\ brain = "creating" => keyFile = "absent"
  /\ brain = "writing" => keyFile = "empty"
  /\ \A i \in DOMAIN revs, n \in Name : revs[i].entries[n].key \in {NoKey, KeyInPlace}

\* As long as no commit was out of order, the last revision is what was asked for.
LastIsIntended == ~Misordered => intended = EntryMap(revs, Len(revs), NoEntries)

\* A job keeps the entries of the revision it captured.
JobsKeepRevision ==
  \A j \in Job :
    LET captured == EntryMap(revs, job[j].rev, NoEntries)
    IN  /\ job[j].status # "none" /\ job[j].sure => job[j].want = captured
        /\ job[j].status = "started" => job[j].env = captured

ConfigInv == Typed /\ ChangesInOrder /\ OneKey /\ LastIsIntended /\ JobsKeepRevision

-----------------------------------------------------------------------------
(* The order of the texts, and the latest revision.                        *)

\* RFC3339Nano texts are ordered, though not as time is.
LEMMA TextOrder ==
  ASSUME NEW s \in Instant, NEW t \in Instant, TextBefore(s, t)
  PROVE  ~TextBefore(t, s)
BY DEF Instant, TextBefore

\* latestProjectConfigRevisionID returns a revision, or none.
LEMMA LatestInRange ==
  ASSUME revs \in Seq(Revision), NEW id \in LatestIDs(revs)
  PROVE  id \in 0..Len(revs) /\ (revs = <<>> <=> id = 0)
BY DEF LatestIDs, LatestRows

\* Commits in the order of their texts: the latest revision is the last one.
LEMMA LatestIsLast ==
  ASSUME revs \in Seq(Revision), ~Misordered, NEW id \in LatestIDs(revs)
  PROVE  id = Len(revs)
<1>1. CASE revs = <<>>
  BY <1>1 DEF LatestIDs
<1>2. CASE revs # <<>>
  <2>1. id \in 1..Len(revs) /\ Len(revs) \in DOMAIN revs /\ Len(revs) \in Nat
    BY <1>2 DEF LatestIDs, LatestRows
  <2>2. ~TextBefore(revs[id].at, revs[Len(revs)].at)
    BY <1>2, <2>1 DEF LatestIDs, LatestRows
  <2>3. id < Len(revs) => TextBefore(revs[id].at, revs[Len(revs)].at)
    BY <2>1 DEF Misordered
  <2> QED
    BY <2>1, <2>2, <2>3
<1> QED
  BY <1>1, <1>2

\* The entries of a revision that is there, or of none, are well typed.
LEMMA EntriesType ==
  ASSUME revs \in Seq(Revision), NEW id \in 0..Len(revs)
  PROVE  EntryMap(revs, id, NoEntries) \in [Name -> Entry]
<1>1. NoEntries \in [Name -> Entry]
  BY DEF NoEntries, NoEntry, Entry
<1>2. id # 0 => revs[id] \in Revision
  OBVIOUS
<1> QED
  BY <1>1, <1>2 DEF EntryMap, Revision

-----------------------------------------------------------------------------
(* The steps.                                                              *)

\* The first start of the Brain: no revision, no job, no key.
LEMMA InitConfigInv == Init => ConfigInv
<1> SUFFICES ASSUME Init PROVE ConfigInv
  OBVIOUS
<1> USE DEF Init
<1>1. NoEntries \in [Name -> Entry]
  BY DEF NoEntries, NoEntry, Entry
<1>2. clock \in Instant /\ Idle.at \in Instant /\ Idle.pc = "idle"
  BY PerSecondAssumption DEF Instant, Idle
<1>3. NoJob \in JobRow /\ NoJob.status = "none"
  BY <1>1 DEF NoJob, JobRow
<1>4. ConfigTypeOK
  BY <1>2, ConfigAssumption DEF ConfigTypeOK, NoJob
<1>5. Typed
  BY <1>1, <1>3, <1>4 DEF Typed
<1>6. ChangesInOrder /\ OneKey /\ LastIsIntended /\ JobsKeepRevision
  BY <1>2, <1>3 DEF ChangesInOrder, OneKey, LastIsIntended, JobsKeepRevision, EntryMap
<1> QED
  BY <1>5, <1>6 DEF ConfigInv

\* What depends on revisions and jobs alone is kept when they are.
LEMMA RevisionsKept ==
  ASSUME ConfigInv, UNCHANGED <<revs, job, intended>>
  PROVE  LastIsIntended' /\ JobsKeepRevision'
BY DEF ConfigInv, LastIsIntended, JobsKeepRevision, Misordered, EntryMap, NoEntries

\* loadSecretCipher: the key in place is the one that is used, and a fresh one is
\* put in place only before there is a secret.
LEMMA StartUpInv ==
  ASSUME ConfigInv, Start \/ ReadKey \/ CreateKey \/ WriteKey
  PROVE  ConfigInv'
<1>1. UNCHANGED <<clock, revs, request, job, intended, envKey, crashes>>
  BY DEF Start, ReadKey, CreateKey, WriteKey, dataVars
<1>2. brain # "up" /\ \A c \in Client : request[c].pc # "stamped"
  BY DEF Start, ReadKey, ReadKeyFile, CreateKey, WriteKey, ConfigInv, ChangesInOrder
<1>3. key = NoKey
  BY <1>2, Zenon DEF ConfigInv, Typed, ConfigTypeOK
<1>4. FreshKey \in Key \/ brain # "writing"
  <2> SUFFICES ASSUME brain = "writing" PROVE FreshKey \in Key
    OBVIOUS
  <2>1. \A i \in DOMAIN revs, n \in Name : revs[i].entries[n].key \notin Key
    BY ConfigAssumption DEF ConfigInv, OneKey, KeyInPlace
  <2>2. \E k \in Key : \A i \in DOMAIN revs, n \in Name : revs[i].entries[n].key # k
    BY <2>1, ConfigAssumption
  <2> QED
    BY <2>2 DEF FreshKey
<1>5. /\ brain' \in {"down", "reading", "creating", "writing", "up"}
      /\ key' \in Key \cup {NoKey} /\ keyFile' \in Key \cup {"absent", "empty"}
      /\ brain' = "up" <=> key' # NoKey
  BY <1>2, <1>3, <1>4, ConfigAssumption
     DEF Start, ReadKey, ReadKeyFile, CreateKey, WriteKey, ConfigInv, Typed, ConfigTypeOK
<1>6. Typed'
  BY <1>1, <1>5 DEF ConfigInv, Typed, ConfigTypeOK
<1>7. ChangesInOrder'
  BY <1>1, <1>2 DEF ChangesInOrder
<1>8. OneKey'
  <2>1. CASE Start
    BY <1>1, <1>2, <2>1 DEF Start, ConfigInv, OneKey, KeyInPlace
  <2>2. CASE ReadKey
    BY <1>1, <1>2, <2>2, ConfigAssumption DEF ReadKey, ReadKeyFile, ConfigInv, OneKey, KeyInPlace
  <2>3. CASE CreateKey
    BY <1>1, <1>2, <2>3, ConfigAssumption
       DEF CreateKey, ConfigInv, OneKey, KeyInPlace, Typed, ConfigTypeOK, Revision, Entry
  <2>4. CASE WriteKey
    BY <1>1, <1>2, <1>4, <2>4, ConfigAssumption
       DEF WriteKey, ConfigInv, OneKey, KeyInPlace, Typed, ConfigTypeOK, Revision, Entry
  <2> QED
    BY <2>1, <2>2, <2>3, <2>4
<1> QED
  BY <1>1, <1>6, <1>7, <1>8, RevisionsKept DEF ConfigInv

\* A crash forgets the changes under way and fails the jobs under way.
LEMMA CrashConfigInv == ConfigInv /\ Crash => ConfigInv'
<1> SUFFICES ASSUME ConfigInv, Crash PROVE ConfigInv'
  OBVIOUS
<1> USE DEF ConfigInv, Crash
<1>1. /\ \A c \in Client : request'[c] = Idle
      /\ Idle.pc = "idle" /\ Idle.at \in Instant
  BY PerSecondAssumption DEF Idle, Instant
<1>2. /\ job' \in [Job -> JobRow]
      /\ \A j \in Job : /\ job'[j].rev = job[j].rev /\ job'[j].want = job[j].want
                        /\ job'[j].sure = job[j].sure /\ job'[j].env = job[j].env
                        /\ job'[j].status = "none" <=> job[j].status = "none"
                        /\ job'[j].status = "started" => job[j].status = "started"
  BY DEF Typed, JobRow
<1>3. crashes' \in 0..MaxCrashes
  BY ConfigAssumption DEF Typed, ConfigTypeOK
<1>4. Typed'
  <2>1. \A j \in Job : /\ job'[j].status \in {"none", "queued", "building", "started", "failed"}
                       /\ job'[j].rev \in 0..Len(revs)
    BY <1>2 DEF Typed, ConfigTypeOK, JobRow
  <2> QED
    BY <1>1, <1>2, <1>3, <2>1 DEF Typed, ConfigTypeOK
<1>5. ChangesInOrder'
  BY <1>1 DEF ChangesInOrder
<1>6. OneKey'
  BY DEF OneKey, KeyInPlace
<1>7. LastIsIntended'
  BY DEF LastIsIntended, Misordered, EntryMap
<1>8. JobsKeepRevision'
  BY <1>2 DEF JobsKeepRevision, EntryMap
<1> QED
  BY <1>4, <1>5, <1>6, <1>7, <1>8

\* The clock does not go back.
LEMMA TickConfigInv == ConfigInv /\ Tick => ConfigInv'
<1> SUFFICES ASSUME ConfigInv, Tick PROVE ConfigInv'
  OBVIOUS
<1> USE DEF ConfigInv, Tick, keyVars
<1>1. clock' \in Instant /\ clock \in Instant /\ NotAfter(clock, clock')
  <2>1. clock \in Instant
    BY DEF Typed, ConfigTypeOK
  <2>2. clock.sec \in Nat /\ clock.frac \in 0 .. PerSecond - 1 /\ PerSecond \in Nat /\ 0 < PerSecond
    BY <2>1, PerSecondAssumption DEF Instant
  <2>3. CASE clock.frac + 1 < PerSecond /\ clock' = [clock EXCEPT !.frac = @ + 1]
    <3>1. clock.frac + 1 \in 0 .. PerSecond - 1
      BY <2>2, <2>3
    <3>2. clock' \in Instant /\ clock'.sec = clock.sec /\ clock'.frac = clock.frac + 1
      BY <2>1, <2>3, <3>1 DEF Instant
    <3> QED
      BY <2>1, <2>2, <3>2 DEF NotAfter
  <2>4. CASE clock.sec < MaxSec /\ clock' = [sec |-> clock.sec + 1, frac |-> 0]
    <3>1. clock.sec + 1 \in Nat /\ 0 \in 0 .. PerSecond - 1
      BY <2>2
    <3>2. clock' \in Instant /\ clock'.sec = clock.sec + 1
      BY <2>4, <3>1 DEF Instant
    <3> QED
      BY <2>1, <2>2, <3>2 DEF NotAfter
  <2> QED
    BY <2>3, <2>4
<1>2. Typed'
  BY <1>1 DEF Typed, ConfigTypeOK
<1>3. ASSUME NEW t \in Instant, NotAfter(t, clock) PROVE NotAfter(t, clock')
  BY <1>1, <1>3 DEF NotAfter, Instant
<1>4. ChangesInOrder'
  BY <1>3 DEF ChangesInOrder, Typed, ConfigTypeOK
<1>5. OneKey'
  BY DEF OneKey, KeyInPlace
<1> QED
  BY <1>2, <1>4, <1>5, RevisionsKept

\* A handler that has taken its instant.
LEMMA StampConfigInv ==
  ASSUME ConfigInv, NEW c \in Client, StampSet(c) \/ StampAppSecrets(c) \/ StampUnset(c)
  PROVE  ConfigInv'
<1> USE DEF ConfigInv
<1>1. PICK changes, must :
        /\ Stamp(c, changes, must)
        /\ \A n \in Name \cap DOMAIN changes :
             changes[n] \in Entry /\ changes[n].key \in {NoKey, key}
  <2>1. brain = "up" /\ key \in Key \cup {NoKey}
    BY DEF StampSet, StampAppSecrets, StampUnset, Stamp, Typed, ConfigTypeOK
  <2>2. \A v \in Value : Plain(v) \in Entry /\ Secret(v) \in Entry
    BY <2>1 DEF Plain, Secret, Entry
  <2>3. NoEntry \in Entry
    BY DEF NoEntry, Entry
  <2>4. CASE StampSet(c)
    <3>1. PICK n \in Name, v \in Value :
            \E e \in {Plain(v), Secret(v)} : Stamp(c, [m \in {n} |-> e], {})
      BY <2>4 DEF StampSet
    <3>2. PICK e \in {Plain(v), Secret(v)} : Stamp(c, [m \in {n} |-> e], {})
      BY <3>1
    <3> DEFINE p == Plain(v)
               q == Secret(v)
    <3>a. p.key = NoKey /\ q.key = key
      BY DEF Plain, Secret
    <3>b. p \in Entry /\ q \in Entry
      BY <2>2, <3>1
    <3>c. e = p \/ e = q
      BY <3>2
    <3> HIDE DEF p, q
    <3>3. e \in Entry /\ e.key \in {NoKey, key}
      BY <3>a, <3>b, <3>c
    <3> DEFINE one == [m \in {n} |-> e]
    <3>4. \A m \in Name \cap DOMAIN one : one[m] \in Entry /\ one[m].key \in {NoKey, key}
      BY <3>3
    <3> QED
      BY <3>2, <3>4
  <2>5. CASE StampAppSecrets(c)
    <3>1. PICK v \in Value : Stamp(c, [m \in {Email, Password} |->
                                        IF m = Email THEN Plain(v) ELSE Secret(v)], {})
      BY <2>5 DEF StampAppSecrets
    <3> DEFINE both == [m \in {Email, Password} |-> IF m = Email THEN Plain(v) ELSE Secret(v)]
    <3>2. Plain(v).key = NoKey /\ Secret(v).key = key
      BY DEF Plain, Secret
    <3>3. \A n \in Name \cap DOMAIN both : both[n] \in Entry /\ both[n].key \in {NoKey, key}
      BY <2>2, <3>2
    <3> QED
      BY <3>1, <3>3
  <2>6. CASE StampUnset(c)
    <3>1. PICK n \in Name : Stamp(c, [m \in {n} |-> NoEntry], {n})
      BY <2>6 DEF StampUnset
    <3> QED
      BY <2>3, <3>1 DEF NoEntry
  <2> QED
    BY <2>4, <2>5, <2>6
<1> USE DEF Stamp, keyVars
<1>2. /\ request'[c].pc = "stamped" /\ request'[c].at = clock /\ request'[c].changes = changes
      /\ \A d \in Client \ {c} : request'[d] = request[d]
      /\ DOMAIN request' = Client
  BY <1>1 DEF Typed, Idle
<1>3. clock \in Instant /\ NotAfter(clock, clock)
  BY DEF Typed, ConfigTypeOK, NotAfter, Instant
<1>4. Typed'
  BY <1>1, <1>2, <1>3 DEF Typed, ConfigTypeOK
<1>5. ChangesInOrder'
  BY <1>1, <1>2, <1>3 DEF ChangesInOrder
<1>6. OneKey'
  BY <1>1 DEF OneKey, KeyInPlace
<1> QED
  BY <1>1, <1>4, <1>5, <1>6, RevisionsKept

\* The transaction of a change: the new revision is the latest one, with the
\* changes over it, and its secrets have the key in use.
LEMMA ChangeConfigInv ==
  ASSUME ConfigInv, NEW c \in Client, ChangeTx(c)
  PROVE  ConfigInv'
<1> USE DEF ConfigInv
<1>1. PICK id \in LatestIDs(revs) :
        \/ /\ revs' = Append(revs, [at |-> request[c].at, committed |-> clock,
                                    entries |-> Changed(Basis(id), request[c].changes)])
           /\ intended' = Changed(intended, request[c].changes)
        \/ UNCHANGED <<revs, intended>>
  BY DEF ChangeTx
<1>2. /\ brain = "up" /\ request[c].pc = "stamped" /\ request' = [request EXCEPT ![c] = Idle]
      /\ UNCHANGED <<brain, envKey, keyFile, key, crashes, clock, job>>
  BY DEF ChangeTx, keyVars, ChangesInOrder
<1>3. Idle.pc = "idle" /\ Idle.at \in Instant
  BY PerSecondAssumption DEF Idle, Instant
<1>4. /\ DOMAIN request' = Client
      /\ \A d \in Client : /\ request'[d].pc \in {"idle", "stamped"} /\ request'[d].at \in Instant
                           /\ request'[d].pc = "stamped" => request'[d] = request[d]
  BY <1>2, <1>3 DEF Typed, ConfigTypeOK
<1>5. ChangesInOrder'
  BY <1>2, <1>4 DEF ChangesInOrder
<1>6. CASE UNCHANGED <<revs, intended>>
  <2>1. Typed'
    BY <1>2, <1>4, <1>6 DEF Typed, ConfigTypeOK
  <2>2. OneKey'
    BY <1>2, <1>6 DEF OneKey, KeyInPlace
  <2> QED
    BY <1>2, <1>5, <1>6, <2>1, <2>2, RevisionsKept
<1>7. CASE /\ revs' = Append(revs, [at |-> request[c].at, committed |-> clock,
                                    entries |-> Changed(Basis(id), request[c].changes)])
           /\ intended' = Changed(intended, request[c].changes)
  <2> DEFINE old == EntryMap(revs, id, NoEntries)
             new == Changed(old, request[c].changes)
             last == Len(revs) + 1
  <2>1. id \in 0..Len(revs) /\ Len(revs) \in Nat
    BY <1>1, LatestInRange DEF Typed
  <2>2. old \in [Name -> Entry]
    BY <2>1, EntriesType DEF Typed
  <2>3. new \in [Name -> Entry] /\ intended' \in [Name -> Entry]
    BY <1>2, <1>7, <2>2 DEF Changed, ChangesInOrder, Typed
  <2>4. /\ request[c].at \in Instant /\ clock \in Instant
        /\ NotAfter(request[c].at, clock)
    BY <1>2 DEF ChangesInOrder, Typed, ConfigTypeOK
  <2>5. [at |-> request[c].at, committed |-> clock, entries |-> new] \in Revision
    BY <2>3, <2>4 DEF Revision
  <2>6. /\ revs' \in Seq(Revision) /\ DOMAIN revs' = 1..last /\ DOMAIN revs = 1..Len(revs)
        /\ Len(revs') = last
        /\ \A i \in 1..Len(revs) : revs'[i] = revs[i]
        /\ revs'[last].at = request[c].at /\ revs'[last].committed = clock
        /\ revs'[last].entries = new
    BY <1>7, <2>1, <2>5 DEF Typed, Basis
  <2>7. Typed'
    <3>1. \A i \in DOMAIN revs' : /\ revs'[i].at \in Instant /\ revs'[i].committed \in Instant
                                  /\ revs'[i].entries \in [Name -> Entry]
                                  /\ NotAfter(revs'[i].at, revs'[i].committed)
      BY <2>1, <2>3, <2>4, <2>6 DEF Typed, ConfigTypeOK
    <3>2. \A j \in Job : job[j].rev \in 0..Len(revs')
      BY <2>1, <2>6 DEF Typed, ConfigTypeOK
    <3> QED
      BY <1>2, <1>4, <2>3, <2>6, <3>1, <3>2 DEF Typed, ConfigTypeOK
  <2>8. OneKey'
    <3>1. \A n \in Name : old[n].key \in {NoKey, KeyInPlace}
      BY <2>1, <2>6 DEF OneKey, EntryMap, NoEntries, NoEntry
    <3>2. \A n \in Name : new[n].key \in {NoKey, KeyInPlace}
      BY <1>2, <2>2, <3>1 DEF Changed, ChangesInOrder, OneKey
    <3>3. KeyInPlace' = KeyInPlace
      BY <1>2 DEF KeyInPlace
    <3> QED
      BY <1>2, <2>1, <2>6, <3>2, <3>3 DEF OneKey
  <2>9. LastIsIntended'
    <3> SUFFICES ASSUME ~Misordered' PROVE intended' = new
      BY <2>1, <2>6 DEF LastIsIntended, EntryMap
    <3>1. ~Misordered
      BY <2>1, <2>6 DEF Misordered
    <3>2. id = Len(revs)
      BY <1>1, <3>1, LatestIsLast DEF Typed
    <3> QED
      BY <1>7, <3>1, <3>2 DEF LastIsIntended
  <2>10. JobsKeepRevision'
    <3>1. \A j \in Job : EntryMap(revs', job[j].rev, NoEntries) = EntryMap(revs, job[j].rev, NoEntries)
      BY <2>1, <2>6 DEF EntryMap, Typed, ConfigTypeOK
    <3> QED
      BY <1>2, <3>1 DEF JobsKeepRevision, NoEntries
  <2> QED
    BY <1>5, <2>7, <2>8, <2>9, <2>10
<1> QED
  BY <1>1, <1>6, <1>7

\* The row of a new job.
NewJob(id, want, sure) ==
  [NoJob EXCEPT !.status = "queued", !.rev = id, !.want = want, !.sure = sure]

\* It is well typed and captures what it is given.
LEMMA NewJobRow ==
  ASSUME NEW id \in Nat, NEW want \in [Name -> Entry], NEW sure \in BOOLEAN
  PROVE  /\ NewJob(id, want, sure) \in JobRow
         /\ NewJob(id, want, sure).status = "queued" /\ NewJob(id, want, sure).rev = id
         /\ NewJob(id, want, sure).want = want /\ NewJob(id, want, sure).sure = sure
<1>1. NoJob \in JobRow
  BY DEF NoJob, JobRow, NoEntries, NoEntry, Entry
<1> QED
  BY <1>1 DEF JobRow, NewJob

\* `ovek run' captures the latest revision, whole.
LEMMA AdmitConfigInv ==
  ASSUME ConfigInv, NEW j \in Job, Admit(j)
  PROVE  ConfigInv'
<1> USE DEF ConfigInv
<1> DEFINE inOrder == ~Misordered
<1>1. PICK id \in LatestIDs(revs) : job' = [job EXCEPT ![j] = NewJob(id, intended, inOrder)]
  BY Zenon DEF Admit, NewJob
<1>2. UNCHANGED <<brain, envKey, keyFile, key, crashes, clock, revs, request, intended>>
  BY DEF Admit, keyVars
<1>3. id \in 0..Len(revs)
  BY LatestInRange DEF Typed
<1>4. inOrder \in BOOLEAN /\ id \in Nat /\ intended \in [Name -> Entry]
  BY <1>3 DEF Typed
<1> DEFINE new == NewJob(id, intended, inOrder)
<1> HIDE DEF inOrder
<1>5. /\ new.status = "queued" /\ new.rev = id /\ new.want = intended /\ new.sure = inOrder
      /\ new \in JobRow
  BY <1>4, NewJobRow
<1>6. job' = [job EXCEPT ![j] = new]
  BY <1>1
<1> HIDE DEF new
<1>7. job' \in [Job -> JobRow] /\ \A i \in Job : job'[i] = IF i = j THEN new ELSE job[i]
  BY <1>6, <1>5 DEF Typed
<1>8. Typed'
  BY <1>2, <1>3, <1>5, <1>7 DEF Typed, ConfigTypeOK
<1>9. ChangesInOrder' /\ OneKey' /\ LastIsIntended'
  BY <1>2 DEF ChangesInOrder, OneKey, KeyInPlace, LastIsIntended, Misordered, EntryMap, NoEntries
<1>10. JobsKeepRevision'
  <2>1. new.sure => new.want = EntryMap(revs, id, NoEntries)
    BY <1>5, LatestIsLast DEF inOrder, Typed, LastIsIntended
  <2> QED
    BY <1>2, <1>5, <1>7, <2>1 DEF JobsKeepRevision, NoEntries
<1> QED
  BY <1>8, <1>9, <1>10

\* A job resolves the revision it captured, or fails.
LEMMA ResolveConfigInv ==
  ASSUME ConfigInv, NEW j \in Job, OpenLog(j) \/ StartApp(j)
  PROVE  ConfigInv'
<1> USE DEF ConfigInv
<1> DEFINE entries == EntryMap(revs, job[j].rev, NoEntries)
<1>1. UNCHANGED <<brain, envKey, keyFile, key, crashes, clock, revs, request, intended>>
  BY DEF OpenLog, StartApp, Resolve, keyVars
<1>2. entries \in [Name -> Entry]
  BY EntriesType DEF Typed, ConfigTypeOK
<1>3. PICK status \in {"building", "started"} :
        job' = [job EXCEPT ![j] =
                  IF Decrypts(entries) THEN [@ EXCEPT !.status = status, !.env = entries]
                                       ELSE [@ EXCEPT !.status = "failed"]]
  BY DEF OpenLog, StartApp, Resolve, RevisionOf
<1>4. job[j].status # "none"
  BY DEF OpenLog, StartApp
<1> HIDE DEF entries
<1>5. /\ job' \in [Job -> JobRow]
      /\ \A i \in Job : i # j => job'[i] = job[i]
      /\ job'[j].rev = job[j].rev /\ job'[j].want = job[j].want /\ job'[j].sure = job[j].sure
      /\ job'[j].status \in {"building", "started", "failed"}
      /\ job'[j].status = "started" => job'[j].env = entries
  BY <1>2, <1>3 DEF Typed, JobRow
<1>6. Typed'
  BY <1>1, <1>5 DEF Typed, ConfigTypeOK
<1>7. ChangesInOrder' /\ OneKey' /\ LastIsIntended'
  BY <1>1 DEF ChangesInOrder, OneKey, KeyInPlace, LastIsIntended, Misordered, EntryMap, NoEntries
<1>8. JobsKeepRevision'
  <2>1. \A i \in Job : job'[i].rev = job[i].rev
    BY <1>5
  <2>2. \A i \in Job : EntryMap(revs', job'[i].rev, NoEntries')
                       = EntryMap(revs, job[i].rev, NoEntries)
    BY <1>1, <2>1 DEF NoEntries
  <2> QED
    BY <1>4, <1>5, <2>2 DEF JobsKeepRevision, entries
<1> QED
  BY <1>6, <1>7, <1>8

\* Every step keeps the invariant.
LEMMA NextConfigInv == ConfigInv /\ [Next]_vars => ConfigInv'
<1> SUFFICES ASSUME ConfigInv, [Next]_vars PROVE ConfigInv'
  OBVIOUS
<1>1. CASE Start \/ ReadKey \/ CreateKey \/ WriteKey
  BY <1>1, StartUpInv
<1>2. CASE Crash
  BY <1>2, CrashConfigInv
<1>3. CASE Tick
  BY <1>3, TickConfigInv
<1>4. ASSUME NEW c \in Client, StampSet(c) \/ StampAppSecrets(c) \/ StampUnset(c) PROVE ConfigInv'
  BY <1>4, StampConfigInv
<1>5. ASSUME NEW c \in Client, ChangeTx(c) PROVE ConfigInv'
  BY <1>5, ChangeConfigInv
<1>6. ASSUME NEW j \in Job, Admit(j) PROVE ConfigInv'
  BY <1>6, AdmitConfigInv
<1>7. ASSUME NEW j \in Job, OpenLog(j) \/ StartApp(j) PROVE ConfigInv'
  BY <1>7, ResolveConfigInv
<1>8. CASE UNCHANGED vars
  BY <1>8 DEF vars, ConfigInv, Typed, ConfigTypeOK, ChangesInOrder, OneKey, KeyInPlace,
              LastIsIntended, JobsKeepRevision, Misordered, EntryMap, NoEntries
<1> QED
  BY <1>1, <1>2, <1>3, <1>4, <1>5, <1>6, <1>7, <1>8 DEF Next

-----------------------------------------------------------------------------
(* The properties.                                                         *)

\* The invariant holds whatever the requests, jobs, crashes and restarts do.
THEOREM ConfigInvariant == Spec => []ConfigInv
<1> QED
  BY InitConfigInv, NextConfigInv, PTL DEF Spec

\* The types of what the project configuration keeps.
THEOREM ConfigTypes == Spec => []ConfigTypeOK
<1>1. ConfigInv => ConfigTypeOK
  BY DEF ConfigInv, Typed
<1> QED
  BY <1>1, ConfigInvariant, PTL

\* While the texts of the instants are in the order of the commits, no change
\* is lost: the latest revision is what the committed changes add up to.
THEOREM ChangesAreKept == Spec => []LatestIsIntended
<1>1. ConfigInv => LatestIsIntended
  BY LatestIsLast DEF ConfigInv, Typed, LastIsIntended, LatestIsIntended
<1> QED
  BY <1>1, ConfigInvariant, PTL

\* A change asked for in a later second than that of an earlier commit is not
\* hidden by it: the text of its instant is the greater one.
THEOREM LaterSecondsWin == Spec => []LaterChangeWins
<1>1. ASSUME ConfigInv PROVE LaterChangeWins
  <2> SUFFICES ASSUME NEW i \in DOMAIN revs, NEW j \in DOMAIN revs,
                      i < j, revs[i].committed.sec < revs[j].at.sec
               PROVE  i \notin LatestRows(revs)
    BY DEF LaterChangeWins
  <2>1. /\ revs[i].at \in Instant /\ revs[i].committed \in Instant /\ revs[j].at \in Instant
        /\ NotAfter(revs[i].at, revs[i].committed)
    BY <1>1 DEF ConfigInv, Typed, ConfigTypeOK
  <2>2. TextBefore(revs[i].at, revs[j].at)
    BY <2>1 DEF NotAfter, TextBefore, Instant
  <2> QED
    BY <2>2 DEF LatestRows
<1> QED
  BY <1>1, ConfigInvariant, PTL

\* A container has the entries that were asked for when its job was admitted,
\* through later changes, crashes and restarts.
THEOREM JobsUseTheirRevision == Spec => []RunUsesItsRevision
<1>1. ConfigInv => RunUsesItsRevision
  BY DEF ConfigInv, Typed, JobRow, JobsKeepRevision, RunUsesItsRevision
<1> QED
  BY <1>1, ConfigInvariant, PTL

\* No crash of the first start loses a secret: whatever key a later process
\* comes up with, it is the one the stored secrets were encrypted with.
THEOREM SecretsStayReadable == Spec => []SecretsReadable
<1>1. ConfigInv => SecretsReadable
  BY DEF ConfigInv, OneKey, SecretsReadable, Decrypts, IsSecret, Typed, Revision
<1> QED
  BY <1>1, ConfigInvariant, PTL

=============================================================================
