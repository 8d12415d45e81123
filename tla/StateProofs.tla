------------------------------ MODULE StateProofs ------------------------------
(*****************************************************************************)
(* Proofs about what is kept: the distributed locks, the versions of the SQL *)
(* backend, the stores that are one file, the backups and the audit log.     *)
(*****************************************************************************)
EXTENDS DistributedLock, StateBackend, FileStores, Backups, AuditLog,
        SequenceTheorems, FiniteSetTheorems, WellFoundedInduction, TLAPS

-----------------------------------------------------------------------------
(* The distributed lock *)

\* DynamoDB stores whole seconds, and these are in the order of the moments.
LEMMA SecondsInOrder ==
  /\ \A t \in Nat : Seconds(t) \in Nat
  /\ \A s, t \in Nat : s <= t => Seconds(s) <= Seconds(t)
  BY LockAssumption DEF Seconds

\* The key of a lease that lasts is its holder's, and expires no earlier.
LeaseStored ==
  \A c \in holding : clock < until[c] =>
    /\ owner = c
    /\ kind = "redis" => until[c] <= expiry
    /\ kind = "dynamo" => Seconds(until[c]) <= expiry

LockInv == LockTypeOK /\ LeaseStored

LEMMA LockStarts == LockInit => LockInv
  BY DEF LockInit, LockInv, LockTypeOK, LeaseStored

LEMMA ExtensionTyped == Extension \in Nat /\ (kind = "dynamo" => Extension = TTL)
  BY SecondsInOrder, LockAssumption DEF Extension, Seconds

LEMMA LockTyped == LockTypeOK /\ [LockNext]_lockVars => LockTypeOK'
<1> SUFFICES ASSUME LockTypeOK, [LockNext]_lockVars PROVE LockTypeOK'
  OBVIOUS
<1> USE LockAssumption DEF LockTypeOK
<1>1. CASE ClockTick  BY <1>1 DEF ClockTick
<1>2. ASSUME NEW c \in Clients, Acquire(c) PROVE LockTypeOK'
  BY <1>2, SecondsInOrder DEF Acquire
<1>3. ASSUME NEW c \in Clients, Heartbeat(c) PROVE LockTypeOK'
  BY <1>3, SecondsInOrder, ExtensionTyped DEF Heartbeat
<1>4. ASSUME NEW c \in Clients, HeartbeatFails(c) PROVE LockTypeOK'
  BY <1>4 DEF HeartbeatFails
<1>5. ASSUME NEW c \in Clients, Release(c) PROVE LockTypeOK'
  BY <1>5 DEF Release, Ends, Without
<1>6. ASSUME NEW c \in Clients, Close(c) \/ LockCrash(c) PROVE LockTypeOK'
  BY <1>6 DEF Close, LockCrash, Ends
<1>7. CASE UNCHANGED lockVars  BY <1>7 DEF lockVars
<1> QED  BY <1>1, <1>2, <1>3, <1>4, <1>5, <1>6, <1>7 DEF LockNext

\* Nobody else can acquire the key while a lease lasts.
LEMMA LastsMeansTaken ==
  ASSUME LockInv, NEW c \in holding, clock < until[c]
  PROVE  ~Free
<1>1. owner = c /\ c \in Clients /\ owner /= None /\ clock \in Nat /\ until[c] \in Nat /\ expiry \in Nat
  BY LockAssumption DEF LockInv, LockTypeOK, LeaseStored
<1>2. CASE kind = "redis"
  BY <1>1, <1>2 DEF LockInv, LeaseStored, Free
<1>3. CASE kind = "dynamo"
  <2>1. Seconds(clock) <= Seconds(until[c]) /\ Seconds(clock) \in Nat /\ Seconds(until[c]) \in Nat
    BY <1>1, SecondsInOrder
  <2> QED  BY <1>1, <1>3, <2>1 DEF LockInv, LeaseStored, Free
<1> QED  BY <1>2, <1>3 DEF LockInv, LockTypeOK

LEMMA LockStep == LockInv /\ [LockNext]_lockVars => LockInv'
<1> SUFFICES ASSUME LockInv, [LockNext]_lockVars PROVE LeaseStored'
  BY LockTyped DEF LockInv
<1> USE DEF LockInv, LockTypeOK
<1>1. CASE ClockTick
  BY <1>1 DEF ClockTick, LeaseStored
<1>2. ASSUME NEW c \in Clients, Acquire(c) PROVE LeaseStored'
  <2> SUFFICES ASSUME NEW d \in holding', clock' < until'[d]
               PROVE  /\ owner' = d
                      /\ kind' = "redis" => until'[d] <= expiry'
                      /\ kind' = "dynamo" => Seconds(until'[d]) <= expiry'
    BY <1>2 DEF LeaseStored
  <2>1. CASE d \in holding
    <3>1. d /= c /\ until'[d] = until[d] /\ clock' = clock /\ Free
      BY <1>2, <2>1 DEF Acquire
    <3> QED  BY <2>1, <3>1, LastsMeansTaken
  <2>2. CASE d \notin holding
    <3>1. d = c /\ until'[d] = clock + TTL /\ owner' = c /\ kind' = kind
          /\ expiry' = IF kind = "redis" THEN clock + TTL ELSE Seconds(clock + TTL)
      BY <1>2, <2>2 DEF Acquire
    <3>2. Seconds(clock + TTL) \in Nat /\ clock + TTL \in Nat
      BY SecondsInOrder, LockAssumption
    <3> QED  BY <3>1, <3>2
  <2> QED  BY <2>1, <2>2
<1>3. ASSUME NEW c \in Clients, Heartbeat(c) PROVE LeaseStored'
  <2> SUFFICES ASSUME NEW d \in holding', clock' < until'[d]
               PROVE  /\ owner' = d
                      /\ kind' = "redis" => until'[d] <= expiry'
                      /\ kind' = "dynamo" => Seconds(until'[d]) <= expiry'
    BY <1>3 DEF LeaseStored
  <2>1. d \in holding /\ d \in Clients /\ clock' = clock /\ kind' = kind /\ owner = c
    BY <1>3 DEF Heartbeat, Owned
  <2>2. CASE d /= c
    <3>1. until'[d] = until[d]
      BY <1>3, <2>2 DEF Heartbeat
    <3> QED  BY <2>1, <2>2, <3>1 DEF LeaseStored
  <2>3. CASE d = c
    <3>1. Extension \in Nat /\ clock \in Nat /\ until[c] \in Nat
      BY <2>1, ExtensionTyped
    <3>2. until'[c] <= clock + Extension /\ until'[c] \in Nat
      BY <1>3, <3>1 DEF Heartbeat
    <3>3. Extension /= 0 /\ owner' = c
      BY <1>3, <2>1, <2>3, <3>1, <3>2 DEF Heartbeat
    <3>4. kind = "redis" => expiry' = clock + Extension
      BY <1>3 DEF Heartbeat
    <3>5. ASSUME kind = "dynamo" PROVE Seconds(until'[c]) <= expiry'
      <4>1. expiry' = Seconds(clock + TTL) /\ Extension = TTL
        BY <1>3, <3>5, ExtensionTyped DEF Heartbeat
      <4>2. clock + TTL \in Nat /\ until'[c] <= clock + TTL
        BY <3>1, <3>2, <4>1
      <4> QED  BY <3>2, <4>1, <4>2, SecondsInOrder
    <3> QED  BY <2>1, <2>3, <3>2, <3>3, <3>4, <3>5
  <2> QED  BY <2>2, <2>3
<1>4. ASSUME NEW c \in Clients, HeartbeatFails(c) PROVE LeaseStored'
  BY <1>4 DEF HeartbeatFails, LeaseStored
<1>5. ASSUME NEW c \in Clients, Close(c) \/ LockCrash(c) PROVE LeaseStored'
  BY <1>5 DEF Close, LockCrash, Ends, LeaseStored
<1>6. ASSUME NEW c \in Clients, Release(c) PROVE LeaseStored'
  <2>1. CASE c \in closed /\ Ends(c)
    BY <2>1 DEF Ends, LeaseStored
  <2>2. CASE ~(c \in closed /\ Ends(c))
    <3>1. /\ holding' = holding \ {c} /\ owner' \in {owner, Without(c)}
          /\ UNCHANGED <<clock, kind, expiry, until>>
      BY <1>6, <2>2 DEF Release
    <3>2. ASSUME NEW d \in holding, d /= c, clock < until[d] PROVE owner' = d
      BY <3>1, <3>2 DEF LeaseStored, Without, Owned
    <3> QED  BY <3>1, <3>2 DEF LeaseStored
  <2> QED  BY <2>1, <2>2
<1>7. CASE UNCHANGED lockVars
  BY <1>7 DEF lockVars, LeaseStored
<1> QED  BY <1>1, <1>2, <1>3, <1>4, <1>5, <1>6, <1>7 DEF LockNext

\* For any clients, time to live and length of a second, with heartbeats,
\* crashes and lost answers: while a lease lasts that a holder knows of, the key
\* is its, so no two leases overlap.
THEOREM LeaseIsKept == LockSpec => []LeaseKept
<1>1. LockInv => LeaseKept
  BY DEF LockInv, LeaseStored, LeaseKept
<1> QED  BY <1>1, LockStarts, LockStep, PTL DEF LockSpec

-----------------------------------------------------------------------------
(* The SQL backend *)

\* What a writer read is a row, and a version of it, that there once was.
Reading(w) ==
  /\ step[w] \in {"update", "record", "versions", "row"} => readId[w] \in 1..MaxIds
  /\ step[w] = "record" => readVersion[w] \in 1..MaxVersion

BackendInv ==
  /\ BackendTypeOK /\ (row /= 0 => version /= 0)
  /\ (\A w \in Writers : Reading(w)) /\ CurrentRecorded

LEMMA BackendStarts == BackendInit => BackendInv
<1> SUFFICES ASSUME BackendInit PROVE BackendInv
  OBVIOUS
<1>1. records \in [Numbers -> Nat] /\ step \in [Writers -> Steps]
  BY DEF BackendInit, Steps
<1>2. /\ row \in 0..MaxIds /\ version \in 0..MaxVersion /\ nextId \in 1..(MaxIds + 1)
      /\ readId \in [Writers -> 0..MaxIds] /\ readVersion \in [Writers -> 0..MaxVersion]
      /\ cut \subseteq Numbers
  BY BackendBounds DEF BackendInit
<1>3. (row /= 0 => version /= 0) /\ (\A w \in Writers : Reading(w)) /\ CurrentRecorded
  BY DEF BackendInit, Reading, CurrentRecorded
<1> QED  BY <1>1, <1>2, <1>3 DEF BackendTypeOK, BackendInv

LEMMA BackendTyped ==
  BackendInv /\ [BackendNext]_backendVars
    => BackendTypeOK' /\ (row /= 0 => version /= 0)' /\ (\A x \in Writers : Reading(x)')
<1> SUFFICES ASSUME BackendInv, [BackendNext]_backendVars
             PROVE  /\ BackendTypeOK' /\ (row /= 0 => version /= 0)'
                    /\ (\A x \in Writers : Reading(x)')
  OBVIOUS
<1> USE BackendBounds
    DEF BackendInv, BackendTypeOK, Steps, stored, reading, Goes, Returns, Reading
<1>1. CASE UNCHANGED backendVars
  BY <1>1 DEF backendVars
<1>2. ASSUME NEW w \in Writers, Find(w) \/ FindDeleted(w)
      PROVE  BackendTypeOK' /\ (row /= 0 => version /= 0)' /\ (\A x \in Writers : Reading(x)')
  BY <1>2 DEF Find, FindDeleted
<1>3. ASSUME NEW w \in Writers, Create(w)
      PROVE  BackendTypeOK' /\ (row /= 0 => version /= 0)' /\ (\A x \in Writers : Reading(x)')
  BY <1>3 DEF Create
<1>4. ASSUME NEW w \in Writers, Update(w)
      PROVE  BackendTypeOK' /\ (row /= 0 => version /= 0)' /\ (\A x \in Writers : Reading(x)')
  BY <1>4 DEF Update
<1>5. ASSUME NEW w \in Writers, Record(w)
      PROVE  BackendTypeOK' /\ (row /= 0 => version /= 0)' /\ (\A x \in Writers : Reading(x)')
  <2>1. <<readId[w], readVersion[w]>> \in Numbers
    BY <1>5 DEF Record, Numbers
  <2>2. records' \in [Numbers -> Nat]
    BY <1>5, <2>1 DEF Record
  <2> QED  BY <1>5, <2>2 DEF Record
<1>6. ASSUME NEW w \in Writers, DeleteVersions(w)
      PROVE  BackendTypeOK' /\ (row /= 0 => version /= 0)' /\ (\A x \in Writers : Reading(x)')
  BY <1>6 DEF DeleteVersions
<1>7. ASSUME NEW w \in Writers, DeleteRow(w)
      PROVE  BackendTypeOK' /\ (row /= 0 => version /= 0)' /\ (\A x \in Writers : Reading(x)')
  BY <1>7 DEF DeleteRow
<1>8. ASSUME NEW w \in Writers, Abort(w)
      PROVE  BackendTypeOK' /\ (row /= 0 => version /= 0)' /\ (\A x \in Writers : Reading(x)')
  <2>1. cut' \subseteq Numbers
    BY <1>8 DEF Abort, Unwritten
  <2> QED  BY <1>8, <2>1 DEF Abort
<1> QED  BY <1>1, <1>2, <1>3, <1>4, <1>5, <1>6, <1>7, <1>8 DEF BackendNext, SaveStep, DeleteStep

\* Whoever accounts for a record that is not there.
Accounts(w) ==
  readId[w] = row /\ (step[w] = "row" \/ (step[w] = "record" /\ readVersion[w] = version))

LEMMA BackendStep == BackendInv /\ [BackendNext]_backendVars => BackendInv'
<1> SUFFICES ASSUME BackendInv, [BackendNext]_backendVars, row' /= 0
             PROVE  \/ records'[<<row', version'>>] > 0 \/ <<row', version'>> \in cut'
                    \/ \E w \in Writers : Accounts(w)'
  BY BackendTyped DEF BackendInv, CurrentRecorded, Accounts
<1>t. BackendTypeOK /\ (\A x \in Writers : Reading(x))
  BY DEF BackendInv
<1>r. row /= 0 => /\ <<row, version>> \in Numbers
                  /\ \/ records[<<row, version>>] > 0 \/ <<row, version>> \in cut
                     \/ \E w \in Writers : Accounts(w)
  BY DEF BackendInv, BackendTypeOK, CurrentRecorded, Accounts, Numbers
<1> USE DEF stored, reading, Goes, Returns
<1>1. CASE UNCHANGED backendVars
  BY <1>1, <1>r DEF backendVars, Accounts
<1>2. ASSUME NEW w \in Writers, UNCHANGED <<row, version, records, cut>>, ~Accounts(w),
             \A x \in Writers \ {w} :
               step'[x] = step[x] /\ readId'[x] = readId[x] /\ readVersion'[x] = readVersion[x]
      PROVE  \/ records'[<<row', version'>>] > 0 \/ <<row', version'>> \in cut'
             \/ \E x \in Writers : Accounts(x)'
  BY <1>2, <1>r DEF Accounts
<1>3. ASSUME NEW w \in Writers, Find(w) \/ FindDeleted(w)
      PROVE  \/ records'[<<row', version'>>] > 0 \/ <<row', version'>> \in cut'
             \/ \E x \in Writers : Accounts(x)'
  BY <1>2, <1>3, <1>t DEF Find, FindDeleted, BackendTypeOK, Accounts
<1>4. ASSUME NEW w \in Writers, Create(w) \/ Update(w)
      PROVE  \/ records'[<<row', version'>>] > 0 \/ <<row', version'>> \in cut'
             \/ \E x \in Writers : Accounts(x)'
  <2>1. CASE step'[w] = "record"
    BY <1>4, <1>t, <2>1 DEF Create, Update, BackendTypeOK, Accounts
  <2>2. CASE step'[w] /= "record"
    BY <1>2, <1>4, <1>t, <2>2 DEF Create, Update, BackendTypeOK, Accounts
  <2> QED  BY <2>1, <2>2
<1>5. ASSUME NEW w \in Writers, Record(w)
      PROVE  \/ records'[<<row', version'>>] > 0 \/ <<row', version'>> \in cut'
             \/ \E x \in Writers : Accounts(x)'
  <2>1. <<readId[w], readVersion[w]>> \in Numbers /\ row' = row /\ version' = version
    BY <1>5, <1>t DEF Record, Reading, Numbers
  <2>2. CASE <<readId[w], readVersion[w]>> = <<row, version>>
    BY <1>5, <1>t, <2>1, <2>2 DEF Record, BackendTypeOK
  <2>3. CASE <<readId[w], readVersion[w]>> /= <<row, version>>
    <3>1. ~Accounts(w)
      BY <1>5, <2>3 DEF Record, Accounts
    <3>2. records'[<<row, version>>] = records[<<row, version>>]
          /\ (<<row, version>> \in cut => <<row, version>> \in cut')
      BY <1>5, <1>t, <1>r, <2>1, <2>3 DEF Record, BackendTypeOK
    <3>3. \A x \in Writers : Accounts(x) => Accounts(x)'
      BY <1>5, <1>t, <2>1, <3>1 DEF Record, BackendTypeOK, Accounts
    <3> QED  BY <1>r, <2>1, <3>2, <3>3
  <2> QED  BY <2>2, <2>3
<1>6. ASSUME NEW w \in Writers, DeleteVersions(w)
      PROVE  \/ records'[<<row', version'>>] > 0 \/ <<row', version'>> \in cut'
             \/ \E x \in Writers : Accounts(x)'
  <2>1. CASE readId[w] = row
    BY <1>6, <1>t, <2>1 DEF DeleteVersions, BackendTypeOK, Accounts
  <2>2. CASE readId[w] /= row
    <3>1. records'[<<row, version>>] = records[<<row, version>>]
          /\ UNCHANGED <<row, version, cut>>
      BY <1>6, <1>r, <2>2 DEF DeleteVersions, Deletes
    <3>2. \A x \in Writers : Accounts(x) => Accounts(x)'
      BY <1>6, <1>t, <2>2 DEF DeleteVersions, BackendTypeOK, Accounts
    <3> QED  BY <1>r, <3>1, <3>2
  <2> QED  BY <2>1, <2>2
<1>7. ASSUME NEW w \in Writers, DeleteRow(w)
      PROVE  \/ records'[<<row', version'>>] > 0 \/ <<row', version'>> \in cut'
             \/ \E x \in Writers : Accounts(x)'
  <2>1. row /= readId[w]
    BY <1>7 DEF DeleteRow
  <2> QED  BY <1>2, <1>7, <1>t, <2>1 DEF DeleteRow, BackendTypeOK, Accounts
<1>8. ASSUME NEW w \in Writers, Abort(w)
      PROVE  \/ records'[<<row', version'>>] > 0 \/ <<row', version'>> \in cut'
             \/ \E x \in Writers : Accounts(x)'
  <2>1. /\ UNCHANGED <<row, version, records>> /\ cut' = cut \cup Unwritten(w)
        /\ \A x \in Writers \ {w} :
             step'[x] = step[x] /\ readId'[x] = readId[x] /\ readVersion'[x] = readVersion[x]
    BY <1>8, <1>t DEF Abort, BackendTypeOK
  <2>2. CASE Accounts(w)
    <3>1. <<row, version>> \in Unwritten(w)
      BY <1>r, <2>1, <2>2 DEF Unwritten, Accounts
    <3> QED  BY <2>1, <3>1
  <2>3. CASE ~Accounts(w)
    <3>1. \A x \in Writers : Accounts(x) => Accounts(x)'
      BY <2>1, <2>3 DEF Accounts
    <3> QED  BY <1>r, <2>1, <3>1
  <2> QED  BY <2>2, <2>3
<1> QED  BY <1>1, <1>3, <1>4, <1>5, <1>6, <1>7, <1>8 DEF BackendNext, SaveStep, DeleteStep

\* The current version of a resource has its record, or a call that wrote or
\* deletes it is between two statements or failed there: for any writers, rows
\* and versions, with no lock that keeps their statements apart.
THEOREM CurrentIsRecorded == BackendSpec => []CurrentRecorded
<1>1. BackendInv => CurrentRecorded
  BY DEF BackendInv
<1> QED  BY <1>1, BackendStarts, BackendStep, PTL DEF BackendSpec

-----------------------------------------------------------------------------
(* The stores that are one file *)

\* What a copy that is not behind on an entry has of it is the newest version.
CopiesCurrent ==
  \A p \in Processes : stage[p] \in {"open", "write"} =>
    \A e \in Entries \ (behind[p] \cup unsaved[p]) : copy[p][e] = newest[e]

\* Where no key file was written over, or read too early, whoever writes the key
\* comes before anybody else has one, and later everybody has the key of the file.
OneKey ==
  encrypted /\ ~rekeyed =>
    /\ keyFile = NoKey =>
         file = "none" /\ \A p \in Processes : stage[p] \notin {"key write", "load", "open", "write"}
    /\ \A p \in Processes :
         /\ stage[p] \in {"load", "open", "write"} => key[p] = keyFile
         /\ stage[p] \in {"generated", "key write"} => key[p] # NoKey
         /\ stage[p] = "key write" =>
              /\ keyFile = EmptyKey /\ file = "none"
              /\ \A q \in Processes \ {p} : stage[q] \notin {"key write", "load", "open", "write"}

FilesInv == FilesTypeOK /\ CopiesCurrent /\ OneKey /\ ChangesKept

LEMMA EmptyIsAKey == EmptyKey # NoKey
  BY DEF EmptyKey, NoKey

LEMMA KeyMade ==
  ASSUME NEW k \in Keys \ {NoKey}, k < EmptyKey + MaxKeys
  PROVE  k + 1 \in Keys \ {NoKey}
  BY FileStoreAssumption DEF FileStoreAssumption, Keys, NoKey, EmptyKey

LEMMA FilesStart == FilesInit => FilesInv
<1> SUFFICES ASSUME FilesInit PROVE FilesInv
  OBVIOUS
<1>1. FilesTypeOK
  <2>1. 0 \in 0..MaxSaves /\ NoKey \in Keys /\ EmptyKey \in Keys \ {NoKey}
    BY FileStoreAssumption DEF Keys, NoKey, EmptyKey
  <2> QED BY <2>1 DEF FilesInit, FilesTypeOK, Blank, Stages
<1>2. CopiesCurrent /\ OneKey /\ ChangesKept
  BY DEF FilesInit, CopiesCurrent, OneKey, ChangesKept
<1> QED BY <1>1, <1>2 DEF FilesInv

LEMMA FilesTyped == FilesTypeOK /\ [FilesNext]_fileVars => FilesTypeOK'
<1> SUFFICES ASSUME FilesTypeOK, [FilesNext]_fileVars PROVE FilesTypeOK'
  OBVIOUS
<1> USE DEF FilesTypeOK, disk, keys, changes, Reach
<1>1. Blank \in [Entries -> Nat] /\ Stages = {"off", "key", "generated", "key write", "load", "open", "write"}
  BY DEF Blank, Stages
<1>2. ASSUME NEW p \in Processes, NEW changed \in SUBSET Entries, NEW new \in [Entries -> Nat],
             Truncate(p, changed, new)
      PROVE  FilesTypeOK'
  <2>1. saves' \in 0..MaxSaves
    BY <1>2, FileStoreAssumption DEF Truncate, FileStoreAssumption
  <2> QED BY <1>1, <1>2, <2>1 DEF Truncate
<1>3. ASSUME NEW p \in Processes, NEW e \in Entries, Put(p, e) PROVE FilesTypeOK'
  <2>1. [copy[p] EXCEPT ![e] = @ + 1] \in [Entries -> Nat]
    OBVIOUS
  <2> QED BY <1>2, <1>3, <2>1 DEF Put
<1>4. ASSUME NEW p \in Processes, NEW e \in Entries, DeleteEntry(p, e) PROVE FilesTypeOK'
  <2>1. [copy[p] EXCEPT ![e] = 0] \in [Entries -> Nat]
    OBVIOUS
  <2> QED BY <1>2, <1>4, <2>1 DEF DeleteEntry
<1>5. ASSUME NEW p \in Processes, Touch(p) PROVE FilesTypeOK'
  BY <1>2, <1>5 DEF Touch
<1>k. NoKey \in Keys /\ EmptyKey \in Keys
  BY FileStoreAssumption DEF Keys, NoKey, EmptyKey
<1>6. ASSUME NEW p \in Processes, Open(p) \/ CreateKeyFile(p) PROVE FilesTypeOK'
  BY <1>1, <1>k, <1>6 DEF Open, CreateKeyFile
<1>11. ASSUME NEW p \in Processes, ReadKey(p) PROVE FilesTypeOK'
  <2>1. key' \in [Processes -> Keys] /\ stage' \in [Processes -> Stages]
    BY <1>1, <1>11 DEF ReadKey
  <2> QED BY <1>11, <2>1 DEF ReadKey
<1>14. ASSUME NEW p \in Processes, MakeKey(p) PROVE FilesTypeOK'
  <2>1. lastKey' \in Keys \ {NoKey}
    BY <1>14, KeyMade DEF MakeKey
  <2>2. key' \in [Processes -> Keys] /\ stage' \in [Processes -> Stages]
    BY <1>1, <1>14, <2>1 DEF MakeKey
  <2> QED BY <1>14, <2>1, <2>2 DEF MakeKey
<1>12. ASSUME NEW p \in Processes, WriteKey(p) PROVE FilesTypeOK'
  <2>1. keyFile' \in Keys /\ stage' \in [Processes -> Stages]
    BY <1>1, <1>12 DEF WriteKey
  <2> QED BY <1>12, <2>1 DEF WriteKey
<1>13. ASSUME NEW p \in Processes, Forget(p)
       PROVE  /\ stage' \in [Processes -> Stages] /\ overlaid' \in [Processes -> BOOLEAN]
              /\ copy' \in [Processes -> [Entries -> Nat]]
              /\ key' \in [Processes -> Keys]
              /\ unsaved' \in [Processes -> SUBSET Entries] /\ behind' \in [Processes -> SUBSET Entries]
  BY <1>1, <1>k, <1>13 DEF Forget
<1>7. ASSUME NEW p \in Processes, Load(p) PROVE FilesTypeOK'
  <2>1. CASE Loads(p)
    <3>1. (IF Legible(p) THEN contents ELSE Blank) \in [Entries -> Nat]
      BY <1>1
    <3>2. /\ copy' = [copy EXCEPT ![p] = IF Legible(p) THEN contents ELSE Blank]
          /\ behind' = [behind EXCEPT ![p] = lost] /\ stage' = [stage EXCEPT ![p] = "open"]
          /\ UNCHANGED <<key, overlaid, unsaved>>
      BY <1>7, <2>1 DEF Load
    <3>3. copy' \in [Processes -> [Entries -> Nat]]
      BY <3>1, <3>2
    <3> QED BY <1>1, <1>7, <3>2, <3>3 DEF Load
  <2>2. CASE ~ Loads(p)
    BY <1>7, <1>13, <2>2 DEF Load
  <2> QED BY <2>1, <2>2
<1>8. ASSUME NEW p \in Processes, Write(p) PROVE FilesTypeOK'
  BY <1>1, <1>8 DEF Write, Acknowledge
<1>9. ASSUME NEW p \in Processes, WriteFails(p) \/ ProcessEnds(p) PROVE FilesTypeOK'
  <2>1. CASE WriteFails(p)
    BY <1>1, <2>1 DEF WriteFails
  <2>2. CASE ProcessEnds(p)
    BY <1>13, <2>2 DEF ProcessEnds
  <2> QED BY <1>9, <2>1, <2>2
<1>10. CASE UNCHANGED fileVars
  BY <1>10 DEF fileVars
<1> QED BY <1>3, <1>4, <1>5, <1>6, <1>7, <1>8, <1>9, <1>10, <1>11, <1>12, <1>14
  DEF FilesNext

LEMMA CopiesStep == FilesInv /\ [FilesNext]_fileVars => CopiesCurrent'
<1> SUFFICES ASSUME FilesInv, [FilesNext]_fileVars PROVE CopiesCurrent'
  OBVIOUS
<1> USE DEF FilesInv, FilesTypeOK, disk, keys, changes, Reach, CopiesCurrent
<1>1. ASSUME NEW p \in Processes, NEW changed \in SUBSET Entries, NEW new \in [Entries -> Nat],
             Truncate(p, changed, new), \A e \in Entries \ changed : new[e] = copy[p][e]
      PROVE  CopiesCurrent'
  BY <1>1 DEF Truncate
<1>2. ASSUME NEW p \in Processes, NEW e \in Entries, Put(p, e) \/ DeleteEntry(p, e) PROVE CopiesCurrent'
  <2>1. /\ [copy[p] EXCEPT ![e] = @ + 1] \in [Entries -> Nat]
        /\ [copy[p] EXCEPT ![e] = 0] \in [Entries -> Nat]
    OBVIOUS
  <2>2. \A d \in Entries \ {e} : /\ [copy[p] EXCEPT ![e] = @ + 1][d] = copy[p][d]
                                 /\ [copy[p] EXCEPT ![e] = 0][d] = copy[p][d]
    OBVIOUS
  <2>3. PICK new \in [Entries -> Nat] : /\ Truncate(p, {e}, new)
                                        /\ \A d \in Entries \ {e} : new[d] = copy[p][d]
    BY <1>2, <2>1, <2>2 DEF Put, DeleteEntry
  <2> QED BY <1>1, <2>3
<1>3. ASSUME NEW p \in Processes, Touch(p) PROVE CopiesCurrent'
  BY <1>1, <1>3 DEF Touch
<1>4. ASSUME NEW p \in Processes,
             Open(p) \/ ReadKey(p) \/ MakeKey(p) \/ CreateKeyFile(p) \/ WriteKey(p)
      PROVE  CopiesCurrent'
  <2>1. /\ UNCHANGED <<copy, newest, unsaved, behind>>
        /\ \A q \in Processes : stage'[q] \in {"open", "write"} => stage[q] \in {"open", "write"}
    BY <1>4 DEF Open, ReadKey, MakeKey, CreateKeyFile, WriteKey
  <2> QED BY <2>1
<1>5. ASSUME NEW p \in Processes, Load(p) PROVE CopiesCurrent'
  <2>1. \A q \in Processes \ {p} : /\ stage'[q] = stage[q] /\ copy'[q] = copy[q]
                                   /\ behind'[q] = behind[q] /\ unsaved'[q] = unsaved[q]
    BY <1>5 DEF Load, Forget
  <2>2. CASE Loads(p)
    <3>1. /\ copy'[p] = IF Legible(p) THEN contents ELSE Blank
          /\ behind'[p] = lost /\ newest' = newest
      BY <1>5, <2>2 DEF Load
    <3>2. \A e \in Entries \ lost : copy'[p][e] = newest[e]
      BY <2>2, <3>1 DEF Loads, Legible, ChangesKept
    <3> QED BY <2>1, <3>1, <3>2
  <2>3. CASE ~Loads(p)
    <3>1. stage'[p] = "off" /\ newest' = newest
      BY <1>5, <2>3 DEF Load, Forget
    <3> QED BY <2>1, <3>1
  <2> QED BY <2>2, <2>3
<1>6. ASSUME NEW p \in Processes, Write(p) PROVE CopiesCurrent'
  BY <1>6 DEF Write, Acknowledge
<1>7. ASSUME NEW p \in Processes, WriteFails(p) \/ ProcessEnds(p) PROVE CopiesCurrent'
  <2>1. /\ newest' = newest
        /\ \A q \in Processes : stage'[q] \in {"open", "write"} =>
             /\ stage[q] \in {"open", "write"} /\ copy'[q] = copy[q]
             /\ behind'[q] = behind[q] /\ unsaved'[q] = unsaved[q]
    <3>1. CASE WriteFails(p)
      BY <3>1 DEF WriteFails
    <3>2. CASE ProcessEnds(p)
      BY <3>2 DEF ProcessEnds, Forget
    <3> QED BY <1>7, <3>1, <3>2
  <2> QED BY <2>1
<1>8. CASE UNCHANGED fileVars
  BY <1>8 DEF fileVars
<1> QED BY <1>2, <1>3, <1>4, <1>5, <1>6, <1>7, <1>8 DEF FilesNext

LEMMA KeyStep == FilesInv /\ [FilesNext]_fileVars => OneKey'
<1> SUFFICES ASSUME FilesInv, [FilesNext]_fileVars, encrypted', ~rekeyed' PROVE OneKey'
  BY DEF OneKey
<1> USE DEF FilesInv, FilesTypeOK, disk, keys, changes, Reach, OneKey
<1>1. encrypted /\ ~rekeyed
  BY DEF FilesNext, fileVars, Open, ReadKey, MakeKey, CreateKeyFile, WriteKey, Load, Forget, Put, DeleteEntry,
         Touch, Truncate, Write, WriteFails, ProcessEnds
<1>2. ASSUME NEW p \in Processes, Open(p) PROVE OneKey'
  BY <1>1, <1>2 DEF Open
<1>3. ASSUME NEW p \in Processes, ReadKey(p) PROVE OneKey'
  <2>1. /\ keyFile # NoKey /\ keyFile' = keyFile /\ stage'[p] = "load" /\ key'[p] = keyFile
        /\ file' = file
        /\ \A q \in Processes \ {p} : stage'[q] = stage[q] /\ key'[q] = key[q]
    BY <1>3 DEF ReadKey
  <2>2. \A q \in Processes : stage[q] # "key write"
    BY <1>1, <1>3 DEF ReadKey
  <2> QED BY <1>1, <2>1, <2>2
<1>9. ASSUME NEW p \in Processes, MakeKey(p) PROVE OneKey'
  <2>1. /\ keyFile' = keyFile /\ stage[p] = "key" /\ stage'[p] = "generated" /\ key'[p] # NoKey
        /\ file' = file
        /\ \A q \in Processes \ {p} : stage'[q] = stage[q] /\ key'[q] = key[q]
    <3>1. lastKey' # NoKey
      BY <1>9, KeyMade DEF MakeKey
    <3> QED BY <1>9, <3>1 DEF MakeKey
  <2> QED BY <1>1, <2>1
<1>4. ASSUME NEW p \in Processes, CreateKeyFile(p) PROVE OneKey'
  <2>2. keyFile = NoKey /\ EmptyKey # NoKey
    <3>1. ~(keyFile # NoKey)
      BY <1>4 DEF CreateKeyFile
    <3> QED BY <3>1, EmptyIsAKey
  <2>1. /\ keyFile' = EmptyKey
        /\ stage[p] = "generated" /\ stage'[p] = "key write" /\ key' = key /\ file' = file
        /\ \A q \in Processes \ {p} : stage'[q] = stage[q]
    BY <1>4 DEF CreateKeyFile
  <2> QED BY <1>1, <2>1, <2>2
<1>5. ASSUME NEW p \in Processes, WriteKey(p) PROVE OneKey'
  <2>1. /\ keyFile' = key[p] /\ stage[p] = "key write" /\ stage'[p] = "load" /\ key' = key
        /\ file' = file /\ \A q \in Processes \ {p} : stage'[q] = stage[q]
    BY <1>5 DEF WriteKey
  <2> QED BY <1>1, <2>1
<1>6. ASSUME NEW p \in Processes,
             \/ Load(p) \/ Write(p) \/ WriteFails(p) \/ Touch(p)
             \/ \E e \in Entries : Put(p, e) \/ DeleteEntry(p, e)
      PROVE  OneKey'
  <2>1. /\ stage[p] \in {"load", "open", "write"} /\ stage'[p] \in {"open", "write", "off"}
        /\ \A q \in Processes \ {p} : stage'[q] = stage[q] /\ key'[q] = key[q]
        /\ stage'[p] # "off" => key'[p] = key[p]
        /\ keyFile' = keyFile
    BY <1>6 DEF Load, Forget, Write, WriteFails, Touch, Put, DeleteEntry, Truncate
  <2> QED BY <1>1, <2>1
<1>7. ASSUME NEW p \in Processes, ProcessEnds(p) PROVE OneKey'
  BY <1>1, <1>7 DEF ProcessEnds, Forget
<1>8. CASE UNCHANGED fileVars
  BY <1>8 DEF fileVars
<1> QED BY <1>2, <1>3, <1>4, <1>5, <1>6, <1>7, <1>8, <1>9 DEF FilesNext

LEMMA KeptStep == FilesInv /\ [FilesNext]_fileVars => ChangesKept'
<1> SUFFICES ASSUME FilesInv, [FilesNext]_fileVars PROVE ChangesKept'
  OBVIOUS
<1> USE DEF FilesInv, FilesTypeOK, disk, keys, changes, Reach
<1>1. ASSUME NEW p \in Processes, Touch(p) \/ \E e \in Entries : Put(p, e) \/ DeleteEntry(p, e)
      PROVE  ChangesKept'
  <2>1. stage'[p] = "write" /\ file' = "torn"
    BY <1>1 DEF Touch, Put, DeleteEntry, Truncate
  <2> QED BY <2>1 DEF ChangesKept
<1>2. ASSUME NEW p \in Processes, Open(p) \/ ReadKey(p) \/ MakeKey(p) \/ CreateKeyFile(p) \/ Load(p)
      PROVE  ChangesKept'
  <2>1. /\ UNCHANGED <<file, contents, newest, lost, damaged, sealedWith, encrypted>>
        /\ \A q \in Processes : stage[q] = "write" => stage'[q] = "write"
        /\ rekeyed => rekeyed'
    BY <1>2 DEF Open, ReadKey, MakeKey, CreateKeyFile, Load, Forget
  <2>2. keyFile' = keyFile \/ rekeyed' \/ (encrypted /\ ~rekeyed => file = "none")
    BY <1>2 DEF Open, ReadKey, MakeKey, CreateKeyFile, Load, OneKey
  <2> QED BY <2>1, <2>2 DEF ChangesKept
<1>3. ASSUME NEW p \in Processes, WriteKey(p) PROVE ChangesKept'
  <2>1. /\ UNCHANGED <<file, contents, newest, lost, damaged, sealedWith, encrypted, rekeyed>>
        /\ \A q \in Processes : stage[q] = "write" => stage'[q] = "write"
    BY <1>3 DEF WriteKey
  <2>2. encrypted /\ ~rekeyed => file = "none"
    BY <1>3 DEF WriteKey, OneKey
  <2> QED BY <2>1, <2>2 DEF ChangesKept
<1>4. ASSUME NEW p \in Processes, Write(p) PROVE ChangesKept'
  <2>1. /\ stage[p] = "write" /\ UNCHANGED <<encrypted, keyFile, key, rekeyed>>
        /\ contents' = copy[p] /\ sealedWith' = key[p]
        /\ (file' = "whole") \/ (file' = "torn" /\ damaged')
    BY <1>4 DEF Write
  <2>2. ASSUME NEW e \in Entries \ lost' PROVE contents'[e] = newest'[e]
    <3>1. /\ newest'[e] = IF e \in unsaved[p] THEN copy[p][e] ELSE newest[e]
          /\ e \in unsaved[p] \/ e \notin behind[p]
      BY <1>4 DEF Write, Acknowledge
    <3> QED BY <2>1, <3>1 DEF CopiesCurrent
  <2>3. encrypted /\ ~rekeyed => sealedWith' = keyFile
    BY <2>1 DEF OneKey
  <2> QED BY <2>1, <2>2, <2>3 DEF ChangesKept
<1>5. ASSUME NEW p \in Processes, WriteFails(p) PROVE ChangesKept'
  BY <1>5 DEF WriteFails, ChangesKept
<1>6. ASSUME NEW p \in Processes, ProcessEnds(p) PROVE ChangesKept'
  <2>1. /\ UNCHANGED <<file, contents, newest, lost, sealedWith, encrypted, keyFile, rekeyed>>
        /\ \A q \in Processes : stage[q] = "write" => stage'[q] = "write" \/ damaged'
        /\ damaged => damaged'
    BY <1>6 DEF ProcessEnds, Forget
  <2> QED BY <2>1 DEF ChangesKept
<1>7. CASE UNCHANGED fileVars
  BY <1>7 DEF fileVars, ChangesKept
<1> QED BY <1>1, <1>2, <1>3, <1>4, <1>5, <1>6, <1>7 DEF FilesNext

\* Whatever commands overlap, end or fail: an acknowledged change can be read, but for
\* the exceptions that ChangesKept names.
THEOREM FilesKeepChanges == FilesSpec => []ChangesKept
<1>1. FilesInv /\ [FilesNext]_fileVars => FilesInv'
  BY FilesTyped, CopiesStep, KeyStep, KeptStep DEF FilesInv
<1>2. FilesInv => ChangesKept
  BY DEF FilesInv
<1> QED BY <1>1, <1>2, FilesStart, PTL DEF FilesSpec

-----------------------------------------------------------------------------
(* The backups *)

\* As many newer backups were made as are kept.
Replaced(s) == MaxBackups # 0 /\ Cardinality({t \in everMade : t > s}) >= MaxBackups

\* An archive that is there is whole, or its last flush failed.
Whole(s) == archive[s] \in {"none", "whole"} \/ s \in cutShort

\* The name of an archive in the making is its command's alone, and no backup has it yet.
Named ==
  /\ everMade \subseteq 1..last
  /\ \A c \in Commands :
       IF doing[c] \in {"archive", "describe"}
       THEN /\ began[c] \in 1..last /\ began[c] \notin everMade
            /\ doing[c] = "describe" => Whole(began[c])
            /\ \A d \in Commands \ {c} : began[d] # began[c]
       ELSE began[c] = 0

\* Whole metadata tell of a backup that was made and of the second it began in.
Told == \A s \in Moments : described[s] = "whole" => stamp[s] = s /\ s \in everMade

\* What a command is about to delete was replaced.
Justified == misled \/ \A c \in Commands : \A s \in doomed[c] : Replaced(s)

BackupInv == BackupTypeOK /\ Named /\ Told /\ Justified /\ NewestKept

LEMMA SecondsFinite ==
  /\ IsFiniteSet(Moments) /\ Moments \subseteq Nat \ {0} /\ 0 \in 0..MaxSecond /\ 1 \in Moments
  /\ MaxSecond \in Nat /\ MaxBackups \in Nat
<1>1. /\ Moments \subseteq Nat \ {0} /\ 0 \in 0..MaxSecond /\ 1 \in Moments
      /\ MaxSecond \in Nat /\ MaxBackups \in Nat
  BY BackupAssumption DEF BackupAssumption, Moments
<1>2. IsFiniteSet(Moments)
  BY <1>1, FS_Interval DEF Moments
<1> QED BY <1>1, <1>2

LEMMA BackupsStart == BackupInit => BackupInv
<1> SUFFICES ASSUME BackupInit PROVE BackupInv
  OBVIOUS
<1> USE DEF BackupInit
<1>1. last \in 0..second
  OBVIOUS
<1>2. BackupTypeOK
  BY <1>1, SecondsFinite DEF BackupTypeOK
<1>3. Named /\ Told /\ Justified /\ NewestKept
  BY DEF Named, Told, Justified, NewestKept
<1> QED BY <1>2, <1>3 DEF BackupInv

LEMMA Remainder == \A n, m, k \in Nat : n > m /\ k = n - m => n - k = m
OBVIOUS

\* A backup that was replaced stays so.
LEMMA ReplacedStays ==
  ASSUME everMade \subseteq everMade', IsFiniteSet(everMade'), NEW s, Replaced(s)
  PROVE  Replaced(s)'
<1> DEFINE T == {t \in everMade : t > s}
           U == {t \in everMade' : t > s}
<1>1. T \subseteq U /\ IsFiniteSet(U) /\ IsFiniteSet(T)
  BY FS_Subset
<1>2. Cardinality(T) <= Cardinality(U) /\ Cardinality(T) \in Nat /\ Cardinality(U) \in Nat
  BY <1>1, FS_Subset, FS_CardinalityType
<1>3. Cardinality(T) >= MaxBackups /\ MaxBackups # 0
  BY DEF Replaced
<1>4. Cardinality(U) >= MaxBackups
  BY <1>2, <1>3, SecondsFinite
<1> QED BY <1>3, <1>4 DEF Replaced

\* The oldest of a list that has its metadata were replaced by the others.
LEMMA OldestReplaced ==
  ASSUME BackupInv, MaxBackups # 0, \A s \in Listed : described[s] = "whole",
         NEW S \in SUBSET Moments, Oldest(S), NEW s \in S
  PROVE  stamp[s] = s /\ Replaced(s)
<1> USE DEF BackupInv, BackupTypeOK
<1>1. Listed \subseteq Moments /\ S \subseteq Listed /\ Cardinality(S) = Beyond
  BY DEF Listed, Oldest
<1>2. \A t \in Listed : stamp[t] = t /\ t \in everMade
  BY <1>1 DEF Told
<1>3. /\ IsFiniteSet(Listed) /\ IsFiniteSet(S) /\ IsFiniteSet(Listed \ S)
      /\ Cardinality(Listed) \in Nat /\ Cardinality(S) \in Nat /\ Cardinality(S) # 0
  BY <1>1, SecondsFinite, FS_Subset, FS_CardinalityType, FS_EmptySet
<1>4. Cardinality(Listed) > MaxBackups /\ Cardinality(S) = Cardinality(Listed) - MaxBackups
  BY <1>1, <1>3 DEF Beyond
<1>5. Cardinality(Listed \ S) = MaxBackups
  <2>1. Cardinality(Listed \ S) = Cardinality(Listed) - Cardinality(Listed \cap S)
    BY <1>3, FS_Difference
  <2>2. Listed \cap S = S
    BY <1>1
  <2>3. Cardinality(Listed \ S) = Cardinality(Listed) - Cardinality(S)
    BY <2>1, <2>2
  <2>4. Cardinality(Listed) - Cardinality(S) = MaxBackups
    BY <1>3, <1>4, SecondsFinite, Remainder
  <2> QED BY <2>3, <2>4
<1> DEFINE U == {t \in everMade : t > s}
<1>6. Listed \ S \subseteq U
  <2> SUFFICES ASSUME NEW t \in Listed \ S PROVE t \in everMade /\ t > s
    OBVIOUS
  <2>1. stamp[s] <= stamp[t] /\ stamp[s] = s /\ stamp[t] = t /\ s # t
    BY <1>1, <1>2 DEF Oldest
  <2>2. s \in Nat /\ t \in Nat
    BY <1>1, SecondsFinite
  <2> QED BY <1>2, <2>1, <2>2
<1>7. IsFiniteSet(U)
  BY SecondsFinite, FS_Subset
<1>8. Cardinality(Listed \ S) <= Cardinality(U)
  BY <1>6, <1>7, FS_Subset
<1>9. Cardinality(U) >= MaxBackups
  BY <1>5, <1>7, <1>8, SecondsFinite, FS_CardinalityType
<1> QED BY <1>1, <1>2, <1>9 DEF Replaced

LEMMA BackupsTyped == BackupTypeOK /\ Named /\ [BackupNext]_backupVars => BackupTypeOK'
<1> SUFFICES ASSUME BackupTypeOK, Named, [BackupNext]_backupVars PROVE BackupTypeOK'
  OBVIOUS
<1> USE DEF BackupTypeOK, files, makes
<1>1. /\ second \in 0..MaxSecond /\ last \in 0..MaxSecond /\ 0 \in 0..MaxSecond
      /\ Moments \subseteq 0..MaxSecond
  BY SecondsFinite DEF Moments
<1>2. ASSUME NEW c \in Commands, NEW s \in {"prune", "idle", "describe", "delete"}, Does(c, s)
      PROVE  /\ doing' \in [Commands -> {"idle", "archive", "describe", "prune", "delete"}]
             /\ began' \in [Commands -> 0..MaxSecond]
  BY <1>1, <1>2 DEF Does
<1>3. ASSUME NEW s, Gone(s)
      PROVE  /\ archive' \in [Moments -> {"none", "partial", "whole"}]
             /\ described' \in [Moments -> {"none", "torn", "whole"}]
             /\ stamp' \in [Moments -> 0..MaxSecond]
  BY <1>1, <1>3 DEF Gone
<1>4. CASE SecondPasses
  <2>1. second' \in Moments /\ last \in 0..second'
    BY <1>4, SecondsFinite DEF SecondPasses, Moments
  <2> QED BY <1>4, <2>1 DEF SecondPasses
<1>5. ASSUME NEW s \in Moments, DeleteBackup(s) PROVE BackupTypeOK'
  BY <1>3, <1>5 DEF DeleteBackup
<1>6. ASSUME NEW c \in Commands, CreateBackup(c) PROVE BackupTypeOK'
  <2>1. last' \in 0..second
    BY <1>6, SecondsFinite DEF CreateBackup, Moments
  <2> QED BY <1>1, <1>6, <2>1 DEF CreateBackup
<1>7. ASSUME NEW c \in Commands, WalkFails(c) PROVE BackupTypeOK'
  BY <1>2, <1>3, <1>7 DEF WalkFails
<1>8. ASSUME NEW c \in Commands, FinishArchive(c) PROVE BackupTypeOK'
  <2>1. /\ archive' \in [Moments -> {"none", "partial", "whole"}] /\ stamp' \in [Moments -> 0..MaxSecond]
    BY <1>1, <1>8 DEF FinishArchive
  <2>2. began[c] \in Moments
    <3>1. doing[c] = "archive" /\ began[c] \in 1..last
      BY <1>8 DEF FinishArchive, Named
    <3>2. \A n \in 1..last : n \in Moments
      BY <1>1, SecondsFinite DEF Moments
    <3> QED BY <3>1, <3>2
  <2>3. cutShort' \subseteq Moments
    BY <1>8, <2>2 DEF FinishArchive
  <2> QED BY <1>2, <1>8, <2>1, <2>3 DEF FinishArchive
<1>9. ASSUME NEW c \in Commands, Describe(c) PROVE BackupTypeOK'
  <2>1. began[c] \in Moments /\ began[c] \in 0..MaxSecond
    <3>1. doing[c] = "describe" /\ began[c] \in 1..last
      BY <1>9 DEF Describe, Named
    <3>2. \A n \in 1..last : n \in Moments
      BY <1>1, SecondsFinite DEF Moments
    <3> QED BY <3>1, <3>2
  <2>2. /\ described' \in [Moments -> {"none", "torn", "whole"}] /\ stamp' \in [Moments -> 0..MaxSecond]
        /\ made' \subseteq everMade' /\ everMade' \subseteq Moments
    BY <1>9, <2>1 DEF Describe
  <2> QED BY <1>2, <1>9, <2>2 DEF Describe
<1>10. ASSUME NEW c \in Commands, Prune(c) PROVE BackupTypeOK'
  <2>1. ASSUME NEW S \in SUBSET Moments PROVE {stamp[s] : s \in S} \subseteq 0..MaxSecond
    OBVIOUS
  <2> QED BY <1>2, <1>10, <2>1 DEF Prune
<1>11. ASSUME NEW c \in Commands, DeleteDoomed(c) PROVE BackupTypeOK'
  BY <1>2, <1>3, <1>11 DEF DeleteDoomed
<1>12. ASSUME NEW c \in Commands, Crash(c) PROVE BackupTypeOK'
  BY <1>2, <1>12 DEF Crash
<1>13. CASE UNCHANGED backupVars
  BY <1>13 DEF backupVars
<1> QED BY <1>4, <1>5, <1>6, <1>7, <1>8, <1>9, <1>10, <1>11, <1>12, <1>13 DEF BackupNext

\* Backups are made, never unmade, and what is described stays so until it is gone.
LEMMA MadeGrows ==
  ASSUME BackupInv, [BackupNext]_backupVars
  PROVE  /\ everMade \subseteq everMade' /\ (misled => misled') /\ IsFiniteSet(everMade')
         /\ cutShort \subseteq cutShort'
<1> USE DEF BackupInv, BackupTypeOK, files, makes
<1>1. CASE UNCHANGED backupVars \/ SecondPasses \/ \E s \in Moments : DeleteBackup(s)
  <2>1. everMade' = everMade /\ misled' = misled /\ cutShort \subseteq cutShort'
    BY <1>1 DEF backupVars, SecondPasses, DeleteBackup
  <2> QED BY <2>1, SecondsFinite, FS_Subset
<1>2. ASSUME NEW c \in Commands,
             CreateBackup(c) \/ WalkFails(c) \/ FinishArchive(c) \/ DeleteDoomed(c) \/ Crash(c)
      PROVE  everMade' = everMade /\ misled' = misled /\ cutShort \subseteq cutShort'
  BY <1>2 DEF CreateBackup, WalkFails, FinishArchive, DeleteDoomed, Crash
<1>3. ASSUME NEW c \in Commands, Describe(c) PROVE everMade \subseteq everMade' /\ misled' = misled /\ cutShort' = cutShort
  BY <1>3 DEF Describe
<1>4. ASSUME NEW c \in Commands, Prune(c) PROVE everMade' = everMade /\ (misled => misled') /\ cutShort' = cutShort
  BY <1>4 DEF Prune
<1>5. everMade' \subseteq Moments
  BY BackupsTyped
<1>6. IsFiniteSet(everMade')
  BY <1>5, SecondsFinite, FS_Subset
<1> QED BY <1>1, <1>2, <1>3, <1>4, <1>6 DEF BackupNext

LEMMA NamedStep == BackupInv /\ [BackupNext]_backupVars => Named'
<1> SUFFICES ASSUME BackupInv, [BackupNext]_backupVars PROVE Named'
  OBVIOUS
<1> USE DEF BackupInv, BackupTypeOK, files, makes, Whole
<1>1. /\ everMade \subseteq 1..last /\ 0 \notin 1..last /\ 1..last \subseteq Moments
      /\ \A c \in Commands : doing[c] \in {"archive", "describe"} =>
           /\ began[c] \in Moments /\ began[c] # 0
           /\ began[c] \in 1..last /\ began[c] \notin everMade
           /\ doing[c] = "describe" => Whole(began[c])
           /\ \A d \in Commands \ {c} : began[d] # began[c]
      /\ \A c \in Commands : doing[c] \notin {"archive", "describe"} => began[c] = 0
  <2>1. 0 \notin 1..last /\ 1..last \subseteq Moments
    BY SecondsFinite DEF Moments
  <2> QED BY <2>1 DEF Named
\* A step that makes no archive: a command goes on with its name, or gives it up.
<1>2. ASSUME UNCHANGED <<last, everMade>>,
             \A s \in Moments : Whole(s) => Whole(s)',
             \A c \in Commands :
               IF doing'[c] \in {"archive", "describe"} THEN began'[c] = began[c] /\ doing'[c] = doing[c]
               ELSE began'[c] = 0
      PROVE  Named'
  <2>1. \A c \in Commands : began'[c] \in {0, began[c]}
    BY <1>2
  <2>2. ASSUME NEW c \in Commands, doing'[c] \in {"archive", "describe"}
        PROVE  /\ began'[c] \in 1..last /\ began'[c] \notin everMade
               /\ doing'[c] = "describe" => Whole(began[c])'
               /\ \A d \in Commands \ {c} : began'[d] # began'[c]
    BY <1>1, <1>2, <2>1, <2>2
  <2> QED BY <1>1, <1>2, <2>2 DEF Named
<1>3. CASE UNCHANGED backupVars \/ SecondPasses
  BY <1>1, <1>2, <1>3 DEF backupVars, SecondPasses
<1>4. ASSUME NEW s \in Moments, DeleteBackup(s) PROVE Named'
  BY <1>1, <1>2, <1>4 DEF DeleteBackup, Gone
<1>5. ASSUME NEW c \in Commands, CreateBackup(c) PROVE Named'
  <2>1. /\ second \notin 1..last /\ 1..last \subseteq 1..last' /\ last' = second /\ second \in 1..last'
        /\ second # 0
    BY <1>5, SecondsFinite DEF CreateBackup, Moments
  <2>2. /\ began'[c] = second /\ doing'[c] = "archive" /\ UNCHANGED <<everMade, cutShort>>
        /\ \A d \in Commands \ {c} : began'[d] = began[d] /\ doing'[d] = doing[d]
        /\ \A s \in Moments \ {second} : archive'[s] = archive[s]
    BY <1>5 DEF CreateBackup
  <2>3. \A d \in Commands : began[d] # second
    BY <1>1, <2>1
  <2>4. ASSUME NEW d \in Commands \ {c}, doing'[d] \in {"archive", "describe"}
        PROVE  /\ began'[d] \in 1..last' /\ began'[d] \notin everMade
               /\ doing'[d] = "describe" => Whole(began[d])'
               /\ \A e \in Commands \ {d} : began'[e] # began'[d]
    BY <1>1, <2>1, <2>2, <2>3, <2>4
  <2> QED BY <1>1, <2>1, <2>2, <2>3, <2>4 DEF Named
<1>6. ASSUME NEW c \in Commands, WalkFails(c) \/ Prune(c) \/ Crash(c) \/ DeleteDoomed(c) PROVE Named'
  <2>1. UNCHANGED <<last, everMade>>
    BY <1>6 DEF WalkFails, Prune, Crash, DeleteDoomed
  <2>2. \A s \in Moments : Whole(s) => Whole(s)'
    BY <1>6 DEF WalkFails, Prune, Crash, DeleteDoomed, Gone
  <2>3. \A d \in Commands \ {c} : began'[d] = began[d] /\ doing'[d] = doing[d]
    BY <1>6 DEF WalkFails, Prune, Crash, DeleteDoomed, Does
  <2>4. doing'[c] \in {"idle", "delete"} /\ began'[c] = 0
    BY <1>1, <1>6 DEF WalkFails, Prune, Crash, DeleteDoomed, Does
  <2> QED BY <1>1, <1>2, <2>1, <2>2, <2>3, <2>4
<1>7. ASSUME NEW c \in Commands, FinishArchive(c) PROVE Named'
  <2>1. /\ began' = began /\ doing'[c] = "describe" /\ doing[c] = "archive"
        /\ \A d \in Commands \ {c} : doing'[d] = doing[d]
        /\ archive'[began[c]] \in {"none", "whole"} \/ began[c] \in cutShort'
        /\ \A s \in Moments \ {began[c]} : archive'[s] = archive[s]
        /\ cutShort \subseteq cutShort'
        /\ UNCHANGED <<last, everMade>>
    BY <1>1, <1>7 DEF FinishArchive, Does
  <2>2. ASSUME NEW d \in Commands, doing[d] \in {"archive", "describe"}, doing'[d] = "describe"
        PROVE  Whole(began[d])'
    BY <1>1, <2>1, <2>2
  <2> QED BY <1>1, <2>1, <2>2 DEF Named
<1>8. ASSUME NEW c \in Commands, Describe(c) PROVE Named'
  <2>1. /\ began'[c] = 0 /\ doing'[c] = "prune" /\ doing[c] = "describe"
        /\ \A d \in Commands \ {c} : began'[d] = began[d] /\ doing'[d] = doing[d]
        /\ everMade' \subseteq everMade \cup {began[c]}
        /\ UNCHANGED <<last, archive, cutShort>>
    BY <1>8 DEF Describe, Does
  <2>2. ASSUME NEW d \in Commands \ {c}, doing[d] \in {"archive", "describe"}
        PROVE  began[d] \notin everMade' /\ \A e \in Commands \ {d} : began'[e] # began[d]
    BY <1>1, <2>1, <2>2
  <2>3. everMade' \subseteq 1..last
    BY <1>1, <2>1
  <2> QED BY <1>1, <2>1, <2>2, <2>3 DEF Named
<1> QED BY <1>3, <1>4, <1>5, <1>6, <1>7, <1>8 DEF BackupNext

LEMMA ToldStep == BackupInv /\ [BackupNext]_backupVars => Told'
<1> SUFFICES ASSUME BackupInv, [BackupNext]_backupVars PROVE Told'
  OBVIOUS
<1> USE DEF BackupInv, BackupTypeOK, files, makes
<1>1. everMade \subseteq everMade'
  BY MadeGrows
<1>2. ASSUME \A s \in Moments : described'[s] = "whole" =>
               \/ described[s] = "whole" /\ stamp'[s] = stamp[s]
               \/ stamp'[s] = s /\ s \in everMade'
      PROVE  Told'
  BY <1>1, <1>2 DEF Told
<1>3. CASE UNCHANGED backupVars \/ SecondPasses
  BY <1>2, <1>3 DEF backupVars, SecondPasses
<1>4. ASSUME NEW s, Gone(s) PROVE Told'
  BY <1>2, <1>4 DEF Gone
<1>5. ASSUME NEW c \in Commands, CreateBackup(c) PROVE Told'
  <2>1. second \in Moments /\ described[second] # "whole"
    BY <1>5, SecondsFinite DEF CreateBackup, Moments, Told, Named
  <2> QED BY <1>2, <1>5, <2>1 DEF CreateBackup
<1>6. ASSUME NEW c \in Commands, FinishArchive(c) \/ Describe(c) PROVE Told'
  <2>1. began[c] \notin everMade
    BY <1>6 DEF Named, FinishArchive, Describe
  <2>2. CASE FinishArchive(c)
    BY <1>2, <2>1, <2>2 DEF FinishArchive, Told
  <2>3. CASE Describe(c)
    BY <1>2, <2>1, <2>3 DEF Describe
  <2> QED BY <1>6, <2>2, <2>3
<1>7. ASSUME NEW c \in Commands, Prune(c) \/ Crash(c) PROVE Told'
  BY <1>2, <1>7 DEF Prune, Crash
<1> QED BY <1>3, <1>4, <1>5, <1>6, <1>7, <1>2 DEF BackupNext, DeleteBackup, WalkFails, DeleteDoomed

LEMMA JustifiedStep == BackupInv /\ [BackupNext]_backupVars => Justified'
<1> SUFFICES ASSUME BackupInv, [BackupNext]_backupVars, ~ misled' PROVE Justified'
  BY DEF Justified
<1> USE DEF BackupInv, BackupTypeOK, files, makes
<1>1. everMade \subseteq everMade' /\ IsFiniteSet(everMade') /\ ~ misled
  BY MadeGrows
<1>2. \A s : Replaced(s) => Replaced(s)'
  BY <1>1, ReplacedStays
<1>3. ASSUME \A c \in Commands : doomed'[c] \subseteq doomed[c] PROVE Justified'
  BY <1>1, <1>2, <1>3 DEF Justified
<1>4. ASSUME NEW c \in Commands, Prune(c) PROVE Justified'
  <2>1. CASE MaxBackups = 0
    BY <1>3, <1>4, <2>1 DEF Prune
  <2>2. CASE MaxBackups # 0
    <3>1. PICK S \in SUBSET Moments : Oldest(S) /\ doomed' = [doomed EXCEPT ![c] = {stamp[s] : s \in S}]
      BY <1>4, <2>2 DEF Prune
    <3>2. \A s \in Listed : described[s] = "whole"
      BY <1>4, <2>2 DEF Prune
    <3>3. \A s \in S : stamp[s] = s /\ Replaced(s)
      BY <2>2, <3>1, <3>2, OldestReplaced
    <3> QED BY <1>1, <1>2, <3>1, <3>3 DEF Justified
  <2> QED BY <2>1, <2>2
<1>5. ASSUME NEW c \in Commands, DeleteDoomed(c) \/ Crash(c) PROVE Justified'
  <2>1. \A d \in Commands : doomed'[d] \subseteq doomed[d]
    BY <1>5 DEF DeleteDoomed, Crash
  <2> QED BY <1>3, <2>1
<1>6. CASE UNCHANGED doomed
  BY <1>3, <1>6
<1> QED BY <1>4, <1>5, <1>6 DEF BackupNext, backupVars, SecondPasses, DeleteBackup, CreateBackup, WalkFails,
                               FinishArchive, Describe

\* A backup is there, as it was reported but for its last flush.
There(s) == archive[s] = "whole" \/ (archive[s] = "partial" /\ s \in cutShort)

LEMMA KeptNewestStep == BackupInv /\ [BackupNext]_backupVars => NewestKept'
<1> SUFFICES ASSUME BackupInv, [BackupNext]_backupVars, ~ misled' PROVE NewestKept'
  BY DEF NewestKept
<1> USE DEF BackupInv, BackupTypeOK, files, makes
<1>1. everMade \subseteq everMade' /\ IsFiniteSet(everMade') /\ ~ misled
  BY MadeGrows
<1>2. \A s : Replaced(s) => Replaced(s)'
  BY <1>1, ReplacedStays
<1>3. \A s \in made : There(s) \/ Replaced(s)
  BY <1>1 DEF NewestKept, Replaced, There
<1>13. cutShort \subseteq cutShort'
  BY MadeGrows
<1>4. ASSUME \A s \in made' : There(s)' \/ Replaced(s)' \/ (s \in made /\ archive'[s] = archive[s])
      PROVE  NewestKept'
  BY <1>2, <1>3, <1>4, <1>13 DEF NewestKept, Replaced, There
<1>5. CASE UNCHANGED <<archive, made>>
  BY <1>4, <1>5
<1>6. ASSUME NEW s \in Moments, DeleteBackup(s) PROVE NewestKept'
  BY <1>4, <1>6 DEF DeleteBackup, Gone
<1>7. ASSUME NEW c \in Commands, CreateBackup(c) PROVE NewestKept'
  <2>1. second \notin everMade
    BY <1>7, SecondsFinite DEF CreateBackup, Moments, Named
  <2> QED BY <1>4, <1>7, <2>1 DEF CreateBackup
<1>8. ASSUME NEW c \in Commands, WalkFails(c) \/ FinishArchive(c) PROVE NewestKept'
  <2>1. began[c] \notin everMade
    BY <1>8 DEF Named, WalkFails, FinishArchive
  <2> QED BY <1>4, <1>8, <2>1 DEF WalkFails, FinishArchive, Gone
<1>9. ASSUME NEW c \in Commands, Describe(c) PROVE NewestKept'
  <2>1. archive[began[c]] = "none" \/ There(began[c])
    <3>1. began[c] \in 1..last /\ Whole(began[c])
      BY <1>9 DEF Describe, Named
    <3>2. 1..last \subseteq Moments
      BY SecondsFinite DEF Moments
    <3> QED BY <3>1, <3>2 DEF Whole, There
  <2>2. /\ archive' = archive /\ cutShort' = cutShort
        /\ made' = made \/ (archive[began[c]] # "none" /\ made' = made \cup {began[c]})
    BY <1>9 DEF Describe
  <2> QED BY <1>4, <2>1, <2>2 DEF There
<1>10. ASSUME NEW c \in Commands, DeleteDoomed(c) PROVE NewestKept'
  <2>1. CASE doomed[c] = {}
    BY <1>5, <1>10, <2>1 DEF DeleteDoomed
  <2>2. ASSUME NEW s \in doomed[c], Gone(s), UNCHANGED makes PROVE NewestKept'
    <3>1. Replaced(s)'
      BY <1>1, <1>2 DEF Justified
    <3> QED BY <1>4, <2>2, <3>1 DEF Gone
  <2> QED BY <1>10, <2>1, <2>2 DEF DeleteDoomed
<1>11. ASSUME NEW c \in Commands, Prune(c) \/ Crash(c) PROVE UNCHANGED <<archive, made>>
  BY <1>11 DEF Prune, Crash
<1>12. CASE UNCHANGED backupVars \/ SecondPasses
  BY <1>5, <1>12 DEF backupVars, SecondPasses
<1> QED BY <1>5, <1>6, <1>7, <1>8, <1>9, <1>10, <1>11, <1>12 DEF BackupNext

\* However creations, retentions and deletions overlap, fail or end: a backup is there,
\* and whole unless its own last flush failed, until as many newer ones were made as
\* are kept, as long as no command had to list an archive without metadata.
THEOREM BackupsAreKept == BackupSpec => []NewestKept
<1>1. BackupInv /\ [BackupNext]_backupVars => BackupInv'
  BY BackupsTyped, NamedStep, ToldStep, JustifiedStep, KeptNewestStep DEF BackupInv
<1>2. BackupInv => NewestKept
  BY DEF BackupInv
<1> QED BY <1>1, <1>2, BackupsStart, PTL DEF BackupSpec

-----------------------------------------------------------------------------
(* The audit log *)

\* Every set of numbers has a least one, so what fails for some number fails first
\* for one.
LEMMA LeastNumber ==
  ASSUME NEW T, T \subseteq Nat, T # {}
  PROVE  \E m \in T : \A k \in T : m <= k
<1>1. PICK m \in T : \A k \in T : ~ (<<k, m>> \in OpToRel(<, Nat))
  BY NatLessThanWellFounded, WFMin, Zenon
<1>2. \A k \in T : ~ (k < m)
  BY <1>1 DEF OpToRel
<1> QED BY <1>2

\* The loop of the cleanup, up to a record.
Loop(f, events, cutoff, k) ==
  f = [n \in 0..k |-> IF n = 0 THEN <<>>
                      ELSE IF events[n] > cutoff THEN Append(f[n - 1], events[n]) ELSE f[n - 1]]

LEMMA LoopRuns ==
  ASSUME NEW events, NEW cutoff, NEW k \in Nat
  PROVE  \E f : Loop(f, events, cutoff, k)
<1> DEFINE T == {n \in Nat : ~ \E f : Loop(f, events, cutoff, n)}
<1>1. ASSUME NEW m \in T, \A n \in T : m <= n PROVE FALSE
  <2>1. CASE m = 0
    <3> DEFINE f == [n \in 0..0 |-> <<>>]
    <3>1. Loop(f, events, cutoff, 0)
      BY DEF Loop
    <3> QED BY <2>1, <3>1
  <2>2. CASE m # 0
    <3>1. m - 1 \in Nat /\ m - 1 \notin T
      BY <1>1, <2>2
    <3>2. PICK f : Loop(f, events, cutoff, m - 1)
      BY <3>1
    <3> DEFINE g == [n \in 0..m |->
                       IF n = 0 THEN <<>>
                       ELSE IF events[n] > cutoff THEN Append(f[n - 1], events[n]) ELSE f[n - 1]]
    <3>3. \A n \in 0..(m - 1) : g[n] = f[n]
      <4>1. \A n \in 0..(m - 1) : n \in 0..m
        BY <1>1
      <4> QED BY <3>2, <4>1 DEF Loop
    <3>4. Loop(g, events, cutoff, m)
      <4>1. \A n \in 0..m : n # 0 => n - 1 \in 0..(m - 1)
        BY <1>1
      <4>2. \A n \in 0..m : n # 0 => f[n - 1] = g[n - 1]
        BY <3>3, <4>1
      <4> QED BY <4>2 DEF Loop
    <3> QED BY <3>4
  <2> QED BY <2>1, <2>2
<1>2. T = {}
  BY <1>1, LeastNumber
<1> QED BY <1>2

\* Of the events with a number, the cleanup keeps those that are not old.
LEMMA RecentKeeps ==
  ASSUME NEW events \in Seq(Nat), NEW cutoff \in Nat
  PROVE  /\ Recent(events, cutoff) \in Seq(Nat)
         /\ \A i \in 1..Len(events) :
              events[i] > cutoff => \E k \in 1..Len(Recent(events, cutoff)) : Recent(events, cutoff)[k] = events[i]
<1> DEFINE L == Len(events)
           kept == CHOOSE f : Loop(f, events, cutoff, L)
<1>1. L \in Nat /\ \A n \in 1..L : events[n] \in Nat
  BY LenProperties, ElementOfSeq
<1>2. Loop(kept, events, cutoff, L)
  BY <1>1, LoopRuns
<1>3. Recent(events, cutoff) = kept[L]
  BY DEF Recent, Loop
<1> DEFINE Fine(n) == /\ kept[n] \in Seq(Nat)
                      /\ \A i \in 1..n : events[i] > cutoff => \E k \in 1..Len(kept[n]) : kept[n][k] = events[i]
<1> HIDE DEF kept
<1> DEFINE T == {n \in 0..L : ~ Fine(n)}
<1>4. ASSUME NEW m \in T, \A n \in T : m <= n PROVE FALSE
  <2>1. m # 0
    BY <1>1, <1>2 DEF Loop
  <2>2. m - 1 \in 0..L /\ m \in 1..L /\ m - 1 \notin T /\ m \in 0..L
    <3>1. m \in 0..L
      OBVIOUS
    <3> HIDE DEF T
    <3>2. m - 1 \in 0..L /\ m \in 1..L /\ ~ (m <= m - 1)
      BY <1>1, <2>1, <3>1
    <3> QED BY <1>4, <3>1, <3>2
  <2>3. kept[m] = IF events[m] > cutoff THEN Append(kept[m - 1], events[m]) ELSE kept[m - 1]
    BY <1>2, <2>1, <2>2 DEF Loop
  <2>4. Fine(m - 1) /\ events[m] \in Nat
    BY <1>1, <2>2
  <2>5. \A i \in 1..m : i = m \/ i \in 1..(m - 1)
    BY <2>2
  <2> HIDE DEF T
  <2>6. CASE events[m] > cutoff
    <3> DEFINE s == kept[m - 1]
    <3>1. s \in Seq(Nat)
      BY <2>4
    <3>2. kept[m] = Append(s, events[m])
      BY <2>3, <2>6
    <3>3. /\ kept[m] \in Seq(Nat) /\ Len(kept[m]) = Len(s) + 1 /\ kept[m][Len(s) + 1] = events[m]
          /\ \A k \in 1..Len(s) : k \in 1..(Len(s) + 1) /\ kept[m][k] = s[k]
      BY <2>4, <3>1, <3>2, AppendProperties, LenProperties
    <3>4. Len(s) + 1 \in 1..(Len(s) + 1)
      BY <3>1, LenProperties
    <3>5. Fine(m)
      BY <2>4, <2>5, <3>3, <3>4
    <3> QED BY <3>5, <2>2 DEF T
  <2>7. CASE ~ (events[m] > cutoff)
    <3>1. Fine(m)
      BY <2>3, <2>4, <2>5, <2>7
    <3> QED BY <3>1, <2>2 DEF T
  <2> QED BY <2>6, <2>7
<1>5. T = {}
  <2>1. T \subseteq Nat
    BY <1>1
  <2> HIDE DEF T
  <2> QED BY <1>4, <2>1, LeastNumber
<1>6. L \in 0..L
  BY <1>1
<1> QED BY <1>3, <1>5, <1>6

-----------------------------------------------------------------------------
(* The audit log *)

\* Numbers of events, and where they are.
Numbered ==
  /\ logged \in Nat /\ old \in Nat
  /\ logFile \in Seq(Nat \cup {Torn}) /\ buffer \in Seq(Nat)
  /\ \A i \in 1..Len(buffer) : buffer[i] <= logged
  /\ critical \subseteq Nat /\ accepted \subseteq Nat /\ flushed \subseteq Nat
  /\ \A e \in critical \cup accepted : e <= logged
  /\ query \in [doing : {"nothing", "reading", "cleaning", "locking"}, at : Nat, cutoff : Nat]

\* What was accepted without a flush is at the front of the buffer, and not critical.
Waiting ==
  \A i \in 1..Len(buffer) : buffer[i] \in accepted => i < BufferSize /\ buffer[i] \notin critical

\* What a reader read is whole.
ReadWell ==
  /\ query.at <= Len(logFile) /\ query.cutoff <= old
  /\ query.doing # "nothing" => \A i \in 1..query.at : logFile[i] # Torn

\* From the end of its query on, a cleanup has read all that it must keep.
Found(e, n) == \E i \in 1..n : logFile[i] = e
Kept ==
  \A e \in flushed \ exposed : e > old =>
    Found(e, IF query.doing = "locking" THEN query.at ELSE Len(logFile))

AuditInv == Numbered /\ Waiting /\ ReadWell /\ Kept

LEMMA AuditStarts == AuditInit => AuditInv
<1> SUFFICES ASSUME AuditInit PROVE AuditInv
  OBVIOUS
<1>1. Len(<<>>) = 0 /\ <<>> \in Seq(Nat) /\ <<>> \in Seq(Nat \cup {Torn})
  OBVIOUS
<1> QED BY <1>1 DEF AuditInit, NoQuery, AuditInv, Numbered, Waiting, ReadWell, Kept

\* A write that adds to the file, in whole or in part.
Grows ==
  /\ logFile' \in Seq(Nat \cup {Torn}) /\ Len(logFile) <= Len(logFile')
  /\ \A i \in 1..Len(logFile) : logFile'[i] = logFile[i]

LEMMA PartlyGrows ==
  ASSUME NEW before \in Seq(Nat \cup {Torn}), NEW events \in Seq(Nat), NEW after \in Partly(before, events)
  PROVE  /\ after \in Seq(Nat \cup {Torn}) /\ Len(before) <= Len(after)
         /\ \A i \in 1..Len(before) : after[i] = before[i]
<1> DEFINE S == Nat \cup {Torn}
<1>1. PICK k \in 0..Len(events) : \/ after = before \o SubSeq(events, 1, k)
                                   \/ after = Append(before \o SubSeq(events, 1, k), Torn)
  <2>1. \A k \in 0..(Len(events) - 1) : k \in 0..Len(events)
    BY LenProperties
  <2> QED BY <2>1 DEF Partly
<1>2. SubSeq(events, 1, k) \in Seq(S)
  <2>1. events \in Seq(S)
    BY SeqMonotonic
  <2> HIDE DEF S
  <2>2. k \in Int /\ \A i \in 1..k : events[i] \in S
    BY <2>1, LenProperties
  <2> QED BY <2>2, SubSeqProperties
<1> DEFINE t == before \o SubSeq(events, 1, k)
<1> HIDE DEF S
<1>3. /\ t \in Seq(S) /\ Len(before) <= Len(t)
      /\ \A i \in 1..Len(before) : t[i] = before[i]
  <2>1. before \in Seq(S) /\ Len(before) \in Nat /\ Len(SubSeq(events, 1, k)) \in Nat
    BY <1>2, LenProperties DEF S
  <2> QED BY <1>2, <2>1, ConcatProperties
<1>4. Torn \in S
  BY DEF S
<1> HIDE DEF t
<1>5. /\ Append(t, Torn) \in Seq(S) /\ Len(Append(t, Torn)) = Len(t) + 1
      /\ \A i \in 1..Len(t) : Append(t, Torn)[i] = t[i]
  BY <1>3, <1>4, AppendProperties
<1>6. \A i \in 1..Len(before) : i \in 1..Len(t)
  BY <1>3, LenProperties
<1>7. CASE after = t
  BY <1>3, <1>7 DEF S
<1>8. CASE after = Append(t, Torn)
  <2>1. Len(before) \in Nat /\ Len(t) \in Nat
    BY <1>3, LenProperties
  <2> QED BY <1>3, <1>5, <1>6, <1>8, <2>1 DEF S
<1> QED BY <1>1, <1>7, <1>8 DEF t

\* Whatever a flush manages to write, what the file had stays where it was, and what
\* is flushed while nobody cleans up is in the file.
LEMMA FlushKeeps ==
  ASSUME Numbered, ReadWell, Kept, NEW events \in Seq(Nat), FlushBuffer(events), UNCHANGED <<old, query>>
  PROVE  /\ logFile' \in Seq(Nat \cup {Torn}) /\ flushed' \subseteq Nat /\ ReadWell' /\ Kept'
         /\ buffer' = events \/ buffer' = <<>>
<1>1. Len(logFile) \in Nat /\ Len(events) \in Nat /\ query.at \in Nat /\ events \in Seq(Nat \cup {Torn})
  BY LenProperties, SeqMonotonic DEF Numbered
<1>2. \A i \in 1..query.at : i \in 1..Len(logFile)
  BY <1>1 DEF ReadWell
<1>3. ASSUME Grows
      PROVE  /\ ReadWell'
             /\ \A e : Found(e, Len(logFile)) => Found(e, Len(logFile))'
             /\ \A e : Found(e, query.at) => Found(e, query.at)'
  <2>1. Len(logFile') \in Nat /\ Len(logFile) <= Len(logFile')
    BY <1>3, LenProperties DEF Grows
  <2>2. \A i \in 1..Len(logFile) : i \in 1..Len(logFile')
    BY <1>1, <2>1
  <2>3. query.at <= Len(logFile')
    BY <1>1, <2>1 DEF ReadWell
  <2>4. ReadWell'
    BY <1>2, <1>3, <2>3 DEF ReadWell, Grows
  <2> QED BY <1>2, <1>3, <2>2, <2>4 DEF Grows, Found
<1>4. CASE /\ logFile' \in Partly(logFile, events) /\ buffer' = events
           /\ UNCHANGED <<flushed, exposed>>
  <2>1. Grows
    BY <1>4, PartlyGrows DEF Numbered, Grows
  <2>2. Kept'
    BY <1>3, <1>4, <2>1 DEF Kept
  <2> QED BY <1>3, <1>4, <2>1, <2>2 DEF Grows, Numbered
<1>5. CASE /\ logFile' = logFile \o events /\ buffer' = <<>>
           /\ flushed' = flushed \cup ToSet(events)
           /\ exposed' = IF Cleaning THEN exposed \cup ToSet(events) ELSE exposed
  <2>1. /\ logFile' \in Seq(Nat \cup {Torn}) /\ Len(logFile') = Len(logFile) + Len(events)
        /\ \A i \in 1..(Len(logFile) + Len(events)) :
              logFile'[i] = IF i <= Len(logFile) THEN logFile[i] ELSE events[i - Len(logFile)]
    BY <1>1, <1>5, ConcatProperties DEF Numbered
  <2>2. \A i \in 1..Len(logFile) : i \in 1..(Len(logFile) + Len(events)) /\ i <= Len(logFile)
    BY <1>1
  <2>3. Grows
    BY <1>1, <2>1, <2>2 DEF Grows
  <2>4. \A e \in ToSet(events) : e \in Nat /\ Found(e, Len(logFile))'
    <3> SUFFICES ASSUME NEW e \in ToSet(events) PROVE e \in Nat /\ Found(e, Len(logFile))'
      OBVIOUS
    <3>1. PICK k \in 1..Len(events) : e = events[k]
      BY LenProperties DEF ToSet
    <3>2. e \in Nat
      BY <3>1, ElementOfSeq
    <3> DEFINE i == Len(logFile) + k
    <3>3. i \in 1..(Len(logFile) + Len(events)) /\ ~ (i <= Len(logFile)) /\ i - Len(logFile) = k
      BY <1>1
    <3> HIDE DEF i
    <3>4. logFile'[i] = e /\ i \in 1..Len(logFile')
      BY <2>1, <3>1, <3>3
    <3> QED BY <3>2, <3>4 DEF Found
  <2>5. Kept'
    <3> SUFFICES ASSUME NEW e \in flushed' \ exposed', e > old
                 PROVE  Found(e, IF query.doing = "locking" THEN query.at ELSE Len(logFile))'
      BY <1>5 DEF Kept
    <3>1. CASE e \in flushed \ exposed
      BY <1>3, <2>3, <3>1 DEF Kept
    <3>2. CASE e \in ToSet(events) /\ ~ Cleaning
      BY <1>5, <2>4, <3>2 DEF Cleaning
    <3> QED BY <1>5, <3>1, <3>2
  <2>6. flushed' \subseteq Nat
    BY <1>5, <2>4 DEF Numbered
  <2> QED BY <1>3, <1>5, <2>1, <2>3, <2>5, <2>6
<1> QED BY <1>4, <1>5 DEF FlushBuffer

LEMMA LogKeeps ==
  ASSUME AuditInv, NEW urgent \in BOOLEAN, Log(urgent)
  PROVE  AuditInv'
<1> DEFINE e == logged + 1
           events == Append(buffer, e)
<1> USE DEF AuditInv
<1>1. /\ e \in Nat /\ logged \in Nat /\ logged < e /\ ~ (e <= logged)
      /\ \A n \in Nat : n <= logged => n <= e
  BY DEF Numbered
<1> HIDE DEF e
<1>2. /\ events \in Seq(Nat) /\ Len(buffer) \in Nat /\ Len(events) = Len(buffer) + 1
      /\ \A i \in 1..Len(buffer) : events[i] = buffer[i] /\ buffer[i] \in Nat
      /\ events[Len(events)] = e
  BY <1>1, AppendProperties, LenProperties, ElementOfSeq DEF Numbered
<1>3. \A i \in 1..Len(events) : i \in 1..Len(buffer) \/ i = Len(events)
  BY <1>2
<1> HIDE DEF events
<1>4. /\ logged' = e /\ critical' = (IF urgent THEN critical \cup {e} ELSE critical) /\ UNCHANGED <<old, query>>
      /\ \/ /\ Flushes(events, urgent) /\ FlushBuffer(events)
            /\ accepted' = IF buffer' = <<>> THEN accepted \cup {e} ELSE accepted
         \/ /\ ~ Flushes(events, urgent) /\ buffer' = events /\ accepted' = accepted \cup {e}
            /\ UNCHANGED <<logFile, flushed, exposed>>
  BY DEF Log, events, e
<1>5. /\ logFile' \in Seq(Nat \cup {Torn}) /\ flushed' \subseteq Nat /\ ReadWell' /\ Kept'
      /\ buffer' = events \/ buffer' = <<>>
  <2>1. CASE FlushBuffer(events)
    BY <1>2, <1>4, <2>1, FlushKeeps
  <2>2. CASE UNCHANGED <<logFile, flushed, exposed>> /\ buffer' = events
    BY <1>4, <2>2 DEF Numbered, ReadWell, Kept, Found
  <2> QED BY <1>4, <2>1, <2>2
<1>6. Len(<<>>) = 0 /\ <<>> \in Seq(Nat) /\ 1..0 = {}
  OBVIOUS
<1>7. Numbered'
  <2>1. buffer' \in Seq(Nat) /\ \A i \in 1..Len(buffer') : buffer'[i] <= e
    <3>1. CASE buffer' = events
      <4>1. \A i \in 1..Len(buffer) : events[i] <= e
        BY <1>1, <1>2 DEF Numbered
      <4> QED BY <1>1, <1>2, <1>3, <3>1, <4>1
    <3>2. CASE buffer' = <<>>
      BY <1>6, <3>2
    <3> QED BY <1>5, <3>1, <3>2
  <2>2. critical' \subseteq critical \cup {e} /\ accepted' \subseteq accepted \cup {e}
    BY <1>4
  <2>3. \A n \in critical' \cup accepted' : n \in Nat /\ n <= e
    BY <1>1, <2>2 DEF Numbered
  <2> QED BY <1>1, <1>4, <1>5, <2>1, <2>3 DEF Numbered
<1>8. Waiting'
  <2>1. CASE buffer' = <<>>
    BY <1>6, <2>1 DEF Waiting
  <2>2. CASE buffer' = events /\ events # <<>>
    <3>1. \A i \in 1..Len(buffer) : buffer[i] # e
      BY <1>1, <1>2 DEF Numbered
    <3>2. \A i \in 1..Len(buffer) : events[i] \in accepted' => i < BufferSize /\ events[i] \notin critical'
      BY <1>2, <1>4, <3>1 DEF Waiting
    <3>3. e \in accepted' => Len(events) < BufferSize /\ e \notin critical'
      <4>1. e \notin accepted /\ e \notin critical
        BY <1>1 DEF Numbered
      <4>2. SUFFICES ASSUME e \in accepted' PROVE Len(events) < BufferSize /\ e \notin critical'
        OBVIOUS
      <4>3. ~ Flushes(events, urgent)
        BY <1>4, <2>2, <4>1, <4>2
      <4>4. ~ (Len(events) >= BufferSize) /\ ~ urgent
        BY <4>3 DEF Flushes
      <4>5. Len(events) \in Nat /\ BufferSize \in Nat
        BY <1>2, AuditAssumption, LenProperties DEF AuditAssumption
      <4> QED BY <1>4, <4>1, <4>4, <4>5
    <3> QED BY <1>2, <1>3, <2>2, <3>2, <3>3 DEF Waiting
  <2>3. events # <<>>
    BY <1>2, <1>6
  <2> QED BY <1>5, <2>1, <2>2, <2>3
<1> QED BY <1>5, <1>7, <1>8

\* The cleanup writes anew what it found, or exposes it.
LEMMA RewriteKeeps ==
  ASSUME AuditInv, Rewrite
  PROVE  AuditInv'
<1> USE DEF AuditInv
<1> DEFINE found == SubSeq(logFile, 1, query.at)
           events == Recent(found, query.cutoff)
<1>1. /\ query.doing = "locking" /\ query' = NoQuery
      /\ UNCHANGED <<logged, critical, old, buffer, accepted, flushed>>
      /\ \/ logFile' = events /\ UNCHANGED exposed
         \/ logFile' \in Partly(<<>>, events) /\ exposed' = exposed \cup ToSet(events)
  BY DEF Rewrite
<1>2. query.at \in Nat /\ query.cutoff \in Nat /\ Len(logFile) \in Nat /\ query.at <= Len(logFile) /\ query.cutoff <= old
      /\ old \in Nat
  BY LenProperties DEF Numbered, ReadWell
<1>3. \A i \in 1..query.at : logFile[i] \in Nat
  <2>1. \A i \in 1..query.at : i \in 1..Len(logFile) /\ logFile[i] # Torn
    BY <1>1, <1>2 DEF ReadWell
  <2> QED BY <2>1, ElementOfSeq DEF Numbered
<1>4. found \in Seq(Nat) /\ Len(found) = query.at /\ \A i \in 1..query.at : found[i] = logFile[i]
  <2>1. query.at \in Int /\ 1 \in Int /\ query.at - 1 + 1 = query.at /\ (1 <= query.at \/ query.at = 0)
    BY <1>2
  <2>2. /\ found \in Seq(Nat) /\ Len(found) = IF 1 <= query.at THEN query.at - 1 + 1 ELSE 0
        /\ \A i \in 1..(query.at - 1 + 1) : found[i] = logFile[1 + i - 1]
    BY <1>3, <2>1, SubSeqProperties
  <2>3. \A i \in 1..query.at : 1 + i - 1 = i
    BY <1>2
  <2> QED BY <2>1, <2>2, <2>3
<1> HIDE DEF found
<1>5. /\ events \in Seq(Nat)
      /\ \A i \in 1..query.at :
           logFile[i] > query.cutoff => \E k \in 1..Len(events) : events[k] = logFile[i]
  <2>1. /\ events \in Seq(Nat)
        /\ \A i \in 1..Len(found) :
             found[i] > query.cutoff => \E k \in 1..Len(events) : events[k] = found[i]
    BY <1>2, <1>4, RecentKeeps
  <2> HIDE DEF events
  <2> QED BY <1>4, <2>1
<1> HIDE DEF events
<1>6. logFile' \in Seq(Nat \cup {Torn}) /\ Len(logFile') \in Nat
  <2>1. <<>> \in Seq(Nat \cup {Torn}) /\ events \in Seq(Nat \cup {Torn})
    BY <1>5, SeqMonotonic
  <2>2. logFile' \in Seq(Nat \cup {Torn})
    BY <1>1, <1>5, <2>1, PartlyGrows
  <2> QED BY <2>2, LenProperties
<1>7. Kept'
  <2> SUFFICES ASSUME NEW e \in flushed \ exposed', e > old PROVE \E k \in 1..Len(logFile') : logFile'[k] = e
    BY <1>1 DEF Kept, Found, NoQuery
  <2>1. e \in flushed \ exposed
    BY <1>1
  <2>2. PICK i \in 1..query.at : logFile[i] = e
    BY <1>1, <2>1 DEF Kept, Found
  <2>3. e \in Nat /\ e > query.cutoff
    BY <1>2, <1>3, <2>2
  <2>4. PICK k \in 1..Len(events) : events[k] = e
    BY <1>5, <2>2, <2>3
  <2>5. e \in ToSet(events)
    BY <1>5, <2>4, LenProperties DEF ToSet
  <2> QED BY <1>1, <2>4, <2>5
<1>8. ReadWell'
  BY <1>1, <1>2, <1>6 DEF ReadWell, NoQuery
<1>9. Numbered' /\ Waiting'
  BY <1>1, <1>6 DEF Numbered, Waiting, NoQuery
<1> QED BY <1>7, <1>8, <1>9

LEMMA AuditStep == AuditInv /\ [AuditNext]_auditVars => AuditInv'
<1> SUFFICES ASSUME AuditInv, [AuditNext]_auditVars PROVE AuditInv'
  OBVIOUS
<1>a. Numbered /\ Waiting /\ ReadWell /\ Kept
  BY DEF AuditInv
<1>b. query.at \in Nat /\ query.cutoff \in Nat /\ Len(logFile) \in Nat
  BY <1>a, LenProperties DEF Numbered
<1>1. CASE Flush
  <2>1. /\ FlushBuffer(buffer) /\ buffer \in Seq(Nat) /\ UNCHANGED <<logged, critical, old, accepted, query>>
    BY <1>1, <1>a DEF Flush, Numbered
  <2>2. /\ logFile' \in Seq(Nat \cup {Torn}) /\ flushed' \subseteq Nat /\ ReadWell' /\ Kept'
        /\ buffer' = buffer \/ buffer' = <<>>
    BY <1>a, <2>1, FlushKeeps
  <2>3. Len(<<>>) = 0 /\ <<>> \in Seq(Nat) /\ 1..0 = {}
    OBVIOUS
  <2>4. Numbered' /\ Waiting'
    BY <1>a, <2>1, <2>2, <2>3 DEF Numbered, Waiting
  <2> QED BY <2>2, <2>4 DEF AuditInv
<1>2. CASE TimePasses
  <2>1. old' \in Nat /\ old <= old' /\ query.cutoff <= old' /\ \A e \in Nat : e > old' => e > old
    BY <1>2, <1>a, <1>b DEF TimePasses, Numbered, ReadWell
  <2>2. UNCHANGED <<logged, critical, logFile, buffer, accepted, flushed, exposed, query>>
    BY <1>2 DEF TimePasses
  <2>3. Kept'
    BY <1>a, <2>1, <2>2 DEF Kept, Found, Numbered
  <2> QED BY <1>a, <2>1, <2>2, <2>3 DEF AuditInv, Numbered, Waiting, ReadWell
<1>3. ASSUME NEW what \in {"reading", "cleaning"}, Begin(what) PROVE AuditInv'
  <2>1. /\ query' = [doing |-> what, at |-> 0, cutoff |-> IF what = "cleaning" THEN old ELSE 0]
        /\ query.doing = "nothing"
        /\ UNCHANGED <<logged, critical, old, logFile, buffer, accepted, flushed, exposed>>
    BY <1>3 DEF Begin
  <2>2. query'.doing = what /\ query'.at = 0 /\ query'.cutoff \in {0, old} /\ 0 <= Len(logFile) /\ 0 <= old /\ 1..0 = {}
        /\ old <= old /\ old \in Nat
    BY <1>a, <1>b, <2>1 DEF Numbered
  <2>3. Numbered' /\ Waiting'
    BY <1>a, <2>1, <2>2 DEF Numbered, Waiting
  <2>4. ReadWell' /\ Kept'
    BY <1>a, <2>1, <2>2 DEF ReadWell, Kept, Found
  <2> QED BY <2>3, <2>4 DEF AuditInv
<1>4. CASE ReadNext
  <2>1. CASE UNCHANGED query
    BY <1>4, <1>a, <2>1 DEF ReadNext, AuditInv, Numbered, Waiting, ReadWell, Kept, Found
  <2>2. CASE logFile[query.at + 1] # Torn /\ query' = [query EXCEPT !.at = @ + 1]
    <3>1. /\ query'.at = query.at + 1 /\ query'.doing = query.doing /\ query'.cutoff = query.cutoff
          /\ query' \in [doing : {"nothing", "reading", "cleaning", "locking"}, at : Nat, cutoff : Nat]
      BY <1>a, <2>2 DEF Numbered
    <3>2. query'.at <= Len(logFile) /\ \A i \in 1..(query.at + 1) : i \in 1..query.at \/ i = query.at + 1
      BY <1>4, <1>b, <3>1 DEF ReadNext
    <3>3. query.doing \in {"reading", "cleaning"}
          /\ UNCHANGED <<logged, critical, old, logFile, buffer, accepted, flushed, exposed>>
      BY <1>4 DEF ReadNext
    <3>4. ReadWell'
      BY <1>a, <2>2, <3>1, <3>2, <3>3 DEF ReadWell
    <3> QED BY <1>a, <3>1, <3>3, <3>4 DEF AuditInv, Numbered, Waiting, Kept, Found
  <2> QED BY <1>4, <2>1, <2>2 DEF ReadNext
<1>5. CASE QueryReturns
  <2>1. /\ query.doing \in {"reading", "cleaning"} /\ query.at = Len(logFile)
        /\ query' = IF query.doing = "reading" THEN NoQuery ELSE [query EXCEPT !.doing = "locking"]
        /\ UNCHANGED <<logged, critical, old, logFile, buffer, accepted, flushed, exposed>>
    BY <1>5 DEF QueryReturns, AtEnd
  <2>2. CASE query' = NoQuery
    <3>1. query'.doing = "nothing" /\ query'.at = 0 /\ query'.cutoff = 0 /\ 0 <= Len(logFile) /\ 0 <= old
      BY <1>a, <1>b, <2>2 DEF NoQuery, Numbered
    <3>2. NoQuery \in [doing : {"nothing", "reading", "cleaning", "locking"}, at : Nat, cutoff : Nat]
      BY DEF NoQuery
    <3> QED BY <1>a, <2>1, <2>2, <3>1, <3>2 DEF AuditInv, Numbered, Waiting, ReadWell, Kept, Found
  <2>3. CASE query' = [query EXCEPT !.doing = "locking"]
    <3>1. /\ query'.doing = "locking" /\ query'.at = query.at /\ query'.cutoff = query.cutoff
          /\ query' \in [doing : {"nothing", "reading", "cleaning", "locking"}, at : Nat, cutoff : Nat]
      BY <1>a, <2>3 DEF Numbered
    <3> QED BY <1>a, <2>1, <3>1 DEF AuditInv, Numbered, Waiting, ReadWell, Kept, Found
  <2> QED BY <2>1, <2>2, <2>3
<1>6. CASE ServerEnds
  <2>1. /\ logFile' \in Partly(logFile, buffer) /\ buffer' = <<>> /\ query' = NoQuery
        /\ UNCHANGED <<logged, critical, old, accepted, flushed, exposed>>
    BY <1>6 DEF ServerEnds
  <2>2. Grows
    BY <1>a, <2>1, PartlyGrows DEF Numbered, Grows
  <2>3. Len(logFile') \in Nat /\ Len(logFile) <= Len(logFile') /\ 0 <= Len(logFile') /\ 0 <= old
        /\ Len(<<>>) = 0 /\ <<>> \in Seq(Nat) /\ 1..0 = {}
    BY <1>a, <2>2, LenProperties DEF Grows, Numbered
  <2>4. query'.doing = "nothing" /\ query'.at = 0 /\ query'.cutoff = 0
        /\ NoQuery \in [doing : {"nothing", "reading", "cleaning", "locking"}, at : Nat, cutoff : Nat]
    BY <2>1 DEF NoQuery
  <2>5. \A e : Found(e, Len(logFile)) \/ Found(e, query.at) => Found(e, Len(logFile))'
    <3>1. \A i \in 1..query.at : i \in 1..Len(logFile)
      BY <1>a, <1>b DEF ReadWell
    <3>2. \A i \in 1..Len(logFile) : i \in 1..Len(logFile')
      BY <1>b, <2>3
    <3> QED BY <2>2, <3>1, <3>2 DEF Found, Grows
  <2>6. Kept'
    BY <1>a, <2>1, <2>4, <2>5 DEF Kept
  <2>7. ReadWell'
    BY <2>1, <2>3, <2>4 DEF ReadWell
  <2>8. Numbered' /\ Waiting'
    BY <1>a, <2>1, <2>2, <2>3, <2>4 DEF Numbered, Waiting, Grows
  <2> QED BY <2>6, <2>7, <2>8 DEF AuditInv
<1>7. CASE UNCHANGED auditVars
  BY <1>7, <1>a DEF auditVars, AuditInv, Numbered, Waiting, ReadWell, Kept, Found
<1> QED BY <1>1, <1>2, <1>3, <1>4, <1>5, <1>6, <1>7, LogKeeps, RewriteKeeps DEF AuditNext

\* Fewer than a buffer's worth of events are at its front.
LEMMA FrontIsSmall ==
  ASSUME Numbered, Waiting
  PROVE  LossIsBounded
<1> DEFINE Unsaved == (ToSet(buffer) \cap accepted) \ flushed
<1>1. Len(buffer) \in Nat /\ BufferSize \in Nat \ {0}
  BY AuditAssumption, LenProperties DEF Numbered, AuditAssumption
<1>2. Unsaved \cap critical = {}
  BY <1>1, LenProperties DEF Waiting, Numbered, ToSet
<1> DEFINE n == IF Len(buffer) < BufferSize THEN Len(buffer) ELSE BufferSize - 1
           T == {buffer[i] : i \in 1..n}
           f == [i \in 1..n |-> buffer[i]]
<1>3. n \in Nat /\ n < BufferSize /\ \A i \in 1..Len(buffer) : i < BufferSize => i \in 1..n
  BY <1>1
<1>4. Unsaved \subseteq T
  <2> SUFFICES ASSUME NEW e \in Unsaved PROVE e \in T
    OBVIOUS
  <2>1. PICK i \in 1..Len(buffer) : e = buffer[i]
    BY LenProperties DEF ToSet, Numbered
  <2> QED BY <1>3, <2>1 DEF Waiting
<1> HIDE DEF n
<1>5. IsFiniteSet(1..n) /\ Cardinality(1..n) = n
  <2>1. 1 \in Int /\ n \in Int /\ (IF 1 > n THEN 0 ELSE n - 1 + 1) = n
    BY <1>3
  <2> QED BY <2>1, FS_Interval
<1>6. f \in Surjection(1..n, T)
  BY DEF Surjection
<1> HIDE DEF f, T
<1>7. IsFiniteSet(T) /\ Cardinality(T) <= n
  BY <1>5, <1>6, FS_Surjection
<1> HIDE DEF Unsaved
<1>8. IsFiniteSet(Unsaved) /\ Cardinality(Unsaved) <= Cardinality(T)
  BY <1>4, <1>7, FS_Subset
<1>9. Cardinality(Unsaved) < BufferSize
  <2>1. Cardinality(Unsaved) \in Nat /\ Cardinality(T) \in Nat
    BY <1>7, <1>8, FS_CardinalityType
  <2> QED BY <1>1, <1>3, <1>7, <1>8, <2>1
<1> QED BY <1>2, <1>9 DEF LossIsBounded, Unsaved

\* For any size of the buffer, wherever flushes, cleanups and the process stop: what
\* memory alone holds is bounded, and what was flushed stays until it is old.
THEOREM AuditKeepsEvents == AuditSpec => []EventsAreKept
<1>1. AuditInv => KeptOutsideCleanup
  <2> SUFFICES ASSUME AuditInv, NEW e \in flushed \ exposed, e > old PROVE e \in ToSet(logFile)
    BY DEF KeptOutsideCleanup
  <2>1. \A i \in 1..query.at : i \in 1..Len(logFile)
    BY LenProperties DEF AuditInv, Numbered, ReadWell
  <2>2. PICK i \in 1..Len(logFile) : logFile[i] = e
    BY <2>1 DEF AuditInv, Kept, Found
  <2> QED BY <2>2, LenProperties DEF AuditInv, Numbered, ToSet
<1>2. AuditInv => EventsAreKept
  BY <1>1, FrontIsSmall DEF AuditInv, EventsAreKept
<1> QED BY <1>2, AuditStarts, AuditStep, PTL DEF AuditSpec
=============================================================================
