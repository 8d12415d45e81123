------------------------------ MODULE StateBackend ------------------------------
(***************************************************************************)
(* One resource of the SQL state backend (internal/state/local.go, and     *)
(* org_backend.go for the row of one organisation and environment): a row  *)
(* with the current version and one record per version.  Save and Delete   *)
(* are several statements, each a transaction of its own, and a process    *)
(* may end between two of them.  Nothing keeps the statements of several   *)
(* writers apart: no caller takes the backend's Lock, which other          *)
(* processes would not see.                                                *)
(***************************************************************************)
EXTENDS Naturals

CONSTANTS
  Writers,
  MaxIds, MaxVersion  \* bounds on the rows ever created and on their versions

ASSUME BackendBounds == MaxIds \in Nat /\ MaxVersion \in Nat \ {0}

VARIABLES
  row,       \* id of the row, 0 if there is none
  version,   \* its version
  records,   \* how many version records there are of a row and a version
  nextId,
  step,      \* what a writer does next
  readId, readVersion,  \* the row it read
  cut        \* history: versions whose record a call that ended did not write

stored == <<row, version, records, nextId>>
reading == <<readId, readVersion>>
backendVars == <<stored, step, reading, cut>>

Numbers == (1..MaxIds) \X (1..MaxVersion)

BackendInit ==
  /\ row = 0 /\ version = 0 /\ nextId = 1
  /\ records = [r \in Numbers |-> 0]
  /\ step = [w \in Writers |-> "idle"]
  /\ readId = [w \in Writers |-> 0] /\ readVersion = [w \in Writers |-> 0]
  /\ cut = {}

Steps == {"idle", "create", "update", "record", "versions", "row"}

Goes(w, s, id, v) ==
  /\ step' = [step EXCEPT ![w] = s]
  /\ readId' = [readId EXCEPT ![w] = id] /\ readVersion' = [readVersion EXCEPT ![w] = v]
Returns(w) == Goes(w, "idle", 0, 0)

-----------------------------------------------------------------------------
(* Save *)

Find(w) ==
  /\ step[w] = "idle"
  /\ Goes(w, IF row = 0 THEN "create" ELSE "update", row, version)
  /\ UNCHANGED <<stored, cut>>

\* The name is unique: who comes second gets an error.
Create(w) ==
  /\ step[w] = "create"
  /\ \/ row /= 0 /\ Returns(w) /\ UNCHANGED stored
     \/ /\ row = 0 /\ nextId <= MaxIds /\ Goes(w, "record", nextId, 1)
        /\ row' = nextId /\ version' = 1 /\ nextId' = nextId + 1 /\ UNCHANGED records
  /\ UNCHANGED cut

\* The whole row that was read is written back, over what others wrote since;
\* gorm inserts it again if it is not there any more, which fails if another row
\* has the name.
Update(w) ==
  /\ step[w] = "update"
  /\ \/ row \notin {0, readId[w]} /\ Returns(w) /\ UNCHANGED stored
     \/ /\ row \in {0, readId[w]} /\ readVersion[w] < MaxVersion
        /\ row' = readId[w] /\ version' = readVersion[w] + 1 /\ UNCHANGED <<records, nextId>>
        /\ Goes(w, "record", readId[w], readVersion[w] + 1)
  /\ UNCHANGED cut

Record(w) ==
  /\ step[w] = "record" /\ Returns(w)
  /\ records' = [records EXCEPT ![<<readId[w], readVersion[w]>>] = @ + 1]
  /\ cut' = cut \ {<<readId[w], readVersion[w]>>}
  /\ UNCHANGED <<row, version, nextId>>

-----------------------------------------------------------------------------
(* Delete *)

FindDeleted(w) ==
  /\ step[w] = "idle" /\ row /= 0
  /\ Goes(w, "versions", row, version)
  /\ UNCHANGED <<stored, cut>>

\* Mutant: the versions are looked for by the name.
DeletesByName(w, r) == r[1] \in {readId[w], row}

Deletes(w, r) == r[1] = readId[w]

DeleteVersions(w) ==
  /\ step[w] = "versions" /\ Goes(w, "row", readId[w], readVersion[w])
  /\ records' = [r \in Numbers |-> IF Deletes(w, r) THEN 0 ELSE records[r]]
  /\ UNCHANGED <<row, version, nextId, cut>>

DeleteRow(w) ==
  /\ step[w] = "row" /\ Returns(w)
  /\ IF row = readId[w] THEN row' = 0 /\ version' = 0 ELSE UNCHANGED <<row, version>>
  /\ UNCHANGED <<records, nextId, cut>>

\* A statement fails, or the process ends: the rest of the call is not done.
Unwritten(w) ==
  {r \in Numbers : /\ r[1] = readId[w]
                   /\ step[w] = "row" \/ (step[w] = "record" /\ r[2] = readVersion[w])}
Abort(w) ==
  /\ step[w] /= "idle" /\ Returns(w) /\ cut' = cut \cup Unwritten(w)
  /\ UNCHANGED stored

SaveStep(w) == Find(w) \/ Create(w) \/ Update(w) \/ Record(w)
DeleteStep(w) == FindDeleted(w) \/ DeleteVersions(w) \/ DeleteRow(w)

BackendNext == \E w \in Writers : SaveStep(w) \/ DeleteStep(w) \/ Abort(w)

BackendSpec == BackendInit /\ [][BackendNext]_backendVars

-----------------------------------------------------------------------------
(* Properties *)

BackendTypeOK ==
  /\ row \in 0..MaxIds /\ version \in 0..MaxVersion /\ nextId \in 1..(MaxIds + 1)
  /\ records \in [Numbers -> Nat] /\ step \in [Writers -> Steps]
  /\ readId \in [Writers -> 0..MaxIds] /\ readVersion \in [Writers -> 0..MaxVersion]
  /\ cut \subseteq Numbers

\* However Saves and Deletes overlap, the current version has its record, which
\* a rollback to it and the history need: unless the call that wrote the version
\* or one that deletes this very row is between its statements, or failed there.
\* A Delete that found an earlier row of the name takes nothing from a later one.
\* (The versions before the current one may be missing or there twice.)
CurrentRecorded ==
  row /= 0 =>
    \/ records[<<row, version>>] > 0 \/ <<row, version>> \in cut
    \/ \E w \in Writers : readId[w] = row
         /\ (step[w] = "row" \/ (step[w] = "record" /\ readVersion[w] = version))
=============================================================================
