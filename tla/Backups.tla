--------------------------------- MODULE Backups ---------------------------------
(***************************************************************************)
(* Backups of the state directory and their retention (internal/backup/    *)
(* manager.go).  An archive is named for the second in which its creation  *)
(* began and gets its metadata beside it; then the oldest archives beyond  *)
(* the maximum are deleted, by the name their timestamp gives.  Without    *)
(* metadata that is the time of the last write.  Each command is a process *)
(* of its own, without a lock.  No two begin in one second: they would     *)
(* write into one archive.                                                 *)
(***************************************************************************)
EXTENDS Naturals, FiniteSets

CONSTANTS
  Commands,     \* processes that create a backup, at most one at a time each
  MaxBackups,   \* archives to keep, 0 for all
  MaxSecond     \* bound on the clock

ASSUME BackupAssumption == MaxBackups \in Nat /\ MaxSecond \in Nat \ {0}

VARIABLES
  second,
  archive,     \* of a second: "none", "partial" or "whole"
  stamp,       \* its time stamp: of its metadata, or of its last write
  described,   \* its metadata: "none", "torn" or "whole"; what is left of it
               \* without the archive is never looked at
  doing,       \* what a command does next
  began,       \* the second it began, which names its archive
  last,        \* the last second in which one began
  doomed,      \* the names it is about to delete
  made,        \* history: the backups that were made and that nobody deleted by name
  everMade,    \* history: all that were made
  cutShort,    \* history: archives whose last flush failed
  misled       \* history: a command listed an archive without metadata

files == <<archive, stamp, described>>
makes == <<made, everMade, cutShort>>
backupVars == <<second, files, doing, began, last, doomed, makes, misled>>

Moments == 1..MaxSecond
Does(c, s) ==
  /\ doing' = [doing EXCEPT ![c] = s]
  /\ began' = [began EXCEPT ![c] = IF s \in {"prune", "idle"} THEN 0 ELSE @]

Gone(s) ==
  /\ archive' = [archive EXCEPT ![s] = "none"] /\ stamp' = [stamp EXCEPT ![s] = 0]
  /\ described' = [described EXCEPT ![s] = "none"]

BackupInit ==
  /\ second = 1 /\ last = 0
  /\ archive = [s \in Moments |-> "none"] /\ stamp = [s \in Moments |-> 0]
  /\ described = [s \in Moments |-> "none"]
  /\ doing = [c \in Commands |-> "idle"] /\ began = [c \in Commands |-> 0]
  /\ doomed = [c \in Commands |-> {}]
  /\ made = {} /\ everMade = {} /\ cutShort = {} /\ misled = FALSE

SecondPasses ==
  /\ second < MaxSecond /\ second' = second + 1
  /\ UNCHANGED <<last, files, doing, began, doomed, makes, misled>>

-----------------------------------------------------------------------------
(* CreateBackup *)

CreateBackup(c) ==
  /\ doing[c] = "idle" /\ last < second /\ last' = second
  /\ doing' = [doing EXCEPT ![c] = "archive"] /\ began' = [began EXCEPT ![c] = second]
  /\ archive' = [archive EXCEPT ![second] = "partial"]
  /\ stamp' = [stamp EXCEPT ![second] = second]
  /\ UNCHANGED <<second, described, doomed, makes, misled>>

WalkFails(c) ==
  /\ doing[c] = "archive" /\ Gone(began[c]) /\ Does(c, "idle")
  /\ UNCHANGED <<second, last, doomed, makes, misled>>

\* The file may have been removed by another command, and then it stays so.
\* Nobody looks at the errors of the last flush, with which an archive ends.
FinishArchive(c) ==
  /\ doing[c] = "archive" /\ Does(c, "describe")
  /\ IF archive[began[c]] = "none" THEN UNCHANGED <<archive, stamp, cutShort>>
     ELSE /\ stamp' = [stamp EXCEPT ![began[c]] = second]
          /\ \/ archive' = [archive EXCEPT ![began[c]] = "whole"] /\ UNCHANGED cutShort
             \/ UNCHANGED archive /\ cutShort' = cutShort \cup {began[c]}
  /\ UNCHANGED <<second, last, described, doomed, made, everMade, misled>>

\* It does not matter to the command whether the metadata could be written.
Describe(c) ==
  /\ doing[c] = "describe" /\ Does(c, "prune")
  /\ IF archive[began[c]] = "none" THEN UNCHANGED <<described, stamp, made, everMade>>
     ELSE /\ \E result \in {"whole", "torn", "none"} :
               /\ described' = [described EXCEPT ![began[c]] = result]
               /\ stamp' = [stamp EXCEPT ![began[c]] = IF result = "whole" THEN began[c] ELSE @]
          /\ made' = made \cup {began[c]} /\ everMade' = everMade \cup {began[c]}
  /\ UNCHANGED <<last, second, archive, doomed, cutShort, misled>>

-----------------------------------------------------------------------------
(* cleanupOldBackups and DeleteBackup *)

\* An archive with torn metadata is not listed at all.
Listed == {s \in Moments : archive[s] # "none" /\ described[s] # "torn"}

\* Mutant: one archive fewer is kept.
BeyondButOne == IF Cardinality(Listed) > MaxBackups THEN Cardinality(Listed) - MaxBackups + 1 ELSE 0

Beyond == IF Cardinality(Listed) > MaxBackups THEN Cardinality(Listed) - MaxBackups ELSE 0

\* The oldest of the list; two time stamps of one second come in any order.
Oldest(S) ==
  /\ S \subseteq Listed /\ Cardinality(S) = Beyond
  /\ \A s \in S, t \in Listed \ S : stamp[s] <= stamp[t]

Prune(c) ==
  /\ doing[c] = "prune"
  /\ IF MaxBackups = 0 THEN Does(c, "idle") /\ UNCHANGED <<doomed, misled>>
     ELSE /\ \E S \in SUBSET Moments :
               Oldest(S) /\ doomed' = [doomed EXCEPT ![c] = {stamp[s] : s \in S}]
          /\ misled' = (misled \/ \E s \in Listed : described[s] # "whole")
          /\ Does(c, "delete")
  /\ UNCHANGED <<last, second, files, makes>>

DeleteDoomed(c) ==
  /\ doing[c] = "delete"
  /\ IF doomed[c] = {} THEN Does(c, "idle") /\ UNCHANGED <<files, doomed>>
     ELSE \E s \in doomed[c] :
            /\ Gone(s) /\ doomed' = [doomed EXCEPT ![c] = @ \ {s}] /\ UNCHANGED <<doing, began>>
  /\ UNCHANGED <<last, second, makes, misled>>

\* The command of that name.
DeleteBackup(s) ==
  /\ archive[s] # "none" /\ Gone(s) /\ made' = made \ {s}
  /\ UNCHANGED <<last, second, doing, began, doomed, everMade, cutShort, misled>>

Crash(c) ==
  /\ doing[c] # "idle" /\ Does(c, "idle") /\ doomed' = [doomed EXCEPT ![c] = {}]
  /\ UNCHANGED <<last, second, files, makes, misled>>

BackupNext ==
  \/ SecondPasses
  \/ \E s \in Moments : DeleteBackup(s)
  \/ \E c \in Commands :
       CreateBackup(c) \/ WalkFails(c) \/ FinishArchive(c) \/ Describe(c) \/ Prune(c)
         \/ DeleteDoomed(c) \/ Crash(c)

BackupSpec == BackupInit /\ [][BackupNext]_backupVars

-----------------------------------------------------------------------------
(* Properties *)

BackupTypeOK ==
  /\ second \in Moments /\ last \in 0..second /\ stamp \in [Moments -> 0..MaxSecond]
  /\ archive \in [Moments -> {"none", "partial", "whole"}]
  /\ described \in [Moments -> {"none", "torn", "whole"}]
  /\ doing \in [Commands -> {"idle", "archive", "describe", "prune", "delete"}]
  /\ began \in [Commands -> 0..MaxSecond] /\ doomed \in [Commands -> SUBSET (0..MaxSecond)]
  /\ made \subseteq everMade /\ everMade \subseteq Moments
  /\ cutShort \subseteq Moments /\ misled \in BOOLEAN

\* A backup that was reported as made is there, and whole unless its own last
\* flush failed, until that many newer ones were reported as are kept, whatever
\* commands overlap, fail or end: as long as no command had to list an archive
\* without metadata, for which the name it computes may be another's.  (The newer
\* ones may be those cut short.)
NewestKept ==
  misled \/
    \A s \in made :
      \/ archive[s] = "whole" \/ (archive[s] = "partial" /\ s \in cutShort)
      \/ (MaxBackups # 0 /\ Cardinality({t \in everMade : t > s}) >= MaxBackups)
=============================================================================
