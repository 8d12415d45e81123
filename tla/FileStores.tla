------------------------------- MODULE FileStores -------------------------------
(***************************************************************************)
(* The stores that are one file: the local secrets (internal/secrets/      *)
(* local.go, encrypted, and file.go), the users and the API keys           *)
(* (internal/auth).  A process loads the file once, changes its copy and   *)
(* writes the whole copy after each change, without a lock between         *)
(* processes.  A write truncates the file first, so a process that ends or *)
(* fails in the middle leaves it torn, and so may two writes at once.      *)
(***************************************************************************)
EXTENDS Naturals, FiniteSets

CONSTANTS
  Processes,
  Entries,    \* secrets, users or keys
  MaxSaves,   \* bound on the writes
  MaxKeys     \* bound on the keys that are made

ASSUME FileStoreAssumption == MaxSaves \in Nat /\ MaxKeys \in Nat

\* The keys that are made come after no key and the one of an empty key file.
NoKey == 0
EmptyKey == 1
Keys == NoKey..(EmptyKey + MaxKeys)

VARIABLES
  encrypted,   \* the store has a key file
  keyFile,     \* the key in it, if it is there
  lastKey,     \* the last key that was made
  file,        \* "none", "torn" or "whole"
  contents,    \* the version of each entry, 0 if there is none
  sealedWith,  \* the key of the contents
  stage,       \* what a process does next
  key, copy,   \* its key and its copy
  overlaid,    \* another one wrote since it truncated the file
  saves,
  newest,      \* history: what the last acknowledged change made of an entry
  unsaved,     \* history: entries changed in a copy and not yet written
  behind,      \* history: entries whose newest version a copy has not
  lost,        \* history: entries over which such a copy was written
  rekeyed,     \* history: a key file was written over, or read before it was written
  damaged      \* history: a write was cut or mixed with another

disk == <<file, contents, sealedWith>>
keys == <<keyFile, lastKey, key, rekeyed>>
changes == <<newest, unsaved, behind, lost>>
fileVars == <<encrypted, keys, disk, stage, copy, overlaid, saves, changes, damaged>>

Blank == [e \in Entries |-> 0]
Stages == {"off", "key", "generated", "key write", "load", "open", "write"}
Reach(p, s) == stage' = [stage EXCEPT ![p] = s]

FilesInit ==
  /\ encrypted \in BOOLEAN /\ keyFile = NoKey /\ lastKey = EmptyKey
  /\ file = "none" /\ contents = Blank /\ sealedWith = NoKey
  /\ stage = [p \in Processes |-> "off"]
  /\ key = [p \in Processes |-> NoKey] /\ copy = [p \in Processes |-> Blank]
  /\ overlaid = [p \in Processes |-> FALSE] /\ saves = 0
  /\ newest = Blank /\ lost = {}
  /\ unsaved = [p \in Processes |-> {}] /\ behind = [p \in Processes |-> {}]
  /\ rekeyed = FALSE /\ damaged = FALSE

Forget(p) ==
  /\ Reach(p, "off")
  /\ key' = [key EXCEPT ![p] = NoKey] /\ copy' = [copy EXCEPT ![p] = Blank]
  /\ overlaid' = [overlaid EXCEPT ![p] = FALSE]
  /\ unsaved' = [unsaved EXCEPT ![p] = {}] /\ behind' = [behind EXCEPT ![p] = {}]

Open(p) ==
  /\ stage[p] = "off" /\ Reach(p, IF encrypted THEN "key" ELSE "load")
  /\ UNCHANGED <<encrypted, keys, disk, copy, overlaid, saves, changes, damaged>>

-----------------------------------------------------------------------------
(* The key *)

ReadKey(p) ==
  /\ stage[p] = "key" /\ keyFile # NoKey /\ Reach(p, "load")
  /\ key' = [key EXCEPT ![p] = keyFile]
  /\ rekeyed' = (rekeyed \/ (keyFile = EmptyKey /\ \E q \in Processes : stage[q] = "key write"))
  /\ UNCHANGED <<encrypted, keyFile, lastKey, disk, copy, overlaid, saves, changes, damaged>>

\* There is no key file, or it could not be read, whatever the error.
MakeKey(p) ==
  /\ stage[p] = "key" /\ lastKey < EmptyKey + MaxKeys /\ Reach(p, "generated")
  /\ lastKey' = lastKey + 1 /\ key' = [key EXCEPT ![p] = lastKey']
  /\ UNCHANGED <<encrypted, keyFile, rekeyed, disk, copy, overlaid, saves, changes, damaged>>

\* The key file is made, or emptied.
CreateKeyFile(p) ==
  /\ stage[p] = "generated" /\ Reach(p, "key write") /\ keyFile' = EmptyKey
  /\ rekeyed' = (rekeyed \/ keyFile # NoKey)
  /\ UNCHANGED <<encrypted, lastKey, key, disk, copy, overlaid, saves, changes, damaged>>

WriteKey(p) ==
  /\ stage[p] = "key write" /\ Reach(p, "load") /\ keyFile' = key[p]
  /\ UNCHANGED <<encrypted, lastKey, key, rekeyed, disk, copy, overlaid, saves, changes, damaged>>

-----------------------------------------------------------------------------
(* The file *)

Legible(p) == file = "whole" /\ (encrypted => sealedWith = key[p])

\* Mutant: an error of the load is taken for an empty store.
LoadsAnything(p) == TRUE

Loads(p) == file = "none" \/ Legible(p)

Load(p) ==
  /\ stage[p] = "load"
  /\ IF Loads(p)
     THEN /\ Reach(p, "open")
          /\ copy' = [copy EXCEPT ![p] = IF Legible(p) THEN contents ELSE Blank]
          /\ behind' = [behind EXCEPT ![p] = lost]
          /\ UNCHANGED <<key, overlaid, unsaved>>
     ELSE Forget(p)
  /\ UNCHANGED <<encrypted, keyFile, lastKey, rekeyed, disk, saves, newest, lost, damaged>>

\* A change of one entry in the copy, or none: a key that was validated.
Truncate(p, changed, now) ==
  /\ stage[p] = "open" /\ saves < MaxSaves /\ saves' = saves + 1
  /\ Reach(p, "write") /\ file' = "torn"
  /\ copy' = [copy EXCEPT ![p] = now]
  /\ unsaved' = [unsaved EXCEPT ![p] = @ \cup changed]
  /\ overlaid' = [overlaid EXCEPT ![p] = FALSE]
  /\ UNCHANGED <<encrypted, keys, contents, sealedWith, newest, behind, lost, damaged>>

Put(p, e) == Truncate(p, {e}, [copy[p] EXCEPT ![e] = @ + 1])
DeleteEntry(p, e) == copy[p][e] # 0 /\ Truncate(p, {e}, [copy[p] EXCEPT ![e] = 0])
Touch(p) == copy[p] # Blank /\ Truncate(p, {}, copy[p])

\* Everybody else's copy is now behind on what p changed.
Acknowledge(p) ==
  /\ newest' = [e \in Entries |-> IF e \in unsaved[p] THEN copy[p][e] ELSE newest[e]]
  /\ lost' = (lost \cup behind[p]) \ unsaved[p]
  /\ behind' = [q \in Processes |-> IF q = p THEN behind[p] \ unsaved[p]
                                    ELSE IF stage[q] \in {"open", "write"} THEN behind[q] \cup unsaved[p]
                                    ELSE {}]
  /\ unsaved' = [unsaved EXCEPT ![p] = {}]

\* A shorter write over a longer one leaves the end of the longer.
Write(p) ==
  /\ stage[p] = "write" /\ Reach(p, "open")
  /\ \E whole \in {TRUE, ~overlaid[p]} :
       /\ file' = IF whole THEN "whole" ELSE "torn"
       /\ damaged' = ~whole
  /\ contents' = copy[p] /\ sealedWith' = key[p]
  /\ overlaid' = [q \in Processes |-> stage[q] = "write" /\ q # p]
  /\ Acknowledge(p)
  /\ UNCHANGED <<encrypted, keys, copy, saves>>

\* The disk is full: the caller learns of it, and the copy keeps the change.
WriteFails(p) ==
  /\ stage[p] = "write" /\ Reach(p, "open") /\ file' = "torn" /\ damaged' = TRUE
  /\ UNCHANGED <<encrypted, keys, contents, sealedWith, copy, overlaid, saves, changes>>

\* The command is over, or the process is killed.
ProcessEnds(p) ==
  /\ stage[p] # "off" /\ Forget(p)
  /\ damaged' = (damaged \/ stage[p] = "write")
  /\ UNCHANGED <<encrypted, keyFile, lastKey, rekeyed, disk, saves, newest, lost>>

FilesNext ==
  \E p \in Processes :
    \/ Open(p) \/ ReadKey(p) \/ MakeKey(p) \/ CreateKeyFile(p) \/ WriteKey(p) \/ Load(p)
    \/ \E e \in Entries : Put(p, e) \/ DeleteEntry(p, e)
    \/ Touch(p) \/ Write(p) \/ WriteFails(p) \/ ProcessEnds(p)

FilesSpec == FilesInit /\ [][FilesNext]_fileVars

-----------------------------------------------------------------------------
(* Properties *)

FilesTypeOK ==
  /\ encrypted \in BOOLEAN /\ keyFile \in Keys /\ lastKey \in Keys \ {NoKey}
  /\ file \in {"none", "torn", "whole"} /\ contents \in [Entries -> Nat]
  /\ stage \in [Processes -> Stages] /\ copy \in [Processes -> [Entries -> Nat]]
  /\ overlaid \in [Processes -> BOOLEAN] /\ lost \subseteq Entries
  /\ newest \in [Entries -> Nat] /\ saves \in 0..MaxSaves
  /\ key \in [Processes -> Keys]
  /\ unsaved \in [Processes -> SUBSET Entries] /\ behind \in [Processes -> SUBSET Entries]
  /\ rekeyed \in BOOLEAN /\ damaged \in BOOLEAN

\* An acknowledged change is in the file, in which the next command can read it,
\* however commands overlap and end, but for what this names: a copy loaded
\* before the change was written over it; a key file that could not be read, or
\* that another command had just made, was written over with a new key, or it was
\* read before its key was in it; a write was cut, failed or ran into another.
ChangesKept ==
  /\ file = "none" => newest = Blank
  /\ file = "torn" => (damaged \/ \E p \in Processes : stage[p] = "write")
  /\ file = "whole" =>
       /\ \A e \in Entries \ lost : contents[e] = newest[e]
       /\ encrypted => (rekeyed \/ sealedWith = keyFile)
=============================================================================
