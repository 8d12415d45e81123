-------------------------------- MODULE AuditLog --------------------------------
(***************************************************************************)
(* The audit logger (internal/audit/audit.go) with a file as destination:  *)
(* events are buffered and flushed under the lock, while Query reads the   *)
(* file and CleanupOldLogs reads it, forgets what is old and writes it     *)
(* anew.  Events are numbered in the order in which they are logged.       *)
(***************************************************************************)
EXTENDS Naturals, FiniteSets, SequencesExt

CONSTANTS
  MaxEvents,    \* bound on the events of a behaviour
  MaxFile,      \* bound on the records of the file
  BufferSize,   \* how many events make a flush
  Torn          \* what a write that failed, or was cut off, left of a record

ASSUME AuditAssumption ==
  MaxEvents \in Nat /\ MaxFile \in Nat /\ BufferSize \in Nat \ {0} /\ Torn \notin Nat

VARIABLES
  logged,    \* the number of events so far
  critical,  \* those among them that are deletions or failures
  old,       \* how many of them are older than the retention
  logFile,
  buffer,
  accepted,  \* history: the events whose Log returned no error
  flushed,   \* history: the events of flushes that succeeded
  exposed,   \* history: those flushed during a cleanup, or in the file at a crash in one
  query      \* the reader: what it does, its place, what it has, and the age it looks for

auditVars == <<logged, critical, old, logFile, buffer, accepted, flushed, exposed, query>>

NoQuery == [doing |-> "nothing", at |-> 0, cutoff |-> 0]

AuditInit ==
  /\ logged = 0 /\ critical = {} /\ old = 0
  /\ logFile = <<>> /\ buffer = <<>>
  /\ accepted = {} /\ flushed = {} /\ exposed = {}
  /\ query = NoQuery

\* What the file may hold when writing "records" after "before" fails or is cut
\* off: some of them, and a part of the next.  A failed sync leaves all of them.
Partly(before, records) ==
  {before \o SubSeq(records, 1, k) : k \in 0..Len(records)}
    \cup {Append(before \o SubSeq(records, 1, k), Torn) : k \in 0..(Len(records) - 1)}

Cleaning == query.doing \in {"cleaning", "locking"}

\* flushLocked: the lock is held until the buffer is written and cleared.
FlushBuffer(records) ==
  \/ /\ logFile' = logFile \o records /\ buffer' = <<>>
     /\ flushed' = flushed \cup ToSet(records)
     /\ exposed' = IF Cleaning THEN exposed \cup ToSet(records) ELSE exposed
  \/ /\ logFile' \in Partly(logFile, records) /\ buffer' = records
     /\ UNCHANGED <<flushed, exposed>>

Bounded(records) == Len(logFile) + Len(records) <= MaxFile

\* Mutant: a buffer that is full waits for one more event.
FlushesLate(records, urgent) == Len(records) > BufferSize \/ urgent

Flushes(records, urgent) == Len(records) >= BufferSize \/ urgent

\* Log's error is that of the flush, which also tells of earlier events.
Log(urgent) ==
  LET e == logged + 1
      records == Append(buffer, e) IN
    /\ logged < MaxEvents /\ Bounded(records)
    /\ logged' = e
    /\ critical' = IF urgent THEN critical \cup {e} ELSE critical
    /\ IF Flushes(records, urgent)
       THEN /\ FlushBuffer(records)
            /\ accepted' = IF buffer' = <<>> THEN accepted \cup {e} ELSE accepted
       ELSE /\ buffer' = records /\ accepted' = accepted \cup {e}
            /\ UNCHANGED <<logFile, flushed, exposed>>
    /\ UNCHANGED <<old, query>>

Flush ==
  /\ buffer /= <<>> /\ Bounded(buffer)
  /\ FlushBuffer(buffer)
  /\ UNCHANGED <<logged, critical, old, accepted, query>>

TimePasses ==
  /\ old < logged /\ old' = old + 1
  /\ UNCHANGED <<logged, critical, logFile, buffer, accepted, flushed, exposed, query>>

\* Query and CleanupOldLogs begin alike; the cleanup fixes the age first.
Begin(what) ==
  /\ query.doing = "nothing"
  /\ query' = [doing |-> what, at |-> 0, cutoff |-> IF what = "cleaning" THEN old ELSE 0]
  /\ UNCHANGED <<logged, critical, old, logFile, buffer, accepted, flushed, exposed>>

\* A decoder that met an error returns it for ever, and the loop continues.
ReadNext ==
  /\ query.doing \in {"reading", "cleaning"} /\ query.at < Len(logFile)
  /\ IF logFile[query.at + 1] = Torn THEN UNCHANGED query
     ELSE query' = [query EXCEPT !.at = @ + 1]
  /\ UNCHANGED <<logged, critical, old, logFile, buffer, accepted, flushed, exposed>>

AtEnd == query.at = Len(logFile)

QueryReturns ==
  /\ query.doing \in {"reading", "cleaning"} /\ AtEnd
  /\ query' = IF query.doing = "reading" THEN NoQuery ELSE [query EXCEPT !.doing = "locking"]
  /\ UNCHANGED <<logged, critical, old, logFile, buffer, accepted, flushed, exposed>>

Recent(records, cutoff) ==
  LET kept[n \in 0..Len(records)] ==
        IF n = 0 THEN <<>>
        ELSE IF records[n] > cutoff THEN Append(kept[n - 1], records[n]) ELSE kept[n - 1]
  IN  kept[Len(records)]

\* CleanupOldLogs with the lock.  The file has only grown since the query: what
\* that read is its beginning.  Errors of its writes are ignored.
Rewrite ==
  /\ query.doing = "locking"
  /\ LET records == Recent(SubSeq(logFile, 1, query.at), query.cutoff) IN
       \/ logFile' = records /\ UNCHANGED exposed
       \/ logFile' \in Partly(<<>>, records) /\ exposed' = exposed \cup ToSet(records)
  /\ query' = NoQuery
  /\ UNCHANGED <<logged, critical, old, buffer, accepted, flushed>>

\* The process ends, perhaps in a flush, and starts again.
ServerEnds ==
  /\ Bounded(buffer) /\ buffer /= <<>>
  /\ logFile' \in Partly(logFile, buffer)
  /\ buffer' = <<>> /\ query' = NoQuery
  /\ UNCHANGED <<logged, critical, old, accepted, flushed, exposed>>

AuditNext ==
  \/ \E urgent \in BOOLEAN : Log(urgent)
  \/ Flush \/ TimePasses
  \/ \E what \in {"reading", "cleaning"} : Begin(what)
  \/ ReadNext \/ QueryReturns \/ Rewrite \/ ServerEnds

AuditSpec == AuditInit /\ [][AuditNext]_auditVars

-----------------------------------------------------------------------------
(* Properties *)

AuditTypeOK ==
  /\ logged \in 0..MaxEvents /\ old \in 0..logged
  /\ critical \subseteq 1..logged /\ accepted \subseteq 1..logged /\ flushed \subseteq 1..logged
  /\ ToSet(logFile) \subseteq (1..logged) \cup {Torn} /\ ToSet(buffer) \subseteq 1..logged

\* A critical event whose Log returned no error, and a full buffer's worth of any
\* events, are on their way to the disk: what memory alone holds of what was
\* accepted is less than a buffer, and not critical.
LossIsBounded ==
  LET Unsaved == (ToSet(buffer) \cap accepted) \ flushed IN
    Cardinality(Unsaved) < BufferSize /\ Unsaved \cap critical = {}

\* An event that a flush wrote is in the file until it is old, unless a cleanup was
\* under way or could not write: no failed flush and no restart takes it back.
KeptOutsideCleanup ==
  \A e \in flushed \ exposed : e > old => e \in ToSet(logFile)

\* The way of an event to the disk, and its time there: flushes fail halfway and are
\* tried again, the process ends and starts, and cleanups write the file anew.
EventsAreKept == LossIsBounded /\ KeptOutsideCleanup
=============================================================================
