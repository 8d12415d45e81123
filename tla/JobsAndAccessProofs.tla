-------------------------- MODULE JobsAndAccessProofs --------------------------
(*****************************************************************************)
(* The job queue neither loses nor repeats a job, for every number of jobs   *)
(* and workers and every capacity, and it implements the pool it promises.   *)
(* Access that is granted just in time lasts the approved time, is watched   *)
(* while it lasts and never comes back, for every set of requests, durations *)
(* and policies.                                                             *)
(*****************************************************************************)
EXTENDS JobQueue, JITAccess, SequenceTheorems, FiniteSetTheorems, TLAPS

-----------------------------------------------------------------------------
(* Types *)

LEMMA InitTypeOK == Init => TypeOK
  BY EmptySeq, NoJobAssumption DEF Init, TypeOK, Statuses

LEMMA StepTypeOK == TypeOK /\ [Next]_vars => TypeOK'
<1> SUFFICES ASSUME TypeOK, [Next]_vars PROVE TypeOK'
  OBVIOUS
<1> USE NoJobAssumption DEF TypeOK, Statuses, Final, jobVars, workerVars, stopVars
<1>1. ASSUME NEW j \in Jobs, Submit(j) PROVE TypeOK'
  BY <1>1 DEF Submit
<1>2. ASSUME NEW j \in Jobs, Send(j) PROVE TypeOK'
  <2>1. line' \in Seq(Jobs)
    BY <1>2, AppendProperties DEF Send
  <2> QED
    BY <1>2, <2>1 DEF Send, AfterSend
<1>3. ASSUME NEW w \in Workers, Take(w) PROVE TypeOK'
  <2>1. Head(line) \in Jobs /\ Tail(line) \in Seq(Jobs)
    BY <1>3, HeadTailProperties DEF Take
  <2> QED
    BY <1>3, <2>1 DEF Take
<1>4. ASSUME NEW w \in Workers, Start(w) PROVE TypeOK'
  BY <1>4 DEF Start
<1>5. ASSUME NEW w \in Workers, NEW o \in {"completed", "failed"}, Finish(w, o)
      PROVE  TypeOK'
  <2>1. status' \in [Jobs -> Statuses]
    BY <1>5 DEF Finish
  <2> QED
    BY <1>5, <2>1 DEF Finish, AfterJob
<1>6. ASSUME NEW j \in Jobs, CancelCheck(j) \/ CancelApply(j) PROVE TypeOK'
  BY <1>6 DEF CancelCheck, CancelApply
<1>7. CASE Stop \/ StopReturns
  BY <1>7 DEF Stop, StopReturns
<1>8. ASSUME NEW w \in Workers, WorkerExit(w) PROVE TypeOK'
  BY <1>8 DEF WorkerExit, MayExit
<1>9. CASE UNCHANGED vars
  BY <1>9 DEF vars
<1> QED
  BY <1>1, <1>2, <1>3, <1>4, <1>5, <1>6, <1>7, <1>8, <1>9 DEF Next, Work

\* Every variable keeps its type, and a worker holds a job exactly while it
\* has received or runs one.
THEOREM Typed == Spec => []TypeOK
  BY InitTypeOK, StepTypeOK, PTL DEF Spec

-----------------------------------------------------------------------------
(* Places *)

\* Besides OnePlace: a job that was started is nowhere on its way, a job that
\* was never submitted is nowhere at all.
Marked ==
  \A j \in Jobs :
    /\ j \in started => j \notin submitting /\ ~InLine(j) /\ ~Held(j, "taken")
    /\ Held(j, "running") => j \in started
    /\ status[j] = "absent" => /\ j \notin started \cup submitting \cup cancelling
                               /\ ~InLine(j) /\ \A w \in Workers : holds[w] # j
    /\ j \in started \/ j \in submitting \/ InLine(j) \/ Held(j, "taken")
         \/ status[j] = "absent"

QuietStop == stopped => PoolEnded

PlaceInv == OnePlace /\ Marked /\ QuietStop

LEMMA AppendToLine ==
  ASSUME TypeOK, NEW j \in Jobs, line' = Append(line, j),
         ~InLine(j), \A i, k \in DOMAIN line : line[i] = line[k] => i = k
  PROVE  /\ \A x \in Jobs : InLine(x)' <=> InLine(x) \/ x = j
         /\ \A i, k \in DOMAIN line' : line'[i] = line'[k] => i = k
<1>1. line \in Seq(Jobs) /\ Len(line) \in Nat /\ DOMAIN line = 1 .. Len(line)
  BY LenProperties DEF TypeOK
<1>2. /\ Append(line, j) \in Seq(Jobs)
      /\ Len(Append(line, j)) = Len(line) + 1
      /\ \A i \in 1 .. Len(line) : Append(line, j)[i] = line[i]
      /\ Append(line, j)[Len(line) + 1] = j
  BY <1>1, AppendProperties
<1>3. DOMAIN line' = 1 .. Len(line) + 1
  BY <1>2, LenProperties
<1> QED
  BY <1>1, <1>2, <1>3 DEF InLine

LEMMA TailOfLine ==
  ASSUME TypeOK, line # <<>>, line' = Tail(line),
         \A i, k \in DOMAIN line : line[i] = line[k] => i = k
  PROVE  /\ Head(line) \in Jobs /\ InLine(Head(line))
         /\ \A x \in Jobs : InLine(x)' <=> InLine(x) /\ x # Head(line)
         /\ \A i, k \in DOMAIN line' : line'[i] = line'[k] => i = k
<1>1. line \in Seq(Jobs) /\ Len(line) \in Nat \ {0} /\ DOMAIN line = 1 .. Len(line)
  BY LenProperties, EmptySeq DEF TypeOK
<1>2. /\ Head(line) \in Jobs /\ Tail(line) \in Seq(Jobs)
      /\ Len(Tail(line)) = Len(line) - 1
      /\ \A i \in 1 .. Len(Tail(line)) : Tail(line)[i] = line[i + 1]
  BY <1>1, HeadTailProperties
<1>3. Head(line) = line[1]
  BY <1>1
<1>4. DOMAIN line' = 1 .. Len(line) - 1 /\ \A i \in 1 .. Len(line) - 1 : line'[i] = line[i + 1]
  BY <1>1, <1>2, LenProperties
<1>5. \A x \in Jobs : InLine(x)' <=> InLine(x) /\ x # Head(line)
  <2> SUFFICES ASSUME NEW x \in Jobs PROVE InLine(x)' <=> InLine(x) /\ x # Head(line)
    OBVIOUS
  <2>1. InLine(x)' => InLine(x) /\ x # Head(line)
    BY <1>1, <1>3, <1>4 DEF InLine
  <2>2. ASSUME InLine(x), x # Head(line) PROVE InLine(x)'
    <3>1. PICK i \in DOMAIN line : line[i] = x
      BY <2>2 DEF InLine
    <3>2. i - 1 \in DOMAIN line' /\ line'[i - 1] = x
      BY <1>1, <1>3, <1>4, <2>2, <3>1
    <3> QED
      BY <3>2 DEF InLine
  <2> QED
    BY <2>1, <2>2
<1> QED
  BY <1>1, <1>2, <1>3, <1>4, <1>5 DEF InLine

LEMMA SameLine ==
  ASSUME line' = line
  PROVE  /\ \A x : InLine(x)' <=> InLine(x)
         /\ \A i, k \in DOMAIN line' :
              (\A m, n \in DOMAIN line : line[m] = line[n] => m = n) =>
                (line'[i] = line'[k] => i = k)
  BY DEF InLine

LEMMA SameHolders ==
  ASSUME at' = at, holds' = holds
  PROVE  \A x, p : Held(x, p)' <=> Held(x, p)
  BY DEF Held

LEMMA InitPlaces == Init => PlaceInv
<1> SUFFICES ASSUME Init PROVE PlaceInv
  OBVIOUS
<1>1. DOMAIN line = {}
  BY DEF Init
<1>2. \A j : ~InLine(j)
  BY <1>1 DEF InLine
<1>3. \A j \in Jobs : \A p : ~Held(j, p)
  BY NoJobAssumption DEF Init, Held
<1>4. OnePlace
  BY <1>1, <1>2, NoJobAssumption DEF Init, OnePlace
<1>5. Marked
  BY <1>2, <1>3, NoJobAssumption DEF Init, Marked
<1> QED
  BY <1>4, <1>5 DEF PlaceInv, QuietStop, Init

LEMMA SubmitPlaces ==
  ASSUME TypeOK, PlaceInv, NEW j \in Jobs, Submit(j)
  PROVE  PlaceInv'
<1> USE DEF PlaceInv, jobVars, workerVars, stopVars
<1>1. /\ line' = line /\ at' = at /\ holds' = holds /\ started' = started
      /\ cancelling' = cancelling /\ stopped' = stopped
      /\ submitting' = submitting \cup {j}
      /\ status[j] = "absent" /\ status' = [status EXCEPT ![j] = "pending"]
  BY DEF Submit
<1>2. /\ ~InLine(j) /\ j \notin started /\ \A w \in Workers : holds[w] # j
  BY <1>1 DEF Marked
<1>3. /\ \A x \in Jobs : x # j => status'[x] = status[x]
      /\ status'[j] = "pending"
  BY <1>1 DEF TypeOK
<1>4. \A p : ~Held(j, p)
  BY <1>2 DEF Held
<1>5. OnePlace'
  BY <1>1, <1>2, <1>3, SameLine, SameHolders DEF OnePlace
<1>6. Marked'
  BY <1>1, <1>2, <1>3, <1>4, SameLine, SameHolders DEF Marked
<1>7. QuietStop'
  BY <1>1 DEF QuietStop, PoolEnded
<1> QED
  BY <1>5, <1>6, <1>7

LEMMA SendPlaces ==
  ASSUME TypeOK, PlaceInv, NEW j \in Jobs, Send(j)
  PROVE  PlaceInv'
<1> USE DEF PlaceInv, jobVars, workerVars, stopVars
<1>1. /\ status' = status /\ at' = at /\ holds' = holds /\ started' = started
      /\ cancelling' = cancelling /\ stopped' = stopped
      /\ submitting' = submitting \ {j} /\ j \in submitting
      /\ line' = Append(line, j)
  BY DEF Send, AfterSend
<1>2. /\ ~InLine(j) /\ \A i, k \in DOMAIN line : line[i] = line[k] => i = k
      /\ \A w \in Workers : holds[w] # j
  BY <1>1 DEF OnePlace
<1>3. /\ \A x \in Jobs : InLine(x)' <=> InLine(x) \/ x = j
      /\ \A i, k \in DOMAIN line' : line'[i] = line'[k] => i = k
  BY <1>1, <1>2, AppendToLine
<1>4. OnePlace'
  BY <1>1, <1>2, <1>3, SameHolders DEF OnePlace
<1>5. Marked'
  <2>1. j \notin started /\ status[j] # "absent" /\ \A p : ~Held(j, p)
    BY <1>1, <1>2 DEF Marked, Held
  <2> QED
    BY <1>1, <1>3, <2>1, SameHolders DEF Marked
<1>6. QuietStop'
  BY <1>1 DEF QuietStop, PoolEnded
<1> QED
  BY <1>4, <1>5, <1>6

LEMMA TakePlaces ==
  ASSUME TypeOK, PlaceInv, NEW w \in Workers, Take(w)
  PROVE  PlaceInv'
<1> USE DEF PlaceInv, jobVars, workerVars, stopVars
<1> DEFINE h == Head(line)
<1>1. /\ status' = status /\ started' = started /\ submitting' = submitting
      /\ cancelling' = cancelling /\ stopped' = stopped
      /\ at[w] = "idle" /\ line # <<>>
      /\ at' = [at EXCEPT ![w] = "taken"]
      /\ holds' = [holds EXCEPT ![w] = h] /\ line' = Tail(line)
  BY DEF Take
<1>2. \A i, k \in DOMAIN line : line[i] = line[k] => i = k
  BY DEF OnePlace
<1>3. /\ h \in Jobs /\ InLine(h)
      /\ \A x \in Jobs : InLine(x)' <=> InLine(x) /\ x # h
      /\ \A i, k \in DOMAIN line' : line'[i] = line'[k] => i = k
  BY <1>1, <1>2, TailOfLine
<1> HIDE DEF h
<1>4. /\ holds[w] = NoJob /\ holds'[w] = h /\ at'[w] = "taken"
      /\ \A v \in Workers \ {w} : holds'[v] = holds[v] /\ at'[v] = at[v]
  BY <1>1 DEF TypeOK
<1>5. /\ h \notin submitting /\ \A v \in Workers : holds[v] # h
      /\ h \notin started /\ status[h] # "absent" /\ status[h] # "running"
  <2>1. h \notin submitting /\ \A v \in Workers : holds[v] # h
    BY <1>3 DEF OnePlace
  <2>2. h \notin started /\ status[h] # "absent"
    BY <1>3 DEF Marked
  <2>3. status[h] # "running"
    BY <1>3, <2>1 DEF OnePlace, Held
  <2> QED
    BY <2>1, <2>2, <2>3
<1>6. /\ \A x \in Jobs : Held(x, "taken")' <=> Held(x, "taken") \/ x = h
      /\ \A x \in Jobs : Held(x, "running")' <=> Held(x, "running")
  BY <1>1, <1>4 DEF Held
<1>7. OnePlace'
  BY <1>1, <1>3, <1>4, <1>5, <1>6, NoJobAssumption DEF OnePlace
<1>8. Marked'
  BY <1>1, <1>3, <1>4, <1>5, <1>6 DEF Marked
<1>9. QuietStop'
  BY <1>1 DEF QuietStop, PoolEnded
<1> QED
  BY <1>7, <1>8, <1>9

LEMMA StartPlaces ==
  ASSUME TypeOK, PlaceInv, NEW w \in Workers, Start(w)
  PROVE  PlaceInv' /\ holds[w] \notin started
<1> USE DEF PlaceInv, jobVars, workerVars, stopVars
<1> DEFINE h == holds[w]
<1>1. /\ submitting' = submitting /\ line' = line /\ holds' = holds
      /\ cancelling' = cancelling /\ stopped' = stopped
      /\ at[w] = "taken" /\ at' = [at EXCEPT ![w] = "running"]
      /\ status' = [status EXCEPT ![h] = "running"] /\ started' = started \cup {h}
  BY DEF Start
<1>2. h \in Jobs /\ Held(h, "taken")
  BY <1>1 DEF TypeOK, Held
<1>3. h \notin started /\ h \notin submitting /\ ~InLine(h)
  BY <1>2 DEF Marked, OnePlace
<1>4. status[h] # "absent"
  BY <1>2 DEF Marked
<1>5. \A v \in Workers : holds[v] = h => v = w
  BY <1>2, NoJobAssumption DEF OnePlace
<1>6. /\ \A x \in Jobs : Held(x, "running")' <=> Held(x, "running") \/ x = h
      /\ \A x \in Jobs : Held(x, "taken")' <=> Held(x, "taken") /\ x # h
  BY <1>1, <1>5 DEF Held, TypeOK
<1>7. status'[h] = "running" /\ \A x \in Jobs \ {h} : status'[x] = status[x]
  BY <1>1, <1>2 DEF TypeOK
<1> HIDE DEF h
<1>8. OnePlace'
  BY <1>1, <1>2, <1>3, <1>6, <1>7, SameLine DEF OnePlace
<1>9. Marked'
  BY <1>1, <1>2, <1>3, <1>4, <1>6, <1>7, SameLine DEF Marked
<1>10. QuietStop'
  BY <1>1 DEF QuietStop, PoolEnded
<1> QED
  BY <1>3, <1>8, <1>9, <1>10 DEF h

LEMMA FinishPlaces ==
  ASSUME TypeOK, PlaceInv, NEW w \in Workers,
         NEW o \in {"completed", "failed"}, Finish(w, o)
  PROVE  PlaceInv'
<1> USE DEF PlaceInv, jobVars, workerVars, stopVars
<1> DEFINE h == holds[w]
<1>1. /\ submitting' = submitting /\ line' = line /\ started' = started
      /\ cancelling' = cancelling /\ stopped' = stopped
      /\ at[w] = "running" /\ at' = [at EXCEPT ![w] = "idle"]
      /\ holds' = [holds EXCEPT ![w] = NoJob]
      /\ status' = [status EXCEPT ![h] = IF @ = "cancelled" THEN @ ELSE o]
  BY DEF Finish, AfterJob
<1>2. h \in Jobs /\ Held(h, "running") /\ h \in started
  BY <1>1 DEF TypeOK, Held, Marked
<1>3. ~Held(h, "taken")
  BY <1>2 DEF Marked
<1>4. \A v \in Workers : holds[v] = h => v = w
  BY <1>2, NoJobAssumption DEF OnePlace
<1>5. /\ holds'[w] = NoJob /\ at'[w] = "idle"
      /\ \A v \in Workers \ {w} : holds'[v] = holds[v] /\ at'[v] = at[v]
  BY <1>1 DEF TypeOK
<1>6. /\ \A x \in Jobs : Held(x, "running")' <=> Held(x, "running") /\ x # h
      /\ \A x \in Jobs : Held(x, "taken")' <=> Held(x, "taken")
  BY <1>1, <1>2, <1>4, <1>5 DEF Held
<1>7. /\ status'[h] \notin {"pending", "running", "absent"}
      /\ \A x \in Jobs \ {h} : status'[x] = status[x]
  BY <1>1, <1>2 DEF TypeOK
<1> HIDE DEF h
<1>8. OnePlace'
  BY <1>1, <1>5, <1>6, <1>7, SameLine, NoJobAssumption DEF OnePlace
<1>9. Marked'
  BY <1>1, <1>2, <1>5, <1>6, <1>7, SameLine, NoJobAssumption DEF Marked
<1>10. QuietStop'
  BY <1>1 DEF QuietStop, PoolEnded
<1> QED
  BY <1>8, <1>9, <1>10

LEMMA CancelPlaces ==
  ASSUME TypeOK, PlaceInv, NEW j \in Jobs, CancelCheck(j) \/ CancelApply(j)
  PROVE  PlaceInv'
<1> USE DEF PlaceInv, jobVars, workerVars, stopVars
<1>1. /\ line' = line /\ at' = at /\ holds' = holds /\ started' = started
      /\ submitting' = submitting /\ stopped' = stopped
  BY DEF CancelCheck, CancelApply
<1>2. \A x \in Jobs : status'[x] = status[x] \/ (x \in cancelling /\ status'[x] = "cancelled")
  <2>1. CASE CancelCheck(j)
    BY <2>1 DEF CancelCheck
  <2>2. CASE CancelApply(j)
    BY <2>2 DEF CancelApply, TypeOK
  <2> QED
    BY <2>1, <2>2
<1>3. \A x \in Jobs : x \in cancelling' => status[x] # "absent" \/ x \in cancelling
  BY DEF CancelCheck, CancelApply
<1>4. OnePlace'
  BY <1>1, <1>2, SameLine, SameHolders DEF OnePlace
<1>5. Marked'
  <2>1. \A x \in Jobs : status'[x] = "absent" <=> status[x] = "absent"
    BY <1>2 DEF Marked
  <2> QED
    BY <1>1, <1>3, <2>1, SameLine, SameHolders DEF Marked
<1>6. QuietStop'
  BY <1>1 DEF QuietStop, PoolEnded
<1> QED
  BY <1>4, <1>5, <1>6

LEMMA StopPlaces ==
  ASSUME TypeOK, PlaceInv,
         Stop \/ StopReturns \/ \E w \in Workers : WorkerExit(w)
  PROVE  PlaceInv'
<1> USE DEF PlaceInv, jobVars, workerVars, stopVars
<1>1. /\ line' = line /\ holds' = holds /\ started' = started
      /\ submitting' = submitting /\ status' = status /\ cancelling' = cancelling
  BY DEF Stop, StopReturns, WorkerExit
<1>2. \A x \in Jobs, p \in {"taken", "running"} : Held(x, p)' <=> Held(x, p)
  <2>1. CASE Stop \/ StopReturns
    BY <2>1, SameHolders DEF Stop, StopReturns
  <2>2. ASSUME NEW w \in Workers, WorkerExit(w)
        PROVE  \A x \in Jobs, p \in {"taken", "running"} : Held(x, p)' <=> Held(x, p)
    <3>1. at[w] = "idle" /\ at' = [at EXCEPT ![w] = "gone"] /\ holds' = holds
      BY <2>2 DEF WorkerExit, MayExit
    <3>2. \A v \in Workers, p \in {"taken", "running"} : at'[v] = p <=> at[v] = p
      BY <3>1 DEF TypeOK
    <3> QED
      BY <3>1, <3>2 DEF Held
  <2> QED
    BY <2>1, <2>2
<1>3. OnePlace'
  BY <1>1, <1>2, SameLine DEF OnePlace
<1>4. Marked'
  BY <1>1, <1>2, SameLine DEF Marked
<1>5. QuietStop'
  BY DEF Stop, StopReturns, WorkerExit, QuietStop, PoolEnded, TypeOK
<1> QED
  BY <1>3, <1>4, <1>5

LEMMA StepPlaces == TypeOK /\ PlaceInv /\ [Next]_vars => PlaceInv'
<1> SUFFICES ASSUME TypeOK, PlaceInv, [Next]_vars PROVE PlaceInv'
  OBVIOUS
<1>1. CASE UNCHANGED vars
  <2>1. /\ line' = line /\ at' = at /\ holds' = holds /\ started' = started
        /\ submitting' = submitting /\ stopped' = stopped
        /\ status' = status /\ cancelling' = cancelling
    BY <1>1 DEF vars, jobVars, workerVars, stopVars
  <2>2. OnePlace'
    BY <2>1, SameLine, SameHolders DEF OnePlace, PlaceInv
  <2>3. Marked'
    BY <2>1, SameLine, SameHolders DEF Marked, PlaceInv
  <2> QED
    BY <2>1, <2>2, <2>3 DEF PlaceInv, QuietStop, PoolEnded
<1>2. CASE Next
  BY <1>2, SubmitPlaces, SendPlaces, TakePlaces, StartPlaces, FinishPlaces,
     CancelPlaces, StopPlaces DEF Next, Work
<1> QED
  BY <1>1, <1>2

LEMMA Places == Spec => []PlaceInv
  BY InitPlaces, StepPlaces, Typed, PTL DEF Spec

\* No job is lost or doubled between Submit, the channel and the workers.
THEOREM NoJobLost == Spec => []OnePlace
  BY Places, PTL DEF PlaceInv

\* When Stop has returned no job runs.
THEOREM StopIsQuiet == Spec => []StopQuiesces
<1>1. PlaceInv => StopQuiesces
  BY DEF PlaceInv, OnePlace, QuietStop, PoolEnded, StopQuiesces, Held
<1> QED
  BY <1>1, Places, PTL

\* The function of a job is called at most once, cancelled or not.
THEOREM AtMostOnce == Spec => RunOnce
<1>1. TypeOK /\ PlaceInv /\ [Next]_vars =>
        [\A w \in Workers : at[w] = "taken" /\ at'[w] = "running" =>
           holds[w] \notin started]_vars
  <2> SUFFICES ASSUME TypeOK, PlaceInv, NEW w \in Workers, at[w] = "taken"
               PROVE  holds[w] \notin started
    OBVIOUS
  <2>1. holds[w] \in Jobs /\ Held(holds[w], "taken")
    BY DEF TypeOK, Held
  <2> QED
    BY <2>1 DEF PlaceInv, Marked
<1> QED
  BY <1>1, Places, Typed, PTL DEF Spec, RunOnce

-----------------------------------------------------------------------------
(* The queue implements the pool *)

\* A worker about to start a job leaves one worker fewer for the others.
LEMMA RoomToStart ==
  ASSUME TypeOK, PlaceInv, NEW w \in Workers, at[w] = "taken"
  PROVE  Cardinality({j \in Jobs : Phase(j) = "running"}) < Cardinality(Workers)
<1> DEFINE R == {j \in Jobs : Phase(j) = "running"}
           f == [j \in R |-> CHOOSE v \in Workers : at[v] = "running" /\ holds[v] = j]
<1>1. ASSUME NEW j \in R PROVE f[j] \in Workers \ {w} /\ holds[f[j]] = j
  <2>1. \E v \in Workers : at[v] = "running" /\ holds[v] = j
    BY DEF Phase, Held
  <2> QED
    BY <2>1
<1>2. f \in Injection(R, Workers \ {w})
  BY <1>1 DEF Injection, IsInjective
<1>3. IsFiniteSet(Workers \ {w}) /\ Cardinality(Workers \ {w}) = Cardinality(Workers) - 1
  BY WorkersAssumption, FS_RemoveElement
<1>4. Cardinality(R) <= Cardinality(Workers \ {w}) /\ IsFiniteSet(R)
  <2> HIDE DEF f, R
  <2> QED
    BY <1>2, <1>3, FS_Injection
<1>5. Cardinality(Workers) \in Nat /\ Cardinality(R) \in Nat
  BY WorkersAssumption, <1>4, FS_CardinalityType
<1> HIDE DEF R, f
<1>6. Cardinality(R) < Cardinality(Workers)
  BY <1>3, <1>4, <1>5
<1> QED
  BY <1>6 DEF R

\* The instance has a Cardinality of its own.
LEMMA PoolCardinality ==
  ASSUME NEW S
  PROVE  Pool!Cardinality(S) = Cardinality(S)
  BY DEF Pool!Cardinality, Cardinality

LEMMA PoolInitOK == Init => Pool!PoolInit
  BY DEF Init, Pool!PoolInit, Phase

\* Steps that change no phase are stutters of the pool.
LEMMA PhasesStay ==
  ASSUME \A x \in Jobs : status'[x] = "absent" <=> status[x] = "absent",
         started' = started,
         \A x \in Jobs : Held(x, "running")' <=> Held(x, "running")
  PROVE  [j \in Jobs |-> Phase(j)]' = [j \in Jobs |-> Phase(j)]
<1>1. \A x \in Jobs : Phase(x)' = Phase(x)
  BY DEF Phase
<1> QED
  BY <1>1

LEMMA PoolStep ==
  ASSUME TypeOK, TypeOK', PlaceInv, PlaceInv', [Next]_vars
  PROVE  [Pool!PoolNext]_(Pool!poolVars)
<1> DEFINE ph == [j \in Jobs |-> Phase(j)]
<1> USE DEF jobVars, workerVars, stopVars
<1>1. ASSUME NEW j \in Jobs, Submit(j) PROVE Pool!Arrive(j)
  <2>1. /\ started' = started /\ at' = at /\ holds' = holds /\ stopped' = stopped
        /\ status[j] = "absent" /\ status'[j] = "pending"
        /\ \A x \in Jobs \ {j} : status'[x] = status[x]
    BY <1>1 DEF Submit, TypeOK
  <2>2. j \notin started
    BY <2>1 DEF PlaceInv, Marked
  <2>3. Phase(j) = "absent" /\ Phase(j)' = "waiting"
    BY <2>1, <2>2 DEF Phase
  <2>4. \A x \in Jobs \ {j} : Phase(x)' = Phase(x)
    BY <2>1, SameHolders DEF Phase
  <2>5. ph' = [ph EXCEPT ![j] = "waiting"]
    BY <2>3, <2>4
  <2> QED
    BY <2>1, <2>3, <2>5 DEF Pool!Arrive
<1>2. ASSUME NEW w \in Workers, Start(w) PROVE Pool!Begin(holds[w])
  <2>0. PICK h \in Jobs : h = holds[w]
    BY <1>2 DEF Start, TypeOK
  <2>1. /\ at[w] = "taken" /\ at' = [at EXCEPT ![w] = "running"] /\ holds' = holds
        /\ status' = [status EXCEPT ![h] = "running"]
        /\ started' = started \cup {h} /\ stopped' = stopped
    BY <1>2, <2>0 DEF Start
  <2>2. Held(h, "taken") /\ Held(h, "running")'
    BY <2>0, <2>1 DEF TypeOK, Held
  <2>3. h \notin started /\ status[h] # "absent"
    BY <2>0, <2>2 DEF PlaceInv, Marked
  <2>4. Phase(h) = "waiting" /\ Phase(h)' = "running"
    BY <2>1, <2>2, <2>3 DEF Phase, TypeOK
  <2>5. ASSUME NEW x \in Jobs \ {h} PROVE Phase(x)' = Phase(x)
    <3>1. status'[x] = status[x] /\ (x \in started' <=> x \in started)
      BY <2>1 DEF TypeOK
    <3>2. Held(x, "running")' <=> Held(x, "running")
      BY <2>0, <2>1 DEF Held, TypeOK
    <3> QED
      BY <3>1, <3>2 DEF Phase
  <2>6. ph' = [ph EXCEPT ![h] = "running"]
    BY <2>4, <2>5
  <2>7. ~stopped
    BY <2>1 DEF PlaceInv, QuietStop, PoolEnded
  <2>8. Cardinality({j \in Jobs : Phase(j) = "running"}) < Cardinality(Workers)
    BY <2>1, RoomToStart
  <2>9. Pool!InPhase("running") = {j \in Jobs : Phase(j) = "running"}
    BY DEF Pool!InPhase
  <2>10. Pool!Cardinality(Pool!InPhase("running")) < Cardinality(Workers)
    BY <2>8, <2>9, PoolCardinality
  <2>11. ph[h] = "waiting" /\ stopped' = stopped
    BY <2>1, <2>4
  <2> HIDE DEF ph
  <2> QED
    BY <2>0, <2>6, <2>7, <2>10, <2>11 DEF Pool!Begin, ph
<1>3. ASSUME NEW w \in Workers, NEW o \in {"completed", "failed"}, Finish(w, o)
      PROVE  Pool!End(holds[w])
  <2>0. PICK h \in Jobs : h = holds[w]
    BY <1>3 DEF Finish, TypeOK
  <2>1. /\ at[w] = "running" /\ at' = [at EXCEPT ![w] = "idle"]
        /\ holds' = [holds EXCEPT ![w] = NoJob]
        /\ status' = [status EXCEPT ![h] = IF @ = "cancelled" THEN @ ELSE o]
        /\ started' = started /\ stopped' = stopped
    BY <1>3, <2>0 DEF Finish, AfterJob
  <2>2. Held(h, "running") /\ h \in started
    BY <2>0, <2>1 DEF TypeOK, Held, PlaceInv, Marked
  <2>3. status[h] # "absent" /\ status'[h] # "absent"
    BY <2>1, <2>2 DEF PlaceInv, Marked, TypeOK
  <2>4. /\ holds'[w] = NoJob
        /\ \A v \in Workers \ {w} : holds'[v] = holds[v] /\ at'[v] = at[v] /\ holds[v] # h
    BY <2>0, <2>1, NoJobAssumption DEF TypeOK, PlaceInv, OnePlace
  <2>5. ~Held(h, "running")'
    BY <2>2, <2>4, NoJobAssumption DEF Held
  <2>6. Phase(h) = "running" /\ Phase(h)' = "ended"
    BY <2>1, <2>2, <2>3, <2>5 DEF Phase
  <2>7. ASSUME NEW x \in Jobs \ {h} PROVE Phase(x)' = Phase(x)
    <3>1. status'[x] = status[x]
      BY <2>1 DEF TypeOK
    <3>2. Held(x, "running")' <=> Held(x, "running")
      BY <2>0, <2>1, <2>4, NoJobAssumption DEF Held
    <3> QED
      BY <2>1, <3>1, <3>2 DEF Phase
  <2>8. ph' = [ph EXCEPT ![h] = "ended"]
    BY <2>6, <2>7
  <2> QED
    BY <2>0, <2>1, <2>6, <2>8 DEF Pool!End
<1>4. CASE StopReturns
  <2>1. PoolEnded /\ stopped = FALSE /\ stopped' = TRUE /\ at' = at /\ holds' = holds
        /\ status' = status /\ started' = started
    BY <1>4 DEF StopReturns, TypeOK
  <2>2. \A x \in Jobs : ~Held(x, "running")
    BY <2>1 DEF Held, PoolEnded
  <2>3. Pool!InPhase("running") = {}
    BY <2>2 DEF Pool!InPhase, Phase
  <2>4. ph' = ph
    BY <2>1, SameHolders, PhasesStay
  <2> QED
    BY <2>1, <2>3, <2>4 DEF Pool!PoolNext, Pool!Close
<1>5. ASSUME ph' = ph, stopped' = stopped PROVE UNCHANGED Pool!poolVars
  BY <1>5 DEF Pool!poolVars
<1>6. ASSUME \/ UNCHANGED vars \/ Stop
             \/ \E j \in Jobs : Send(j) \/ CancelCheck(j)
      PROVE  ph' = ph /\ stopped' = stopped
  <2>1. /\ status' = status /\ started' = started /\ at' = at /\ holds' = holds
        /\ stopped' = stopped
    BY <1>6 DEF vars, Stop, Send, CancelCheck
  <2> QED
    BY <2>1, SameHolders, PhasesStay
<1>7. ASSUME NEW j \in Jobs, CancelApply(j) PROVE ph' = ph /\ stopped' = stopped
  <2>1. /\ started' = started /\ at' = at /\ holds' = holds /\ stopped' = stopped
        /\ status[j] # "absent" /\ status' = [status EXCEPT ![j] = "cancelled"]
    BY <1>7 DEF CancelApply, PlaceInv, Marked
  <2>2. \A x \in Jobs : status'[x] = "absent" <=> status[x] = "absent"
    BY <2>1 DEF TypeOK
  <2> QED
    BY <2>1, <2>2, SameHolders, PhasesStay
<1>8. ASSUME NEW w \in Workers, Take(w) \/ WorkerExit(w) PROVE ph' = ph /\ stopped' = stopped
  <2>1. status' = status /\ started' = started /\ stopped' = stopped
    BY <1>8 DEF Take, WorkerExit
  <2>2. /\ at[w] = "idle" /\ at'[w] # "running"
        /\ \A v \in Workers \ {w} : at'[v] = at[v] /\ holds'[v] = holds[v]
    BY <1>8 DEF Take, WorkerExit, MayExit, TypeOK
  <2>3. \A x \in Jobs : Held(x, "running")' <=> Held(x, "running")
    BY <2>2 DEF Held
  <2> QED
    BY <2>1, <2>3, PhasesStay
<1> HIDE DEF ph
<1>9. ASSUME NEW w \in Workers, Start(w) \/ \E o \in {"completed", "failed"} : Finish(w, o)
      PROVE  holds[w] \in Jobs
  BY <1>9 DEF Start, Finish, TypeOK
<1> QED
  BY <1>1, <1>2, <1>3, <1>4, <1>5, <1>6, <1>7, <1>8, <1>9 DEF Next, Work, Pool!PoolNext

\* The queue implements the pool: at most as many jobs as workers run at a
\* time, each at most once, and none once Stop has returned.
THEOREM QueueIsPool == Spec => ImplementsPool
<1>1. TypeOK /\ TypeOK' /\ PlaceInv /\ PlaceInv' /\ [Next]_vars
        => [Pool!PoolNext]_(Pool!poolVars)
  BY PoolStep
<1> QED
  BY <1>1, PoolInitOK, Typed, Places, PTL DEF Spec, ImplementsPool, Pool!PoolSpec

-----------------------------------------------------------------------------
(* Just-in-time access *)

\* A request is in one place between its approval and the end of its access,
\* and what was never approved has left no trace.
InOnePlace ==
  /\ AccessIsApproved
  /\ \A r \in revoking : state[r] \notin {"absent", "pending", "denied"}
                         /\ r \notin granting \cup active
  /\ granting \cap active = {}
  /\ \A r \in Requests : state[r] \in {"absent", "pending"} \/ r \in granting =>
       scheduling[r] = 0 /\ \A t \in timers : t[1] # r

\* No timer and no grant ends before the time that was approved.
Deadlines ==
  /\ \A r \in Requests : r \in active \/ scheduling[r] > 0 => granted[r] <= expires[r]
  /\ \A t \in timers : granted[t[1]] <= t[2]

AccessInv == JITTypeOK /\ InOnePlace /\ Deadlines /\ Watched

-----------------------------------------------------------------------------
(* Types *)

LEMMA InitAccessTyped == JITInit => JITTypeOK
  BY TimesAssumption DEF JITInit, JITTypeOK, RequestStatuses, MostExtensions

LEMMA StepAccessTyped == JITTypeOK /\ [JITNext]_jitVars => JITTypeOK'
<1> SUFFICES ASSUME JITTypeOK, [JITNext]_jitVars PROVE JITTypeOK'
  OBVIOUS
<1> USE TimesAssumption
    DEF JITTypeOK, RequestStatuses, Decisions, MostExtensions, grantVars, WithCall
<1>1. CASE Tick \/ BeginCleanup
  BY <1>1 DEF Tick, BeginCleanup
<1>2. ASSUME NEW r \in Requests, RequestAccess(r) \/ DenyAccess(r) PROVE JITTypeOK'
  BY <1>2 DEF RequestAccess, DenyAccess
<1>3. ASSUME NEW r \in Requests, ApproveAccess(r) PROVE JITTypeOK'
  BY <1>3 DEF ApproveAccess
<1>4. ASSUME NEW r \in Requests, Grant(r) PROVE JITTypeOK'
  BY <1>4 DEF Grant
<1>5. ASSUME NEW r \in Requests, ScheduleRevocation(r) PROVE JITTypeOK'
  BY <1>5 DEF ScheduleRevocation
<1>6. ASSUME NEW r \in Requests, NEW d \in Extensions, ExtendAccess(r, d)
      PROVE  JITTypeOK'
  BY <1>6 DEF ExtendAccess, MayExtend
<1>7. ASSUME NEW t \in timers, TimerFires(t) PROVE JITTypeOK'
  BY <1>7 DEF TimerFires
<1>8. ASSUME NEW r \in Requests, RevokeAccess(r) \/ UpdateRevoked(r) PROVE JITTypeOK'
  BY <1>8 DEF RevokeAccess, UpdateRevoked
<1>9. ASSUME NEW S \in SUBSET Requests, Cleanup(S) PROVE JITTypeOK'
  BY <1>9 DEF Cleanup
<1>10. CASE UNCHANGED jitVars
  BY <1>10 DEF jitVars
<1> QED
  BY <1>1, <1>2, <1>3, <1>4, <1>5, <1>6, <1>7, <1>8, <1>9, <1>10 DEF JITNext, Turn

-----------------------------------------------------------------------------
(* InOnePlace *)

LEMMA InitInOnePlace == JITInit => InOnePlace
  BY DEF JITInit, InOnePlace, AccessIsApproved

LEMMA StepInOnePlace == JITTypeOK /\ InOnePlace /\ [JITNext]_jitVars => InOnePlace'
<1> SUFFICES ASSUME JITTypeOK, InOnePlace, [JITNext]_jitVars PROVE InOnePlace'
  OBVIOUS
<1> USE DEF InOnePlace, AccessIsApproved, JITTypeOK, grantVars, WithCall
<1>1. CASE Tick \/ BeginCleanup
  BY <1>1 DEF Tick, BeginCleanup
<1>2. ASSUME NEW r \in Requests, RequestAccess(r) \/ DenyAccess(r) PROVE InOnePlace'
  BY <1>2 DEF RequestAccess, DenyAccess, Undecided
<1>3. ASSUME NEW r \in Requests, ApproveAccess(r) PROVE InOnePlace'
  BY <1>3 DEF ApproveAccess, Undecided
<1>4. ASSUME NEW r \in Requests, Grant(r) PROVE InOnePlace'
  BY <1>4 DEF Grant
<1>5. ASSUME NEW r \in Requests, ScheduleRevocation(r) PROVE InOnePlace'
  BY <1>5 DEF ScheduleRevocation
<1>6. ASSUME NEW r \in Requests, NEW d \in Extensions, ExtendAccess(r, d)
      PROVE  InOnePlace'
  BY <1>6 DEF ExtendAccess
<1>7. ASSUME NEW t \in timers, TimerFires(t) PROVE InOnePlace'
  BY <1>7 DEF TimerFires
<1>8. ASSUME NEW r \in Requests, RevokeAccess(r) PROVE InOnePlace'
  BY <1>8 DEF RevokeAccess
<1>9. ASSUME NEW r \in Requests, UpdateRevoked(r) PROVE InOnePlace'
  BY <1>9 DEF UpdateRevoked
<1>10. ASSUME NEW S \in SUBSET Requests, Cleanup(S) PROVE InOnePlace'
  BY <1>10 DEF Cleanup, Old
<1>11. CASE UNCHANGED jitVars
  BY <1>11 DEF jitVars
<1> QED
  BY <1>1, <1>2, <1>3, <1>4, <1>5, <1>6, <1>7, <1>8, <1>9, <1>10, <1>11
  DEF JITNext, Turn

-----------------------------------------------------------------------------
(* Deadlines *)

LEMMA InitDeadlines == JITInit => Deadlines
  BY DEF JITInit, Deadlines

LEMMA StepDeadlines ==
  JITTypeOK /\ InOnePlace /\ Deadlines /\ [JITNext]_jitVars => Deadlines'
<1> SUFFICES ASSUME JITTypeOK, InOnePlace, Deadlines, [JITNext]_jitVars PROVE Deadlines'
  OBVIOUS
<1> USE TimesAssumption DEF Deadlines, JITTypeOK, grantVars, WithCall
<1>1. ASSUME NEW r \in Requests, ApproveAccess(r) PROVE Deadlines'
  <2>1. r \notin active /\ scheduling[r] = 0 /\ \A t \in timers : t[1] # r
    BY <1>1 DEF ApproveAccess, Undecided, InOnePlace, AccessIsApproved
  <2> QED
    BY <1>1, <2>1 DEF ApproveAccess
<1>2. ASSUME NEW r \in Requests, Grant(r) PROVE Deadlines'
  BY <1>2 DEF Grant
<1>3. ASSUME NEW r \in Requests, ScheduleRevocation(r) PROVE Deadlines'
  BY <1>3 DEF ScheduleRevocation
<1>4. ASSUME NEW r \in Requests, NEW d \in Extensions, ExtendAccess(r, d)
      PROVE  Deadlines'
  BY <1>4 DEF ExtendAccess
<1>5. ASSUME UNCHANGED <<granted, expires, scheduling>>, active' \subseteq active,
             timers' \subseteq timers
      PROVE  Deadlines'
  BY <1>5
<1> QED
  BY <1>1, <1>2, <1>3, <1>4, <1>5
  DEF JITNext, Turn, Tick, BeginCleanup, RequestAccess, DenyAccess, TimerFires,
      RevokeAccess, UpdateRevoked, Cleanup, jitVars

LEMMA InitWatched == JITInit => Watched
  BY DEF JITInit, Watched

LEMMA StepWatched == JITTypeOK /\ Watched /\ [JITNext]_jitVars => Watched'
<1> SUFFICES ASSUME JITTypeOK, Watched, [JITNext]_jitVars PROVE Watched'
  OBVIOUS
<1> USE TimesAssumption DEF Watched, JITTypeOK, grantVars, WithCall
<1>1. ASSUME NEW r \in Requests, Grant(r) PROVE Watched'
  BY <1>1 DEF Grant
<1>2. ASSUME NEW r \in Requests, ScheduleRevocation(r) PROVE Watched'
  <2>1. SUFFICES ASSUME NEW s \in active, expires[s] > now
                 PROVE  \/ scheduling'[s] > 0
                        \/ \E t \in timers' : t[1] = s /\ t[2] <= expires[s]
    BY <1>2 DEF ScheduleRevocation
  <2>2. CASE s = r
    <3>1. <<r, expires[r]>> \in timers'
      BY <1>2, <2>1, <2>2 DEF ScheduleRevocation
    <3> QED
      BY <2>2, <3>1
  <2>3. CASE s # r
    BY <1>2, <2>1, <2>3 DEF ScheduleRevocation
  <2> QED
    BY <2>2, <2>3
<1>3. ASSUME NEW r \in Requests, NEW d \in Extensions, ExtendAccess(r, d)
      PROVE  Watched'
  BY <1>3 DEF ExtendAccess
<1>4. ASSUME NEW t \in timers, TimerFires(t) PROVE Watched'
  BY <1>4 DEF TimerFires
<1>5. ASSUME UNCHANGED <<expires, scheduling, timers>>, active' \subseteq active,
             now <= now', now' \in Nat
      PROVE  Watched'
  BY <1>5
<1> QED
  BY <1>1, <1>2, <1>3, <1>4, <1>5
  DEF JITNext, Turn, Tick, BeginCleanup, RequestAccess, ApproveAccess, DenyAccess,
      RevokeAccess, UpdateRevoked, Cleanup, jitVars

LEMMA Invariance == JITSpec => []AccessInv
<1>1. JITInit => AccessInv
  BY InitAccessTyped, InitInOnePlace, InitDeadlines, InitWatched DEF AccessInv
<1>2. AccessInv /\ [JITNext]_jitVars => AccessInv'
  BY StepAccessTyped, StepInOnePlace, StepDeadlines, StepWatched DEF AccessInv
<1> QED
  BY <1>1, <1>2, PTL DEF JITSpec

-----------------------------------------------------------------------------
(* Theorems *)

\* Every variable keeps its type, and no access is extended more often than its
\* policy allows.
THEOREM AccessTyped == JITSpec => []JITTypeOK
  BY Invariance, PTL DEF AccessInv

\* A request has access, or is about to get it, only while it is approved.
THEOREM ApprovedOnly == JITSpec => []AccessIsApproved
  BY Invariance, PTL DEF AccessInv, InOnePlace

\* While the end of an access lies ahead, a timer or a call will end it by then.
THEOREM AlwaysWatched == JITSpec => []Watched
  BY Invariance, PTL DEF AccessInv

\* Access that was denied or has ended never comes back.
THEOREM NoSecondAccess == JITSpec => EndedStays
<1> DEFINE Stays == \A r \in Requests : Ended(r) => Ended(r)'
<1>1. AccessInv /\ [JITNext]_jitVars => [Stays]_jitVars
  <2> SUFFICES ASSUME AccessInv, JITNext PROVE Stays
    BY DEF jitVars
  <2> USE DEF AccessInv, JITTypeOK, Ended, grantVars
  <2>1. CASE Tick \/ BeginCleanup
    BY <2>1 DEF Tick, BeginCleanup
  <2>2. ASSUME NEW r \in Requests, RequestAccess(r) \/ ApproveAccess(r) \/ DenyAccess(r)
        PROVE  Stays
    BY <2>2 DEF RequestAccess, ApproveAccess, DenyAccess, Undecided
  <2>3. ASSUME NEW r \in Requests, Turn(r) PROVE Stays
    BY <2>3 DEF Turn, Grant, ScheduleRevocation
  <2>4. ASSUME NEW r \in Requests, NEW d \in Extensions, ExtendAccess(r, d)
        PROVE  Stays
    BY <2>4 DEF ExtendAccess
  <2>5. ASSUME NEW t \in timers, TimerFires(t) PROVE Stays
    BY <2>5 DEF TimerFires
  <2>6. ASSUME NEW r \in Requests, RevokeAccess(r) \/ UpdateRevoked(r) PROVE Stays
    BY <2>6 DEF RevokeAccess, UpdateRevoked
  <2>7. ASSUME NEW S \in SUBSET Requests, Cleanup(S) PROVE Stays
    BY <2>7 DEF Cleanup, Old
  <2> QED
    BY <2>1, <2>2, <2>3, <2>4, <2>5, <2>6, <2>7 DEF JITNext
<1> QED
  BY <1>1, Invariance, PTL DEF JITSpec, EndedStays

\* Whoever is not revoked keeps the access for the time that was approved.
THEOREM ApprovedTimeLasts == JITSpec => NotCutShort
<1> DEFINE Lasts == \A r \in active \ active' : r \in revoking' \/ granted[r] <= now
<1>1. AccessInv /\ [JITNext]_jitVars => [Lasts]_jitVars
  <2> SUFFICES ASSUME AccessInv, JITNext PROVE Lasts
    BY DEF jitVars
  <2> USE DEF AccessInv, JITTypeOK, Deadlines, grantVars
  <2>1. ASSUME NEW r \in Requests, RevokeAccess(r) PROVE Lasts
    BY <2>1 DEF RevokeAccess
  <2>2. ASSUME NEW t \in timers, TimerFires(t) PROVE Lasts
    BY <2>2 DEF TimerFires, Due
  <2>3. ASSUME NEW S \in SUBSET Requests, Cleanup(S) PROVE Lasts
    BY <2>3 DEF Cleanup, Overdue
  <2>4. ASSUME active \subseteq active' PROVE Lasts
    BY <2>4
  <2> QED
    BY <2>1, <2>2, <2>3, <2>4
    DEF JITNext, Turn, Tick, BeginCleanup, RequestAccess, ApproveAccess, DenyAccess,
        Grant, ScheduleRevocation, ExtendAccess, UpdateRevoked
<1> QED
  BY <1>1, Invariance, PTL DEF JITSpec, NotCutShort
=============================================================================
