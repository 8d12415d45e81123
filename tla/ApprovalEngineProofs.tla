------------------------- MODULE ApprovalEngineProofs -------------------------
(***************************************************************************)
(* The approval gate holds for every set of definitions, executions, users *)
(* and roles: the goroutine that decides on stale counts never lets an     *)
(* execution pass with too few different approvers.                        *)
(***************************************************************************)
EXTENDS ApprovalEngine, SequenceTheorems, FiniteSetTheorems, TLAPS

\* The shape of the data, and the agreement of status, place and definition.
Shape ==
  /\ workflows \in [WorkflowNames -> Definitions \cup {None}]
  /\ approvals \in [Execs -> Seq(Response)]
  /\ wf \in [Execs -> Definitions \cup {None}]
  /\ checked \in [Execs -> Nat]
  /\ missed \subseteq Execs
  /\ seen \in [Execs -> {"few", "enough", "rejected"}]
  /\ pc \in [Execs -> Places] /\ status \in [Execs -> Statuses]

Agree == \A x \in Execs : /\ status[x] \in StatusAt[pc[x]]
                          /\ pc[x] # "none" => wf[x] # None

LEMMA TypeParts == TypeOK <=> Shape /\ Agree
  BY DEF TypeOK, Shape, Agree

LEMMA InitTypeOK == Init => TypeOK
<1> SUFFICES ASSUME Init PROVE Shape /\ Agree
  BY TypeParts
<1>1. Shape
  BY EmptySeq DEF Init, Shape, Places, Statuses
<1>2. Agree
  BY DEF Init, Agree, StatusAt
<1> QED
  BY <1>1, <1>2

\* A step of runExecution to a place that allows the status it leaves.
LEMMA MoveType ==
  ASSUME Shape, Agree, NEW x \in Execs, NEW p \in Places \ {"none"},
         NEW s \in StatusAt[p], s \in Statuses, Move(x, p, s),
         wf[x] # None, wf' = wf
  PROVE  /\ pc' \in [Execs -> Places] /\ status' \in [Execs -> Statuses]
         /\ Agree'
  BY DEF Shape, Agree, Move

LEMMA StepTypeOK == TypeOK /\ [Next]_vars => TypeOK'
<1> SUFFICES ASSUME Shape, Agree, [Next]_vars PROVE Shape' /\ Agree'
  BY DEF TypeOK, Shape, Agree
<1> USE DEF Terminal
<1>1. ASSUME NEW n \in WorkflowNames, NEW d \in Definitions, RegisterWorkflow(n, d)
      PROVE  Shape' /\ Agree'
  BY <1>1 DEF RegisterWorkflow, Shape, Agree
<1>2. ASSUME NEW x \in Execs, NEW n \in WorkflowNames, StartExecution(x, n)
      PROVE  Shape' /\ Agree'
  <2>1. workflows[n] \in Definitions
    BY <1>2 DEF StartExecution, Shape
  <2>2. Shape'
    BY <1>2, <2>1 DEF StartExecution, Shape, Places, Statuses
  <2>3. Agree'
    BY <1>2, <2>1, NoneAssumption DEF StartExecution, Shape, Agree, StatusAt
  <2> QED
    BY <2>2, <2>3
<1>3. ASSUME NEW x \in Execs, CheckWindow(x) PROVE Shape' /\ Agree'
  <2>1. wf[x] # None
    BY <1>3 DEF CheckWindow, Agree
  <2>2. \E p \in Places \ {"none"} : \E s \in StatusAt[p] : s \in Statuses /\ Move(x, p, s)
    BY <1>3 DEF CheckWindow, StatusAt, Places, Statuses
  <2> QED
    BY <1>3, <2>1, <2>2, MoveType DEF CheckWindow, Shape
<1>4. ASSUME NEW x \in Execs, NEW f \in BOOLEAN, CheckCondition(x, f)
      PROVE  Shape' /\ Agree'
  BY <1>4 DEF CheckCondition, Shape, Agree
<1>5. ASSUME NEW x \in Execs, ConditionsDone(x) PROVE Shape' /\ Agree'
  <2>1. wf[x] # None
    BY <1>5 DEF ConditionsDone, MayProceed, Agree
  <2>2. status[x] = "conditions"
    BY <1>5 DEF ConditionsDone, MayProceed, Agree, StatusAt
  <2>3. \E p \in Places \ {"none"} : \E s \in StatusAt[p] : s \in Statuses /\ Move(x, p, s)
    BY <1>5, <2>2 DEF ConditionsDone, MayProceed, StatusAt, Places, Statuses
  <2> QED
    BY <1>5, <2>1, <2>3, MoveType DEF ConditionsDone, MayProceed, Shape
<1>6. ASSUME NEW x \in Execs, Tick(x) PROVE Shape' /\ Agree'
  <2>1. wf[x] # None
    BY <1>6 DEF Tick, Agree
  <2>2. status[x] \in {"awaiting", "rejected"}
    BY <1>6 DEF Tick, Agree, StatusAt
  <2>3. Move(x, "decide", status[x])
    BY <1>6 DEF Tick
  <2>4. "decide" \in Places \ {"none"} /\ status[x] \in StatusAt["decide"] \cap Statuses
    BY <2>2 DEF StatusAt, Places, Statuses
  <2>5. pc' \in [Execs -> Places] /\ status' \in [Execs -> Statuses] /\ Agree'
    BY <1>6, <2>1, <2>3, <2>4, MoveType DEF Tick
  <2>6. Scan(x) \in {"few", "enough", "rejected"}
    BY DEF Scan
  <2> QED
    BY <1>6, <2>5, <2>6 DEF Tick, Shape
<1>7. ASSUME NEW x \in Execs, Decide(x) PROVE Shape' /\ Agree'
  <2>1. wf[x] # None
    BY <1>7 DEF Decide, Agree
  <2>2. \E p \in Places \ {"none"} : \E s \in StatusAt[p] : s \in Statuses /\ Move(x, p, s)
    BY <1>7 DEF Decide, StatusAt, Places, Statuses
  <2> QED
    BY <1>7, <2>1, <2>2, MoveType DEF Decide, Shape
<1>8. ASSUME NEW x \in Execs, WaitExpires(x) \/ CheckRejected(x)
      PROVE  Shape' /\ Agree'
  <2>1. wf[x] # None
    BY <1>8 DEF WaitExpires, MayExpire, CheckRejected, Agree
  <2>2. status[x] \in {"awaiting", "rejected"}
    BY <1>8 DEF WaitExpires, MayExpire, CheckRejected, Agree, StatusAt
  <2>3. \E p \in Places \ {"none"} : \E s \in StatusAt[p] : s \in Statuses /\ Move(x, p, s)
    BY <1>8, <2>2 DEF WaitExpires, CheckRejected, StatusAt, Places, Statuses
  <2> QED
    BY <1>8, <2>1, <2>3, MoveType DEF WaitExpires, CheckRejected, Shape
<1>9. ASSUME NEW x \in Execs, StampTimedOut(x) \/ Execute(x) \/ Complete(x)
      PROVE  Shape' /\ Agree'
  <2>1. wf[x] # None
    BY <1>9 DEF StampTimedOut, Execute, Complete, Agree
  <2>2. \E p \in Places \ {"none"} : \E s \in StatusAt[p] : s \in Statuses /\ Move(x, p, s)
    BY <1>9 DEF StampTimedOut, Execute, Complete, StatusAt, Places, Statuses
  <2> QED
    BY <1>9, <2>1, <2>2, MoveType DEF StampTimedOut, Execute, Complete, Shape
<1>10. ASSUME NEW x \in Execs, NEW u \in Users, NEW r \in Roles, Approve(x, u, r)
       PROVE  Shape' /\ Agree'
  <2>1. [user |-> u, role |-> r, decision |-> "approved"] \in Response
    BY DEF Response
  <2>2. approvals' \in [Execs -> Seq(Response)]
    BY <1>10, <2>1, AppendProperties DEF Approve, Shape
  <2> QED
    BY <1>10, <2>2 DEF Approve, Shape, Agree
<1>11. ASSUME NEW x \in Execs, NEW u \in Users, NEW r \in Roles, Reject(x, u, r)
       PROVE  Shape' /\ Agree'
  <2>1. [user |-> u, role |-> r, decision |-> "rejected"] \in Response
    BY DEF Response
  <2>2. approvals' \in [Execs -> Seq(Response)]
    BY <1>11, <2>1, AppendProperties DEF Reject, Shape
  <2>3. Shape'
    BY <1>11, <2>2 DEF Reject, Shape, Statuses
  <2>4. pc[x] \in {"waiting", "decide", "expired", "stamp"}
    <3>1. "awaiting" \in StatusAt[pc[x]] /\ pc[x] \in Places
      BY <1>11 DEF Reject, Awaiting, Shape, Agree
    <3> QED
      BY <3>1 DEF StatusAt, Places
  <2>5. Agree'
    BY <1>11, <2>4 DEF Reject, Shape, Agree, StatusAt
  <2> QED
    BY <2>3, <2>5
<1>12. CASE UNCHANGED vars
  BY <1>12 DEF vars, Shape, Agree
<1> QED
  BY <1>1, <1>2, <1>3, <1>4, <1>5, <1>6, <1>7, <1>8, <1>9, <1>10, <1>11, <1>12
     DEF Next, RunStep

\* The status an execution shows is always one that its goroutine's place
\* allows, whatever users answer while it runs.
THEOREM Typed == Spec => []TypeOK
  BY InitTypeOK, StepTypeOK, PTL DEF Spec

-----------------------------------------------------------------------------
(* Terminal statuses *)

\* When runExecution has returned, no response changes the record any more.
THEOREM FinalStatus == Spec => TerminalStays
<1>1. TypeOK /\ [Next]_vars =>
        [\A x \in Execs : pc[x] = "returned" =>
           status'[x] = status[x] /\ approvals'[x] = approvals[x]]_vars
  <2> SUFFICES ASSUME Shape, Agree, Next, NEW x \in Execs, pc[x] = "returned"
               PROVE  status'[x] = status[x] /\ approvals'[x] = approvals[x]
    BY DEF TypeOK, Shape, Agree
  <2>1. status[x] \notin {"none", "awaiting"}
    BY DEF Agree, StatusAt, Terminal
  <2>2. ASSUME NEW y \in Execs, NEW p, NEW st, Move(y, p, st), pc[y] # "returned"
        PROVE  status'[x] = status[x]
    BY <2>2 DEF Move, Shape
  <2>3. ASSUME NEW y \in Execs, RunStep(y) \/ WaitExpires(y)
        PROVE  status'[x] = status[x] /\ approvals'[x] = approvals[x]
    <3>1. approvals' = approvals
      BY <2>3 DEF RunStep, CheckWindow, CheckCondition, ConditionsDone, Tick, Decide,
        CheckRejected, StampTimedOut, Execute, Complete, WaitExpires
    <3>2. \/ pc[y] # "returned" /\ \E p, st : Move(y, p, st)
          \/ status' = status
      BY <2>3 DEF RunStep, CheckWindow, CheckCondition, ConditionsDone, Tick, Decide,
        CheckRejected, StampTimedOut, Execute, Complete, WaitExpires, MayExpire
    <3> QED
      BY <2>2, <3>1, <3>2
  <2>4. ASSUME NEW y \in Execs, NEW n \in WorkflowNames, StartExecution(y, n)
        PROVE  status'[x] = status[x] /\ approvals'[x] = approvals[x]
    BY <2>1, <2>4 DEF StartExecution, Shape
  <2>5. ASSUME NEW y \in Execs, NEW u \in Users, NEW r \in Roles,
               Approve(y, u, r) \/ Reject(y, u, r)
        PROVE  status'[x] = status[x] /\ approvals'[x] = approvals[x]
    <3>1. y # x
      BY <2>1, <2>5 DEF Approve, Reject, Awaiting
    <3> QED
      BY <2>5, <3>1 DEF Approve, Reject, Shape
  <2>6. ASSUME NEW n \in WorkflowNames, NEW d \in Definitions, RegisterWorkflow(n, d)
        PROVE  status'[x] = status[x] /\ approvals'[x] = approvals[x]
    BY <2>6 DEF RegisterWorkflow
  <2> QED
    BY <2>3, <2>4, <2>5, <2>6 DEF Next
<1> QED
  BY <1>1, Typed, PTL DEF Spec, TerminalStays

-----------------------------------------------------------------------------
(* Approvers *)

\* What an append does to the records of an execution.
LEMMA AppendRecords ==
  ASSUME Shape, NEW x \in Execs, NEW e \in Response,
         approvals' = [approvals EXCEPT ![x] = Append(@, e)]
  PROVE  /\ \A y \in Execs \ {x} : approvals'[y] = approvals[y]
         /\ DOMAIN approvals'[x] = DOMAIN approvals[x] \cup {Len(approvals[x]) + 1}
         /\ \A i \in DOMAIN approvals[x] : approvals'[x][i] = approvals[x][i]
         /\ approvals'[x][Len(approvals[x]) + 1] = e
         /\ Len(approvals[x]) + 1 \notin DOMAIN approvals[x]
<1>1. approvals[x] \in Seq(Response) /\ approvals'[x] = Append(approvals[x], e)
  BY DEF Shape
<1>2. Len(approvals[x]) \in Nat /\ DOMAIN approvals[x] = 1 .. Len(approvals[x])
  BY <1>1, LenProperties
<1>3. Append(approvals[x], e) \in Seq(Response)
  BY <1>1, AppendProperties
<1>4. Len(Append(approvals[x], e)) = Len(approvals[x]) + 1
  BY <1>1, AppendProperties
<1>5. DOMAIN Append(approvals[x], e) = 1 .. Len(approvals[x]) + 1
  BY <1>3, <1>4, LenProperties
<1>6. /\ \A i \in 1 .. Len(approvals[x]) : Append(approvals[x], e)[i] = approvals[x][i]
      /\ Append(approvals[x], e)[Len(approvals[x]) + 1] = e
  BY <1>1, AppendProperties
<1>7. \A y \in Execs \ {x} : approvals'[y] = approvals[y]
  BY DEF Shape
<1> QED
  BY <1>1, <1>2, <1>5, <1>6, <1>7

\* Records are a finite set.
LEMMA RecordsFinite ==
  ASSUME Shape, NEW x \in Execs, NEW d
  PROVE  IsFiniteSet(Records(x, d)) /\ Cardinality(Records(x, d)) \in Nat
<1>1. Len(approvals[x]) \in Nat /\ DOMAIN approvals[x] = 1 .. Len(approvals[x])
  BY LenProperties DEF Shape
<1>2. IsFiniteSet(1 .. Len(approvals[x]))
  BY <1>1, FS_Interval
<1>3. Records(x, d) \in SUBSET (1 .. Len(approvals[x]))
  BY <1>1 DEF Records
<1>4. IsFiniteSet(Records(x, d))
  BY <1>2, <1>3, FS_Subset
<1> QED
  BY <1>4, FS_CardinalityType

\* Distinct users: counting records is counting approvers.
LEMMA RecordsAreApprovers ==
  ASSUME Shape, NEW x \in Execs,
         \A i, j \in Records(x, "approved") :
           approvals[x][i].user = approvals[x][j].user => i = j
  PROVE  Cardinality({approvals[x][i].user : i \in Records(x, "approved")})
           = Cardinality(Records(x, "approved"))
<1> DEFINE S == Records(x, "approved")
           T == {approvals[x][i].user : i \in S}
           f == [i \in S |-> approvals[x][i].user]
<1>1. f \in Surjection(S, T)
  BY DEF Surjection
<1>2. f \in Injection(S, T)
  BY <1>1 DEF Injection, IsInjective, Surjection
<1>3. IsFiniteSet(S)
  BY RecordsFinite
<1>4. Cardinality(T) = Cardinality(S)
  <2> HIDE DEF S, T, f
  <2> QED
    BY <1>1, <1>2, <1>3, FS_Surjection
<1> QED
  BY <1>4

\* An append keeps the count, and a new user keeps the approvers different.
LEMMA AppendKeeps ==
  ASSUME Shape, Shape', NEW x \in Execs, NEW e \in Response,
         approvals' = [approvals EXCEPT ![x] = Append(@, e)]
  PROVE  Cardinality(Records(x, "approved")) <= Cardinality(Records(x, "approved")')
<1>1. Records(x, "approved") \subseteq Records(x, "approved")'
  BY AppendRecords DEF Records
<1>2. IsFiniteSet(Records(x, "approved")')
  <2>1. approvals'[x] \in Seq(Response)
    BY DEF Shape
  <2>2. Len(approvals'[x]) \in Nat /\ DOMAIN approvals'[x] = 1 .. Len(approvals'[x])
    BY <2>1, LenProperties
  <2>3. IsFiniteSet(1 .. Len(approvals'[x]))
    BY <2>2, FS_Interval
  <2>4. Records(x, "approved")' \in SUBSET (1 .. Len(approvals'[x]))
    BY <2>2 DEF Records
  <2> QED
    BY <2>3, <2>4, FS_Subset
<1> QED
  BY <1>1, <1>2, FS_Subset

\* The approved records are of different users; a goroutine that counted enough
\* of them is still right whatever was appended since; and it gets past the
\* approval step only with such a count or when none is required.
Counted(x) ==
  /\ \A i, j \in Records(x, "approved") :
       approvals[x][i].user = approvals[x][j].user => i = j
  /\ pc[x] = "none" => seen[x] = "few"
  /\ seen[x] = "enough" => Cardinality(Records(x, "approved")) >= wf[x].required
  /\ pc[x] \in {"execute", "complete"} \/ Past(x) =>
       seen[x] = "enough" \/ wf[x].required = 0

\* A step of one execution leaves the others as they are.
Others(x) ==
  \A y \in Execs \ {x} :
    /\ status'[y] = status[y] /\ approvals'[y] = approvals[y] /\ wf'[y] = wf[y]
    /\ pc'[y] = pc[y] /\ seen'[y] = seen[y]
    /\ checked'[y] = checked[y] /\ (y \in missed' <=> y \in missed)

LEMMA SameCounted ==
  ASSUME NEW y \in Execs, Counted(y),
         status'[y] = status[y], approvals'[y] = approvals[y],
         wf'[y] = wf[y], pc'[y] = pc[y], seen'[y] = seen[y]
  PROVE  Counted(y)'
<1>1. Records(y, "approved")' = Records(y, "approved")
  BY DEF Records
<1>2. Past(y)' <=> Past(y)
  BY DEF Past
<1> QED
  BY <1>1, <1>2 DEF Counted

LEMMA OthersCounted ==
  ASSUME NEW x \in Execs, Others(x), NEW y \in Execs \ {x}, Counted(y)
  PROVE  Counted(y)'
  BY SameCounted DEF Others

\* Every action but a registration is a step of one execution.
LEMMA OneStep ==
  ASSUME Shape, NEW x \in Execs,
         \/ \E n \in WorkflowNames : StartExecution(x, n)
         \/ RunStep(x) \/ WaitExpires(x)
         \/ \E u \in Users, r \in Roles : Approve(x, u, r) \/ Reject(x, u, r)
  PROVE  Others(x)
<1> USE DEF Others, Shape
<1>1. CASE \E n \in WorkflowNames : StartExecution(x, n)
  BY <1>1 DEF StartExecution
<1>2. CASE CheckWindow(x) \/ ConditionsDone(x)
  BY <1>2 DEF CheckWindow, ConditionsDone, Move
<1>3. CASE \E f \in BOOLEAN : CheckCondition(x, f)
  BY <1>3 DEF CheckCondition
<1>4. CASE Tick(x) \/ Decide(x) \/ WaitExpires(x)
  BY <1>4 DEF Tick, Decide, WaitExpires, Move
<1>5. CASE CheckRejected(x) \/ StampTimedOut(x) \/ Execute(x) \/ Complete(x)
  BY <1>5 DEF CheckRejected, StampTimedOut, Execute, Complete, Move
<1>6. CASE \E u \in Users, r \in Roles : Approve(x, u, r) \/ Reject(x, u, r)
  BY <1>6 DEF Approve, Reject
<1> QED
  BY <1>1, <1>2, <1>3, <1>4, <1>5, <1>6 DEF RunStep

\* The execution that takes the step stays counted.
LEMMA StepCounted ==
  ASSUME Shape, Shape', Agree, NEW x \in Execs, Counted(x),
         \/ \E n \in WorkflowNames : StartExecution(x, n)
         \/ RunStep(x) \/ WaitExpires(x)
         \/ \E u \in Users, r \in Roles : Approve(x, u, r) \/ Reject(x, u, r)
  PROVE  Counted(x)'
<1>0. Records(x, "approved")' = Records(x, "approved") \/ approvals' # approvals
  BY DEF Records
<1>1. ASSUME NEW n \in WorkflowNames, StartExecution(x, n) PROVE Counted(x)'
  <2>1. pc[x] = "none"
    <3>1. "none" \in StatusAt[pc[x]] /\ pc[x] \in Places
      BY <1>1 DEF StartExecution, Agree, Shape
    <3> QED
      BY <3>1 DEF StatusAt, Places, Terminal
  <2>2. seen'[x] = "few" /\ pc'[x] = "window" /\ status'[x] = "pending" /\ approvals' = approvals
    BY <1>1, <2>1 DEF StartExecution, Shape, Counted
  <2> QED
    BY <1>0, <2>2 DEF Counted, Past
<1>2. ASSUME CheckWindow(x) \/ (\E f \in BOOLEAN : CheckCondition(x, f)) \/ ConditionsDone(x)
      PROVE  Counted(x)'
  <2>1. approvals' = approvals /\ wf' = wf /\ seen' = seen
    BY <1>2 DEF CheckWindow, CheckCondition, ConditionsDone
  <2>2. pc[x] \in {"window", "conditions"} /\ status[x] \in {"pending", "conditions"}
    BY <1>2 DEF CheckWindow, CheckCondition, ConditionsDone, Agree, StatusAt
  <2>3. \/ pc'[x] \in {"returned", "conditions", "waiting"}
           /\ status'[x] \in {"blocked", "conditions", "failed", "awaiting"}
        \/ pc'[x] = "execute" /\ wf[x].required = 0
        \/ pc' = pc /\ status' = status
    BY <1>2 DEF CheckWindow, CheckCondition, ConditionsDone, Move, Shape
  <2> QED
    BY <1>0, <2>1, <2>2, <2>3 DEF Counted, Past
<1>3. ASSUME Tick(x) PROVE Counted(x)'
  <2>1. approvals' = approvals /\ wf' = wf /\ seen'[x] = Scan(x) /\ pc'[x] = "decide"
    BY <1>3 DEF Tick, Move, Shape
  <2>2. status'[x] \in {"awaiting", "rejected"}
    BY <1>3 DEF Tick, Move, Agree, Shape, StatusAt
  <2>3. Scan(x) = "enough" => Cardinality(Records(x, "approved")) >= wf[x].required
    BY DEF Scan
  <2> QED
    BY <1>0, <2>1, <2>2, <2>3 DEF Counted, Past
<1>4. ASSUME Decide(x) PROVE Counted(x)'
  <2>1. approvals' = approvals /\ wf' = wf /\ seen' = seen
    BY <1>4 DEF Decide
  <2>2. \/ pc'[x] = "returned" /\ status'[x] = "rejected"
        \/ pc'[x] = "execute" /\ seen[x] = "enough"
    BY <1>4 DEF Decide, Move, Shape
  <2> QED
    BY <1>0, <2>1, <2>2 DEF Counted, Past
<1>5. ASSUME WaitExpires(x) \/ CheckRejected(x) \/ StampTimedOut(x) PROVE Counted(x)'
  <2>1. approvals' = approvals /\ wf' = wf /\ seen' = seen
    BY <1>5 DEF WaitExpires, CheckRejected, StampTimedOut
  <2>2. pc'[x] \in {"expired", "returned", "stamp"}
    BY <1>5 DEF WaitExpires, MayExpire, CheckRejected, StampTimedOut, Move, Shape
  <2>3. status'[x] \in {"awaiting", "rejected", "timed_out"}
    BY <1>5 DEF WaitExpires, MayExpire, CheckRejected, StampTimedOut, Move, Shape, Agree, StatusAt
  <2> QED
    BY <1>0, <2>1, <2>2, <2>3 DEF Counted, Past
<1>6. ASSUME Execute(x) \/ Complete(x) PROVE Counted(x)'
  <2>1. approvals' = approvals /\ wf' = wf /\ seen' = seen
    BY <1>6 DEF Execute, Complete
  <2>2. pc[x] \in {"execute", "complete"} /\ pc'[x] \in {"complete", "returned"}
    BY <1>6 DEF Execute, Complete, Move, Shape
  <2> QED
    BY <1>0, <2>1, <2>2 DEF Counted, Past
<1>7. ASSUME NEW e \in Response, approvals' = [approvals EXCEPT ![x] = Append(@, e)],
             wf' = wf, seen' = seen, pc' = pc,
             status' = status \/ status'[x] = "rejected",
             e.decision = "approved" => ~Responded(x, e.user)
      PROVE  Counted(x)'
  <2>1. \A i, j \in Records(x, "approved")' :
          approvals'[x][i].user = approvals'[x][j].user => i = j
    BY <1>7, AppendRecords DEF Counted, Records, Responded
  <2>2. Cardinality(Records(x, "approved")) <= Cardinality(Records(x, "approved")')
    BY <1>7, AppendKeeps
  <2>3. pc[x] = "none" \/ wf[x] \in Definitions
    BY DEF Agree, Shape
  <2>4. pc[x] = "none" \/ wf[x].required \in Nat
    BY <2>3, DefinitionsAssumption
  <2>5. Cardinality(Records(x, "approved")) \in Nat
    BY RecordsFinite
  <2>6. Cardinality(Records(x, "approved")') \in Nat
    <3>1. Shape' /\ x \in Execs
      OBVIOUS
    <3>2. Len(approvals'[x]) \in Nat /\ DOMAIN approvals'[x] = 1 .. Len(approvals'[x])
      BY LenProperties DEF Shape
    <3>3. IsFiniteSet(1 .. Len(approvals'[x]))
      BY <3>2, FS_Interval
    <3>4. Records(x, "approved")' \in SUBSET (1 .. Len(approvals'[x]))
      BY <3>2 DEF Records
    <3>5. IsFiniteSet(Records(x, "approved")')
      BY <3>3, <3>4, FS_Subset
    <3> QED
      BY <3>5, FS_CardinalityType
  <2>7. seen'[x] = "enough" => Cardinality(Records(x, "approved")') >= wf'[x].required
    <3> DEFINE c == Cardinality(Records(x, "approved"))
               d == Cardinality(Records(x, "approved")')
               n == wf[x].required
    <3>1. seen[x] = "enough" => c >= n /\ pc[x] # "none"
      BY DEF Counted
    <3>2. c \in Nat /\ d \in Nat /\ c <= d /\ (pc[x] = "none" \/ n \in Nat)
      BY <2>2, <2>4, <2>5, <2>6
    <3> HIDE DEF c, d, n
    <3>3. seen[x] = "enough" => d >= n
      BY <3>1, <3>2
    <3> QED
      BY <1>7, <3>3 DEF d, n
  <2>8. Past(x)' => Past(x)
    BY <1>7 DEF Past
  <2> QED
    BY <1>7, <2>1, <2>7, <2>8 DEF Counted
<1>8. ASSUME NEW u \in Users, NEW r \in Roles, Approve(x, u, r) PROVE Counted(x)'
  BY <1>8, <1>7 DEF Approve, Response
<1>9. ASSUME NEW u \in Users, NEW r \in Roles, Reject(x, u, r) PROVE Counted(x)'
  <2>1. status'[x] = "rejected"
    BY <1>9 DEF Reject, Shape
  <2> QED
    BY <1>9, <2>1, <1>7 DEF Reject, Response
<1> QED
  BY <1>1, <1>2, <1>3, <1>4, <1>5, <1>6, <1>8, <1>9 DEF RunStep

LEMMA CountedInvariant == Spec => [](\A x \in Execs : Counted(x))
<1> DEFINE Inv == \A x \in Execs : Counted(x)
<1>1. Init => Inv
  <2> SUFFICES ASSUME Init, NEW x \in Execs PROVE Counted(x)
    OBVIOUS
  <2>1. Records(x, "approved") = {}
    BY DEF Init, Records
  <2> QED
    BY <2>1 DEF Init, Counted, Past
<1>2. TypeOK /\ TypeOK' /\ Inv /\ [Next]_vars => Inv'
  <2> SUFFICES ASSUME Shape, Shape', Agree, Inv, [Next]_vars PROVE Inv'
    BY DEF TypeOK, Shape, Agree
  <2>1. CASE UNCHANGED vars
    BY <2>1, SameCounted DEF vars
  <2>2. ASSUME NEW n \in WorkflowNames, NEW d \in Definitions, RegisterWorkflow(n, d)
        PROVE  Inv'
    BY <2>2, SameCounted DEF RegisterWorkflow
  <2>3. ASSUME NEW x \in Execs,
               \/ \E n \in WorkflowNames : StartExecution(x, n)
               \/ RunStep(x) \/ WaitExpires(x)
               \/ \E u \in Users, r \in Roles : Approve(x, u, r) \/ Reject(x, u, r)
        PROVE  Inv'
    <3>1. Others(x)
      BY <2>3, OneStep
    <3>2. Counted(x)'
      BY <2>3, StepCounted
    <3>3. ASSUME NEW y \in Execs \ {x} PROVE Counted(y)'
      BY <3>1, OthersCounted
    <3> QED
      BY <3>2, <3>3
  <2> QED
    BY <2>1, <2>2, <2>3 DEF Next
<1> QED
  BY <1>1, <1>2, Typed, PTL DEF Spec

\* No execution gets past the approval step without the number of different
\* approvers its definition asks for.
THEOREM ApprovalGate == Spec => []EnoughApprovers
<1>1. TypeOK /\ (\A x \in Execs : Counted(x)) => EnoughApprovers
  <2> SUFFICES ASSUME Shape, Agree, NEW x \in Execs, Counted(x), Past(x)
               PROVE  Cardinality({approvals[x][i].user : i \in Records(x, "approved")})
                        >= wf[x].required
    BY DEF EnoughApprovers, TypeOK, Shape, Agree
  <2>1. Cardinality({approvals[x][i].user : i \in Records(x, "approved")})
          = Cardinality(Records(x, "approved"))
    BY RecordsAreApprovers DEF Counted
  <2>2. Cardinality(Records(x, "approved")) \in Nat
    BY RecordsFinite
  <2>3. Cardinality(Records(x, "approved")) >= wf[x].required
    BY <2>2 DEF Counted
  <2> QED
    BY <2>1, <2>3
<1> QED
  BY <1>1, CountedInvariant, Typed, PTL

-----------------------------------------------------------------------------
(* Gates *)

\* Past the conditions all of them are checked and no required one failed;
\* before, nobody has answered.
Early == {"none", "pending", "blocked", "conditions", "failed"}

Gated(x) ==
  /\ pc[x] \in {"none", "window"} => checked[x] = 0
  /\ pc[x] \in {"none", "window", "conditions"} => approvals[x] = <<>>
  /\ status[x] = "blocked" => checked[x] = 0 /\ approvals[x] = <<>>
  /\ status[x] \notin Early \/ pc[x] = "execute" \/ approvals[x] # <<>> =>
       checked[x] = Len(wf[x].conditions) /\ x \notin missed

LEMMA SameGated ==
  ASSUME NEW y \in Execs, Gated(y),
         status'[y] = status[y], approvals'[y] = approvals[y], wf'[y] = wf[y],
         pc'[y] = pc[y], checked'[y] = checked[y], y \in missed' <=> y \in missed
  PROVE  Gated(y)'
  BY DEF Gated

LEMMA StepGated ==
  ASSUME Shape, Shape', Agree, NEW x \in Execs, Gated(x),
         \/ \E n \in WorkflowNames : StartExecution(x, n)
         \/ RunStep(x) \/ WaitExpires(x)
         \/ \E u \in Users, r \in Roles : Approve(x, u, r) \/ Reject(x, u, r)
  PROVE  Gated(x)'
<1>1. ASSUME NEW n \in WorkflowNames, StartExecution(x, n) PROVE Gated(x)'
  <2>1. pc[x] = "none"
    <3>1. "none" \in StatusAt[pc[x]] /\ pc[x] \in Places
      BY <1>1 DEF StartExecution, Agree, Shape
    <3> QED
      BY <3>1 DEF StatusAt, Places, Terminal
  <2>2. pc'[x] = "window" /\ status'[x] = "pending" /\ approvals' = approvals /\ checked' = checked
    BY <1>1 DEF StartExecution, Shape
  <2> QED
    BY <2>1, <2>2 DEF Gated, Early
<1>2. ASSUME CheckWindow(x) PROVE Gated(x)'
  BY <1>2 DEF CheckWindow, Move, Shape, Gated, Early
<1>3. ASSUME NEW f \in BOOLEAN, CheckCondition(x, f) PROVE Gated(x)'
  <2>1. status[x] = "conditions" /\ approvals[x] = <<>>
    BY <1>3 DEF CheckCondition, Agree, StatusAt, Gated
  <2> QED
    BY <1>3, <2>1 DEF CheckCondition, Gated, Early
<1>4. ASSUME ConditionsDone(x) PROVE Gated(x)'
  <2>1. approvals[x] = <<>> /\ status[x] = "conditions"
    BY <1>4 DEF ConditionsDone, MayProceed, Gated, Agree, StatusAt
  <2>2. checked[x] = Len(wf[x].conditions)
    BY <1>4 DEF ConditionsDone, MayProceed
  <2>3. CASE x \in missed /\ Move(x, "returned", "failed")
    BY <1>4, <2>1, <2>3 DEF ConditionsDone, MayProceed, Move, Shape, Gated, Early
  <2>4. CASE x \notin missed /\ \E p \in {"waiting", "execute"} : \E s : s # "blocked" /\ Move(x, p, s)
    BY <1>4, <2>1, <2>2, <2>4 DEF ConditionsDone, MayProceed, Move, Shape, Gated, Early
  <2> QED
    BY <1>4, <2>1, <2>3, <2>4 DEF ConditionsDone, MayProceed
<1>5. ASSUME Tick(x) \/ Decide(x) \/ WaitExpires(x) \/ CheckRejected(x) \/ StampTimedOut(x)
      PROVE  Gated(x)'
  <2>1. status[x] \in {"awaiting", "rejected"}
    BY <1>5 DEF Tick, Decide, WaitExpires, MayExpire, CheckRejected, StampTimedOut, Agree, StatusAt
  <2>2. checked[x] = Len(wf[x].conditions) /\ x \notin missed
    BY <2>1 DEF Gated, Early
  <2>3. approvals' = approvals /\ wf' = wf /\ checked' = checked /\ missed' = missed
    BY <1>5 DEF Tick, Decide, WaitExpires, CheckRejected, StampTimedOut
  <2>4. pc'[x] \notin {"none", "window", "conditions"} /\ status'[x] # "blocked"
    BY <1>5, <2>1 DEF Tick, Decide, WaitExpires, CheckRejected, StampTimedOut, Move, Shape
  <2> QED
    BY <2>2, <2>3, <2>4 DEF Gated
<1>6. ASSUME Execute(x) \/ Complete(x) PROVE Gated(x)'
  <2>1. checked[x] = Len(wf[x].conditions) /\ x \notin missed
    BY <1>6 DEF Execute, Complete, Agree, StatusAt, Gated, Early
  <2>2. approvals' = approvals /\ wf' = wf /\ checked' = checked /\ missed' = missed
    BY <1>6 DEF Execute, Complete
  <2>3. pc'[x] \notin {"none", "window", "conditions"} /\ status'[x] # "blocked"
    BY <1>6 DEF Execute, Complete, Move, Shape
  <2> QED
    BY <2>1, <2>2, <2>3 DEF Gated
<1>7. ASSUME NEW u \in Users, NEW r \in Roles, Approve(x, u, r) \/ Reject(x, u, r)
      PROVE  Gated(x)'
  <2>1. status[x] = "awaiting"
    BY <1>7 DEF Approve, Reject, Awaiting
  <2>2. checked[x] = Len(wf[x].conditions) /\ x \notin missed
    BY <2>1 DEF Gated, Early
  <2>3. pc[x] \notin {"none", "window", "conditions"}
    BY <2>1 DEF Agree, StatusAt
  <2>4. pc' = pc /\ wf' = wf /\ checked' = checked /\ missed' = missed
    BY <1>7 DEF Approve, Reject
  <2>5. status'[x] # "blocked"
    BY <1>7, <2>1 DEF Approve, Reject, Shape
  <2> QED
    BY <2>2, <2>3, <2>4, <2>5 DEF Gated
<1> QED
  BY <1>1, <1>2, <1>3, <1>4, <1>5, <1>6, <1>7 DEF RunStep

\* A failed required condition, or a closed window, is never followed by an
\* approval or an execution.
THEOREM ConditionGate == Spec => []GatesHold
<1> DEFINE Inv == \A x \in Execs : Gated(x)
<1>1. Init => Inv
  BY DEF Init, Gated, Early
<1>2. TypeOK /\ TypeOK' /\ Inv /\ [Next]_vars => Inv'
  <2> SUFFICES ASSUME Shape, Shape', Agree, Inv, [Next]_vars PROVE Inv'
    BY DEF TypeOK, Shape, Agree
  <2>1. CASE UNCHANGED vars
    BY <2>1, SameGated DEF vars
  <2>2. ASSUME NEW n \in WorkflowNames, NEW d \in Definitions, RegisterWorkflow(n, d)
        PROVE  Inv'
    BY <2>2, SameGated DEF RegisterWorkflow
  <2>3. ASSUME NEW x \in Execs,
               \/ \E n \in WorkflowNames : StartExecution(x, n)
               \/ RunStep(x) \/ WaitExpires(x)
               \/ \E u \in Users, r \in Roles : Approve(x, u, r) \/ Reject(x, u, r)
        PROVE  Inv'
    <3>1. Others(x)
      BY <2>3, OneStep
    <3>2. Gated(x)'
      BY <2>3, StepGated
    <3>3. ASSUME NEW y \in Execs \ {x} PROVE Gated(y)'
      BY <3>1, SameGated DEF Others
    <3> QED
      BY <3>2, <3>3
  <2> QED
    BY <2>1, <2>2, <2>3 DEF Next
<1>3. TypeOK /\ Inv => GatesHold
  <2> SUFFICES ASSUME Shape, Agree, NEW x \in Execs, Gated(x)
               PROVE  /\ Past(x) \/ approvals[x] # <<>> =>
                          \A i \in DOMAIN wf[x].conditions : i <= checked[x] /\ x \notin missed
                      /\ status[x] = "blocked" => checked[x] = 0 /\ approvals[x] = <<>>
    BY DEF GatesHold, TypeOK, Shape, Agree
  <2>1. ASSUME Past(x) \/ approvals[x] # <<>>
        PROVE  \A i \in DOMAIN wf[x].conditions : i <= checked[x] /\ x \notin missed
    <3>1. checked[x] = Len(wf[x].conditions) /\ x \notin missed
      BY <2>1 DEF Past, Gated, Early
    <3>2. pc[x] # "none"
      BY <2>1 DEF Past, Gated, Agree, StatusAt
    <3>3. wf[x].conditions \in Seq(Conditions)
      BY <3>2, DefinitionsAssumption DEF Agree, Shape
    <3>4. DOMAIN wf[x].conditions = 1 .. Len(wf[x].conditions)
      BY <3>3, LenProperties
    <3> QED
      BY <3>1, <3>4
  <2> QED
    BY <2>1 DEF Gated
<1> QED
  BY <1>1, <1>2, <1>3, Typed, PTL DEF Spec
=============================================================================
