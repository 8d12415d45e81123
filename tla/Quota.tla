--------------------------------- MODULE Quota ---------------------------------
(***************************************************************************)
(* The quota manager (internal/quota/manager.go) and one resource that     *)
(* several quotas limit.  Consume checks under the read lock and adds      *)
(* under the write lock, and between the two other calls are served.       *)
(***************************************************************************)
EXTENDS Naturals, FiniteSets, FiniteSetsExt

CONSTANTS
  Quotas,
  Limit,      \* the hard limit of each quota
  Consumers,
  Covers,     \* the quotas whose scope a consumer is in
  MaxAmount   \* bound on what one call asks for

\* No call asks for more than a quota may hold.
ASSUME QuotaAssumption ==
  /\ IsFiniteSet(Consumers) /\ MaxAmount \in Nat /\ Limit \in [Quotas -> Nat]
  /\ \A q \in Quotas : MaxAmount <= Limit[q]
  /\ Covers \in [Consumers -> SUBSET Quotas]

VARIABLES
  registered,
  usage,
  enforcing,  \* the mode: enforce, or else warn
  pending,    \* what a consumer whose check passed will add, 0 if there is none
  warned      \* history: a check passed in another mode than enforce

quotaVars == <<registered, usage, enforcing, pending, warned>>

QuotaInit ==
  /\ registered \in SUBSET Quotas
  /\ usage = [q \in Quotas |-> 0]
  /\ enforcing \in BOOLEAN /\ warned = FALSE
  /\ pending = [c \in Consumers |-> 0]

Applicable(c) == Covers[c] \cap registered

\* Mutant: what is asked for does not count, only what is used.
FitsBefore(c, n) == \A q \in Applicable(c) : usage[q] <= Limit[q]

Fits(c, n) == \A q \in Applicable(c) : usage[q] + n <= Limit[q]

\* The bound on the usage in the mode that only warns.
Bounded == \A q \in Quotas : usage[q] <= 2 * Limit[q]

Check(c, n) ==
  /\ pending[c] = 0 /\ (Fits(c, n) \/ (~enforcing /\ Bounded))
  /\ pending' = [pending EXCEPT ![c] = n]
  /\ warned' = (warned \/ ~enforcing)
  /\ UNCHANGED <<registered, usage, enforcing>>

\* The quotas that apply now, which may be others than at the check.
Consume(c) ==
  /\ pending[c] > 0
  /\ usage' = [q \in Quotas |-> usage[q] + IF q \in Applicable(c) THEN pending[c] ELSE 0]
  /\ pending' = [pending EXCEPT ![c] = 0]
  /\ UNCHANGED <<registered, enforcing, warned>>

\* It is not looked at whether the caller consumed it.
ReleaseQuota(c, n) ==
  /\ usage' = [q \in Quotas |->
                IF q \notin Applicable(c) THEN usage[q]
                ELSE IF usage[q] < n THEN 0 ELSE usage[q] - n]
  /\ UNCHANGED <<registered, enforcing, pending, warned>>

\* A quota that is registered again loses its usage.
RegisterQuota(q) ==
  /\ registered' = registered \cup {q} /\ usage' = [usage EXCEPT ![q] = 0]
  /\ UNCHANGED <<enforcing, pending, warned>>

UnregisterQuota(q) ==
  /\ q \in registered
  /\ registered' = registered \ {q} /\ usage' = [usage EXCEPT ![q] = 0]
  /\ UNCHANGED <<enforcing, pending, warned>>

ResetUsage(q) ==
  /\ q \in registered /\ usage' = [usage EXCEPT ![q] = 0]
  /\ UNCHANGED <<registered, enforcing, pending, warned>>

SetEnforcementMode ==
  /\ enforcing' = ~enforcing
  /\ UNCHANGED <<registered, usage, pending, warned>>

QuotaNext ==
  \/ \E c \in Consumers : Consume(c) \/ \E n \in 1..MaxAmount : Check(c, n) \/ ReleaseQuota(c, n)
  \/ \E q \in Quotas : RegisterQuota(q) \/ UnregisterQuota(q) \/ ResetUsage(q)
  \/ SetEnforcementMode

QuotaSpec == QuotaInit /\ [][QuotaNext]_quotaVars

-----------------------------------------------------------------------------
(* Properties *)

QuotaTypeOK ==
  /\ registered \subseteq Quotas /\ usage \in [Quotas -> Nat]
  /\ enforcing \in BOOLEAN /\ warned \in BOOLEAN
  /\ pending \in [Consumers -> 0..MaxAmount]

\* What a quota counts, and what the checks that passed will add to it, exceeds
\* its limit by no more than one call of each other consumer: checks overtake
\* one another, but no consumer overtakes twice.
Overshoot ==
  ~warned => \A q \in Quotas :
    LET Users == {c \in Consumers : q \in Covers[c]} IN
    Users /= {} => usage[q] + MapThenSumSet(LAMBDA c : pending[c], Users)
                     <= Limit[q] + (Cardinality(Users) - 1) * MaxAmount
=============================================================================
