------------------------ MODULE EnvironmentComposition ------------------------
(***************************************************************************)
(* Environments that inherit from each other                               *)
(* (internal/environment/composition.go): Resolve reads the bases in order *)
(* and descends into them, merges each when it is resolved, looks up the   *)
(* environment's components and puts its own values and then its overrides *)
(* last.  One key of the configuration stands for all.                     *)
(***************************************************************************)
EXTENDS Naturals, FiniteSets, SequencesExt

CONSTANTS
  Environments,
  Specs,         \* what the environments may be made of, see CompositionInit
  MaxResolved,   \* bound on the calls of Resolve that return
  Nothing

ASSUME CompositionAssumption ==
  /\ IsFiniteSet(Environments) /\ Nothing \notin Environments /\ MaxResolved \in Nat
  /\ \A s \in Specs : \A e \in Environments : ToSet(s[e].inherits) \subseteq Environments

VARIABLES
  spec,      \* each environment
  stack,     \* the calls of Resolve, the innermost last
  result,    \* what the last call returned
  returned,  \* the number of calls that returned
  validated  \* the last environment that passed the validation, until one fails it

compositionVars == <<spec, stack, result, returned, validated>>

NoResult == [of |-> Nothing, key |-> Nothing, error |-> "none", at |-> Nothing]

\* The caller of Resolve passes an environment; its bases are read from the backend,
\* as environments or as maps, of which only the inheritance and the own values are
\* taken.
Frame(e, whole) == [of |-> e, whole |-> whole, left |-> spec[e].inherits, key |-> Nothing]

\* An environment has its bases, may be stored as a map, may set the key itself or
\* override it, and may have an enabled component that nobody registered.
CompositionInit ==
  /\ spec \in Specs
  /\ stack = <<>> /\ result = NoResult /\ returned = 0
  /\ validated = Nothing

\* The walk of ValidateInheritance through bases, so many levels deep, were it not to
\* stop at a name it has seen.
Walk(e, levels) ==
  LET W[bases \in Seq(Environments), n \in 0..levels] ==
        IF n = 0 \/ bases = <<>> THEN <<>>
        ELSE <<Head(bases)>> \o W[spec[Head(bases)].inherits, n - 1] \o W[Tail(bases), n] IN
    W[<<e>>, levels]

\* A path that is longer than there are names repeats one.
Depth == Cardinality(Environments) + 1


NeverTwice(names) == IsInjective(names)

\* Any environment on the way may turn out not to be readable.
ValidateInheritance(e) ==
  /\ stack = <<>>
  /\ \E readable \in BOOLEAN :
       validated' = IF readable /\ NeverTwice(Walk(e, Depth)) THEN e ELSE Nothing
  /\ UNCHANGED <<spec, stack, result, returned>>

BeginResolve(e) ==
  /\ stack = <<>> /\ returned < MaxResolved
  /\ stack' = <<Frame(e, TRUE)>>
  /\ UNCHANGED <<spec, result, returned, validated>>

Top == Last(stack)

Answer(key, error, at) ==
  /\ stack' = <<>> /\ returned' = returned + 1
  /\ result' = [of |-> stack[1].of, key |-> key, error |-> error, at |-> at]

\* The next base is read.  The stack of a resolution that meets a cycle grows until
\* the process ends; here it grows to one call more than there are names.
Descend ==
  /\ stack /= <<>> /\ Top.left /= <<>> /\ Len(stack) < Depth
  /\ LET base == Head(Top.left) IN
       \/ /\ stack' = Append([stack EXCEPT ![Len(stack)].left = Tail(@)],
                              Frame(base, ~spec[base].mapped))
          /\ UNCHANGED <<result, returned>>
       \/ Answer(Nothing, "base", base)
  /\ UNCHANGED <<spec, validated>>

Merged(mine, base) == IF mine = Nothing THEN base ELSE mine

\* The value of an environment that inherited one.
Value(e, whole, inherited) ==
  IF whole /\ spec[e].overrides THEN [of |-> e, override |-> TRUE]
  ELSE IF spec[e].owns THEN [of |-> e, override |-> FALSE] ELSE inherited

\* Its components are looked up, and its value goes over what its bases gave it.
Ends ==
  LET e == Top.of
      key == Value(e, Top.whole, Top.key)
      rest == Front(stack) IN
    /\ stack /= <<>> /\ Top.left = <<>>
    /\ IF Top.whole /\ spec[e].unregistered THEN Answer(Nothing, "component", e)
       ELSE IF rest = <<>> THEN Answer(key, "none", Nothing)
       ELSE /\ stack' = [rest EXCEPT ![Len(rest)].key = Merged(@, key)]
            /\ UNCHANGED <<result, returned>>
    /\ UNCHANGED <<spec, validated>>

CompositionNext ==
  \/ \E e \in Environments : ValidateInheritance(e) \/ BeginResolve(e)
  \/ Descend \/ Ends

\* A call goes on by itself.
CompositionSpec ==
  /\ CompositionInit /\ [][CompositionNext]_compositionVars
  /\ WF_compositionVars(Descend) /\ WF_compositionVars(Ends)

-----------------------------------------------------------------------------
(* Properties *)

\* Of the environments that a walk from e passes, itself before its bases and these
\* in order, only e is certain to be whole.
WholeAt(walk, i) == i = 1 \/ ~spec[walk[i]].mapped

\* The value of the first of them that sets the key, by an override that was not lost
\* or of its own.
Nearest(e) ==
  LET walk == Walk(e, Depth)
      setters == {i \in 1..Len(walk) : Value(walk[i], WholeAt(walk, i), Nothing) /= Nothing} IN
    IF setters = {} THEN Nothing
    ELSE LET i == Min(setters) IN Value(walk[i], WholeAt(walk, i), Nothing)

\* What a call that gives an error says of it: a base of the walk could not be read,
\* or one that was read whole has the component.
Caused(e, error, at) ==
  \E i \in 1..Len(Walk(e, Depth)) :
    LET walk == Walk(e, Depth) IN
      /\ walk[i] = at
      /\ \/ error = "base" /\ i > 1
         \/ error = "component" /\ WholeAt(walk, i) /\ spec[at].unregistered

\* A call without an error passed no component that it had to find and could not.
Complete(e) ==
  LET walk == Walk(e, Depth) IN
    \A i \in 1..Len(walk) : WholeAt(walk, i) => ~spec[walk[i]].unregistered

\* Nothing that e inherits from, near or far, is a base of its own: the walk does not
\* get longer the deeper it goes.
Acyclic(e) == Walk(e, Depth) = Walk(e, Depth - 1)

=============================================================================
