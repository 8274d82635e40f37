---------------------------- MODULE IDGenerator ----------------------------
(***************************************************************************)
(* The generator of lease IDs, pkg/server/id_generator.go: one singleton   *)
(* per process, made with member ID 0 and the time when the process        *)
(* starts.  The widths are constants: Era is 2^tsLen milliseconds and      *)
(* PerMilli is 2^cntLen IDs.  The prefix is 0, and so is bit 63.           *)
(*                                                                         *)
(* A process takes the place of another one no earlier than a millisecond  *)
(* after it; the clocks of all replicas agree and do not go back.          *)
(***************************************************************************)
EXTENDS Integers

CONSTANTS
  Replicas,     \* processes that run side by side
  Era, PerMilli,
  MaxTime       \* bound on the clock, in milliseconds

ASSUME GeneratorAssumption ==
  /\ Era \in Nat \ {0} /\ PerMilli \in Nat \ {0} /\ MaxTime \in Nat

VARIABLES
  now,
  suffix,       \* of each replica's generator
  ids,          \* history: the IDs generated by all of them,
  duplicate,    \*   whether one was generated twice, and
  hurried       \*   whether a generator was ever ahead of the clock

genVars == <<now, suffix, ids, duplicate, hurried>>

\* Mutant: the clock is not used.
NewGenerator_NoClock(t) == 0

\* NewGenerator: lowbit(unixMilli, tsLen) << cntLen.
NewGenerator(t) == (t % Era) * PerMilli

\* lowbit(suffix, suffixLen), the ID for a suffix.
ID(s) == s % (Era * PerMilli)

GenInit ==
  /\ now \in 0..MaxTime
  /\ suffix = [r \in Replicas |-> NewGenerator(now)]
  /\ ids = {} /\ duplicate = FALSE /\ hurried = FALSE

Elapse ==
  /\ now < MaxTime
  /\ now' = now + 1
  /\ UNCHANGED <<suffix, ids, duplicate, hurried>>

\* Generator.Next, an atomic addition.
GenNext(r) ==
  /\ suffix' = [suffix EXCEPT ![r] = @ + 1]
  /\ ids' = ids \cup {ID(suffix[r] + 1)}
  /\ duplicate' = (duplicate \/ ID(suffix[r] + 1) \in ids)
  /\ hurried' = (hurried \/ suffix[r] + 1 >= (now + 1) * PerMilli)
  /\ UNCHANGED now

\* The process of a replica ends and another one takes its place.
GenRestart(r) ==
  /\ now < MaxTime
  /\ now' = now + 1
  /\ suffix' = [suffix EXCEPT ![r] = NewGenerator(now + 1)]
  /\ UNCHANGED <<ids, duplicate, hurried>>

GenStep == Elapse \/ \E r \in Replicas : GenNext(r) \/ GenRestart(r)

GenSpec == GenInit /\ [][GenStep]_genVars
-----------------------------------------------------------------------------
GenTypeOK ==
  /\ now \in Nat /\ suffix \in [Replicas -> Nat] /\ ids \subseteq Nat
  /\ duplicate \in BOOLEAN /\ hurried \in BOOLEAN

\* "Next generates a id that is unique", across the processes of a replica too,
\* as long as no generator makes more than PerMilli IDs a millisecond on average
\* and the timestamp does not wrap.
NextIsUnique == ~hurried /\ now < Era => ~duplicate
=============================================================================
