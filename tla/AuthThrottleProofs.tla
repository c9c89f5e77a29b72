------------------------- MODULE AuthThrottleProofs -------------------------
(***************************************************************************)
(* Proofs about AuthThrottle, for any addresses, any limit and any window.  *)
(* What authorize keeps for an address, once the expired is left out, is    *)
(* what was compared of it: so it may count the one for the other.          *)
(***************************************************************************)
EXTENDS AuthThrottle, FiniteSetTheorems, TLAPS

\* The failures an address would be judged by are the wrong tokens compared for it.
JudgedByCompared == \A a \in Addrs : compared[a] = Recent(a)

TypesOK ==
    /\ fails \in [Addrs -> SUBSET Failures]
    /\ age \in [Addrs -> [Failures -> 0 .. Window]]
    /\ answer \in [Addrs -> Answers]
    /\ compared \in [Addrs -> SUBSET Failures]

ThrottleInv == TypesOK /\ JudgedByCompared /\ FewKept

-----------------------------------------------------------------------------
\* An age expires once and for all.
LEMMA OlderStays ==
  ASSUME NEW n \in 0 .. Window
  PROVE  Older(n) \in 0 .. Window /\ (Older(n) < Window => n < Window)
  BY LimitsAssumption DEF Older

\* The failures of an address are finitely many, so what is left of them is no more.
LEMMA FewRecent ==
  ASSUME TypesOK, NEW a \in Addrs
  PROVE  /\ IsFiniteSet(fails[a]) /\ IsFiniteSet(Recent(a))
         /\ Cardinality(fails[a]) \in Nat /\ Cardinality(Recent(a)) \in Nat
         /\ Cardinality(Recent(a)) <= Cardinality(fails[a])
<1>1. fails[a] \subseteq Failures /\ Recent(a) \subseteq fails[a]
  BY DEF TypesOK, Recent
<1>2. IsFiniteSet(fails[a])
  BY <1>1, LimitsAssumption, FS_Subset
<1>. QED BY <1>1, <1>2, FS_Subset, FS_CardinalityType

LEMMA InitThrottle == ASSUME Init PROVE ThrottleInv
<1>1. TypesOK
  BY LimitsAssumption DEF Init, TypesOK, Answers
<1>2. JudgedByCompared
  BY DEF Init, JudgedByCompared, Recent
<1>3. FewKept
  BY FS_EmptySet, LimitsAssumption DEF Init, FewKept
<1>. QED BY <1>1, <1>2, <1>3 DEF ThrottleInv

LEMMA TickKeeps == ASSUME ThrottleInv, Tick PROVE ThrottleInv'
<1>. USE DEF ThrottleInv, TypesOK, Tick
<1>1. \A a \in Addrs, f \in Failures :
        age[a][f] \in 0 .. Window /\ age'[a][f] = Older(age[a][f])
  OBVIOUS
<1>2. TypesOK'
  BY <1>1, OlderStays
<1>3. ASSUME NEW a \in Addrs PROVE compared'[a] = Recent(a)'
  <2>1. compared'[a] = {f \in Recent(a) : Older(age[a][f]) < Window}
    BY DEF JudgedByCompared
  <2>2. Recent(a)' = {f \in fails[a] : Older(age[a][f]) < Window}
    BY <1>1 DEF Recent
  <2>3. \A f \in fails[a] : Older(age[a][f]) < Window => f \in Recent(a)
    BY <1>1, OlderStays DEF Recent
  <2>. QED BY <2>1, <2>2, <2>3 DEF Recent
<1>4. FewKept'
  BY DEF FewKept
<1>. QED BY <1>2, <1>3, <1>4 DEF JudgedByCompared

LEMMA AuthorizeKeeps ==
  ASSUME ThrottleInv, NEW a \in Addrs, Authorize(a) PROVE ThrottleInv'
<1>. USE DEF ThrottleInv, TypesOK
<1>a. Recent(a) \subseteq fails[a]
  BY DEF Recent
<1>1. ASSUME age' = age, fails' = [fails EXCEPT ![a] = Recent(a)], compared' = compared,
             answer' = [answer EXCEPT ![a] = "lockedOut"]
      PROVE ThrottleInv'
  <2>1. TypesOK'
    BY <1>1, <1>a DEF Answers
  <2>2. ASSUME NEW b \in Addrs PROVE Recent(b)' = Recent(b)
    BY <1>1 DEF Recent
  <2>3. JudgedByCompared'
    BY <1>1, <2>2 DEF JudgedByCompared
  <2>4. FewKept'
    <3>1. Cardinality(fails'[a]) <= Limit
      BY <1>1, FewRecent, LimitsAssumption DEF FewKept
    <3>2. \A b \in Addrs \ {a} : fails'[b] = fails[b]
      BY <1>1
    <3>. QED BY <3>1, <3>2 DEF FewKept
  <2>. QED BY <2>1, <2>3, <2>4
<1>2. CASE LockedOut(a)
  BY <1>2, <1>1 DEF LockedOut
<1>3. CASE Accepted(a)
  <2>1. /\ fails' = [fails EXCEPT ![a] = IF Recent(a) = {} THEN @ ELSE {}]
        /\ answer' = [answer EXCEPT ![a] = "accepted"]
        /\ compared' = [compared EXCEPT ![a] = {}] /\ age' = age
    BY <1>3 DEF Accepted
  <2>2. TypesOK'
    BY <2>1 DEF Answers
  <2>3. /\ fails'[a] = {} \/ (fails'[a] = fails[a] /\ Recent(a) = {})
        /\ compared'[a] = {}
        /\ \A b \in Addrs \ {a} : fails'[b] = fails[b] /\ compared'[b] = compared[b]
    BY <2>1
  <2>4. Recent(a)' = {} /\ \A b \in Addrs \ {a} : Recent(b)' = Recent(b)
    BY <2>1, <2>3 DEF Recent
  <2>5. JudgedByCompared'
    BY <2>3, <2>4 DEF JudgedByCompared
  <2>6. FewKept'
    <3>1. Cardinality({}) <= Limit
      BY FS_EmptySet, LimitsAssumption
    <3>2. Cardinality(fails[a]) <= Limit
      BY DEF FewKept
    <3>3. Cardinality(fails'[a]) <= Limit
      BY ONLY <2>3, <3>1, <3>2
    <3>. QED BY <2>3, <3>3 DEF FewKept
  <2>. QED BY <2>2, <2>5, <2>6
<1>4. CASE Rejected(a)
  <2>1. PICK f \in Failures \ (fails[a] \cup compared[a]) :
          /\ fails' = [fails EXCEPT ![a] = Recent(a) \cup {f}]
          /\ compared' = [compared EXCEPT ![a] = @ \cup {f}]
          /\ age' = [age EXCEPT ![a][f] = 0]
    BY <1>4 DEF Rejected
  <2>2. answer' = [answer EXCEPT ![a] = "rejected"] /\ Cardinality(Recent(a)) < Limit
    BY <1>4 DEF Rejected
  <2>3. /\ age'[a][f] = 0 /\ \A g \in Failures \ {f} : age'[a][g] = age[a][g]
        /\ \A b \in Addrs \ {a} : age'[b] = age[b]
        /\ age' \in [Addrs -> [Failures -> 0 .. Window]]
    BY <2>1, LimitsAssumption
  <2>4. TypesOK'
    BY <1>a, <2>1, <2>2, <2>3 DEF Answers
  <2>5. fails'[a] = Recent(a) \cup {f} /\ compared'[a] = compared[a] \cup {f}
        /\ \A b \in Addrs \ {a} : fails'[b] = fails[b] /\ compared'[b] = compared[b]
    BY <2>1
  <2>6. Recent(a)' = Recent(a) \cup {f}
    <3>1. f \notin fails[a] /\ 0 < Window
      BY <2>1, LimitsAssumption
    <3>2. \A g \in Recent(a) : g \in Failures \ {f} /\ age[a][g] < Window
      BY <1>a, <3>1 DEF Recent
    <3>. QED BY <2>3, <2>5, <3>1, <3>2 DEF Recent
  <2>7. \A b \in Addrs \ {a} : Recent(b)' = Recent(b)
    BY <2>3, <2>5 DEF Recent
  <2>8. JudgedByCompared'
    BY <2>5, <2>6, <2>7 DEF JudgedByCompared
  <2>9. Cardinality(fails'[a]) <= Limit
    <3>1. f \notin Recent(a)
      BY <1>a, <2>1
    <3>2. Cardinality(Recent(a) \cup {f}) = Cardinality(Recent(a)) + 1
      BY <3>1, FewRecent, FS_AddElement
    <3>. QED BY <2>2, <2>5, <3>2, FewRecent, LimitsAssumption
  <2>10. FewKept'
    BY <2>5, <2>9 DEF FewKept
  <2>. QED BY <2>4, <2>8, <2>10
<1>. QED BY <1>2, <1>3, <1>4 DEF Authorize

LEMMA NextThrottle == ASSUME ThrottleInv, [Next]_vars PROVE ThrottleInv'
<1>1. CASE UNCHANGED vars
  BY <1>1 DEF vars, ThrottleInv, TypesOK, JudgedByCompared, FewKept, Recent
<1>. QED BY <1>1, TickKeeps, AuthorizeKeeps DEF Next

LEMMA ThrottleInvariant == Spec => []ThrottleInv
<1>. QED BY InitThrottle, NextThrottle, PTL DEF Spec

-----------------------------------------------------------------------------
\* The variables keep to their sets, and no record of an address grows past the limit: a
\* failure is recorded only when fewer than Limit are left of the window, and what has
\* expired is dropped by the same call (server.py:559-570).
THEOREM TypeCorrect == Spec => []TypeOK
<1>1. ThrottleInv => TypeOK
  BY DEF ThrottleInv, TypesOK, TypeOK
<1>. QED BY <1>1, ThrottleInvariant, PTL

\* Whatever the limit and the window, and however its attempts are spread over time,
\* no address has more than Limit wrong tokens compared within a window, unless a right
\* one came between.
THEOREM BudgetKept == Spec => []GuessBudget
<1>1. ThrottleInv => GuessBudget
  <2>1. SUFFICES ASSUME ThrottleInv, NEW a \in Addrs PROVE Cardinality(compared[a]) <= Limit
    BY DEF GuessBudget
  <2>2. compared[a] = Recent(a) /\ Cardinality(fails[a]) <= Limit
    BY <2>1 DEF ThrottleInv, JudgedByCompared, FewKept
  <2>. QED BY <2>1, <2>2, FewRecent, LimitsAssumption DEF ThrottleInv
<1>. QED BY <1>1, ThrottleInvariant, PTL

\* An address is locked out only when exactly Limit of its own wrong tokens were compared
\* within the window that ends now.
THEOREM LockoutsDeserved == Spec => LockoutDeserved
<1>1. ThrottleInv => (\A a \in Addrs : LockedOut(a) => Cardinality(compared[a]) = Limit)
  <2>1. SUFFICES ASSUME ThrottleInv, NEW a \in Addrs, LockedOut(a)
                 PROVE Cardinality(compared[a]) = Limit
    OBVIOUS
  <2>2. /\ compared[a] = Recent(a) /\ Cardinality(fails[a]) <= Limit
        /\ Cardinality(Recent(a)) >= Limit
    BY <2>1 DEF ThrottleInv, JudgedByCompared, FewKept, LockedOut
  <2>. QED BY <2>1, <2>2, FewRecent, LimitsAssumption DEF ThrottleInv
<1>. QED BY <1>1, ThrottleInvariant, PTL DEF LockoutDeserved

\* A wrong token can always be recorded: Failures, though finite, is never used up.
THEOREM FailureFree ==
  Spec => [](\A a \in Addrs : \E f \in Failures : f \notin fails[a] \cup compared[a])
<1>1. ThrottleInv => \A a \in Addrs : \E f \in Failures : f \notin fails[a] \cup compared[a]
  <2>1. SUFFICES ASSUME ThrottleInv, NEW a \in Addrs
                 PROVE \E f \in Failures : f \notin fails[a] \cup compared[a]
    OBVIOUS
  <2>2. fails[a] \cup compared[a] = fails[a] /\ fails[a] \subseteq Failures
    BY <2>1 DEF ThrottleInv, JudgedByCompared, Recent, TypesOK
  <2>3. fails[a] # Failures
    BY <2>1, LimitsAssumption, FS_CardinalityType DEF ThrottleInv, FewKept
  <2>. QED BY <2>2, <2>3
<1>. QED BY <1>1, ThrottleInvariant, PTL

-----------------------------------------------------------------------------
(* How a lockout ends: what LockoutEnds rests on.                           *)

\* Locked out, for failures that are n ticks old or older.
LockedSince(a, n) ==
    Cardinality(Recent(a)) >= Limit /\ \A f \in Recent(a) : age[a][f] >= n

\* The clock can go on: a tick makes a failure within the window older.  It is read off
\* Tick, and is a hypothesis of LockoutRunsOut: the provers do not look into ENABLED.
ClockRuns == (\E a \in Addrs : Recent(a) # {}) => ENABLED <<Tick>>_vars

\* Nothing an address does while it is locked out makes its failures younger or more.
LEMMA LockedStep ==
  ASSUME ThrottleInv, NEW a \in Addrs, NEW n \in Nat, LockedSince(a, n), [Next]_vars
  PROVE  /\ LockedSince(a, n)' \/ Cardinality(Recent(a)') < Limit
         /\ Tick => LockedSince(a, n + 1)' \/ Cardinality(Recent(a)') < Limit
<1>. USE DEF ThrottleInv, TypesOK
<1>1. ~ Cardinality(Recent(a)) < Limit
  BY FewRecent, LimitsAssumption DEF LockedSince
<1>2. Cardinality(Recent(a)') \in Nat /\ Recent(a)' \subseteq Failures
      /\ \A f \in Failures : age'[a][f] \in 0 .. Window
  <2>1. TypesOK'
    BY NextThrottle
  <2>2. Recent(a)' \subseteq Failures /\ \A f \in Failures : age'[a][f] \in 0 .. Window
    BY <2>1 DEF Recent
  <2>. QED BY <2>2, LimitsAssumption, FS_Subset, FS_CardinalityType
<1>3. ASSUME Tick
      PROVE  \A f \in Recent(a)' : age'[a][f] >= n + 1
  <2>1. \A f \in Failures : age[a][f] \in 0 .. Window /\ age'[a][f] = Older(age[a][f])
    BY <1>3 DEF Tick
  <2>2. \A f \in Recent(a)' : f \in Recent(a) /\ age'[a][f] = age[a][f] + 1
    BY <1>3, <2>1, LimitsAssumption DEF Recent, Older, Tick
  <2>. SUFFICES ASSUME NEW f \in Recent(a)' PROVE age'[a][f] >= n + 1
    OBVIOUS
  <2>3. f \in Recent(a) /\ f \in Failures /\ age'[a][f] = age[a][f] + 1
    BY <2>2 DEF Recent
  <2>4. age[a][f] >= n /\ age[a][f] \in Nat
    BY <2>1, <2>3, LimitsAssumption DEF LockedSince
  <2>. QED BY <2>3, <2>4
<1>4. ASSUME NEW b \in Addrs, Authorize(b)
      PROVE  Recent(a)' = Recent(a) /\ \A f \in Recent(a) : age'[a][f] = age[a][f]
  <2>1. CASE b = a
    <3>1. LockedOut(a)
      BY <1>1, <1>4, <2>1 DEF Authorize, Accepted, Rejected
    <3>2. fails'[a] = Recent(a) /\ age' = age
      BY <3>1 DEF LockedOut
    <3>. QED BY <3>2 DEF Recent
  <2>2. CASE b # a
    <3>1. fails'[a] = fails[a] /\ age'[a] = age[a]
      BY <1>4, <2>2 DEF Authorize, LockedOut, Accepted, Rejected
    <3>. QED BY <3>1 DEF Recent
  <2>. QED BY <2>1, <2>2
<1>5. UNCHANGED vars => Recent(a)' = Recent(a) /\ age' = age
  BY DEF vars, Recent
<1>6. ASSUME Recent(a)' = Recent(a), \A f \in Recent(a) : age'[a][f] = age[a][f]
      PROVE  LockedSince(a, n)'
  BY <1>6 DEF LockedSince
<1>7. ASSUME Tick PROVE LockedSince(a, n)' \/ Cardinality(Recent(a)') < Limit
  <2>1. \A f \in Recent(a)' : age'[a][f] >= n
    BY <1>2, <1>3, <1>7
  <2>. QED BY <1>2, <2>1, LimitsAssumption DEF LockedSince
<1>8. ASSUME Tick PROVE LockedSince(a, n + 1)' \/ Cardinality(Recent(a)') < Limit
  BY <1>2, <1>3, <1>8, LimitsAssumption DEF LockedSince
<1>9. LockedSince(a, n)' \/ Cardinality(Recent(a)') < Limit
  BY <1>4, <1>5, <1>6, <1>7 DEF Next
<1>. QED BY <1>8, <1>9

\* Whoever is locked out is free again, or its youngest failure another tick old: a step
\* of the clock at a time, whatever it and the others try meanwhile (server.py:560-563).
THEOREM LockoutRunsOut ==
  ASSUME NEW a \in Addrs, NEW n \in Nat
  PROVE  Spec /\ []ClockRuns =>
             (LockedSince(a, n) ~> LockedSince(a, n + 1) \/ Cardinality(Recent(a)) < Limit)
<1>. DEFINE P == LockedSince(a, n)
            Q == LockedSince(a, n + 1) \/ Cardinality(Recent(a)) < Limit
<1>1. ThrottleInv /\ P /\ [Next]_vars => P' \/ Q'
  BY LockedStep
<1>2. ThrottleInv /\ P /\ <<Tick /\ Next>>_vars => Q'
  BY LockedStep
<1>3. ThrottleInv /\ ClockRuns /\ P => ENABLED <<Tick>>_vars
  <2>. SUFFICES ASSUME ThrottleInv, P PROVE Recent(a) # {}
    BY DEF ClockRuns
  <2>. QED BY FS_EmptySet, LimitsAssumption DEF LockedSince
<1>4. Tick => Next
  BY DEF Next
<1>5. Spec => WF_vars(Tick)
  BY PTL DEF Spec
<1>. HIDE DEF P, Q
<1>6. Spec /\ []ClockRuns => (P ~> Q)
  BY <1>1, <1>2, <1>3, <1>4, <1>5, ThrottleInvariant, PTL DEF Spec
<1>. QED BY <1>6 DEF P, Q

\* Bounds of a lockout by the clock: it begins with failures that are 0 ticks old or
\* older, and has none that are Window ticks old (server.py:560-563).
LockedWithinWindow ==
  \A a \in Addrs : /\ Cardinality(Recent(a)) >= Limit => LockedSince(a, 0)
                   /\ ~ LockedSince(a, Window)

\* No lockout is longer than the window: with LockoutRunsOut, a locked address passes
\* through at most Window ages before it is free (authorize drops expired failures).
THEOREM LockoutBounded == Spec => []LockedWithinWindow
<1>1. ThrottleInv => LockedWithinWindow
  <2>. SUFFICES ASSUME ThrottleInv, NEW a \in Addrs
                PROVE  /\ Cardinality(Recent(a)) >= Limit => LockedSince(a, 0)
                       /\ ~ LockedSince(a, Window)
    BY DEF LockedWithinWindow
  <2>1. \A f \in Recent(a) : age[a][f] >= 0 /\ ~ age[a][f] >= Window
    BY LimitsAssumption DEF ThrottleInv, TypesOK, Recent
  <2>2. Cardinality(Recent(a)) >= Limit => Recent(a) # {}
    BY FS_EmptySet, LimitsAssumption
  <2>. QED BY <2>1, <2>2 DEF LockedSince
<1>. QED BY <1>1, ThrottleInvariant, PTL
==============================================================================
