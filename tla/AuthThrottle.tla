---------------------------- MODULE AuthThrottle ----------------------------
(***************************************************************************)
(* UsbferryServer.authorize (src/usbferry/server.py): the sliding window of *)
(* failed authentications per client address, shared by the tunnel's hello  *)
(* and by every request to the web admin.  authorize never suspends, so one *)
(* call is one action.  Times are kept as ages, so that the clock need not  *)
(* be bounded: an age grows with every tick up to Window, where it expires. *)
(* The list of an address is only filtered, appended to and counted, so it  *)
(* is a set of failures here, each with an age; two may be of one age.      *)
(***************************************************************************)
EXTENDS Naturals, FiniteSets

CONSTANTS
    Addrs,    \* client addresses
    Failures, \* what tells the failures of an address apart, free to be used again
    Limit,    \* auth_fail_limit
    Window    \* auth_fail_window, in ticks of the clock

ASSUME LimitsAssumption ==
    /\ Limit \in Nat \ {0} /\ Window \in Nat \ {0}
    /\ IsFiniteSet(Failures) /\ Cardinality(Failures) > Limit

VARIABLES
    fails,     \* _auth_fails: the failures kept for an address
    age,       \* how long ago each of them was
    answer,    \* what authorize last told an address
    compared   \* history: the wrong tokens compared within the window, since a success

vars == <<fails, age, answer, compared>>

Answers == {"none", "accepted", "rejected", "lockedOut"}

\* Mutation: the window is one tick short.
RecentShort(a) == {f \in fails[a] : age[a][f] < Window - 1}

\* the list comprehension that keeps what is younger than the window
Recent(a) == {f \in fails[a] : age[a][f] < Window}

Older(n) == IF n < Window THEN n + 1 ELSE Window

Init ==
    /\ fails = [a \in Addrs |-> {}]
    /\ age = [a \in Addrs |-> [f \in Failures |-> Window]]
    /\ answer = [a \in Addrs |-> "none"]
    /\ compared = [a \in Addrs |-> {}]

Tick ==
    /\ age' = [a \in Addrs |-> [f \in Failures |-> Older(age[a][f])]]
    /\ compared' = [a \in Addrs |-> {f \in compared[a] : Older(age[a][f]) < Window}]
    /\ UNCHANGED <<fails, answer>>

\* Mutation: an attempt while locked out starts the window again.
LockedOutRenews(a) ==
    /\ Cardinality(Recent(a)) >= Limit
    /\ age' = [age EXCEPT ![a] = [f \in Failures |-> IF f \in Recent(a) THEN 0 ELSE @[f]]]
    /\ answer' = [answer EXCEPT ![a] = "lockedOut"]
    /\ UNCHANGED <<fails, compared>>

\* At the limit the token is not looked at, and the attempt is not recorded.
LockedOut(a) ==
    /\ Cardinality(Recent(a)) >= Limit
    /\ fails' = [fails EXCEPT ![a] = Recent(a)]
    /\ answer' = [answer EXCEPT ![a] = "lockedOut"]
    /\ UNCHANGED <<age, compared>>

\* Mutation: a success does not clear the record.
AcceptedKeepsFails(a) ==
    /\ Cardinality(Recent(a)) < Limit
    /\ fails' = [fails EXCEPT ![a] = Recent(a)]
    /\ answer' = [answer EXCEPT ![a] = "accepted"]
    /\ compared' = [compared EXCEPT ![a] = {}]
    /\ UNCHANGED age

\* verify_token found the token: the record is dropped, unless it was expired.
Accepted(a) ==
    /\ Cardinality(Recent(a)) < Limit
    /\ fails' = [fails EXCEPT ![a] = IF Recent(a) = {} THEN @ ELSE {}]
    /\ answer' = [answer EXCEPT ![a] = "accepted"]
    /\ compared' = [compared EXCEPT ![a] = {}]
    /\ UNCHANGED age

\* Mutation: the failure is appended to the record without dropping the expired ones.
RejectedAppends(a) ==
    /\ Cardinality(Recent(a)) < Limit
    /\ \E f \in Failures \ (fails[a] \cup compared[a]) :
         /\ fails' = [fails EXCEPT ![a] = @ \cup {f}]
         /\ compared' = [compared EXCEPT ![a] = @ \cup {f}]
         /\ age' = [age EXCEPT ![a][f] = 0]
    /\ answer' = [answer EXCEPT ![a] = "rejected"]

Rejected(a) ==
    /\ Cardinality(Recent(a)) < Limit
    /\ \E f \in Failures \ (fails[a] \cup compared[a]) :
         /\ fails' = [fails EXCEPT ![a] = Recent(a) \cup {f}]
         /\ compared' = [compared EXCEPT ![a] = @ \cup {f}]
         /\ age' = [age EXCEPT ![a][f] = 0]
    /\ answer' = [answer EXCEPT ![a] = "rejected"]

Authorize(a) == LockedOut(a) \/ Accepted(a) \/ Rejected(a)

Next == Tick \/ \E a \in Addrs : Authorize(a)

\* The clock never stops; clients may go on trying, or not.
Spec == Init /\ [][Next]_vars /\ WF_vars(Tick)

-----------------------------------------------------------------------------
\* The record of an address is no longer than the limit, with the expired failures that no
\* call has dropped yet: however long it goes on, guessing fills no memory
\* (server.py:559-570).
FewKept == \A a \in Addrs : Cardinality(fails[a]) <= Limit

TypeOK ==
    /\ fails \in [Addrs -> SUBSET Failures] /\ FewKept
    /\ age \in [Addrs -> [Failures -> 0 .. Window]]
    /\ answer \in [Addrs -> Answers]
    /\ compared \in [Addrs -> SUBSET Failures]

\* No address has more than Limit wrong tokens compared within a window, unless a
\* right one came between (server.py:555-571), wherever the window starts.
GuessBudget == \A a \in Addrs : Cardinality(compared[a]) <= Limit

\* An address is locked out only for wrong tokens of its own, compared within the
\* last window: neither expired failures nor those of others count.
LockoutDeserved ==
    [][\A a \in Addrs : LockedOut(a) => Cardinality(compared[a]) = Limit]_vars

\* A lockout ends by the passing of time alone, also for an address that keeps
\* trying while it is locked out (server.py:560-563).
LockoutEnds ==
    \A a \in Addrs :
        Cardinality(Recent(a)) >= Limit ~> Cardinality(Recent(a)) < Limit
=============================================================================
