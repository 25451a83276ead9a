----------------------------- MODULE DriverLease -----------------------------
(***************************************************************************)
(* What the driver pool promises about its drivers, whatever its           *)
(* goroutines do: a driver is created by one owner, registered, lent,      *)
(* handed over, returned, killed and dropped, and never has two owners.    *)
(* An owner is a goroutine; the idle set belongs to the pool.              *)
(***************************************************************************)
EXTENDS Integers, FiniteSets

CONSTANTS Owners, Drivers, NoDriver

VARIABLES
    held,       \* the driver each owner has, or NoDriver
    idle,       \* drivers.idle
    all,        \* drivers.all
    up,         \* drivers whose container runs
    running,    \* the counter kept beside drivers.all
    repeats     \* kills of drivers that were not registered

leaseVars == <<held, idle, all, up, running, repeats>>

Owned(d) == \E p \in Owners : held[p] = d

LeaseInit ==
    /\ held = [p \in Owners |-> NoDriver]
    /\ idle = {} /\ all = {} /\ up = {}
    /\ running = 0 /\ repeats = 0

\* A new instance comes up in the hands of p.
Create(p, d) ==
    /\ held[p] = NoDriver
    /\ d \notin up \cup all \cup idle
    /\ ~Owned(d)
    /\ held' = [held EXCEPT ![p] = d]
    /\ up' = up \cup {d}
    /\ UNCHANGED <<idle, all, running, repeats>>

\* p enters its new driver into the pool's books.
Enter(p) ==
    /\ held[p] # NoDriver
    /\ held[p] \notin all
    /\ all' = all \cup {held[p]}
    /\ running' = running + 1
    /\ UNCHANGED <<held, idle, up, repeats>>

\* p takes an idle driver.
Take(p, d) ==
    /\ held[p] = NoDriver
    /\ d \in idle
    /\ idle' = idle \ {d}
    /\ held' = [held EXCEPT ![p] = d]
    /\ UNCHANGED <<all, up, running, repeats>>

\* p gives its registered driver to q.
Hand(p, q) ==
    /\ held[p] \in all
    /\ held[q] = NoDriver
    /\ held' = [held EXCEPT ![q] = held[p], ![p] = NoDriver]
    /\ UNCHANGED <<idle, all, up, running, repeats>>

\* p makes its registered driver idle.
Return(p) ==
    /\ held[p] \in all
    /\ idle' = idle \cup {held[p]}
    /\ held' = [held EXCEPT ![p] = NoDriver]
    /\ UNCHANGED <<all, up, running, repeats>>

\* p strikes the driver it owns off the books.
Strike(p) ==
    /\ held[p] # NoDriver
    /\ all' = all \ {held[p]}
    /\ running' = running - 1
    /\ repeats' = IF held[p] \in all THEN repeats ELSE repeats + 1
    /\ UNCHANGED <<held, idle, up>>

\* p stops the container of a driver that is off the books, and lets go of it,
\* or keeps it (keep) to find out later that it is down.
Shut(p, keep) ==
    /\ held[p] # NoDriver
    /\ held[p] \notin all
    /\ up' = up \ {held[p]}
    /\ held' = IF keep THEN held ELSE [held EXCEPT ![p] = NoDriver]
    /\ UNCHANGED <<idle, all, running, repeats>>

\* A container stops by itself.
Die(d) ==
    /\ d \in up
    /\ up' = up \ {d}
    /\ UNCHANGED <<held, idle, all, running, repeats>>

LeaseNext ==
    \/ \E p \in Owners :
          \/ \E d \in Drivers : Create(p, d) \/ Take(p, d)
          \/ \E q \in Owners \ {p} : Hand(p, q)
          \/ Enter(p) \/ Return(p) \/ Strike(p)
          \/ \E keep \in BOOLEAN : Shut(p, keep)
    \/ \E d \in Drivers : Die(d)

LeaseSpec == LeaseInit /\ [][LeaseNext]_leaseVars

-----------------------------------------------------------------------------
LeaseType ==
    /\ held \in [Owners -> Drivers \cup {NoDriver}]
    /\ idle \subseteq Drivers /\ all \subseteq Drivers /\ up \subseteq Drivers
    /\ running \in Int /\ repeats \in Nat

\* A driver has at most one owner, a goroutine or the idle set.
Exclusive ==
    /\ \A p, q \in Owners : p # q /\ held[p] = held[q] => held[p] = NoDriver
    /\ \A p \in Owners : held[p] \notin idle

\* No driver is lost: one that is registered, or runs, is idle or owned, and an
\* idle driver is registered.
Accounted ==
    /\ idle \subseteq all
    /\ \A d \in all \cup up : d \in idle \/ Owned(d)

\* The counter and the books differ by the repeated kills.
RunningCount == running = Cardinality(all) - repeats

LeaseInv == LeaseType /\ Exclusive /\ Accounted /\ RunningCount
=============================================================================
