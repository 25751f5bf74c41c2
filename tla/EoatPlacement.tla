--------------------------- MODULE EoatPlacement ---------------------------
(***************************************************************************)
(* What the write service promises its clients: however requests overlap,  *)
(* every accepted write takes effect in one step, against the assets as    *)
(* they are at that step.  An EOAT is in one place, a machine holds one    *)
(* EOAT, and only active EOATs are installed, on active machines.          *)
(***************************************************************************)
EXTENDS Integers

CONSTANTS Eoats, Machines, Locations, Nowhere

VARIABLES version, active, place

placementVars == <<version, active, place>>

Assets == Eoats \cup Machines

Init ==
    /\ version = [a \in Assets |-> 1]
    /\ active = [a \in Assets |-> TRUE]
    /\ place = [e \in Eoats |-> Nowhere]

\* Every write to an asset is a new version of it.
Bump(a) == version' = [version EXCEPT ![a] = @ + 1]

Put(e, x) == place' = [place EXCEPT ![e] = x]

\* An active EOAT goes onto an active machine that holds no other EOAT.
Install(e, m) ==
    /\ active[e] /\ active[m]
    /\ \A d \in Eoats \ {e} : place[d] # m
    /\ Put(e, m) /\ Bump(e) /\ UNCHANGED active

\* The EOAT is stored, or its location becomes unknown.
Take(e, x) == x \in Locations \cup {Nowhere} /\ Put(e, x) /\ Bump(e) /\ UNCHANGED active

\* Closing an installation is a write to the installation, not to the EOAT.
Close(e) == place[e] \in Machines /\ Put(e, Nowhere) /\ UNCHANGED <<version, active>>

Edit(a) == Bump(a) /\ UNCHANGED <<active, place>>

\* An EOAT is archived only while it is not installed; a machine at any time.
Archive(a) ==
    /\ a \in Eoats => place[a] \notin Machines
    /\ active' = [active EXCEPT ![a] = FALSE]
    /\ Bump(a) /\ UNCHANGED place

Restore(a) == active' = [active EXCEPT ![a] = TRUE] /\ Bump(a) /\ UNCHANGED place

Next ==
    \/ \E e \in Eoats :
          \/ \E m \in Machines : Install(e, m)
          \/ \E x \in Locations \cup {Nowhere} : Take(e, x)
          \/ Close(e)
    \/ \E a \in Assets : Edit(a) \/ Archive(a) \/ Restore(a)

Spec == Init /\ [][Next]_placementVars
=============================================================================
