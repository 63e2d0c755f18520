---------------------------- MODULE SealingKeys ----------------------------
(***************************************************************************)
(* What the key registry promises, without how.  Keys become durable one   *)
(* by one and stay so.  While the service is up it holds some of them, and *)
(* one of those is the current one, with which users seal.  Whatever was   *)
(* sealed can be opened whenever the service is up, however often it went  *)
(* down in between.                                                        *)
(***************************************************************************)
CONSTANTS Keys, None

VARIABLES
    durable,     \* the keys that survive the process
    active,      \* the keys that the service can open with
    current,     \* the key that users are told to seal with
    sealedWith   \* the keys that users have sealed with

vars == <<durable, active, current, sealedWith>>

Init ==
    /\ durable \subseteq Keys
    /\ active = {} /\ current = None /\ sealedWith = {}

Up == current # None

Persist(k) == durable' = durable \cup {k} /\ UNCHANGED <<active, current, sealedWith>>

ComeUp ==
    /\ ~Up
    /\ active' \in SUBSET durable /\ sealedWith \subseteq active'
    /\ current' \in active'
    /\ UNCHANGED <<durable, sealedWith>>

GoDown == active' = {} /\ current' = None /\ UNCHANGED <<durable, sealedWith>>

Activate(k) ==
    /\ Up /\ k \in durable
    /\ active' = active \cup {k}
    /\ UNCHANGED <<durable, current, sealedWith>>

Switch(k) ==
    /\ Up /\ k \in active
    /\ current' = k
    /\ UNCHANGED <<durable, active, sealedWith>>

Seal == Up /\ sealedWith' = sealedWith \cup {current} /\ UNCHANGED <<durable, active, current>>

Next ==
    \/ ComeUp \/ GoDown \/ Seal
    \/ \E k \in Keys : Persist(k) \/ Activate(k) \/ Switch(k)

Spec == Init /\ [][Next]_vars
=============================================================================
