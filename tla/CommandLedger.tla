--------------------------- MODULE CommandLedger ---------------------------
(***************************************************************************)
(* What the control loop promises about its schedule writes, whatever it   *)
(* reads and whichever path writes: the discharge it has ordered may be    *)
(* stopped, repeated or lowered at any time; it is raised only when the    *)
(* previous write is at least MIN_HOLD_TIME old, or to end a re-arm, which *)
(* itself began with a stop.                                               *)
(***************************************************************************)
EXTENDS Integers

CONSTANTS MinOutputWatts, MaxOutputWatts, MinHoldTime

VARIABLES
    ordered,     \* watts of the last schedule write, 0 for a disabled slot
    writeAge,    \* ticks since it, up to MinHoldTime; Never before the first
    rearming     \* a re-arm waits to be completed

ledgerVars == <<ordered, writeAge, rearming>>

Never == -1

Init == ordered = 0 /\ writeAge = Never /\ rearming = FALSE

(* Time passes. *)
Pass ==
    /\ writeAge' = IF writeAge = Never \/ writeAge >= MinHoldTime THEN writeAge
                                                                  ELSE writeAge + 1
    /\ UNCHANGED <<ordered, rearming>>

(* Only a stop begins a re-arm. *)
Stop == ordered' = 0 /\ writeAge' = 0 /\ rearming' \in BOOLEAN

HoldOver == writeAge = Never \/ writeAge >= MinHoldTime

Order(watts) ==
    /\ watts <= ordered \/ HoldOver \/ rearming
    /\ ordered' = watts /\ writeAge' = 0
    /\ rearming' = FALSE

(* A re-arm is given up without a write. *)
GiveUp == rearming' = FALSE /\ UNCHANGED <<ordered, writeAge>>

Next ==
    \/ Pass \/ Stop \/ GiveUp
    \/ \E watts \in MinOutputWatts..MaxOutputWatts : Order(watts)

Spec == Init /\ [][Next]_ledgerVars

=============================================================================
