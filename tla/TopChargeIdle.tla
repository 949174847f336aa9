--------------------------- MODULE TopChargeIdle ---------------------------
(***************************************************************************)
(* topChargeIdleMachine (internal/controller/topcharge.go): the regime in  *)
(* which the controller leaves its slot disabled so that a full battery    *)
(* passes PV through.  The machine is a record; each method is an operator *)
(* from the machine to the machine.                                        *)
(*                                                                         *)
(* `blockedFor` is the time left until the code's blockedUntil, 0 once it  *)
(* has passed.  A counter is cleared in the cycle in which it reaches its  *)
(* threshold, so none needs a bound.                                       *)
(***************************************************************************)
EXTENDS ControlLaw

CONSTANTS
    NearFullIdleEnabled, EnforceSurplusFeedIn,      \* booleans
    NearFullIdleEnterPercent, NearFullIdleConsecutiveSamples,
    NearFullIdleGridImportExitWatts, NearFullIdleGridImportExitSamples,
    ControlInterval, StatusPollTimeout, Minute      \* durations, in ticks

(* What config.validate() guarantees about these parameters. *)
ASSUME TopChargeIdleAssumption ==
    /\ NearFullIdleEnabled \in BOOLEAN /\ EnforceSurplusFeedIn \in BOOLEAN
    /\ NearFullIdleEnterPercent \in 1..100
    /\ NearFullIdleConsecutiveSamples \in Nat \ {0}
    /\ NearFullIdleGridImportExitWatts \in Nat
    /\ NearFullIdleGridImportExitSamples \in Nat
    /\ ControlInterval \in Nat \ {0} /\ StatusPollTimeout \in Nat /\ Minute \in Nat

Machine == [active : BOOLEAN, enterSamples : Nat, socExitSamples : Nat,
            importSamples : Nat, rawImportSamples : Nat,
            passThroughLostSamples : Nat, blockedFor : Nat]

NewMachine == [active |-> FALSE, enterSamples |-> 0, socExitSamples |-> 0,
               importSamples |-> 0, rawImportSamples |-> 0,
               passThroughLostSamples |-> 0, blockedFor |-> 0]

(* How long a published payload is waited for before it is sent again. *)
authorityPublishCooldown ==
    2 * (IF StatusPollTimeout > ControlInterval THEN StatusPollTimeout ELSE ControlInterval)

failureCooldown ==
    IF authorityPublishCooldown < Minute THEN Minute ELSE authorityPublishCooldown

(* Mutant: one exit counter is forgotten. *)
reset_KeepLost(t) ==
    [NewMachine EXCEPT !.blockedFor = t.blockedFor,
                       !.passThroughLostSamples = t.passThroughLostSamples]

reset(t) == [NewMachine EXCEPT !.blockedFor = t.blockedFor]

blockUntil(t) == [t EXCEPT !.blockedFor = failureCooldown]

(* The passage of one tick. *)
Elapse(t) == [t EXCEPT !.blockedFor = IF @ > 0 THEN @ - 1 ELSE 0]

entryEligible(st, grid, smoothed) ==
    /\ st.soc >= NearFullIdleEnterPercent
    /\ smoothed <= ImportBiasWatts /\ grid <= ImportBiasWatts
    /\ st.solar > 0 \/ st.out > nearZeroOutputWatts \/ st.pass

healthy(st) == st.pass \/ st.out > nearZeroOutputWatts

(* A debounce counter: one more while the condition lasts, else from 0.    *)
Count(n, condition) == IF condition THEN n + 1 ELSE 0

importExitEnabled == NearFullIdleGridImportExitSamples > 0

(* The exit counters after one more cycle of the engaged regime. *)
CountExits(t, st, grid, smoothed) ==
    [t EXCEPT
        !.socExitSamples = Count(@, st.soc < NearFullIdleEnterPercent),
        !.importSamples = Count(@, importExitEnabled /\ smoothed > NearFullIdleGridImportExitWatts),
        !.rawImportSamples = Count(@, importExitEnabled /\ grid > NearFullIdleGridImportExitWatts),
        !.passThroughLostSamples = Count(@, ~healthy(st))]

SoCExit(t) == t.socExitSamples >= NearFullIdleConsecutiveSamples

FailedExit(t) ==
    \/ t.passThroughLostSamples >= NearFullIdleConsecutiveSamples
    \/ importExitEnabled /\ t.rawImportSamples >= NearFullIdleGridImportExitSamples
    \/ importExitEnabled /\ t.importSamples >= NearFullIdleGridImportExitSamples

(* An engaged machine stays or leaves; a SoC exit takes precedence and     *)
(* starts no cooldown.                                                     *)
UpdateActive(t, st, grid, smoothed) ==
    LET c == CountExits(t, st, grid, smoothed)
    IN  IF SoCExit(c) THEN reset(c)
        ELSE IF FailedExit(c) THEN blockUntil(reset(c))
        ELSE c

(* Mutant: the cooldown is not consulted. *)
UpdateInactive_NoCooldown(t, st, grid, smoothed) ==
    LET n == Count(t.enterSamples, entryEligible(st, grid, smoothed))
    IN  IF n < NearFullIdleConsecutiveSamples THEN [t EXCEPT !.enterSamples = n]
        ELSE [t EXCEPT !.active = TRUE, !.enterSamples = 0,
                       !.socExitSamples = 0, !.importSamples = 0]

(* An idle machine counts eligible cycles, unless it is cooling down.      *)
(* Entering clears two of the exit counters; the other two keep their      *)
(* values.                                                                 *)
UpdateInactive(t, st, grid, smoothed) ==
    LET n == Count(t.enterSamples, entryEligible(st, grid, smoothed))
    IN  IF t.blockedFor > 0 THEN t
        ELSE IF n < NearFullIdleConsecutiveSamples THEN [t EXCEPT !.enterSamples = n]
        ELSE [t EXCEPT !.active = TRUE, !.enterSamples = 0,
                       !.socExitSamples = 0, !.importSamples = 0]

(* update: the regime is engaged after the cycle iff the result is active. *)
update(t, st, grid, smoothed) ==
    IF ~NearFullIdleEnabled \/ ~EnforceSurplusFeedIn \/ ~st.surplus THEN reset(t)
    ELSE IF t.active THEN UpdateActive(t, st, grid, smoothed)
    ELSE UpdateInactive(t, st, grid, smoothed)

=============================================================================
