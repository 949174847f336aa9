----------------------- MODULE ControllerLadderProofs -----------------------
(***************************************************************************)
(* Theorems about the three rate-limited or one-shot recoveries of the     *)
(* controller: the top-charge regime and its cooldown, the surplus feed-in *)
(* flash write, and the device restart at the end of the blocked-output    *)
(* ladder.                                                                 *)
(***************************************************************************)
EXTENDS ControllerProofs

-----------------------------------------------------------------------------
(* The top-charge machine. *)

(* Engaged only outside the cooldown, and clean while idle. *)
MachineInv(t) ==
    /\ t.active => t.blockedFor = 0
    /\ ~t.active => /\ t.socExitSamples = 0 /\ t.importSamples = 0
                    /\ t.rawImportSamples = 0 /\ t.passThroughLostSamples = 0

(* reset forgets everything but the cooldown. *)
LEMMA ResetMachine ==
  ASSUME NEW t \in Machine
  PROVE  MachineInv(reset(t)) /\ MachineInv(blockUntil(reset(t)))
  BY FailureCooldownType DEF reset, blockUntil, NewMachine, Machine, MachineInv

(* A tick keeps the invariant of the idle machine. *)
LEMMA ElapseMachine ==
  ASSUME NEW t \in Machine, MachineInv(t)
  PROVE  MachineInv(Elapse(t))
  BY DEF Elapse, Machine, MachineInv

(* Counting exits leaves the machine engaged and starts no cooldown. *)
LEMMA CountMachine ==
  ASSUME NEW t \in Machine, t.active, t.blockedFor = 0, NEW st, NEW grid, NEW ema
  PROVE  /\ CountExits(t, st, grid, ema).active
         /\ CountExits(t, st, grid, ema).blockedFor = 0
  BY DEF CountExits, Machine

(* update() keeps the invariant of the idle machine. *)
LEMMA UpdateMachine ==
  ASSUME NEW t \in Machine, MachineInv(t),
         NEW st \in Status, NEW grid \in Int, NEW ema \in Int
  PROVE  MachineInv(update(t, st, grid, ema))
  <1>1. CASE t.active
    <2> DEFINE c == CountExits(t, st, grid, ema)
    <2>1. c \in Machine /\ c.active /\ c.blockedFor = 0
      BY <1>1, CountMachine, CountExitsType DEF MachineInv
    <2>2. MachineInv(c)
      BY <2>1 DEF MachineInv
    <2> HIDE DEF c
    <2>3. MachineInv(UpdateActive(t, st, grid, ema))
      BY <2>1, <2>2, ResetMachine DEF UpdateActive, c
    <2> QED
      BY <1>1, <2>3, ResetMachine DEF update
  <1>2. CASE ~t.active
    <2> DEFINE n == Count(t.enterSamples, entryEligible(st, grid, ema))
    <2>1. MachineInv([t EXCEPT !.enterSamples = n])
      BY <1>2 DEF MachineInv, Machine
    <2>2. t.blockedFor = 0 =>
            MachineInv([t EXCEPT !.active = TRUE, !.enterSamples = 0,
                                 !.socExitSamples = 0, !.importSamples = 0])
      BY DEF MachineInv, Machine
    <2>3. t.blockedFor > 0 \/ t.blockedFor = 0
      BY DEF Machine
    <2> HIDE DEF n
    <2>4. MachineInv(UpdateInactive(t, st, grid, ema))
      BY <2>1, <2>2, <2>3 DEF UpdateInactive, n
    <2> QED
      BY <1>2, <2>4, ResetMachine DEF update
  <1> QED
    BY <1>1, <1>2

(* A new idle machine satisfies its invariant. *)
LEMMA MachineInit == Init => MachineInv(topChargeIdle)
  BY DEF Init, NewMachine, MachineInv

(* What one step does to the machine. *)
LEMMA MachineSteps ==
  ASSUME [LoopNext]_vars
  PROVE  \/ topChargeIdle' = topChargeIdle
         \/ topChargeIdle' = reset(topChargeIdle)
         \/ topChargeIdle' = blockUntil(reset(topChargeIdle))
         \/ topChargeIdle' = Elapse(topChargeIdle)
         \/ topChargeIdle' = NewTopChargeIdle
  <1>1. ASSUME NEW ok \in BOOLEAN, PrometheusDown(ok) \/ StatusHardFail(ok)
        PROVE  \/ topChargeIdle' = reset(topChargeIdle)
               \/ topChargeIdle' = blockUntil(reset(topChargeIdle))
    BY <1>1 DEF PrometheusDown, StatusHardFail, fallback
  <1>2. ASSUME NEW ok \in BOOLEAN, Decide(ok)
        PROVE  \/ topChargeIdle' = topChargeIdle
               \/ topChargeIdle' = reset(topChargeIdle)
               \/ topChargeIdle' = NewTopChargeIdle
    BY <1>2 DEF Decide, RemediateChargingMode, RemediateSurplus, SoCFloorIdle,
                TopChargeIdling, RearmComplete, RearmStart, NuclearRestart, EnableOutputs,
                SuppressOrReassert, PublishCommand, NormalControl, Discharge, PolicyAboveFloor
  <1>3. CASE RearmWait
    BY <1>3 DEF RearmWait, Discharge, PolicyAboveFloor
  <1>4. CASE Tick
    BY <1>4 DEF Tick
  <1>5. CASE Receive \/ ReadCached \/ ReadPolled \/ StatusFreeze \/ UNCHANGED vars
    BY <1>5 DEF Receive, ReadCached, ReadPolled, Read, StatusFreeze, vars
  <1> QED
    BY <1>1, <1>2, <1>3, <1>4, <1>5 DEF LoopNext

(* Every step resets the machine, blocks it, updates it, lets time pass or *)
(* leaves it alone.                                                        *)
LEMMA MachineNext ==
  ASSUME TypeOK, MachineInv(topChargeIdle), [LoopNext]_vars
  PROVE  MachineInv(topChargeIdle)'
  <1>1. topChargeIdle \in Machine
    BY DEF TypeOK
  <1>2. CASE topChargeIdle' = topChargeIdle
    BY <1>2 DEF MachineInv
  <1>3. CASE \/ topChargeIdle' = reset(topChargeIdle)
             \/ topChargeIdle' = blockUntil(reset(topChargeIdle))
    BY <1>1, <1>3, ResetMachine
  <1>4. CASE topChargeIdle' = Elapse(topChargeIdle)
    BY <1>1, <1>4, ElapseMachine
  <1>5. CASE topChargeIdle' = NewTopChargeIdle
    <2> DEFINE t == IF NewStage # "inactive" THEN reset(topChargeIdle) ELSE topChargeIdle
    <2>1. t \in Machine /\ MachineInv(t)
      BY <1>1, MachineType, ResetMachine
    <2>2. St \in Status /\ cycle.grid \in Int /\ NewSmoothed \in Int
      BY PolicyType DEF TypeOK, Cycle
    <2>3. MachineInv(NewTopChargeIdle)
      BY <2>1, <2>2, UpdateMachine DEF NewTopChargeIdle
    <2> QED
      BY <1>5, <2>3
  <1> QED
    BY <1>2, <1>3, <1>4, <1>5, MachineSteps

(* Top-charge idle is never engaged during the cooldown, and between two   *)
(* regimes no exit counter carries over, although entering clears only two *)
(* of the four.                                                            *)
THEOREM TopChargeCorrect == Spec => [](NoEntryDuringCooldown /\ ExitCountersClear)
  <1>1. Init => TypeOK /\ MachineInv(topChargeIdle)
    BY TypeInit, MachineInit
  <1>2. TypeOK /\ MachineInv(topChargeIdle) /\ [LoopNext]_vars
          => (TypeOK /\ MachineInv(topChargeIdle))'
    BY TypeNext, MachineNext
  <1>3. TypeOK /\ MachineInv(topChargeIdle) => NoEntryDuringCooldown /\ ExitCountersClear
    BY DEF MachineInv, NoEntryDuringCooldown, ExitCountersClear
  <1> QED
    BY <1>1, <1>2, <1>3, NextIsLoop, PTL DEF Spec

(* No counter left over from one regime can end the next one early. *)
THEOREM CountersCleared == Spec => []ExitCountersClear
  BY TopChargeCorrect, PTL

(* A machine that is reset in every cycle that could count. *)
Unengaged(t) == ~t.active /\ t.enterSamples <= 1

(* reset forgets the samples counted so far. *)
LEMMA ResetUnengaged ==
  ASSUME NEW t \in Machine
  PROVE  /\ Unengaged(reset(t)) /\ reset(t).enterSamples = 0
         /\ Unengaged(blockUntil(reset(t)))
  <1>1. reset(t) \in Machine /\ ~reset(t).active /\ reset(t).enterSamples = 0
    BY DEF reset, NewMachine, Machine
  <1> QED
    BY <1>1 DEF Unengaged, blockUntil, Machine

(* One eligible cycle is too few, and a cycle without a high-SoC stage is  *)
(* not eligible.                                                           *)
LEMMA UpdateUnengaged ==
  ASSUME NearFullIdleConsecutiveSamples > 1,
         NEW t \in Machine, Unengaged(t), NEW st, NEW grid, NEW ema,
         t.enterSamples = 0 \/ ~entryEligible(st, grid, ema)
  PROVE  Unengaged(update(t, st, grid, ema))
  <1> DEFINE n == Count(t.enterSamples, entryEligible(st, grid, ema))
  <1>1. n = 0 \/ n = 1
    BY DEF Count
  <1>2. n < NearFullIdleConsecutiveSamples
    BY <1>1, TopChargeIdleAssumption
  <1>3. Unengaged([t EXCEPT !.enterSamples = n])
    BY <1>1 DEF Unengaged, Machine
  <1> HIDE DEF n
  <1>4. Unengaged(UpdateInactive(t, st, grid, ema))
    BY <1>2, <1>3 DEF UpdateInactive, n
  <1>5. Unengaged(reset(t))
    BY ResetUnengaged
  <1> QED
    BY <1>4, <1>5 DEF update, Unengaged

(* No step engages the machine.                                            *)
LEMMA UnengagedNext ==
  ASSUME HighSoCDisableImportBiasPercent <= NearFullIdleEnterPercent,
         NearFullIdleConsecutiveSamples > 1,
         TypeOK, Unengaged(topChargeIdle), [LoopNext]_vars
  PROVE  Unengaged(topChargeIdle)'
  <1>1. topChargeIdle \in Machine
    BY DEF TypeOK
  <1>2. CASE topChargeIdle' = topChargeIdle
    BY <1>2 DEF Unengaged
  <1>3. CASE \/ topChargeIdle' = reset(topChargeIdle)
             \/ topChargeIdle' = blockUntil(reset(topChargeIdle))
    BY <1>1, <1>3, ResetUnengaged DEF Unengaged
  <1>4. CASE topChargeIdle' = Elapse(topChargeIdle)
    BY <1>1, <1>4 DEF Unengaged, Elapse, Machine
  <1>5. CASE topChargeIdle' = NewTopChargeIdle
    <2> DEFINE t == IF NewStage # "inactive" THEN reset(topChargeIdle) ELSE topChargeIdle
    <2>1. t \in Machine /\ Unengaged(t)
      BY <1>1, MachineType, ResetUnengaged
    <2>2. NewStage # "inactive" => t.enterSamples = 0
      BY <1>1, ResetUnengaged
    <2>3. ASSUME NewStage = "inactive"
          PROVE  ~entryEligible(St, cycle.grid, NewSmoothed)
      <3>1. St.soc \in Int
        BY PolicyType DEF TypeOK, Cycle, Status, St
      <3>2. St.soc < HighSoCDisableImportBiasPercent
        BY <2>3, <3>1, ControlLawAssumption DEF NewStage, highSoCStageForStatus
      <3> QED
        BY <3>1, <3>2, ControlLawAssumption, TopChargeIdleAssumption DEF entryEligible
    <2>4. t.enterSamples = 0 \/ ~entryEligible(St, cycle.grid, NewSmoothed)
      BY <2>2, <2>3
    <2> HIDE DEF t
    <2>5. Unengaged(update(t, St, cycle.grid, NewSmoothed))
      BY <2>1, <2>4, UpdateUnengaged
    <2> QED
      BY <1>5, <2>5 DEF NewTopChargeIdle, t
  <1> QED
    BY <1>2, <1>3, <1>4, <1>5, MachineSteps

(* With the high-SoC stages starting no higher than top-charge idle and    *)
(* more than one sample required, as by default (90, 100 and 2), the idle  *)
(* regime never engages: Step resets the machine in every cycle in which   *)
(* a stage is active, and no other cycle counts.  src/README.md:120-122    *)
(* recommends that regime.                                                 *)
THEOREM TopIdleNeverEngages ==
  ASSUME HighSoCDisableImportBiasPercent <= NearFullIdleEnterPercent,
         NearFullIdleConsecutiveSamples > 1
  PROVE  Spec => []~topChargeIdle.active
  <1>1. Init => TypeOK /\ Unengaged(topChargeIdle)
    BY TypeInit DEF Init, Unengaged, NewMachine
  <1>2. TypeOK /\ Unengaged(topChargeIdle) /\ [LoopNext]_vars
          => (TypeOK /\ Unengaged(topChargeIdle))'
    BY TypeNext, UnengagedNext
  <1>3. Unengaged(topChargeIdle) => ~topChargeIdle.active
    BY DEF Unengaged
  <1> QED
    BY <1>1, <1>2, <1>3, NextIsLoop, PTL DEF Spec

-----------------------------------------------------------------------------
(* Rate limits. *)

(* What publishing does to the history of the rarer commands. *)
LEMMA PublishHistory ==
  ASSUME TypeOK, NEW p, NEW payload, NEW observed, NEW kind, NEW ok \in BOOLEAN,
         \/ Publish(p, payload, observed, kind, ok)
         \/ publishAuthorityPayload(p, payload, observed, kind, ok)
  PROVE  /\ kind # "surplus_feed_in" => sent'.surplus = sent.surplus
         /\ kind # "nuclear_restart" => /\ sent'.restart = sent.restart
                                        /\ sent'.remedy = sent.remedy \/ sent'.remedy = 0
         /\ \/ pending' = p /\ sent' = sent
            \/ /\ pending'.payload = payload
               /\ kind \in {"output_enable", "stuck_output_rearm"} => sent'.remedy = 0
  <1>1. CASE Accepted(payload, observed, kind)
    <2>1. pending'.payload = payload
      BY <1>1 DEF Accepted
    <2>2. /\ kind # "surplus_feed_in" => sent'.surplus = sent.surplus
          /\ kind # "nuclear_restart" => /\ sent'.restart = sent.restart
                                         /\ sent'.remedy = sent.remedy \/ sent'.remedy = 0
          /\ kind \in {"output_enable", "stuck_output_rearm"} => sent'.remedy = 0
      BY <1>1 DEF Accepted, TypeOK, WriteAges
    <2> QED
      BY <2>1, <2>2
  <1>2. CASE NotAccepted(p)
    BY <1>2 DEF NotAccepted, historyVars
  <1> QED
    BY <1>1, <1>2 DEF Publish, publishAuthorityPayload

(* lastSurplusFeedInRecoveryAt is the time of the last accepted flash      *)
(* write.                                                                  *)
SurplusClock == surplusAge = sent.surplus

(* Forgetting an echo leaves the pending echo or the empty one. *)
LEMMA PendingShape ==
  /\ PendingAuthority = pending \/ PendingAuthority = NoPending
  /\ PendingControl = pending \/ PendingControl = NoPending
  BY DEF PendingAuthority, PendingControl, PendingCharging, clearPendingAuthorityPayload

(* A write that is no flash write leaves its clock alone. *)
LEMMA EnsureHistory ==
  ASSUME TypeOK, NEW p, NEW watts, NEW ok \in BOOLEAN, ensureControlledSlot(p, watts, ok)
  PROVE  /\ sent'.surplus = sent.surplus /\ sent'.restart = sent.restart
         /\ sent'.remedy = sent.remedy \/ sent'.remedy = 0
         /\ \/ /\ pending' = p \/ pending' = NoPending
               /\ sent' = sent
            \/ pending'.payload = EnsurePayload(cycle.st, watts)
  <1>1. CASE SlotMatches(cycle.st, watts)
    BY <1>1 DEF ensureControlledSlot, NotAccepted, historyVars, clearPendingAuthorityPayload
  <1>2. CASE ~SlotMatches(cycle.st, watts)
    BY <1>2, PublishHistory DEF ensureControlledSlot
  <1> QED
    BY <1>1, <1>2

(* Every step keeps the age of the last surplus write and the controller's *)
(* own clock equal, and a write waits out the interval.                    *)
LEMMA SurplusNext ==
  ASSUME TypeOK, SurplusClock, [LoopNext]_vars
  PROVE  /\ SurplusClock'
         /\ SurplusSent => Elapsed(sent.surplus, surplusMinInterval)
  <1>1. ASSUME UNCHANGED surplusAge, sent'.surplus = sent.surplus
        PROVE  /\ SurplusClock'
               /\ SurplusSent => Elapsed(sent.surplus, surplusMinInterval)
    BY <1>1 DEF SurplusClock, SurplusSent
  <1>2. CASE Tick
    <2>1. /\ surplusAge' = Older(surplusAge, surplusMinInterval)
          /\ sent'.surplus = Older(sent.surplus, surplusMinInterval)
      BY <1>2 DEF Tick
    <2>2. sent.surplus \in Age
      BY DEF TypeOK, WriteAges
    <2> QED
      BY <2>1, <2>2, OlderType DEF SurplusClock, SurplusSent
  <1>3. CASE Receive \/ ReadCached \/ ReadPolled \/ StatusFreeze \/ UNCHANGED vars
    BY <1>1, <1>3 DEF Receive, ReadCached, ReadPolled, Read, StatusFreeze, vars, historyVars
  <1>4. ASSUME NEW ok \in BOOLEAN, PrometheusDown(ok) \/ StatusHardFail(ok)
        PROVE  UNCHANGED surplusAge /\ sent'.surplus = sent.surplus
    <2>1. fallback(ok)
      BY <1>4 DEF PrometheusDown, StatusHardFail
    <2>2. UNCHANGED surplusAge
      BY <2>1 DEF fallback
    <2>3. \/ NotAccepted(pending)
          \/ \E payload : Publish(pending, payload, "zero", "fallback", ok)
      BY <2>1 DEF fallback
    <2>4. ASSUME NEW payload, Publish(pending, payload, "zero", "fallback", ok)
          PROVE  sent'.surplus = sent.surplus
      BY <2>4, PublishHistory
    <2> QED
      BY <2>2, <2>3, <2>4 DEF NotAccepted, historyVars
  <1>5. ASSUME NEW ok \in BOOLEAN, RemediateSurplus(ok)
        PROVE  /\ SurplusClock'
               /\ SurplusSent => Elapsed(sent.surplus, surplusMinInterval)
    <2> DEFINE done == WasPublished(PendingCharging, SurplusFeedInPayload, "zero", ok)
    <2>1. /\ Elapsed(surplusAge, surplusMinInterval)
          /\ surplusAge' = IF done THEN 0 ELSE surplusAge
          /\ Publish(PendingCharging, SurplusFeedInPayload, "zero", "surplus_feed_in", done)
      BY <1>5 DEF RemediateSurplus, SurplusDue, publishAuthorityPayload
    <2> HIDE DEF done
    <2>2. /\ done => sent'.surplus = 0
          /\ ~done => sent'.surplus = sent.surplus
      BY <2>1 DEF Publish, Accepted, NotAccepted, historyVars, TypeOK, WriteAges
    <2> QED
      BY <2>1, <2>2 DEF SurplusClock
  <1>6. ASSUME NEW ok \in BOOLEAN, RemediateChargingMode(ok)
        PROVE  UNCHANGED surplusAge /\ sent'.surplus = sent.surplus
    BY <1>6, PublishHistory DEF RemediateChargingMode
  <1>7. ASSUME NEW ok \in BOOLEAN, SoCFloorIdle(ok) \/ TopChargeIdling(ok)
        PROVE  UNCHANGED surplusAge /\ sent'.surplus = sent.surplus
    BY <1>7, EnsureHistory
    DEF SoCFloorIdle, TopChargeIdling, commandIdle, PolicyAboveFloor, Policy
  <1>8. ASSUME NEW ok \in BOOLEAN,
               \/ RearmComplete(ok) \/ RearmStart(ok)
               \/ NuclearRestart(ok) \/ EnableOutputs(ok)
        PROVE  UNCHANGED surplusAge /\ sent'.surplus = sent.surplus
    <2>1. UNCHANGED surplusAge
      BY <1>8 DEF RearmComplete, RearmStart, NuclearRestart, EnableOutputs, Discharge,
                  PolicyAboveFloor, Policy
    <2>2. RearmComplete(ok) \/ RearmStart(ok) =>
            \E payload : publishAuthorityPayload(PendingAuthority, payload, "zero",
                                                 "stuck_output_rearm", ok)
      BY DEF RearmComplete, RearmStart
    <2>3. ASSUME NEW payload,
                 publishAuthorityPayload(PendingAuthority, payload, "zero",
                                         "stuck_output_rearm", ok)
          PROVE  sent'.surplus = sent.surplus
      BY <2>3, PublishHistory
    <2>4. CASE NuclearRestart(ok) \/ EnableOutputs(ok)
      BY <2>1, <2>4, PublishHistory DEF NuclearRestart, EnableOutputs
    <2> QED
      BY <1>8, <2>1, <2>2, <2>3, <2>4
  <1>9. CASE RearmWait
    BY <1>1, <1>9 DEF RearmWait, NotAccepted, historyVars, Discharge, PolicyAboveFloor, Policy
  <1>10. ASSUME NEW ok \in BOOLEAN, SuppressOrReassert(ok)
         PROVE  UNCHANGED surplusAge /\ sent'.surplus = sent.surplus
    BY <1>10, EnsureHistory
    DEF SuppressOrReassert, NormalControl, Discharge, PolicyAboveFloor, Policy
  <1>11. ASSUME NEW ok \in BOOLEAN, PublishCommand(ok)
         PROVE  UNCHANGED surplusAge /\ sent'.surplus = sent.surplus
    BY <1>11, PublishHistory
    DEF PublishCommand, NormalControl, Discharge, PolicyAboveFloor, Policy
  <1> QED
    BY <1>1, <1>2, <1>3, <1>4, <1>5, <1>6, <1>7, <1>8, <1>9, <1>10, <1>11
    DEF LoopNext, Decide

(* The surplus feed-in flash write respects its minimum interval for every *)
(* interleaving with other publishes, failures and fallbacks.              *)
THEOREM SurplusIsRateLimited == Spec => SurplusWritesSpaced
  <1>1. Init => TypeOK /\ SurplusClock
    BY TypeInit DEF Init, SurplusClock
  <1>2. TypeOK /\ SurplusClock /\ [LoopNext]_vars => (TypeOK /\ SurplusClock)'
    BY TypeNext, SurplusNext
  <1>3. TypeOK /\ SurplusClock /\ [LoopNext]_vars =>
          [ SurplusSent => Elapsed(sent.surplus, surplusMinInterval) ]_vars
    BY SurplusNext
  <1> QED
    BY <1>1, <1>2, <1>3, NextIsLoop, PTL DEF Spec, SurplusWritesSpaced

-----------------------------------------------------------------------------
(* The device restart. *)

(* An enable attempt, and an output-enable that is still awaited, are      *)
(* remedies accepted since the last restart; the ladder's restart clock is *)
(* the history's.                                                          *)
RestartInv ==
    /\ escalation.enableAttempted => sent.remedy # Never
    /\ pending.payload = OutputEnablePayload => sent.remedy # Never
    /\ NuclearRestartMinInterval > 0 => escalation.restartAge = sent.restart

(* No other payload is mistaken for the output-enable. *)
LEMMA OutputEnableIsOther ==
  /\ NoPending.payload # OutputEnablePayload
  /\ \A payload : payload.kind # "outputs" => payload # OutputEnablePayload
  BY CommandPayloads DEF NoPending

(* Publishing anything but a restart keeps the remedies, and leaves an     *)
(* output-enable pending only if it was a remedy.                          *)
LEMMA RemedyKept ==
  ASSUME TypeOK, RestartInv, NEW p, p = pending \/ p = NoPending,
         NEW payload, NEW observed, NEW kind, NEW ok \in BOOLEAN,
         kind # "nuclear_restart",
         payload.kind = "outputs" => kind = "output_enable",
         \/ Publish(p, payload, observed, kind, ok)
         \/ publishAuthorityPayload(p, payload, observed, kind, ok)
         \/ NotAccepted(p)
  PROVE  /\ sent'.restart = sent.restart
         /\ sent.remedy # Never => sent'.remedy # Never
         /\ pending'.payload = OutputEnablePayload => sent'.remedy # Never
  <1>1. CASE NotAccepted(p)
    BY <1>1, OutputEnableIsOther DEF NotAccepted, historyVars, RestartInv
  <1>2. CASE \/ Publish(p, payload, observed, kind, ok)
             \/ publishAuthorityPayload(p, payload, observed, kind, ok)
    <2>1. /\ sent'.restart = sent.restart
          /\ sent'.remedy = sent.remedy \/ sent'.remedy = 0
          /\ \/ pending' = p /\ sent' = sent
             \/ /\ pending'.payload = payload
                /\ kind \in {"output_enable", "stuck_output_rearm"} => sent'.remedy = 0
      BY <1>2, PublishHistory
    <2>2. pending'.payload = OutputEnablePayload => sent'.remedy # Never
      BY <2>1, OutputEnableIsOther DEF RestartInv, Never
    <2> QED
      BY <2>1, <2>2 DEF Never
  <1> QED
    BY <1>1, <1>2

Remedies ==
    /\ sent'.restart = sent.restart
    /\ sent.remedy # Never => sent'.remedy # Never
    /\ pending'.payload = OutputEnablePayload => sent'.remedy # Never

(* The escalation record counts a remedy only when there was one. *)
Escalates ==
    /\ escalation'.restartAge = escalation.restartAge
    /\ escalation'.enableAttempted => escalation.enableAttempted \/ sent'.remedy # Never

(* A remedy that was published has just been accepted. *)
LEMMA RemedySent ==
  ASSUME TypeOK, NEW p, NEW payload, NEW kind \in {"output_enable", "stuck_output_rearm"},
         NEW ok \in BOOLEAN,
         publishAuthorityPayload(p, payload, "zero", kind, ok),
         WasPublished(p, payload, "zero", ok)
  PROVE  sent'.remedy = 0
  <1>1. Accepted(payload, "zero", kind)
    BY DEF publishAuthorityPayload, Publish
  <1> QED
    BY <1>1 DEF Accepted, TypeOK, WriteAges

(* ensureControlledSlot is no restart. *)
LEMMA EnsureRemedies ==
  ASSUME TypeOK, RestartInv, NEW p, p = pending \/ p = NoPending, NEW watts, NEW ok \in BOOLEAN,
         ensureControlledSlot(p, watts, ok)
  PROVE  Remedies
  <1>1. EnsurePayload(cycle.st, watts).kind = "slots"
    BY DEF EnsurePayload, buildSlotPayload, BuildTimedDischargePayload
  <1>2. CASE SlotMatches(cycle.st, watts)
    <2>1. \E q : (q = pending \/ q = NoPending) /\ NotAccepted(q)
      BY <1>2 DEF ensureControlledSlot, clearPendingAuthorityPayload
    <2> QED
      BY <2>1, <1>1, OutputEnableIsOther DEF NotAccepted, historyVars, RestartInv, Remedies
  <1>3. CASE ~SlotMatches(cycle.st, watts)
    BY <1>1, <1>3, RemedyKept DEF ensureControlledSlot, Remedies
  <1> QED
    BY <1>2, <1>3

(* What the escalation operators do. *)
LEMMA EscalationFacts ==
  ASSUME TypeOK
  PROVE  /\ resetEscalation.restartAge = escalation.restartAge
         /\ ~resetEscalation.enableAttempted
         /\ noteBlockedCycle.restartAge = escalation.restartAge
         /\ noteBlockedCycle.enableAttempted = escalation.enableAttempted
         /\ \A e \in Escalation, b \in BOOLEAN :
               /\ [e EXCEPT !.enableAttempted = b].restartAge = e.restartAge
               /\ [e EXCEPT !.enableAttempted = b].enableAttempted = b
  <1>1. escalation \in Escalation
    BY DEF TypeOK
  <1>2. /\ resetEscalation.restartAge = escalation.restartAge
        /\ ~resetEscalation.enableAttempted
    BY <1>1 DEF resetEscalation, Escalation
  <1>3. \A n : /\ [escalation EXCEPT !.blockedCycles = n].restartAge = escalation.restartAge
               /\ [escalation EXCEPT !.blockedCycles = n].enableAttempted
                    = escalation.enableAttempted
    BY <1>1 DEF Escalation
  <1>4. \A e \in Escalation, b \in BOOLEAN :
          /\ [e EXCEPT !.enableAttempted = b].restartAge = e.restartAge
          /\ [e EXCEPT !.enableAttempted = b].enableAttempted = b
    BY DEF Escalation
  <1> QED
    BY <1>2, <1>3, <1>4 DEF noteBlockedCycle

(* The other decisions are no restart, and escalate honestly. *)
LEMMA DecideRemedies ==
  ASSUME TypeOK, RestartInv, NEW ok \in BOOLEAN, Decide(ok), ~NuclearRestart(ok)
  PROVE  Remedies /\ Escalates
  <1>1. pending = pending \/ pending = NoPending
    OBVIOUS
  <1>2. CASE RemediateChargingMode(ok)
    <2>1. Remedies
      BY <1>1, <1>2, CommandPayloads, RemedyKept DEF RemediateChargingMode, Remedies
    <2> QED
      BY <1>2, <2>1 DEF RemediateChargingMode, Escalates
  <1>3. CASE RemediateSurplus(ok)
    <2>1. PendingCharging = pending \/ PendingCharging = NoPending
      BY DEF PendingCharging, clearPendingAuthorityPayload
    <2>2. Remedies
      BY <2>1, <1>3, CommandPayloads, RemedyKept DEF RemediateSurplus, Remedies
    <2> QED
      BY <1>3, <2>2 DEF RemediateSurplus, Escalates
  <1>4. CASE SoCFloorIdle(ok) \/ TopChargeIdling(ok)
    <2>1. Remedies
      BY <1>4, PendingShape, EnsureRemedies DEF SoCFloorIdle, TopChargeIdling, commandIdle
    <2>2. escalation' = resetEscalation
      BY <1>4 DEF SoCFloorIdle, TopChargeIdling
    <2> QED
      BY <2>1, <2>2, EscalationFacts DEF Escalates
  <1>5. CASE RearmComplete(ok) \/ RearmStart(ok)
    <2>1. PICK payload :
            /\ payload.kind = "slots"
            /\ publishAuthorityPayload(PendingAuthority, payload, "zero", "stuck_output_rearm", ok)
            /\ \/ escalation'.enableAttempted = escalation.enableAttempted
               \/ WasPublished(PendingAuthority, payload, "zero", ok)
            /\ escalation'.restartAge = escalation.restartAge
      <3>1. escalation \in Escalation /\ noteBlockedCycle \in Escalation
        BY LadderType DEF TypeOK
      <3>2. \A slot : buildSlotPayload(St, slot, FALSE).kind = "slots"
        BY DEF buildSlotPayload, BuildTimedDischargePayload
      <3>3. CASE RearmComplete(ok)
        BY <3>1, <3>2, <3>3, EscalationFacts DEF RearmComplete
      <3>4. CASE RearmStart(ok)
        BY <3>1, <3>2, <3>4, EscalationFacts DEF RearmStart
      <3> QED
        BY <1>5, <3>3, <3>4
    <2>2. Remedies
      BY <2>1, PendingShape, RemedyKept DEF Remedies
    <2>3. WasPublished(PendingAuthority, payload, "zero", ok) => sent'.remedy # Never
      BY <2>1, RemedySent DEF Never
    <2> QED
      BY <2>1, <2>2, <2>3 DEF Escalates
  <1>6. CASE EnableOutputs(ok)
    <2> DEFINE done == WasPublished(PendingAuthority, OutputEnablePayload, "zero", ok)
               handled == WasHandled(PendingAuthority, OutputEnablePayload, "zero", ok)
    <2>1. Remedies
      BY <1>6, CommandPayloads, PendingShape, RemedyKept DEF EnableOutputs, Remedies
    <2>2. handled => sent'.remedy # Never
      <3>1. CASE done
        BY <1>6, <3>1, RemedySent DEF EnableOutputs, Never
      <3>2. CASE ~done /\ handled
        <4>1. PendingAuthority.payload = OutputEnablePayload
          BY <3>2 DEF WasPublished, WasHandled, pendingEchoAwaited
        <4>2. sent.remedy # Never
          BY <4>1, PendingShape, OutputEnableIsOther DEF RestartInv
        <4> QED
          BY <2>1, <4>2 DEF Remedies
      <3> QED
        BY <3>1, <3>2
    <2>3. /\ escalation'.restartAge = escalation.restartAge
          /\ escalation'.enableAttempted = (escalation.enableAttempted \/ handled)
      <3>1. escalation' = [noteBlockedCycle EXCEPT
                             !.enableAttempted = noteBlockedCycle.enableAttempted \/ handled]
        BY <1>6 DEF EnableOutputs
      <3>2. noteBlockedCycle \in Escalation
        BY LadderType
      <3> HIDE DEF handled
      <3> QED
        BY <3>1, <3>2, EscalationFacts
    <2> QED
      BY <2>1, <2>2, <2>3 DEF Escalates
  <1>7. CASE SuppressOrReassert(ok) \/ PublishCommand(ok)
    <2>1. Remedies
      <3>1. CASE SuppressOrReassert(ok)
        BY <3>1, PendingShape, EnsureRemedies DEF SuppressOrReassert
      <3>2. CASE PublishCommand(ok)
        <4>1. buildSlotPayload(St, desiredControlledSlot(Ramped), PersistToFlash).kind = "slots"
          BY DEF buildSlotPayload, BuildTimedDischargePayload
        <4>2. PICK payload : /\ payload.kind = "slots"
                             /\ Publish(PendingControl, payload, cycle.obs, "control", ok)
          BY <3>2, <4>1 DEF PublishCommand
        <4> QED
          BY <4>2, PendingShape, RemedyKept DEF Remedies
      <3> QED
        BY <1>7, <3>1, <3>2
    <2>2. escalation' = noteBlockedCycle \/ escalation' = resetEscalation
      BY <1>7 DEF SuppressOrReassert, PublishCommand, NormalControl
    <2> QED
      BY <2>1, <2>2, EscalationFacts DEF Escalates
  <1> QED
    BY <1>2, <1>3, <1>4, <1>5, <1>6, <1>7 DEF Decide

(* No remedy has been attempted before the first Step. *)
LEMMA RestartInit == Init => RestartInv
  BY OutputEnableIsOther DEF Init, NewEscalation, RestartInv

(* Neither remedies nor clocks change between decisions, except that they  *)
(* grow older.                                                             *)
LEMMA RestartNext ==
  ASSUME TypeOK, CommandInv, RestartInv, [LoopNext]_vars
  PROVE  /\ RestartInv'
         /\ RestartSent => /\ sent.remedy # Never /\ published.slot.enabled
                           /\ Elapsed(sent.restart, NuclearRestartMinInterval)
  <1> DEFINE Goal == /\ RestartInv'
                     /\ RestartSent => /\ sent.remedy # Never /\ published.slot.enabled
                                       /\ Elapsed(sent.restart, NuclearRestartMinInterval)
  <1>1. ASSUME Remedies, Escalates
        PROVE  Goal
    BY <1>1 DEF Remedies, Escalates, RestartInv, RestartSent
  <1>2. CASE Tick
    <2>1. /\ sent.remedy \in Age /\ sent.restart \in Age
          /\ sent'.remedy = Older(sent.remedy, 1)
          /\ sent'.restart = Older(sent.restart, Larger(1, NuclearRestartMinInterval))
      BY <1>2 DEF Tick, TypeOK, WriteAges
    <2>2. /\ escalation'.enableAttempted = escalation.enableAttempted
          /\ escalation'.restartAge = Older(escalation.restartAge, NuclearRestartMinInterval)
          /\ pending'.payload = pending.payload
      BY <1>2 DEF Tick, TypeOK, Escalation, PendingEcho
    <2>3. /\ sent'.remedy = Never <=> sent.remedy = Never
          /\ sent'.restart = 0 => sent.restart = 0
      BY <2>1, OlderType
    <2>4. NuclearRestartMinInterval > 0 =>
            Larger(1, NuclearRestartMinInterval) = NuclearRestartMinInterval
      BY ControllerAssumption DEF Larger
    <2> QED
      BY <2>1, <2>2, <2>3, <2>4 DEF RestartInv, RestartSent
  <1>3. CASE Receive \/ ReadCached \/ ReadPolled \/ StatusFreeze \/ UNCHANGED vars
    <2>1. UNCHANGED <<escalation, sent>>
      BY <1>3 DEF Receive, ReadCached, ReadPolled, Read, StatusFreeze, vars, historyVars
    <2>2. pending'.payload = pending.payload
      BY <1>3 DEF Receive, ReadCached, ReadPolled, StatusFreeze, vars, TypeOK, PendingEcho
    <2> QED
      BY <2>1, <2>2 DEF RestartInv, RestartSent
  <1>4. ASSUME NEW ok \in BOOLEAN, PrometheusDown(ok) \/ StatusHardFail(ok)
        PROVE  Goal
    <2>1. fallback(ok)
      BY <1>4 DEF PrometheusDown, StatusHardFail
    <2>2. \/ NotAccepted(pending)
          \/ \E payload : /\ payload.kind = "slots"
                          /\ Publish(pending, payload, "zero", "fallback", ok)
      BY <2>1 DEF fallback, buildSlotPayload, BuildTimedDischargePayload
    <2>3. Remedies
      <3>1. CASE NotAccepted(pending)
        BY <3>1 DEF NotAccepted, historyVars, RestartInv, Remedies
      <3>2. ASSUME NEW payload, payload.kind = "slots",
                   Publish(pending, payload, "zero", "fallback", ok)
            PROVE  Remedies
        BY <3>2, RemedyKept DEF Remedies
      <3> QED
        BY <2>2, <3>1, <3>2
    <2>4. escalation' = resetEscalation
      BY <2>1 DEF fallback
    <2> QED
      BY <1>1, <2>3, <2>4, EscalationFacts DEF Escalates
  <1>5. CASE RearmWait
    <2>1. Remedies /\ Escalates
      BY <1>5, PendingShape, OutputEnableIsOther
      DEF RearmWait, NotAccepted, historyVars, RestartInv, Remedies, Escalates
    <2> QED
      BY <1>1, <2>1
  <1>6. ASSUME NEW ok \in BOOLEAN, Decide(ok), ~NuclearRestart(ok)
        PROVE  Goal
    BY <1>1, <1>6, DecideRemedies
  <1>7. ASSUME NEW ok \in BOOLEAN, NuclearRestart(ok)
        PROVE  Goal
    <2>1. /\ escalation.enableAttempted /\ lastCommandWatts > 0
          /\ NuclearRestartMinInterval > 0 =>
               Elapsed(escalation.restartAge, NuclearRestartMinInterval)
      BY <1>7 DEF NuclearRestart, NuclearDue, Blocked
    <2>2. sent.remedy # Never
      BY <2>1 DEF RestartInv
    <2>3. published.slot.enabled
      <3>1. lastCommandWatts \in Nat
        BY CommandType DEF TypeOK
      <3>2. desiredControlledSlot(lastCommandWatts).enabled
        BY <2>1, <3>1, DesiredSlot DEF TypeOK
      <3> QED
        BY <2>1, <3>2 DEF CommandInv, CommandIsOnTheWire
    <2>4. Elapsed(sent.restart, NuclearRestartMinInterval)
      <3>1. CASE NuclearRestartMinInterval > 0
        BY <2>1, <3>1 DEF RestartInv
      <3>2. CASE NuclearRestartMinInterval = 0
        BY <3>2 DEF Elapsed, TypeOK, WriteAges, Age
      <3> QED
        BY <3>1, <3>2, ControllerAssumption
    <2>5. CASE ok
      <3>1. Accepted(RestartPayload, "zero", "nuclear_restart")
        BY <1>7, <2>5 DEF NuclearRestart, Publish
      <3>2. /\ pending'.payload = RestartPayload /\ sent'.restart = 0
            /\ RestartPayload # OutputEnablePayload
        BY <3>1, CommandPayloads DEF Accepted, TypeOK, WriteAges
      <3>3. escalation'.restartAge = 0 /\ ~escalation'.enableAttempted
        BY <1>7, <2>5, LadderType, EscalationFacts DEF NuclearRestart, Escalation
      <3> QED
        BY <2>2, <2>3, <2>4, <3>2, <3>3 DEF RestartInv
    <2>6. CASE ~ok
      <3>1. /\ sent' = sent /\ pending' = PendingAuthority
            /\ escalation' = noteBlockedCycle
        BY <1>7, <2>6 DEF NuclearRestart, Publish, NotAccepted, historyVars
      <3> QED
        BY <2>2, <2>3, <2>4, <3>1, PendingShape, OutputEnableIsOther, EscalationFacts
        DEF RestartInv
    <2> QED
      BY <2>5, <2>6
  <1> QED
    BY <1>2, <1>3, <1>4, <1>5, <1>6, <1>7 DEF LoopNext

(* The device is restarted only after an output-enable or a re-arm was     *)
(* accepted since the last restart, while the schedule is armed, and not   *)
(* before NUCLEAR_RESTART_MIN_INTERVAL has passed.                         *)
THEOREM RestartCorrect == Spec => RestartIsLastResort
  <1>1. Init => TypeOK /\ CommandInv /\ RestartInv
    BY TypeInit, CommandInit, RestartInit
  <1>2. TypeOK /\ CommandInv /\ RestartInv /\ [LoopNext]_vars
          => (TypeOK /\ CommandInv /\ RestartInv)'
    BY TypeNext, CommandNext, RestartNext
  <1>3. TypeOK /\ CommandInv /\ RestartInv /\ [LoopNext]_vars =>
          [ RestartSent => /\ sent.remedy # Never /\ published.slot.enabled
                           /\ Elapsed(sent.restart, NuclearRestartMinInterval) ]_vars
    BY RestartNext
  <1> QED
    BY <1>1, <1>2, <1>3, NextIsLoop, PTL DEF Spec, RestartIsLastResort

-----------------------------------------------------------------------------
(* The export fast path. *)

(* A step that changes the command while exporting leaves it at or below   *)
(* the target.                                                             *)
LEMMA ExportStep ==
  ASSUME TypeOK, [LoopNext]_vars, cycle.on, Exporting, lastCommandWatts' # lastCommandWatts
  PROVE  lastCommandWatts' <= RawTarget
  <1>1. RawTarget \in CommandRange /\ RawTarget \in Nat
    BY PolicyType, CommandType
  <1>2. Exporting = TRUE
    BY PolicyType
  <1>3. Ramped <= RawTarget
    BY <1>1, <1>2, ExportingRamp DEF Ramped, TypeOK
  <1>4. ~(Tick \/ Receive \/ ReadCached \/ ReadPolled \/ StatusFreeze \/ UNCHANGED vars)
    BY DEF Tick, Receive, ReadCached, ReadPolled, Read, StatusFreeze, vars
  <1>5. ~(\E ok \in BOOLEAN : PrometheusDown(ok) \/ StatusHardFail(ok))
    BY DEF PrometheusDown, StatusHardFail, fallback
  <1>6. ~RearmWait
    BY DEF RearmWait
  <1>7. PICK ok \in BOOLEAN : Decide(ok)
    BY <1>4, <1>5, <1>6 DEF LoopNext
  <1>8. lastCommandWatts' \in {0, RawTarget, Ramped}
    BY <1>7 DEF Decide, RemediateChargingMode, RemediateSurplus, SoCFloorIdle,
                TopChargeIdling, RearmComplete, RearmStart, NuclearRestart, EnableOutputs,
                SuppressOrReassert, PublishCommand, commandIdle, recordCommandedWatts,
                noteIdleWithoutPublish
  <1> QED
    BY <1>1, <1>3, <1>8

(* While the house exports and may not, a changed command never exceeds    *)
(* the target.                                                             *)
THEOREM ExportsAreCut == Spec => ExportNeverOvershoots
  <1>1. TypeOK /\ [LoopNext]_vars =>
          [ cycle.on /\ Exporting /\ lastCommandWatts' # lastCommandWatts
            => lastCommandWatts' <= RawTarget ]_vars
    BY ExportStep
  <1> QED
    BY TypeInit, TypeNext, <1>1, NextIsLoop, PTL DEF Spec, ExportNeverOvershoots

=============================================================================
