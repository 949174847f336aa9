-------------------------- MODULE DeviceProtocol --------------------------
(***************************************************************************)
(* What the controller reads from and writes to a B2500 device: the part   *)
(* of internal/marstek and internal/controller/slotwrite.go that the       *)
(* control loop's decisions depend on.                                     *)
(*                                                                         *)
(* A status is the parsed report.  `out` and `solar` are the sums over the *)
(* two ports (the code never uses one port alone), `outs` says that both   *)
(* output flags are 1, `pass` is PassThroughActive().  Of the five         *)
(* schedule slots the controlled one is `slot`; the other four are one     *)
(* member of Others.                                                       *)
(*                                                                         *)
(* A slot's start and end times are one window: "padded" is the configured *)
(* window spelled HH:MM, "ragged" the same window spelled without padding  *)
(* (the device reports "0:0"), "other" any other window.                   *)
(***************************************************************************)
EXTENDS Integers

CONSTANTS
    CfgWindow,    \* how SCHEDULE_START/SCHEDULE_END are spelled
    Others,       \* the contents the four other slots may have
    Wiped         \* those of marstek.Status{}: all disabled, 0 W

Windows == {"padded", "ragged", "other"}

(* config.isValidTime accepts both spellings of the configured window. *)
ASSUME WindowAssumption == CfgWindow \in {"padded", "ragged"}

ASSUME OthersAssumption == Wiped \in Others

Slot == [enabled : BOOLEAN, window : Windows, watts : Int]

Status == [soc : Int, dod : Int, cs : Int, outs : BOOLEAN, out : Int,
           solar : Int, pass : BOOLEAN, surplus : BOOLEAN,
           slot : Slot, others : Others]

NoSlot == [enabled |-> FALSE, window |-> "other", watts |-> 0]

(* marstek.Status{}, the base fallback() uses before any status was read.  *)
ZeroStatus ==
    [soc |-> 0, dod |-> 0, cs |-> 0, outs |-> FALSE, out |-> 0, solar |-> 0,
     pass |-> FALSE, surplus |-> FALSE, slot |-> NoSlot, others |-> Wiped]

-----------------------------------------------------------------------------
(* Payloads of the control topic. *)

Kinds == {"none", "slots", "charging_mode", "surplus", "outputs", "restart", "poll"}

Payload == [kind : Kinds, flash : BOOLEAN, slot : Slot, others : Others]

Plain(kind) == [kind |-> kind, flash |-> FALSE, slot |-> NoSlot, others |-> Wiped]

NoPayload               == Plain("none")
ChargingModePayload     == Plain("charging_mode")
SurplusFeedInPayload    == Plain("surplus")
OutputEnablePayload     == Plain("outputs")
RestartPayload          == Plain("restart")

(* The whole schedule: cd=7 when flash, cd=20 otherwise. *)
BuildTimedDischargePayload(slot, others, flash) ==
    [kind |-> "slots", flash |-> flash, slot |-> slot, others |-> others]

-----------------------------------------------------------------------------
(* Slots as the controller compares and merges them. *)

normaliseTime(window) == IF window = "ragged" THEN "padded" ELSE window

(* The controlled slot as SlotsAsWriteSlots converts it. *)
CurrentSlot(st) == [st.slot EXCEPT !.window = normaliseTime(@)]

desiredControlledSlot(watts) ==
    LET w == IF watts < 0 THEN 0 ELSE watts
    IN  [enabled |-> w > 0, window |-> CfgWindow, watts |-> w]

disabledControlledSlot == [enabled |-> FALSE, window |-> CfgWindow, watts |-> 0]

(* Merge the desired slot into the schedule the device reported. *)
buildSlotPayload(st, desired, flash) ==
    BuildTimedDischargePayload(desired, st.others, flash)

controlledSlotMatches(current, desired) ==
    /\ current.enabled = desired.enabled
    /\ current.window = desired.window
    /\ desired.enabled => current.watts = desired.watts

=============================================================================
