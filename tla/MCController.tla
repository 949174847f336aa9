---------------------------- MODULE MCController ----------------------------
(***************************************************************************)
(* Instances of Controller for TLC: the reports the device may send in     *)
(* each run.                                                               *)
(***************************************************************************)
EXTENDS MCConfig

Report(soc, out, solar, slot) ==
    [soc |-> soc, dod |-> 80, cs |-> 0, outs |-> TRUE, out |-> out, solar |-> solar,
     pass |-> FALSE, surplus |-> TRUE, slot |-> slot, others |-> "A"]

Off(window)      == [enabled |-> FALSE, window |-> window, watts |-> 0]
On(window, watts) == [enabled |-> TRUE, window |-> window, watts |-> watts]

(* Ordinary control: the slot off and on, spelled both ways, SoC in the    *)
(* middle, at the floor (22 %), between floor and resume with the other    *)
(* slots edited and a foreign charging mode, a high-SoC stage with PV for  *)
(* the solar trace, and a full battery that delivers nothing.              *)
ControlStatuses ==
    { Report(50, 0, 0, Off("padded")),
      Report(50, 80, 0, On("ragged", 80)),
      Report(50, 160, 0, On("padded", 160)),
      Report(22, 80, 0, On("padded", 80)),
      [Report(24, 80, 0, On("other", 80)) EXCEPT !.others = "B", !.cs = 1],
      Report(96, 80, 100, On("padded", 80)),
      Report(100, 0, 0, On("padded", 160)) }

ControlGrid == {-80, 40, 160}

(* A device that is armed but delivers nothing: at 50 % (no re-arm) and    *)
(* full, beside reports that end the regime.                               *)
LadderStatuses ==
    { Report(50, 0, 0, On("padded", 160)),
      Report(100, 0, 0, On("padded", 160)),
      Report(100, 0, 0, Off("padded")),
      Report(100, 160, 0, On("padded", 160)),
      Report(22, 0, 0, Off("padded")) }

LadderGrid == {160}

(* A full battery passing PV through, losing it, and importing. *)
TopChargeStatuses ==
    { [Report(96, 0, 100, Off("padded")) EXCEPT !.pass = TRUE],
      Report(96, 0, 100, Off("padded")),
      Report(90, 0, 100, Off("padded")),
      [Report(96, 0, 100, On("padded", 80)) EXCEPT !.surplus = FALSE] }

TopChargeGrid == {0, 4}

(* Stuck devices for the liveness runs; the second set spells the window   *)
(* as real devices do.                                                     *)
StuckStatuses ==
    { Report(50, 0, 0, On("padded", 160)),
      Report(100, 0, 0, On("padded", 160)),
      Report(100, 0, 0, Off("padded")) }

RaggedStuckStatuses == { Report(100, 0, 0, On("ragged", 160)) }

(* An outage, with an edit of the other slots on the device. *)
OutageStatuses ==
    { Report(50, 0, 0, Off("padded")), Report(50, 80, 0, On("padded", 80)),
      [Report(50, 80, 0, On("padded", 80)) EXCEPT !.others = "B"] }
=============================================================================
