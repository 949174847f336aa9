------------------------------ MODULE MCSystem ------------------------------
(***************************************************************************)
(* Instances of System for TLC.                                            *)
(***************************************************************************)
EXTENDS System, MCConfig

(* A device at 50 % with its outputs switched off and in a foreign mode of *)
(* charging, and one at the soft floor (22 %) that is still armed, with    *)
(* everything the controller and the app make of them.                     *)
Home ==
    [soc |-> 50, dod |-> 80, cs |-> 0, outs |-> TRUE, out |-> 0, solar |-> 0,
     pass |-> FALSE, surplus |-> TRUE,
     slot |-> [enabled |-> FALSE, window |-> ReportedWindow, watts |-> 0], others |-> "A"]

HomeReports ==
    {Settle([Home EXCEPT !.slot.enabled = (w > 0), !.slot.watts = w,
                         !.cs = cs, !.outs = outs, !.soc = soc]) :
        w \in {0, 160}, cs \in {0, 1}, outs \in BOOLEAN, soc \in {22, 50}}

HomeDevice ==
    {[Home EXCEPT !.cs = 1, !.outs = FALSE],
     Settle([Home EXCEPT !.soc = 22, !.slot.enabled = TRUE, !.slot.watts = 160])}

SystemGrid == {-160, 160}
=============================================================================
