----------------------------- MODULE MCIolinkOD -----------------------------
(***************************************************************************)
(* TLC instances of IolinkOD: what happens together.                        *)
(***************************************************************************)
EXTENDS IolinkOD

ServedMixes == {{"Isdu", "Errors", "Loss"}, {"Isdu", "Event", "Errors", "Drop"},
                {"Isdu", "Event", "Pdout", "Drop"}, {"Isdu", "Event", "Mode", "Drop"},
                {"Isdu", "Pdout", "Race", "Drop"}, {"Isdu", "Reset"},
                {"Write", "Loss"}, {"Write", "Race", "Drop"}, {"Read", "Event"},
                {"Isdu", "Pdout", "Loss"}, {"Isdu", "Mode", "Loss"}, {"Isdu", "Reset", "Loss"}}
=============================================================================
