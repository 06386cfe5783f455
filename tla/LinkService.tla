---------------------------- MODULE LinkService ----------------------------
(***************************************************************************)
(* What the data link promises to system management: the mode of the link   *)
(* and the indications of it that SM has not taken yet.  Every change of    *)
(* mode is indicated once and in order; communication starts with a         *)
(* wake-up, goes up one step at a time (STARTUP may go to OPERATE directly, *)
(* for a device of revision 1.0), a new configuration may bring it back to  *)
(* STARTUP, and a link that is lost is reported.                            *)
(***************************************************************************)
EXTENDS Sequences

VARIABLES link,   \* the mode of the link
          ind     \* DL_Mode_ind on their way to SM, oldest first

lvars == <<link, ind>>

ModeInds == {"STARTUP", "PREOPERATE", "OPERATE", "COMLOST", "INACTIVE"}

LinkInit == link = "Down" /\ ind = <<>>

Indicate(mode) == ind' = Append(ind, mode)

WakeUp      == link = "Down" /\ link' = "WakeUp" /\ UNCHANGED ind
NoDevice    == link = "WakeUp" /\ link' = "Down" /\ Indicate("INACTIVE")
Established == link = "WakeUp" /\ link' = "Startup" /\ Indicate("STARTUP")
ToPreoperate == link = "Startup" /\ link' = "Preoperate" /\ Indicate("PREOPERATE")
ToOperate ==
  link \in {"Startup", "Preoperate"} /\ link' = "Operate" /\ Indicate("OPERATE")
Restart ==
  link \in {"Preoperate", "Operate"} /\ link' = "Startup" /\ Indicate("STARTUP")
Drop ==
  /\ link \in {"Startup", "Preoperate", "Operate"} /\ link' = "Down"
  /\ \E mode \in {"COMLOST", "INACTIVE"} : Indicate(mode)
Take == ind # <<>> /\ ind' = Tail(ind) /\ UNCHANGED link

LinkNext == \/ WakeUp \/ NoDevice \/ Established \/ ToPreoperate \/ ToOperate
            \/ Restart \/ Drop \/ Take

LinkSpec == LinkInit /\ [][LinkNext]_lvars
====
