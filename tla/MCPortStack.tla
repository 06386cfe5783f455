----------------------------- MODULE MCPortStack -----------------------------
(***************************************************************************)
(* TLC instances of PortStack: what the application asks for in each run.   *)
(***************************************************************************)
EXTENDS PortStack

Cfg(mode, val, d) == [mode |-> mode, val |-> val, dev |-> d, fast |-> FALSE]
Fast(cfg)         == [cfg EXCEPT !.fast = TRUE]

NoRequests   == {}
\* A parameter of the application's, and a direct parameter, which AL reads otherwise.
ObjRequests  == {Op("read", "obj", 1), Op("write", "obj", 2), Op("read", "direct", 0)}

\* Backup and restore, and a deactivation: its device mode, asked for while the link is
\* lost, meets the next session.
BackupConfigs == {Cfg("MAN", "BAK_RESTORE", d) : d \in Devices \ Locked}
                 \cup {Cfg("DEACTIVE", "NO", "none")}
\* Every port mode, every validation, a device that is there or not, a cycle time it
\* cannot keep.
StartConfigs  == {Cfg("AUTO", "NO", "none"), Cfg("DI", "NO", "none"),
                  Cfg("DEACTIVE", "NO", "none"), Cfg("UNKNOWN", "NO", "none")}
                 \cup {Cfg("MAN", val, d) : val \in {"V10", "BAK_RESTORE"}, d \in Devices}
                 \cup {Cfg("MAN", "NO", "none"), Fast(Cfg("MAN", "NO", "none"))}

\* iolink_cm.c:448, of a lost link in DS_ParamManager: "Let DS report the fault, then
\* handle it as COMLOST".  CM does not stay there without a link.
DsLetsGo == cm.state = "DS_ParamManager" /\ dl.link = "Idle" ~> cm.state # "DS_ParamManager"
=============================================================================
