-------------------------- MODULE PortConfigManager --------------------------
(***************************************************************************)
(* The configuration manager of a port, iolink_cm.c: takes the application's *)
(* configuration, has SM start the device, DS compare its parameters, and    *)
(* starts the exchange of data; its callbacks are the jobs SM_PortMode_ind,  *)
(* DS_Ready, DS_Fault and SMI_PortConfiguration.                             *)
(***************************************************************************)
EXTENDS PortOnRequest

VARIABLE cm

CmStates == {"CheckPortMode", "SM_Startup", "DS_ParamManager", "PortFault",
             "WaitingOnOperate", "Port_Active", "Port_DIDO", "Port_Deactivated"}

\* The configurations there are.
Cfgs == [mode : {"MAN", "AUTO", "DI", "DO", "DEACTIVE", "UNKNOWN"},
         val : {"NO", "V10", "V11", "RESTORE", "BAK_RESTORE"},
         dev : Devices \cup {"none"}, fast : BOOLEAN]

NoCfg  == [mode |-> "DEACTIVE", val |-> "NO", dev |-> "none", fast |-> FALSE]
CmInit == [state |-> "Port_Deactivated", cfg |-> NoCfg]
InfoInit == [id |-> "none", status |-> "DEACTIVATED"]

CM_Calls(state, cfg, posts) == cm' = [state |-> state, cfg |-> cfg] /\ Handled(posts)
CM_Moves(state, posts) == CM_Calls(state, cm.cfg, posts)
CM_Ignores == UNCHANGED <<cm, info, ode, pde, app>> /\ Handled(<<>>)

\* init_port_info: the identity is SM's.
PortInfo(status) == [status |-> status, id |-> IF status = "DEACTIVATED" THEN "none" ELSE sm.id]

-----------------------------------------------------------------------------
(***************************************************************************)
(* cm_smi_portconfiguration_cb: cm_check_mode stops the exchange, confirms   *)
(* or refuses, and the event it returns runs cm_startup, cm_dido or          *)
(* cm_deactivate.                                                            *)
(***************************************************************************)
SmConfig(params) == JobArg("SM_CONFIG", params)

\* Mutant: the on-request exchange is not stopped.
CM_Startup_KeepsExchange(cfg) ==
  /\ CM_Calls("SM_Startup", cfg,
              (IF cfg.mode = "AUTO" \/ ~DS_ChkCfg(cfg) THEN <<Job("DS_DELETE")>> ELSE <<>>)
              \o <<JobArg("DS_INIT", cfg), SmConfig(ParamList(cfg))>>)
  /\ UNCHANGED info

CM_Startup(cfg) ==
  /\ CM_Calls("SM_Startup", cfg,
              <<Job("OD_STOP")>>
              \o (IF cfg.mode = "AUTO" \/ ~DS_ChkCfg(cfg) THEN <<Job("DS_DELETE")>> ELSE <<>>)
              \o <<JobArg("DS_INIT", cfg), SmConfig(ParamList(cfg))>>)
  /\ UNCHANGED info

CM_DIDO(cfg) ==
  /\ CM_Calls("Port_DIDO", cfg, <<Job("OD_STOP"), Job("DS_DELETE"), JobArg("DS_INIT", cfg),
                                  SmConfig(ParamList(cfg))>>)
  /\ info' = [id |-> "none", status |-> cfg.mode]

\* A configuration that is refused is not stored, and its port mode is not the one SM gets.
CM_Deactivate(cfg, refused) ==
  LET kept == IF refused THEN cm.cfg ELSE cfg IN
  /\ CM_Calls("Port_Deactivated", kept,
              <<Job("OD_STOP")>> \o (IF refused THEN <<Job("DS_DELETE")>> ELSE <<>>)
              \o <<SmConfig(NoParams(kept.mode))>>)
  /\ info' = PortInfo("DEACTIVATED")

CM_Configure ==
  /\ Due("SMI_PORTCFG")
  /\ LET cfg == DueArg("SMI_PORTCFG") IN
     IF cm.state = "DS_ParamManager"
     THEN CM_Ignores                      \* cm_cfg_change_ignore: no answer either
     ELSE /\ pde' = FALSE                 \* PD_Stop
          /\ app' = [app EXCEPT !.wait = FALSE]
          /\ UNCHANGED ode
          /\ CASE cfg.mode \in {"MAN", "AUTO"} -> CM_Startup(cfg)
               [] cfg.mode \in {"DI", "DO"}    -> CM_DIDO(cfg)
               [] cfg.mode = "DEACTIVE"        -> CM_Deactivate(cfg, FALSE)
               [] OTHER                        -> CM_Deactivate(cfg, TRUE)

-----------------------------------------------------------------------------
(***************************************************************************)
(* cm_sm_port_mode_ind_cb.                                                  *)
(***************************************************************************)
CM_ComReady == /\ cm.state = "SM_Startup"
               /\ info' = PortInfo("PREOP")
               /\ CM_Moves("DS_ParamManager", <<Job("DS_STARTUP")>>)
               /\ UNCHANGED <<ode, pde, app>>

\* cm_sm_operate: OD_Start is posted, PD_Start takes effect at once.
CM_Operate == /\ cm.state = "WaitingOnOperate"
              /\ info' = PortInfo("OP") /\ pde' = TRUE
              /\ CM_Moves("Port_Active", <<Job("OD_START")>>)
              /\ UNCHANGED <<ode, app>>

CM_PortFault(states) == /\ cm.state \in states
                        /\ info' = PortInfo("PORT_DIAG")
                        /\ CM_Moves("PortFault", <<>>)
                        /\ UNCHANGED <<ode, pde, app>>

\* cm_comlost; in DS_ParamManager it is ignored.
CM_Comlost == /\ cm.state \in {"CheckPortMode", "SM_Startup", "PortFault", "WaitingOnOperate",
                               "Port_Active"}
              /\ info' = [info EXCEPT !.status = "NO_DEV"]
              /\ CM_Moves("CheckPortMode", <<>>)
              /\ UNCHANGED <<ode, pde, app>>

CM_PortMode ==
  /\ Due("PORT_MODE")
  /\ LET mode == DueArg("PORT_MODE") IN
     \/ mode = "COMREADY" /\ CM_ComReady
     \/ mode = "FAULT" /\ CM_PortFault({"SM_Startup"})
     \/ mode = "OPERATE" /\ CM_Operate
     \/ mode = "COMLOST" /\ CM_Comlost
     \/ /\ mode = "INACTIVE" /\ info' = [info EXCEPT !.status = "DEACTIVATED"]
        /\ CM_Moves(cm.state, <<>>) /\ UNCHANGED <<ode, pde, app>>
     \/ /\ \/ mode = "COMREADY" /\ cm.state # "SM_Startup"
           \/ mode = "FAULT" /\ cm.state # "SM_Startup"
           \/ mode = "OPERATE" /\ cm.state # "WaitingOnOperate"
           \/ mode = "COMLOST" /\ cm.state \in {"DS_ParamManager", "Port_DIDO", "Port_Deactivated"}
           \/ mode \in {"DI", "DO"}
        /\ CM_Ignores

\* cm_ds_ready_cb and cm_ds_fault_cb.
CM_DsReady ==
  /\ Due("DS_READY")
  /\ IF cm.state = "DS_ParamManager"
     THEN CM_Moves("WaitingOnOperate", <<Job("SM_OPERATE")>>) /\ UNCHANGED <<info, ode, pde, app>>
     ELSE CM_Ignores

CM_DsFault ==
  /\ Due("DS_FAULT")
  /\ LET faulty == {"DS_ParamManager", "WaitingOnOperate", "Port_Active"} IN
     CM_PortFault(faulty) \/ (cm.state \notin faulty /\ CM_Ignores)

CM_Handler == /\ CM_Configure \/ CM_PortMode \/ CM_DsReady \/ CM_DsFault
              /\ UNCHANGED <<dl, dev, bufr, faults, al, sm, ds>>
=============================================================================
