------------------------ MODULE PortSystemManagement ------------------------
(***************************************************************************)
(* System management of a port, iolink_sm.c: the start-up of a device       *)
(* (wake-up, direct parameters, compatibility, serial number), the way to   *)
(* OPERATE, the fall back and the faults.  Every transition of sm_trans_s0  *)
(* to sm_trans_s15 is a row of SmTable.                                     *)
(***************************************************************************)
EXTENDS PortAppLayer

VARIABLE sm

SmStates == {"PortInactive", "waitonDLPreop", "checkSerNum", "wait", "SMOperate",
             "InspectionFault", "waitonDLOperate", "DIDO", "ReadCom", "CheckCompV10",
             "CheckVxy", "CheckComp", "RestartDevice", "waitForFallback",
             "write_master_cycl", "wait_devmode_cnf"}

(***************************************************************************)
(* A port configuration: the port mode, the validation and backup, the      *)
(* device expected, and whether the cycle time asked for is below the       *)
(* device's.  SM is given the target mode, the revision and the inspection  *)
(* level that portconfiglist_to_parameterlist makes of them.                *)
(***************************************************************************)
Target(mode)   == CASE mode = "MAN"  -> "CFGCOM"  [] mode = "AUTO" -> "AUTOCOM"
                    [] mode \in {"DI", "DO"} -> mode [] OTHER -> "INACTIVE"
Revision(val)  == CASE val = "NO" -> "any" [] val = "V10" -> "V10" [] OTHER -> "V11"
Inspection(val) == CASE val = "NO" -> "NO_CHECK" [] val = "V10" -> "IDENTICAL"
                     [] OTHER -> "TYPE_COMP"
ParamList(cfg) == [mode |-> Target(cfg.mode), rev |-> Revision(cfg.val),
                   level |-> Inspection(cfg.val), dev |-> cfg.dev, fast |-> cfg.fast]
\* What cm_deactivate sends: all but the mode is zero.
NoParams(mode) == [mode |-> Target(mode), rev |-> "any", level |-> "NO_CHECK",
                   dev |-> "none", fast |-> FALSE]

SmInit == [state |-> "PortInactive", cfg |-> NoParams("DEACTIVE"), error |-> "none",
           retry |-> 0, id |-> "none", rev |-> "any"]

PortMode(mode) == JobArg("PORT_MODE", mode)

SmTable == {
  \* PortInactive
  <<"PortInactive", "DL_STARTUP", "ReadCom", "read_com">>,
  <<"PortInactive", "CFG_INACTIVE", "PortInactive", "inactive">>,
  <<"PortInactive", "CFG_COM", "PortInactive", "start">>,
  <<"PortInactive", "CFG_DIDO", "DIDO", "dido">>,
  \* waitonDLPreoperate
  <<"waitonDLPreop", "DL_PREOPERATE", "checkSerNum", "serial">>,
  <<"waitonDLPreop", "CNF_COMLOST", "PortInactive", "comlost">>,
  \* checkSerNum
  <<"checkSerNum", "SerNumOK", "wait", "comready">>,
  <<"checkSerNum", "SerNumFault", "InspectionFault", "fault">>,
  <<"checkSerNum", "CNF_COMLOST", "PortInactive", "comlost">>,
  <<"checkSerNum", "CFG_COM", "PortInactive", "start">>,
  <<"checkSerNum", "CFG_INACTIVE", "waitForFallback", "fallback">>,
  \* wait
  <<"wait", "CFG_COM", "PortInactive", "start">>,
  <<"wait", "CFG_DIDO", "DIDO", "dido">>,
  <<"wait", "OPERATE_V10", "SMOperate", "operate_ind">>,
  <<"wait", "DL_COMLOST", "PortInactive", "comlost">>,
  <<"wait", "CYCL_REQ", "write_master_cycl", "write_cycl">>,
  <<"wait", "CFG_INACTIVE", "waitForFallback", "fallback">>,
  \* SMOperate
  <<"SMOperate", "DL_COMLOST", "PortInactive", "comlost">>,
  <<"SMOperate", "DL_OPERATE", "SMOperate", "operate_ind">>,
  <<"SMOperate", "CFG_INACTIVE", "waitForFallback", "fallback">>,
  <<"SMOperate", "CFG_COM", "PortInactive", "start">>,
  <<"SMOperate", "CFG_DIDO", "DIDO", "dido">>,
  \* InspectionFault
  <<"InspectionFault", "RevisionFault", "InspectionFault", "fault">>,
  <<"InspectionFault", "CompFault", "InspectionFault", "fault">>,
  <<"InspectionFault", "CycTimeFault", "InspectionFault", "fault">>,
  <<"InspectionFault", "CFG_INACTIVE", "waitForFallback", "fallback">>,
  <<"InspectionFault", "CFG_COM", "PortInactive", "start">>,
  <<"InspectionFault", "CFG_DIDO", "DIDO", "dido">>,
  <<"InspectionFault", "DL_COMLOST", "PortInactive", "comlost">>,
  \* waitonDLOperate
  <<"waitonDLOperate", "DL_OPERATE", "checkSerNum", "serial">>,
  <<"waitonDLOperate", "CNF_COMLOST", "PortInactive", "comlost">>,
  <<"waitonDLOperate", "DL_COMLOST", "PortInactive", "comlost">>,
  \* DIDO
  <<"DIDO", "CFG_INACTIVE", "PortInactive", "inactive">>,
  <<"DIDO", "CFG_COM", "PortInactive", "start">>,
  <<"DIDO", "CFG_DIDO", "DIDO", "dido">>,
  \* ReadComParameter
  <<"ReadCom", "NOT_V10", "CheckVxy", "ident">>,
  <<"ReadCom", "V10", "CheckCompV10", "read_id">>,
  <<"ReadCom", "CNF_COMLOST", "PortInactive", "comlost">>,
  \* CheckCompV10
  <<"CheckCompV10", "CompOK", "waitonDLOperate", "operate_cmd">>,
  <<"CheckCompV10", "CompFault_V10", "InspectionFault", "fault">>,
  <<"CheckCompV10", "CycTimeFault_V10", "InspectionFault", "fault">>,
  <<"CheckCompV10", "CNF_COMLOST", "PortInactive", "comlost">>,
  \* CheckVxy
  <<"CheckVxy", "REVISION_OK", "CheckComp", "read_id">>,
  <<"CheckVxy", "RETRY", "RestartDevice", "restart">>,
  <<"CheckVxy", "RevisionFault", "InspectionFault", "preop_cmd">>,
  <<"CheckVxy", "CNF_COMLOST", "PortInactive", "comlost">>,
  \* CheckComp
  <<"CheckComp", "CompOK", "waitonDLPreop", "preop_cmd">>,
  <<"CheckComp", "RETRY", "RestartDevice", "restart">>,
  <<"CheckComp", "CompFault", "InspectionFault", "preop_cmd">>,
  <<"CheckComp", "CycTimeFault", "InspectionFault", "preop_cmd">>,
  <<"CheckComp", "CNF_COMLOST", "PortInactive", "comlost">>,
  \* RestartDevice
  <<"RestartDevice", "WriteDone", "ReadCom", "read_com">>,
  <<"RestartDevice", "CNF_COMLOST", "RestartDevice", "comlost">>,
  <<"RestartDevice", "DL_COMLOST", "CheckComp", "none">>,
  \* waitForFallback
  <<"waitForFallback", "CFG_INACTIVE", "PortInactive", "inactive">>,
  <<"waitForFallback", "DL_COMLOST", "PortInactive", "comlost">>,
  \* write_master_cycl
  <<"write_master_cycl", "CNF_COMLOST", "PortInactive", "comlost">>,
  <<"write_master_cycl", "CYCL_DONE", "wait_devmode_cnf", "devmode">>,
  \* wait_devmode_cnf
  <<"wait_devmode_cnf", "OPERATE_V10", "SMOperate", "operate_ind">>,
  <<"wait_devmode_cnf", "OPERATE", "SMOperate", "none">>,
  <<"wait_devmode_cnf", "CNF_COMLOST", "PortInactive", "comlost">> }

\* The rows of an event: at most one (the COMLOSTs that sm_comlost_ignore and the
\* SM_Operate that sm_smoperate_ignore take have none, as an event without a row has no
\* effect).
SmRows(state, event) == {t \in SmTable : t[1] = state /\ t[2] = event}

(***************************************************************************)
(* The actions of the table: DL requests, jobs posted, and SM's own fields  *)
(* (s is sm in the new state).                                              *)
(***************************************************************************)
Calls(s, d, posts) == sm' = s /\ dl' = d /\ Handled(posts)

SmAccess(s, what) == Calls(s, Access(dl, what), AccessCnf(dl, what))

\* sm_inspectFault: the mode the DL is set to, and what CM is told.
FaultMode(error) == CASE error = "CompFault_V10" -> "OPERATE"
                      [] error = "CycTimeFault_V10" -> "INACTIVE"
                      [] OTHER -> "PREOPERATE"
\* Mutant: CM is not told.
SmFault_Silent(s, event) ==
  Calls(s, IF event = "SerNumFault" THEN dl ELSE SetMode(dl, FaultMode(event)), <<>>)

SmFault(s, event) ==
  Calls(s, IF event = "SerNumFault" THEN dl ELSE SetMode(dl, FaultMode(event)),
        <<PortMode("FAULT")>>)

SmDo(do, s, event) ==
  CASE do = "read_com"    -> SmAccess(IF event = "DL_STARTUP" THEN [s EXCEPT !.retry = 0] ELSE s,
                                      "com")
    [] do = "read_id"     -> SmAccess(s, "id")
    [] do = "ident"       -> SmAccess(s, "ident")
    [] do = "preop_cmd"   -> SmAccess(s, "preop")
    [] do = "operate_cmd" -> SmAccess(s, "operate")
    [] do = "restart"     -> SmAccess([s EXCEPT !.retry = @ + 1], "restart")
    [] do = "serial"      -> Calls(s, dl, <<AlReq("SM", Op("read", "serial", 0))>>)
    [] do = "write_cycl"  -> Calls(s, dl, <<AlReq("SM", Op("write", "cycl", 0))>>)
    [] do = "comready"    -> Calls(s, dl, <<PortMode("COMREADY")>>)
    [] do = "fault"       -> SmFault(s, event)
    [] do = "comlost"     -> Calls(s, SetMode(dl, "INACTIVE"), <<PortMode("COMLOST")>>)
    [] do = "inactive"    -> Calls([s EXCEPT !.error = "none"], SetMode(dl, "INACTIVE"),
                                   <<PortMode("INACTIVE")>>)
    [] do = "start"       -> Calls([s EXCEPT !.error = "none"],
                                   SetMode(SetSDCI(dl), "STARTUP"), <<>>)
    [] do = "dido"        -> Calls(s, SetMode(SetSDCI(dl), "INACTIVE"),
                                   <<PortMode(s.cfg.mode)>>)
    [] do = "fallback"    -> Calls(s, Devicemode(dl, "FALLBACK"), DevicemodeCnf(dl, "FALLBACK"))
    [] do = "devmode"     -> Calls(s, Devicemode(dl, "OPERATE"), DevicemodeCnf(dl, "OPERATE"))
    [] do = "operate_ind" -> Calls(s, dl, <<PortMode("OPERATE")>>)
    [] OTHER              -> Calls(s, dl, <<>>)

\* iolink_sm_event, with s the context as the callback left it.  No action returns a
\* further event.
SmEvent(s, event) ==
  \/ \E t \in SmRows(s.state, event) : SmDo(t[4], [s EXCEPT !.state = t[3]], event)
  \/ SmRows(s.state, event) = {} /\ Calls(s, dl, <<>>)

-----------------------------------------------------------------------------
(***************************************************************************)
(* The callbacks.                                                           *)
(***************************************************************************)

\* sm_setportcfg_req_cb: in the other states the request is dropped, configuration and all.
TakesConfig == {"PortInactive", "wait", "SMOperate", "InspectionFault", "DIDO", "checkSerNum"}

SM_SetPortConfig ==
  /\ Due("SM_CONFIG")
  /\ LET cfg == DueArg("SM_CONFIG")
     IN IF sm.state \notin TakesConfig THEN Calls(sm, dl, <<>>)
        ELSE SmEvent([sm EXCEPT !.cfg = cfg],
                     CASE cfg.mode \in {"CFGCOM", "AUTOCOM"} -> "CFG_COM"
                       [] cfg.mode \in {"DI", "DO"} -> "CFG_DIDO"
                       [] OTHER -> "CFG_INACTIVE")

\* sm_operate_cb; the devices of revision 1.0 here are of the vendor the code exempts.
SM_Operate ==
  /\ Due("SM_OPERATE")
  /\ SmEvent(sm, IF sm.rev = "V10" THEN "OPERATE_V10" ELSE "CYCL_REQ")

\* sm_DL_Mode_ind_cb.
SM_Mode ==
  /\ Due("MODE")
  /\ LET mode == DueArg("MODE") IN
     IF mode = "COMLOST"
     THEN IF sm.state \in {"PortInactive", "DIDO"} THEN Calls(sm, dl, <<>>)
          ELSE SmEvent(sm, "DL_COMLOST")
     ELSE CASE sm.state = "PortInactive" ->
                 IF mode = "STARTUP" THEN SmEvent(sm, "DL_STARTUP")
                 ELSE IF mode = "INACTIVE"
                 THEN Calls(sm, dl, <<PortMode(IF sm.cfg.mode = "INACTIVE" THEN "INACTIVE"
                                               ELSE "COMLOST")>>)
                 ELSE Calls(sm, dl, <<>>)
            [] sm.state = "waitonDLPreop" ->
                 IF mode = "PREOPERATE" THEN SmEvent(sm, "DL_PREOPERATE") ELSE Calls(sm, dl, <<>>)
            [] sm.state \in {"SMOperate", "waitonDLOperate"} ->
                 IF mode = "OPERATE" THEN SmEvent(sm, "DL_OPERATE") ELSE Calls(sm, dl, <<>>)
            [] sm.state = "InspectionFault" -> Calls(sm, dl, <<>>)
            [] OTHER -> SmEvent(sm, "DL_COMLOST")

\* sm_do_check_comp, sm_do_check_comp_v10.
Compatible(s) == s.cfg.level = "NO_CHECK" \/ s.cfg.dev = s.id
\* Mutant: the retry counter is not looked at.
CompEvent_AlwaysRetries(s) ==
  IF ~s.cfg.fast /\ ~Compatible(s) /\ s.state = "CheckComp" THEN "RETRY" ELSE "CompOK"

CompEvent(s) ==
  CASE s.cfg.fast /\ s.state = "CheckComp"    -> "CycTimeFault"
    [] s.cfg.fast /\ s.state = "CheckCompV10" -> "CycTimeFault_V10"
    [] ~s.cfg.fast /\ Compatible(s)           -> "CompOK"
    [] ~s.cfg.fast /\ ~Compatible(s) /\ s.state = "CheckCompV10" -> "CompFault_V10"
    [] ~s.cfg.fast /\ ~Compatible(s) /\ s.state = "CheckComp" /\ s.retry = 0 -> "RETRY"
    [] OTHER -> "CompFault"
WithError(s, event) ==
  IF event \in {"CycTimeFault", "CycTimeFault_V10", "CompFault", "CompFault_V10", "RevisionFault"}
  THEN [s EXCEPT !.error = event] ELSE s

\* sm_DL_Write_cnf_checkvxy.
RevisionEvent(s) ==
  IF s.cfg.rev \in {"any", s.rev} THEN "REVISION_OK"
  ELSE IF s.retry = 0 THEN "RETRY" ELSE "RevisionFault"

(***************************************************************************)
(* sm_DL_Read_cnf_cb and sm_DL_Write_cnf_cb: what the end of a run of       *)
(* accesses means in each state.  Expected is what the code can handle: in  *)
(* the other states it meets CC_ASSERT (0).                                 *)
(***************************************************************************)
Expected == [ReadCom |-> {"com"}, CheckComp |-> {"id"}, CheckCompV10 |-> {"id"},
             RestartDevice |-> {"restart", "com", "id"}, waitonDLPreop |-> {"preop"},
             InspectionFault |-> {"preop"}, CheckVxy |-> {"ident"},
             waitonDLOperate |-> {"operate"}]

SM_DLCnf ==
  /\ Due("DL_CNF")
  /\ LET c == DueArg("DL_CNF") IN
     IF ~c.ok THEN SmEvent(sm, "CNF_COMLOST")
     ELSE /\ sm.state \in DOMAIN Expected
          /\ CASE sm.state = "ReadCom" ->
                    LET s == [sm EXCEPT !.rev = IF dev.id \in V10 THEN "V10" ELSE "V11"]
                    IN SmEvent(s, IF s.rev = "V10" THEN "V10" ELSE "NOT_V10")
               [] sm.state \in {"CheckComp", "CheckCompV10"} ->
                    LET s == [sm EXCEPT !.id = dev.id]
                    IN SmEvent(WithError(s, CompEvent(s)), CompEvent(s))
               [] sm.state = "CheckVxy" -> SmEvent(WithError(sm, RevisionEvent(sm)),
                                                   RevisionEvent(sm))
               [] sm.state = "RestartDevice"   -> SmEvent(sm, "WriteDone")
               [] sm.state = "waitonDLPreop"   -> Calls(sm, SetMode(dl, "PREOPERATE"), <<>>)
               [] sm.state = "waitonDLOperate" -> Calls(sm, SetMode(dl, "OPERATE"), <<>>)
               [] OTHER                        -> SmEvent(sm, sm.error)

\* sm_AL_Read_cnf_cb and sm_check_sernum.  The serial number asked for is the zeros of
\* cm's parameter list; a device without one passes for zeros.
SM_SerialCnf(c) ==
  IF c.err \in {"NONE", "NOTAVAIL"}
  THEN LET zero == c.err = "NOTAVAIL" \/ c.len = "none"
       IN IF sm.cfg.level = "IDENTICAL" /\ ~zero
          THEN SmEvent([sm EXCEPT !.error = "SerNumFault"], "SerNumFault")
          ELSE SmEvent(sm, "SerNumOK")
  ELSE SmEvent(sm, IF sm.rev = "V11" THEN "CNF_COMLOST" ELSE "DL_COMLOST")

\* sm_write_cycl_cnf_cb.
SM_CyclCnf(c) == SmEvent(sm, IF c.err = "NONE" THEN "CYCL_DONE" ELSE "CNF_COMLOST")

SM_ALCnf ==
  /\ Due("AL_CNF") /\ Head(jobs).who = "SM"
  /\ IF Head(jobs).rw = "read" THEN SM_SerialCnf(Head(jobs)) ELSE SM_CyclCnf(Head(jobs))

\* sm_DL_Write_Devmode_cnf: a confirmation that no state waits for is taken for a loss.
SM_DevmodeCnf ==
  /\ Due("DEVMODE_CNF")
  /\ IF DueArg("DEVMODE_CNF") /\ sm.state = "wait_devmode_cnf"
     THEN /\ sm' = [sm EXCEPT !.state = "SMOperate"]
          /\ dl' = SetMode(dl, "OPERATE")
          /\ Handled(IF sm.rev = "V10" THEN <<PortMode("OPERATE")>> ELSE <<>>)
     ELSE SmEvent(sm, CASE sm.state = "wait_devmode_cnf" -> "CNF_COMLOST"
                        [] DueArg("DEVMODE_CNF") /\ sm.state = "waitForFallback" -> "CFG_INACTIVE"
                        [] OTHER -> "DL_COMLOST")

SM_Handler ==
  /\ \/ SM_SetPortConfig \/ SM_Operate \/ SM_Mode \/ SM_DLCnf \/ SM_ALCnf \/ SM_DevmodeCnf
  /\ UNCHANGED <<dev, bufr, faults, al>>
=============================================================================
