------------------------------ MODULE PortStack ------------------------------
(***************************************************************************)
(* One port of the IO-Link master: the layers above the data link composed   *)
(* over the mailbox, the data link thread and the device, and the            *)
(* application that configures the port and reads and writes its objects.    *)
(***************************************************************************)
EXTENDS PortConfigManager, Selection

CONSTANTS
  Configs,    \* the configurations the application asks for
  Requests,   \* its on-request data operations
  MaxCfgs,    \* bounds: configurations,
  MaxReqs,    \* operations,
  MaxFaults   \* and troubles on the cable

ASSUME ConfigsAssumption  == Configs \subseteq Cfgs
ASSUME RequestsAssumption == Requests \subseteq AppOps
ASSUME BudgetAssumption == MaxCfgs \in Nat /\ MaxReqs \in Nat /\ MaxFaults \in Nat

above == <<al, sm, ds, info, ode, pde, app, cm>>
link  == <<dl, dev, bufr, faults>>
vars  == <<jobs, link, above>>

Init ==
  /\ jobs = <<>> /\ dl = DlInit /\ bufr = NoData /\ faults = MaxFaults
  /\ \E d \in Devices : dev = Plugged(d)
  /\ al = AlInit /\ sm = SmInit /\ ds = DsInit /\ info = InfoInit
  /\ ode = OdeInit /\ pde = FALSE /\ app = AppInit(MaxCfgs, MaxReqs) /\ cm = CmInit

-----------------------------------------------------------------------------
\* No access, mode or command of SM's is under way.
Settled == /\ dl.mdh = "no" /\ dl.link # "WakeUp" /\ dl.acc = "none"
           /\ ~(Linked /\ dl.code = "due" /\ Carried)
           /\ ~(FellBack /\ dl.mh)

\* Nothing is under way in the port.  What the data link was asked for stays with it when
\* there is no communication.
Quiet == Settled /\ jobs = <<>> /\ (Linked => dl.isdu = NoOp /\ dl.par = NoOp)

\* Nothing is, but requests of the application's to the on-request exchange.
ExchangeTypes == {"SMI_RW", "OD_START", "PARAM_CNF", "ISDU_CNF"}
OnlyExchange ==
  /\ Settled /\ al.owner \in {"none", "ODE"}
  /\ \A i \in DOMAIN jobs : \/ jobs[i].type \in ExchangeTypes
                            \/ jobs[i].type \in {"AL_REQ", "AL_CNF"} /\ jobs[i].who = "ODE"

(***************************************************************************)
(* SMI_PortConfiguration_req.  The port handler configures a port when the  *)
(* program starts and after a loss, at once or 500 ms later                 *)
(* (iolink_handler.cc:506-522), and resets the data link before             *)
(* (iolink_dl_reset, 477).  Here neither SM nor DS has anything under way   *)
(* then: a configuration handled amid an access of SM's or its reading of   *)
(* the serial number is outside this model.  The reset is left out, which   *)
(* drops, when there is no link, the requests that wait for one.            *)
(***************************************************************************)
Configure ==
  /\ ~app.wait /\ app.cfgs > 0
  /\ Quiet \/ OnlyExchange
  /\ app' = [app EXCEPT !.wait = TRUE, !.cfgs = @ - 1]
  /\ \E cfg \in Configs : Posted(<<JobArg("SMI_PORTCFG", cfg)>>)

\* SMI_DeviceRead_req and SMI_DeviceWrite_req, one at a time.
Request ==
  /\ app.open = NoOp /\ app.reqs > 0
  /\ \E op \in Requests : /\ app' = [app EXCEPT !.open = op, !.reqs = @ - 1]
                          /\ Posted(<<JobArg("SMI_RW", op)>>)

\* wait_for_cnf gives up, after a second for a configuration and ten for a device read or
\* write (iolink_smi.cc:66,119); by then what was under way has ended.
GiveUp ==
  /\ Quiet
  /\ app.wait \/ app.open # NoOp
  /\ app' = [app EXCEPT !.wait = FALSE, !.open = NoOp]
  /\ UNCHANGED jobs

Application == /\ Configure \/ Request \/ GiveUp
               /\ UNCHANGED <<link, al, sm, ds, info, ode, pde, cm>>

\* iolink_main: the oldest job.
Master == \/ AL_Request /\ UNCHANGED <<ode, pde, app, cm>>
          \/ AL_Handler /\ UNCHANGED <<sm, ds, info, ode, pde, app, cm>>
          \/ SM_Handler /\ UNCHANGED <<ds, info, ode, pde, app, cm>>
          \/ DS_Handler /\ UNCHANGED <<ode, pde, app, cm>>
          \/ ODE_Handler /\ UNCHANGED cm
          \/ CM_Handler

LinkRuns  == LinkProgress /\ UNCHANGED above
LinkFails == LinkTrouble /\ UNCHANGED above

Next == Application \/ Master \/ LinkRuns \/ LinkFails

\* The threads run when they can; the application and the trouble are free.
Fairness == WF_vars(Master) /\ WF_vars(LinkRuns)
Spec     == Init /\ [][Next]_vars
FairSpec == Spec /\ Fairness

-----------------------------------------------------------------------------
Sets     == [Entries -> Values \cup {NoValue, <<"none", 1>>}]
JobTypes == {"MODE", "DL_CNF", "DEVMODE_CNF", "ISDU_CNF", "PARAM_CNF", "EVENT", "EVENT_RSP",
             "AL_REQ", "AL_CNF", "SM_CONFIG", "SM_OPERATE", "PORT_MODE", "DS_STARTUP",
             "DS_UPLOAD", "DS_DELETE", "DS_INIT", "DS_READY", "DS_FAULT", "OD_START",
             "OD_STOP", "SMI_RW", "SMI_PORTCFG"}

\* Types of the state of every layer.
TypeOK ==
  /\ \A i \in DOMAIN jobs : jobs[i].type \in JobTypes
  /\ dl.link \in {"Idle", "WakeUp", "Startup", "Preop", "Operate"}
  /\ dl.mode \in {"INACTIVE", "STARTUP", "PREOPERATE", "OPERATE"}
  /\ dl.mh \in BOOLEAN /\ dl.lost \in BOOLEAN /\ dl.mdh \in {"no", "set", "due"} /\ dl.run \in BOOLEAN
  /\ dev \in [id : Devices, par : Sets, flag : BOOLEAN, open : BOOLEAN]
  /\ al.od \in {"Idle", "Isdu", "Param"} /\ al.owner \in Users \cup {"none"}
  /\ al.event \in {"Idle", "Reading", "Handling"} /\ al.cnt \in 0..EventSlots
  /\ sm.state \in SmStates /\ sm.id \in Devices \cup {"none"} /\ sm.retry \in 0..1
  /\ ds.state \in DsStates /\ ds.set \in Sets /\ ds.pos \in 0..NEntries
  /\ ds.size \in 0..NEntries /\ ds.id \in Devices \cup {"none"}
  /\ ode.state \in {"Inactive", "Active", "Blocked"} /\ pde \in BOOLEAN
  /\ cm.state \in CmStates /\ cm.cfg \in Cfgs
  /\ app.open \in Requests \cup {NoOp} /\ app.wait \in BOOLEAN
  /\ faults \in 0..MaxFaults

-----------------------------------------------------------------------------
\* SM is only told of an access that succeeded when that is the access it waits for: no
\* confirmation meets the CC_ASSERT (0) of sm_DL_Read_cnf_cb and sm_DL_Write_cnf_cb, nor a
\* state that takes it for another's.
SmExpects == Due("DL_CNF") /\ DueArg("DL_CNF").ok
               => sm.state \in DOMAIN Expected /\ DueArg("DL_CNF").what \in Expected[sm.state]

\* The data set the master holds as valid is a whole device's, and of the device whose
\* identity it is stored under: uploads that break off, and units exchanged in between,
\* leave no valid mixture (iolink_ds.c, ds_upload to ds_write_cnf_cb).
Whole(set, id) == \A e \in Entries : set[e][1] = id
StoredWhole    == ds.valid => ds.size = NEntries /\ Whole(ds.set, ds.id)

\* A device reaches OPERATE with what the master restores: where a download is configured,
\* it holds the parameters stored or those the checksum stood for, unless it says that it
\* has others to be uploaded (iolink_cm.c waits for DS before it lets SM operate).
OperatesRestored ==
  cm.state = "WaitingOnOperate" /\ dl.link = "Operate" /\ ds.down
    => dev.par \in {ds.set, ds.cs} \/ dev.flag

\* No device is ever written another device's parameters.
DownloadOwn ==
  [][dev'.id = dev.id
     => \A e \in Entries : dev'.par[e] # dev.par[e] => dev'.par[e][1] = dev.id]_vars

\* When CM has left the exchange of data, process data is stopped and the on-request
\* exchange is, or its OD_Stop is on its way (a lost device leaves both active).
Stopped == cm.state \notin {"Port_Active", "PortFault", "CheckPortMode"}
             => ~pde /\ (ode.state = "Inactive" \/ Pending("OD_STOP") # {})

\* While CM calls the port active, SM operates and the link is in OPERATE and meant to be,
\* or the news to the contrary is in the mailbox.
Active == cm.state = "Port_Active"
            => \/ sm.state = "SMOperate" /\ dl.mode = "OPERATE" /\ dl.link = "Operate"
               \/ \E i \in DOMAIN jobs :
                    jobs[i] \in {PortMode("COMLOST"), ModeInd("INACTIVE"), ModeInd("COMLOST")}

\* A service AL waits for is under way below it: in the data link, or as a confirmation in
\* the mailbox.  Losses, refusals and new sessions in between leave AL waiting for nothing:
\* for an ISDU (iolink_dl.c, IH_Conf, and the five places that confirm one).  A direct
\* parameter is dropped by a reset of the link in OPERATE (iolink_dl.c:759).
IsduUnderWay == al.od = "Isdu" => dl.isdu # NoOp \/ Pending("ISDU_CNF") # {}

\* SM and the on-request exchange have at most one request each between the mailbox and its
\* confirmation: AL answers SERVICE_TEMP_UNAVAILABLE to a second (DS may have two:
\* iolink_ds.c, a short checksum in StoreDataSet).
InFlight(who) == (IF al.owner = who THEN 1 ELSE 0)
                 + Cardinality({i \in Pending("AL_REQ") \cup Pending("AL_CNF") : jobs[i].who = who})
OneEach == \A who \in {"SM", "ODE"} : InFlight(who) <= 1

\* The on-request exchange is blocked only by a request that will be answered.
BlockedAnswered == ode.state = "Blocked" => InFlight("ODE") > 0

\* The application is told of each of its ISDU reads what that read was answered, whatever
\* was lost, refused or reconfigured before (iolink_al.c, al_dl_isdu_transport_cnf_cb).  A
\* direct read has no such promise: iolink_dl.c:1909 may give it another message's byte.
OwnAnswer == app.told[1].what = "obj" /\ app.told[2] # NoData
               => app.told[2] = <<app.told[1].what, app.told[1].arg>>

\* The states of CM that wait for another layer end: the port becomes active, faulty,
\* deactivated, or it is without device.  Not while SM waits for a device to fall back that
\* is not there: sm_setportcfg_req_cb drops the configuration (deactivated after a cycle time
\* fault of revision 1.0, whose link is idle, SM waits so for ever).
Transitional == cm.state \in {"SM_Startup", "DS_ParamManager", "WaitingOnOperate"}
Settles      == Transitional /\ sm.state # "waitForFallback" ~> ~Transitional

\* The link as this module has it keeps what IolinkDL was shown to keep.
LinkOf    == [Idle |-> "Down", WakeUp |-> "WakeUp", Startup |-> "Startup",
              Preop |-> "Preoperate", Operate |-> "Operate"]
ModeInds  == SelectAt(jobs, Pending("MODE"))
Link      == INSTANCE LinkService WITH link <- LinkOf[dl.link],
                                       ind  <- [i \in DOMAIN ModeInds |-> ModeInds[i].arg]

\* PortDataLink implements the service that IolinkDL implements: one indication for each
\* change of mode, in order (iolink_dl.c, iolink_dl_mode_h_sm).
LinkRefinement == Link!LinkSpec
=============================================================================
