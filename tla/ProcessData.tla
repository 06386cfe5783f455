----------------------------- MODULE ProcessData -----------------------------
(***************************************************************************)
(* Process data of one port, from the device to the application and back:   *)
(* the process data handler of the data link (iolink_dl.c), AL's input      *)
(* buffer, the mailbox of the master's thread with SM and CM behind it, the *)
(* process data exchange (iolink_pde.c) and the application's port handler  *)
(* with generic_run (iolink_handler.cc, iolink_port.cc, iolink_smi.cc).     *)
(*                                                                         *)
(* Data are the number of the session they belong to.  The handlers of the  *)
(* data link are IolinkDL's and IolinkOD's, the startup of the port is       *)
(* PortStack's; here a session starts, exchanges messages and is lost.       *)
(***************************************************************************)
EXTENDS Naturals, Sequences

CONSTANTS MaxSessions, MaxJobs        \* bounds

ASSUME BoundsAssumption == MaxSessions \in Nat /\ MaxJobs \in Nat

Controls == {"VALID", "INVALID"}                          \* DL_CONTROL_IND
Bits     == {"PD", "PORTE", "RETRY_ESTCOM", "COMLOST"}    \* app_event
Jobs     == Controls \union
            {"PD_EVENT", "DL_OPERATE", "DL_COMLOST",      \* DL_MODE_IND
             "SM_PREOP", "SM_OPERATE", "SM_COMLOST",      \* SM_PORT_MODE_IND
             "CONFIG"}                                    \* SMI_PORTCONFIGURATION

VARIABLES
  link,        \* "down", "startup" (SM reads the device), "preop" (CM and DS are to agree),
               \* "ready" (SM has asked for OPERATE) or "operate"
  ses,         \* the sessions so far
  mh,          \* the message handler: "wait" for the answer, "answer" or "prepare"
  pd,          \* pd_handler: state and pdoutdata
  code, cmd,   \* cmd_handler: control_code and state
  tx,          \* the message in the chip: its output data, and whether it is PDOUTVALID
  dev,         \* the device: its outputs, and whether it was told that they are valid
  al,          \* pdin_data
  jobs,        \* the master's mailbox
  port,        \* port_info of CM: port_status_info and port_quality_info
  pde,         \* process data exchange: active, and output_enable
  race,        \* whether the DL thread may run between the control code and the command handler
  app,         \* app_port_state
  ev, cur,     \* the bits of app_event, and those the handler has taken
  timer,       \* iolink_tsd_tmr
  run,         \* generic_run: where it is, and its local pdin_valid
  pdInValid    \* status.pdInValid

dlVars   == <<link, ses, mh, pd, code, cmd, tx, dev, al>>
amVars   == <<port, pde, race>>
hdVars   == <<app, ev, cur, timer, run, pdInValid>>
vars     == <<dlVars, amVars, hdVars, jobs>>

Init ==
  /\ link = "down" /\ ses = 0 /\ mh = "wait" /\ al = 0
  /\ pd = [state |-> "Inactive", out |-> 0] /\ code = "NONE" /\ cmd = "Inactive"
  /\ tx = [out |-> 0, valid |-> FALSE] /\ dev = [out |-> 0, told |-> FALSE]
  /\ jobs = <<"CONFIG">>
  /\ port = [status |-> "DEACTIVATED", quality |-> "INVALID"]
  /\ pde = [active |-> FALSE, oe |-> FALSE] /\ race \in BOOLEAN
  /\ app = "STARTING" /\ ev = {} /\ cur = {} /\ timer = FALSE
  /\ run = [pc |-> "none", valid |-> FALSE] /\ pdInValid = FALSE

-----------------------------------------------------------------------------
(* The DL thread and the device.                                            *)

Room(n) == Len(jobs) + n <= MaxJobs

\* SM knows the device and tells CM.
EnterPreop ==
  /\ link = "startup" /\ Room(1)
  /\ link' = "preop" /\ jobs' = Append(jobs, "SM_PREOP")
  /\ UNCHANGED <<ses, mh, pd, code, cmd, tx, dev, al, amVars, hdVars>>

\* iolink_dl_mode_h_sm_goto_operate: every M-sequence type has a bit of TYPE_2_X, so the
\* handler exchanges single messages.  The first one has the outputs set_mseq_change zeroed.
\* The command handler is active since the wake-up and has sent SM's commands.
EnterOperate ==
  /\ link = "ready" /\ ses < MaxSessions /\ Room(1)
  /\ link' = "operate" /\ ses' = ses + 1
  /\ pd' = [pd EXCEPT !.state = "Single"] /\ tx' = [out |-> 0, valid |-> FALSE]
  /\ cmd' = "Idle" /\ jobs' = Append(jobs, "DL_OPERATE")
  /\ UNCHANGED <<mh, code, dev, al, amVars, hdVars>>

\* A wake-up or an access of the startup that nobody answers.
StartFails ==
  /\ link \in {"startup", "preop", "ready"} /\ Room(1)
  /\ link' = "down" /\ jobs' = Append(jobs, "DL_COMLOST")
  /\ UNCHANGED <<ses, mh, pd, code, cmd, tx, dev, al, amVars, hdVars>>

\* The chip exchanges its message and the device answers.
Exchange ==
  /\ link = "operate" /\ mh = "wait" /\ mh' = "answer"
  /\ dev' = [out |-> tx.out, told |-> dev.told \/ tx.valid]
  /\ UNCHANGED <<link, ses, pd, code, cmd, tx, al, amVars, hdVars, jobs>>

\* AW_REPLY_16, an answer: the device's word on its input (cks) is posted, the input is AL's
\* at once and the application's by another job.
Answer ==
  /\ mh = "answer" /\ mh' = "prepare" /\ Room(2)
  /\ al' = ses
  /\ \E v \in Controls : jobs' = jobs \o <<v, "PD_EVENT">>
  /\ UNCHANGED <<link, ses, pd, code, cmd, tx, dev, amVars, hdVars>>

\* AW_REPLY_16, the next message: the outputs as they are by now and, if nothing else has the
\* on-request data (IolinkOD), the command of a control code.  A command handler that was not
\* run with its code takes a step only.
Prepare ==
  /\ mh = "prepare" /\ mh' = "wait" /\ (run.pc = "told" => race)
  /\ \E taken \in {FALSE, code = "PDOUTVALID"} :
       LET valid == taken /\ cmd = "Command"
       IN /\ tx' = [out |-> pd.out, valid |-> valid]
          /\ code' = IF valid THEN "NONE" ELSE code
          /\ cmd' = IF valid THEN "Idle" ELSE IF taken THEN "Command" ELSE cmd
  /\ UNCHANGED <<link, ses, pd, dev, al, amVars, hdVars, jobs>>

\* The last retry of a message fails, or the watchdog fires: the mode handler's T12 to T14.
\* A device without communication switches its outputs off.  A command handler that has a
\* command puts it into a message that is never sent, unless the OD handler stops it first.
LoseLink ==
  /\ link = "operate" /\ mh = "wait" /\ Room(1)
  /\ link' = "down" /\ pd' = [pd EXCEPT !.state = "Inactive"]
  /\ dev' = [out |-> 0, told |-> FALSE]
  /\ jobs' = Append(jobs, "DL_COMLOST")
  /\ \/ cmd' = "Inactive" /\ code' = code
     \/ cmd = "Command" /\ cmd' = "Idle" /\ code' = "NONE"
  /\ UNCHANGED <<ses, mh, tx, al, amVars, hdVars>>

-----------------------------------------------------------------------------
(* The master's thread: one job at a time.                                   *)

Next_(j) == jobs # <<>> /\ Head(jobs) = j

Rest == jobs' = Tail(jobs)

Signal(b) == ev' = ev \union {b} /\ UNCHANGED <<app, cur, timer, run, pdInValid>>

\* AL_Control_ind.
ControlInd ==
  /\ \E v \in Controls : Next_(v) /\ port' = [port EXCEPT !.quality = v]
  /\ Rest /\ UNCHANGED <<dlVars, pde, race, hdVars>>

\* PD_cb (its copy of the input is written again by the run it asks for).
PdEvent ==
  /\ Next_("PD_EVENT") /\ Rest
  /\ Signal("PD") /\ UNCHANGED <<dlVars, amVars>>

\* SM tells CM, behind what is in the mailbox.
ModeInd ==
  /\ \/ Next_("DL_OPERATE") /\ jobs' = Append(Tail(jobs), "SM_OPERATE")
     \/ Next_("DL_COMLOST") /\ jobs' = Append(Tail(jobs), "SM_COMLOST")
  /\ UNCHANGED <<dlVars, amVars, hdVars>>

\* cm_start_ds; when DS is ready CM asks SM for OPERATE.
CM_StartDs ==
  /\ Next_("SM_PREOP") /\ Rest
  /\ port' = [status |-> "PREOP", quality |-> "INVALID"]
  /\ link' = IF link = "preop" THEN "ready" ELSE link
  /\ UNCHANGED <<ses, mh, pd, code, cmd, tx, dev, al, pde, race, hdVars>>

\* cm_sm_operate; the application is told that the status has changed.
CM_Operate ==
  /\ Next_("SM_OPERATE") /\ Rest
  /\ port' = [status |-> "OP", quality |-> "VALID"]
  /\ pde' = [pde EXCEPT !.active = TRUE]
  /\ Signal("PORTE") /\ UNCHANGED <<dlVars, race>>

\* Mutant: CM starts the port again itself.
CM_Comlost_Restarts ==
  /\ Next_("SM_COMLOST") /\ Rest
  /\ port' = [port EXCEPT !.status = "NO_DEV"] /\ link' = "startup"
  /\ Signal("COMLOST") /\ UNCHANGED <<ses, mh, pd, code, cmd, tx, dev, al, pde, race>>

\* cm_comlost: cm_check_mode returns at once, so the exchange stays active.
CM_Comlost ==
  /\ Next_("SM_COMLOST") /\ Rest
  /\ port' = [port EXCEPT !.status = "NO_DEV"]
  /\ Signal("COMLOST") /\ UNCHANGED <<dlVars, pde, race>>

\* Mutant: no PD_Stop.
CM_Config_KeepsExchange ==
  /\ Next_("CONFIG") /\ Rest /\ link' = "startup"
  /\ UNCHANGED <<ses, mh, pd, code, cmd, tx, dev, al, amVars, hdVars>>

\* cm_check_mode of a new configuration, and the startup SM begins.
CM_Config ==
  /\ Next_("CONFIG") /\ Rest
  /\ pde' = [active |-> FALSE, oe |-> FALSE] /\ link' = "startup"
  /\ UNCHANGED <<ses, mh, pd, code, cmd, tx, dev, al, port, race, hdVars>>

-----------------------------------------------------------------------------
(* The application's port handler, iolink_handler.                           *)

\* The handler takes all the bits at once and looks at them in this order.
Take ==
  /\ cur = {} /\ ev # {} /\ cur' = ev /\ ev' = {}
  /\ UNCHANGED <<dlVars, amVars, jobs, app, timer, run, pdInValid>>

\* generic_run, where the command asks for outputs: SMI_PDOut_req.  Outputs the data link
\* does not take leave the control code alone.
PdOut ==
  /\ "PD" \in cur /\ run.pc = "none" /\ app = "RUNNING"
  /\ IF pde.active /\ pd.state = "Single"
     THEN /\ pd' = [pd EXCEPT !.out = ses]
          /\ run' = [pc |-> IF pde.oe THEN "in" ELSE "control", valid |-> FALSE]
     ELSE run' = [pc |-> "in", valid |-> FALSE] /\ UNCHANGED pd
  /\ UNCHANGED <<link, ses, mh, code, cmd, tx, dev, al, amVars, jobs, app, ev, cur, timer, pdInValid>>

NoPdOut ==
  /\ "PD" \in cur /\ run.pc = "none" /\ app = "RUNNING"
  /\ run' = [pc |-> "in", valid |-> FALSE]
  /\ UNCHANGED <<dlVars, amVars, jobs, app, ev, cur, timer, pdInValid>>

\* An event of a port that is not running.
PdIgnored ==
  /\ "PD" \in cur /\ run.pc = "none" /\ app # "RUNNING" /\ cur' = cur \ {"PD"}
  /\ UNCHANGED <<dlVars, amVars, jobs, app, ev, timer, run, pdInValid>>

\* DL_Control_req: the control code,
PdOutControl ==
  /\ run.pc = "control" /\ run' = [run EXCEPT !.pc = "told"] /\ code' = "PDOUTVALID"
  /\ UNCHANGED <<link, ses, mh, pd, cmd, tx, dev, al, amVars, jobs, app, ev, cur, timer, pdInValid>>

\* then the command handler, and output_enable.  Where the DL thread has run the command
\* handler in between, this run writes the message, which may have been handed to the chip.
PdOutTold ==
  /\ run.pc = "told" /\ run' = [run EXCEPT !.pc = "in"] /\ pde' = [pde EXCEPT !.oe = TRUE]
  /\ CASE cmd = "Inactive" -> UNCHANGED <<code, cmd, tx>>
       [] cmd = "Idle" -> /\ cmd' = IF link = "operate" THEN "Command" ELSE "Inactive"
                          /\ UNCHANGED <<code, tx>>
       [] cmd = "Command" -> /\ code' = "NONE" /\ cmd' = "Idle"
                             /\ \E sent \in {FALSE, mh = "wait"} : tx' = [tx EXCEPT !.valid = @ \/ sent]
  /\ UNCHANGED <<link, ses, mh, pd, dev, al, port, race, jobs, app, ev, cur, timer, pdInValid>>

\* SMI_PDIn_req, where the command asks for input: the quality, then AL's buffer.
PdIn ==
  /\ run.pc = "in"
  /\ \E asked \in BOOLEAN :
       run' = [pc |-> "inout", valid |-> asked /\ pde.active /\ port.quality = "VALID"]
  /\ UNCHANGED <<dlVars, amVars, jobs, app, ev, cur, timer, pdInValid>>

\* SMI_PDInOut_req, whose answer decides what the status says.
PdInOut ==
  /\ run.pc = "inout" /\ run' = [pc |-> "none", valid |-> FALSE] /\ cur' = cur \ {"PD"}
  /\ pdInValid' = (pde.active /\ run.valid)
  /\ UNCHANGED <<dlVars, amVars, jobs, app, ev, timer>>

\* iolink_start_port: a port that is starting and operational runs.
PortEvent ==
  /\ "PORTE" \in cur /\ "PD" \notin cur /\ cur' = cur \ {"PORTE"}
  /\ app' = IF app = "STARTING" /\ port.status = "OP" THEN "RUNNING" ELSE app
  /\ UNCHANGED <<dlVars, amVars, jobs, ev, timer, run, pdInValid>>

\* iolink_dl_reset, which clears the handlers, and a new configuration.
RetryEstcom ==
  /\ "RETRY_ESTCOM" \in cur /\ cur \intersect {"PD", "PORTE"} = {}
  /\ cur' = cur \ {"RETRY_ESTCOM"}
  /\ IF app = "WU_RETRY_WAIT_TSD"
     THEN /\ pd' = [state |-> "Inactive", out |-> 0] /\ code' = "NONE" /\ cmd' = "Inactive"
          /\ app' = "STARTING" /\ Room(1) /\ jobs' = Append(jobs, "CONFIG")
     ELSE UNCHANGED <<pd, code, cmd, app, jobs>>
  /\ UNCHANGED <<link, ses, mh, tx, dev, al, amVars, ev, timer, run, pdInValid>>

\* A port that was starting waits for 500 ms, any other is woken up at once.
Comlost ==
  /\ cur = {"COMLOST"} /\ cur' = {}
  /\ IF app = "STARTING" THEN timer' = TRUE /\ UNCHANGED <<app, ev>>
     ELSE /\ timer' = FALSE /\ app' = "WU_RETRY_WAIT_TSD"
          /\ ev' = ev \union {"RETRY_ESTCOM"}
  /\ UNCHANGED <<dlVars, amVars, jobs, run, pdInValid>>

\* iolink_retry_estcom, from the timer.
TsdTimer ==
  /\ timer /\ timer' = FALSE /\ app' = "WU_RETRY_WAIT_TSD"
  /\ ev' = ev \union {"RETRY_ESTCOM"}
  /\ UNCHANGED <<dlVars, amVars, jobs, cur, run, pdInValid>>

-----------------------------------------------------------------------------
Startup  == EnterPreop \/ EnterOperate \/ StartFails
DlThread == Startup \/ Answer \/ Prepare
Master   == ControlInd \/ PdEvent \/ ModeInd \/ CM_StartDs \/ CM_Operate \/ CM_Comlost \/ CM_Config
Run      == PdOut \/ NoPdOut \/ PdIgnored \/ PdOutControl \/ PdOutTold \/ PdIn \/ PdInOut
Handler  == Take \/ Run \/ PortEvent \/ RetryEstcom \/ Comlost
Next     == DlThread \/ Exchange \/ LoseLink \/ Master \/ Handler \/ TsdTimer

\* The three threads, the timer and the chip go on; links need not be lost.
Fairness == /\ WF_vars(DlThread) /\ WF_vars(Master) /\ WF_vars(Handler)
            /\ WF_vars(TsdTimer) /\ WF_vars(Exchange)
Spec     == Init /\ [][Next]_vars
FairSpec == Spec /\ Fairness

-----------------------------------------------------------------------------
TypeOK ==
  /\ link \in {"down", "startup", "preop", "ready", "operate"} /\ ses \in 0..MaxSessions
  /\ mh \in {"wait", "answer", "prepare"} /\ al \in 0..ses
  /\ pd \in [state : {"Inactive", "Single"}, out : 0..ses] /\ code \in {"NONE", "PDOUTVALID"}
  /\ cmd \in {"Inactive", "Idle", "Command"} /\ race \in BOOLEAN
  /\ tx \in [out : 0..ses, valid : BOOLEAN] /\ dev \in [out : 0..ses, told : BOOLEAN]
  /\ jobs \in Seq(Jobs)
  /\ port \in [status : {"DEACTIVATED", "PREOP", "OP", "NO_DEV"}, quality : Controls]
  /\ pde \in [active : BOOLEAN, oe : BOOLEAN]
  /\ app \in {"STARTING", "RUNNING", "WU_RETRY_WAIT_TSD"}
  /\ ev \subseteq Bits /\ cur \subseteq Bits /\ timer \in BOOLEAN
  /\ run \in [pc : {"none", "control", "told", "in", "inout"}, valid : BOOLEAN] /\ pdInValid \in BOOLEAN

\* What generic_run reads is the input of the present session, or of the last one as long as
\* no other has begun: pdin_data is never cleared, and the events that ask for a run wait in
\* the mailbox and in app_event while the link is lost and started again.
InputFresh == run.pc # "none" => al = ses

\* The device has only outputs that generic_run gave it in this session; pdoutdata survives
\* a lost link and is cleared before the next.
\* While the exchange counts on it that the device was told of valid outputs, the device was,
\* or PDOUTVALID is on its way to it: output_enable survives a lost link.  A race between the
\* control code and the command handler loses the command.
OutputsOwn ==
  /\ dev.out \in {0, ses}
  /\ ~race /\ link = "operate" /\ pde.active /\ pde.oe
       => dev.told \/ tx.valid \/ code = "PDOUTVALID"

\* "pd_in_valid (int): Indicates if the process data input is valid (0 or 1)"
\* (iolhat.py:342): a port without a link does not go on having valid input.
InputNotValid == link = "down" ~> link = "operate" \/ ~pdInValid
=============================================================================
