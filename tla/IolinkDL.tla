------------------------------ MODULE IolinkDL ------------------------------
(***************************************************************************)
(* The data-link layer of the IO-Link master, one port:                    *)
(* ilink/iolink_dl.c.  One thread (dl_main) waits for event bits and runs   *)
(* the mode handler (MDH) and the message handler (MH), two state machines  *)
(* that drive each other; a timer thread, the interrupt of the MAX14819     *)
(* transceiver and the thread of system management (SM, iolink_sm.c) set    *)
(* bits and write fields at any moment.                                     *)
(*                                                                         *)
(* One step of the DL thread is one handler of the loop.  Where a handler   *)
(* of the mode handler calls MH_Conf and goes on after it returns, it is    *)
(* cut in three steps (pc = "conf", "finish", then "loop"), and the timeout *)
(* in two (pc = "timer"), because the other threads run in between.         *)
(* On-request data is abstracted to what the message handler asks of it:    *)
(* whether a parameter access, an ISDU, a master command or an event is     *)
(* pending; which of them a cycle serves is left open.  Process data,       *)
(* interleave and the m-sequence type do not steer the message handler and  *)
(* are left out; the receive and transmit error bits, handled by the same   *)
(* function, are one bit.                                                   *)
(***************************************************************************)
EXTENDS Naturals, Sequences, FiniteSets, Selection

CONSTANTS IOLINK_MAX_RETRY,   \* resends of a STARTUP or PREOPERATE message
          OPERATE_RETRY,      \* the literal 3 of AW_REPLY_16
          Occurs              \* what the layers above, the device and the wire do

ASSUME RetryAssumption == IOLINK_MAX_RETRY \in Nat /\ OPERATE_RETRY \in Nat
ASSUME OccursAssumption ==
  Occurs \subseteq {"Retry", "Devmode", "Param", "ISDU", "Event", "Loss"}

VARIABLES
  events, todo,        \* bits of dl->event; dl->triggered_events not yet handled
  pc, cont,            \* where the DL thread is; what follows MH_Conf
  mdState, dlMode, mhInfo,            \* dl->mode_handler
  mhState, mhcmd, rwcmd, retry,       \* dl->message_handler
  busy, mcmd, eventFlag,              \* ISDU in progress, master command, event flag
  timerOn, timerType,                 \* dl->timer and dl->timer_type
  wurq, cyc, line, dataReady,         \* the MAX14819 channel
  jobs,                               \* jobs posted to SM, oldest first
  sm, req, dlAddr,                    \* SM: its phase, the request it waits for,
                                      \* what the next confirmation answers
  app                                 \* the application: iolink_handler.cc

modeVars  == <<mdState, dlMode, mhInfo>>
odVars    == <<rwcmd, busy, mcmd, eventFlag>>
timerVars == <<timerOn, timerType>>
chipVars  == <<wurq, cyc, line, dataReady>>
smVars    == <<sm, req, dlAddr, app>>
\* everything a run of the message handler may change
mhVars    == <<mhInfo, mhState, retry, odVars, timerVars, cyc, line, events, jobs>>
vars == <<events, todo, pc, cont, modeVars, mhState, mhcmd, retry, odVars,
          timerVars, chipVars, jobs, smVars>>

Events   == {"RXRDY", "RXERR", "WURQ", "MDH", "MH", "TIMEOUT"}
MdStates == {"IDLE_0", "ESTCOM_1", "STARTUP_2", "PREOPERATE_3", "OPERATE_4"}
DlModes  == {"INACTIVE", "STARTUP", "PREOPERATE", "OPERATE"}
MhStates == {"INACTIVE_0", "STARTUP_2", "RESPONSE_3", "AW_REPLY_4",
             "ERRORHANDLING_5", "PREOPERATE_6", "GETOD_7", "RESPONSE_8",
             "AW_REPLY_9", "ERRORHANDLING_10", "OPERATE_12", "RESPONSE_15",
             "AW_REPLY_16"}
RwCmds   == {"NONE", "READ", "WRITE", "READPARAM", "WRITEPARAM", "ISDUTRANSPORT"}
Conts    == {"none", "goto_startup", "goto_preoperate", "goto_operate",
             "idle_INACTIVE", "idle_COMLOST"}
Jobs     == {"STARTUP", "PREOPERATE", "OPERATE", "COMLOST", "INACTIVE",
             "CNF_WURQ", "CNF_OK", "CNF_NO_COMM", "CNF_CONFLICT",
             "DEVMODE_OK", "DEVMODE_ERROR", "SetPortConfig"}
Phases   == {"PortInactive", "Startup", "waitPreoperate", "Preoperate",
             "waitOperate", "SMOperate"}

Init ==
  /\ events = {} /\ todo = {} /\ pc = "loop" /\ cont = "none"
  /\ mdState = "IDLE_0" /\ dlMode = "INACTIVE" /\ mhInfo = "NONE"
  /\ mhState = "INACTIVE_0" /\ mhcmd = "INACTIVE" /\ rwcmd = "NONE" /\ retry = 0
  /\ busy = FALSE /\ mcmd = "NONE" /\ eventFlag = FALSE
  /\ timerOn = FALSE /\ timerType = "NONE"
  /\ wurq = FALSE /\ cyc = FALSE /\ line = "idle" /\ dataReady = FALSE
  /\ jobs = <<>> /\ sm = "PortInactive" /\ req = "none"
  /\ dlAddr = "DUMMY_WURQ" /\ app = "INACTIVE"

-----------------------------------------------------------------------------
(* Effects shared by the handlers.                                          *)

StartTimer == timerOn' = TRUE /\ timerType' = "TINITCYC_MH"
Send       == line' = "sent"            \* PL_Transfer_req, PL_Resend
Post(job)  == jobs' = Append(jobs, job)
PostIf(cond, q, job) == IF cond THEN Append(q, job) ELSE q

\* Mutant: the mode handler is not woken.
SignalComlost_NoWake == mhInfo' = "COMLOST" /\ UNCHANGED events

\* MHInfo_ind and the bit that wakes the mode handler
SignalComlost == mhInfo' = "COMLOST" /\ events' = events \cup {"MDH"}

\* iolink_pl_get_error: reading the error registers clears them, and the error
\* handler that RXERR will run then finds nothing to handle.
ReadErrors == events' = events \ {"RXERR"}

\* Mutant: the state of the message handler is kept.
handle_com_lost_KeepsState ==
  /\ SignalComlost
  /\ rwcmd' = "NONE" /\ retry' = 0 /\ UNCHANGED mhState
  /\ timerOn' = FALSE /\ timerType' = "NONE" /\ cyc' = FALSE

handle_com_lost ==
  /\ SignalComlost
  /\ rwcmd' = "NONE" /\ retry' = 0 /\ mhState' = "INACTIVE_0"
  /\ timerOn' = FALSE /\ timerType' = "NONE" /\ cyc' = FALSE

\* The master message is built: a waiting ISDU may start.
OdMaster ==
  \/ rwcmd = "ISDUTRANSPORT" /\ busy' = TRUE
  \/ UNCHANGED busy

\* EventFlag_ind in AW_REPLY_16: a bit of the device's answer.  AW_REPLY_9 sets the flag it
\* has: it looks at cks, which only AW_REPLY_16 reads from the answer.
EventFlagInd == eventFlag' \in (IF "Event" \in Occurs THEN BOOLEAN ELSE {FALSE})

\* Mutant: rwcmd is left as it was.
Confirm_KeepsCommand(cnf) ==
  /\ UNCHANGED rwcmd
  /\ IF rwcmd \in {"READ", "WRITE"} THEN Post(cnf) ELSE UNCHANGED jobs

\* DL_Read_cnf or DL_Write_cnf, for the access under way
Confirm(cnf) ==
  IF rwcmd \in {"READ", "WRITE"}
    THEN rwcmd' = "NONE" /\ Post(cnf)
    ELSE UNCHANGED <<rwcmd, jobs>>

\* Mutant: the command handler confirms the command and keeps it.
OdDevice_KeepsCommand ==
  \/ rwcmd \in {"READPARAM", "WRITEPARAM"} /\ ~busy /\ rwcmd' = "NONE"
     /\ UNCHANGED <<busy, mcmd, jobs>>
  \/ busy /\ busy' = FALSE /\ rwcmd' = "NONE" /\ UNCHANGED <<mcmd, jobs>>
  \/ mcmd # "NONE" /\ Post("DEVMODE_OK") /\ UNCHANGED <<rwcmd, busy, mcmd>>
  \/ UNCHANGED <<rwcmd, busy, mcmd, jobs>>

\* The device message reaches the OD handler: one pending job may advance.
OdDevice ==
  \/ /\ rwcmd \in {"READPARAM", "WRITEPARAM"} /\ ~busy
     /\ rwcmd' = "NONE" /\ UNCHANGED <<busy, mcmd, jobs>>
  \/ /\ busy
     /\ busy' = FALSE /\ rwcmd' = "NONE" /\ UNCHANGED <<mcmd, jobs>>
  \/ /\ mcmd # "NONE"
     /\ mcmd' = "NONE" /\ Post("DEVMODE_OK") /\ UNCHANGED <<rwcmd, busy>>
  \/ UNCHANGED <<rwcmd, busy, mcmd, jobs>>

-----------------------------------------------------------------------------
(* The message handler.  c is why it runs: "data" (dataready), "error"      *)
(* (rxtimeout, rxerror or txerror), "timeout" (timer_elapsed), "none" (an   *)
(* MH event, or a call of MH_Conf): the four flags are raised for one run   *)
(* only.                                                                    *)

MH_Inactive(c) ==
  /\ mhState = "INACTIVE_0"
  /\ cyc' = FALSE
  /\ UNCHANGED <<mhInfo, mhState, retry, odVars, timerVars, line, events, jobs>>

MH_Startup(c) ==
  /\ mhState = "STARTUP_2"
  /\ \/ /\ mhcmd = "PREOPERATE"
        /\ mhState' = "PREOPERATE_6" /\ UNCHANGED <<retry, timerVars, line>>
     \/ /\ mhcmd = "OPERATE"
        /\ StartTimer /\ mhState' = "OPERATE_12" /\ UNCHANGED <<retry, line>>
     \/ /\ mhcmd \notin {"PREOPERATE", "OPERATE"} /\ rwcmd \in {"READ", "WRITE"}
        /\ retry' = 0 /\ Send /\ mhState' = "RESPONSE_3" /\ UNCHANGED timerVars
     \/ /\ mhcmd \notin {"PREOPERATE", "OPERATE"} /\ rwcmd \notin {"READ", "WRITE"}
        /\ UNCHANGED <<mhState, retry, timerVars, line>>
  /\ UNCHANGED <<mhInfo, odVars, cyc, events, jobs>>

\* Mutant: a bad answer arms no timer for the resend.
MH_AwaitReply4_NoTimer(c) ==
  /\ mhState \in {"RESPONSE_3", "AW_REPLY_4"}
  /\ \/ c = "data" /\ mhState' = "STARTUP_2" /\ Confirm("CNF_OK")
     \/ c = "error" /\ mhState' = "ERRORHANDLING_5" /\ UNCHANGED <<rwcmd, jobs>>
     \/ /\ c \notin {"data", "error"}
        /\ mhState' = "AW_REPLY_4" /\ UNCHANGED <<rwcmd, jobs>>
  /\ UNCHANGED <<mhInfo, retry, busy, mcmd, eventFlag, timerVars, cyc, line, events>>

MH_AwaitReply4(c) ==
  /\ mhState \in {"RESPONSE_3", "AW_REPLY_4"}
  /\ \/ /\ c = "data"
        /\ mhState' = "STARTUP_2"
        /\ Confirm("CNF_OK")
        /\ UNCHANGED timerVars
     \/ /\ c = "error"
        /\ StartTimer /\ mhState' = "ERRORHANDLING_5" /\ UNCHANGED <<rwcmd, jobs>>
     \/ /\ c \notin {"data", "error"}
        /\ mhState' = "AW_REPLY_4" /\ UNCHANGED <<rwcmd, jobs, timerVars>>
  /\ UNCHANGED <<mhInfo, retry, busy, mcmd, eventFlag, cyc, line, events>>

MH_ErrorHandling5(c) ==
  /\ mhState = "ERRORHANDLING_5"
  /\ \/ /\ retry >= IOLINK_MAX_RETRY
        /\ timerType' = "NONE" /\ SignalComlost /\ mhState' = "INACTIVE_0"
        /\ Confirm("CNF_NO_COMM")
        /\ UNCHANGED <<retry, line>>
     \/ /\ retry < IOLINK_MAX_RETRY /\ c = "timeout"
        /\ Send /\ retry' = retry + 1 /\ mhState' = "AW_REPLY_4"
        /\ UNCHANGED <<mhInfo, rwcmd, timerType, events, jobs>>
     \/ /\ retry < IOLINK_MAX_RETRY /\ c # "timeout"
        /\ UNCHANGED <<mhInfo, mhState, retry, rwcmd, timerType, line, events, jobs>>
  /\ UNCHANGED <<busy, mcmd, eventFlag, timerOn, cyc>>

MH_Preoperate(c) ==
  /\ mhState = "PREOPERATE_6"
  /\ \/ /\ mhcmd = "OPERATE"
        /\ StartTimer /\ mhState' = "OPERATE_12"
        /\ UNCHANGED <<mhInfo, retry, line, events>>
     \/ /\ mhcmd = "STARTUP"
        /\ mhState' = "STARTUP_2"
        /\ UNCHANGED <<mhInfo, retry, timerVars, line, events>>
     \/ /\ mhcmd = "INACTIVE"
        /\ SignalComlost /\ Send /\ mhState' = "INACTIVE_0"
        /\ UNCHANGED <<retry, timerVars>>
     \/ /\ mhcmd = "PREOPERATE"
        /\ \/ rwcmd \in {"READPARAM", "WRITEPARAM", "ISDUTRANSPORT"}
           \/ mcmd = "OPERATE"
           \/ eventFlag
        /\ retry' = 0 /\ mhState' = "GETOD_7" /\ StartTimer
        /\ UNCHANGED <<mhInfo, line, events>>
     \/ /\ mhcmd = "PREOPERATE"
        /\ rwcmd \notin {"READPARAM", "WRITEPARAM", "ISDUTRANSPORT"}
        /\ mcmd # "OPERATE" /\ ~eventFlag
        /\ UNCHANGED <<mhInfo, mhState, retry, timerVars, line, events>>
  /\ UNCHANGED <<odVars, cyc, jobs>>

MH_GetOd7(c) ==
  /\ mhState = "GETOD_7"
  /\ OdMaster
  /\ retry' = 0 /\ Send /\ mhState' = "RESPONSE_8"
  /\ UNCHANGED <<mhInfo, rwcmd, mcmd, eventFlag, timerVars, cyc, events, jobs>>

MH_AwaitReply9(c) ==
  /\ mhState \in {"RESPONSE_8", "AW_REPLY_9"}
  /\ \/ /\ c = "data"
        /\ OdDevice /\ UNCHANGED eventFlag
        /\ \/ /\ ~busy' /\ mhcmd = "OPERATE"
              /\ StartTimer /\ mhState' = "AW_REPLY_16"
           \/ /\ ~busy' /\ mhcmd # "OPERATE" /\ ~eventFlag
              /\ timerOn' = FALSE /\ mhState' = "PREOPERATE_6" /\ UNCHANGED timerType
           \/ /\ ~busy' /\ mhcmd # "OPERATE" /\ eventFlag
              /\ UNCHANGED <<mhState, timerVars>>
           \/ busy' /\ StartTimer /\ mhState' = "GETOD_7"
     \/ /\ c = "error"
        /\ StartTimer /\ mhState' = "ERRORHANDLING_10" /\ UNCHANGED <<odVars, jobs>>
     \/ /\ c \notin {"data", "error"}
        /\ ReadErrors /\ UNCHANGED <<mhState, odVars, timerVars, jobs>>
  /\ c \in {"data", "error"} => UNCHANGED events
  /\ UNCHANGED <<mhInfo, retry, cyc, line>>

MH_ErrorHandling10(c) ==
  /\ mhState = "ERRORHANDLING_10"
  /\ \/ /\ retry >= IOLINK_MAX_RETRY
        /\ handle_com_lost
        /\ mcmd' = "NONE"
        /\ jobs' = PostIf(rwcmd \in {"READ", "WRITE"},
                         PostIf(mcmd # "NONE", jobs, "DEVMODE_ERROR"), "CNF_NO_COMM")
        /\ UNCHANGED <<busy, eventFlag, line>>
     \/ /\ retry < IOLINK_MAX_RETRY /\ c = "timeout"
        /\ Send /\ retry' = retry + 1 /\ mhState' = "AW_REPLY_9"
        /\ UNCHANGED <<mhInfo, odVars, timerVars, cyc, events, jobs>>
     \/ /\ retry < IOLINK_MAX_RETRY /\ c # "timeout"
        /\ UNCHANGED mhVars

\* Leaving OPERATE on request of the mode handler, common to the states
\* OPERATE_12, RESPONSE_15 and AW_REPLY_16.
MH_Leave ==
  /\ \/ mhcmd = "STARTUP"  /\ mhState' = "STARTUP_2" /\ UNCHANGED <<mhInfo, events>>
     \/ mhcmd = "INACTIVE" /\ mhState' = "INACTIVE_0" /\ SignalComlost
  /\ cyc' = FALSE
  /\ UNCHANGED <<retry, odVars, timerVars, line, jobs>>

\* OPERATE_12 falls through GETPD_13 and GETOD_14: the first cycle is sent.
MH_Operate(c) ==
  /\ mhState = "OPERATE_12"
  /\ \/ mhcmd \in {"STARTUP", "INACTIVE"} /\ MH_Leave
     \/ /\ mhcmd \notin {"STARTUP", "INACTIVE"}
        /\ OdMaster
        /\ retry' = 0 /\ cyc' = TRUE /\ Send /\ StartTimer
        /\ mhState' = "RESPONSE_15"
        /\ UNCHANGED <<mhInfo, rwcmd, mcmd, eventFlag, events, jobs>>

MH_AwaitReply16(c) ==
  /\ mhState \in {"RESPONSE_15", "AW_REPLY_16"}
  /\ \/ mhcmd \in {"STARTUP", "INACTIVE"} /\ MH_Leave
     \/ /\ mhcmd \notin {"STARTUP", "INACTIVE"} /\ rwcmd = "WRITEPARAM"
        /\ retry' = 0 /\ mhState' = "AW_REPLY_9"
        /\ UNCHANGED <<mhInfo, odVars, timerVars, cyc, line, events, jobs>>
     \/ /\ mhcmd \notin {"STARTUP", "INACTIVE"} /\ rwcmd # "WRITEPARAM"
        /\ \/ /\ c = "data"
              /\ EventFlagInd
              /\ \/ OdDevice
                 \/ OdMaster /\ UNCHANGED <<rwcmd, mcmd, jobs>>
              /\ StartTimer /\ mhState' = "AW_REPLY_16"
              /\ UNCHANGED <<mhInfo, retry, cyc, line, events>>
           \/ /\ \/ c = "error" /\ retry >= OPERATE_RETRY
                 \/ c = "timeout"
              /\ handle_com_lost
              /\ UNCHANGED <<busy, mcmd, eventFlag, line, jobs>>
           \/ /\ c = "error" /\ retry < OPERATE_RETRY
              /\ retry' = retry + 1 /\ Send /\ StartTimer /\ mhState' = "AW_REPLY_16"
              /\ UNCHANGED <<mhInfo, odVars, cyc, events, jobs>>
           \/ /\ c = "none"
              /\ ReadErrors /\ mhState' = "AW_REPLY_16"
              /\ UNCHANGED <<mhInfo, retry, odVars, timerVars, cyc, line, jobs>>

MessageHandler(c) ==
  \/ MH_Inactive(c) \/ MH_Startup(c) \/ MH_AwaitReply4(c) \/ MH_ErrorHandling5(c)
  \/ MH_Preoperate(c) \/ MH_GetOd7(c) \/ MH_AwaitReply9(c) \/ MH_ErrorHandling10(c)
  \/ MH_Operate(c) \/ MH_AwaitReply16(c)

-----------------------------------------------------------------------------
(* The mode handler.  Configure(c, k) is MH_Conf(c) called on the way to k; *)
(* the message handler runs next, then the step k.                          *)

Configure(cmd, k) == mhcmd' = cmd /\ cont' = k /\ pc' = "conf"

\* IH_Conf: an ISDU is broken off when the link is lost, and may outlive any
\* other change of mode.
IH_Conf_INACTIVE == busy' \in (IF mhInfo = "COMLOST" THEN {FALSE} ELSE {FALSE, busy})

MD_Idle ==
  /\ mdState = "IDLE_0"
  /\ IF dlMode = "STARTUP" /\ ~wurq
       THEN mdState' = "ESTCOM_1" /\ wurq' = TRUE /\ cyc' = FALSE /\ line' = "idle"
       ELSE UNCHANGED <<mdState, wurq, cyc, line>>
  /\ UNCHANGED <<pc, cont, mhcmd, busy>>

MD_EstablishCom ==
  /\ mdState = "ESTCOM_1"
  /\ UNCHANGED <<pc, cont, mdState, mhcmd, busy, wurq, cyc, line>>

MD_Startup ==
  /\ mdState = "STARTUP_2"
  /\ \/ dlMode = "PREOPERATE" /\ Configure("PREOPERATE", "goto_preoperate") /\ UNCHANGED busy
     \/ dlMode = "OPERATE" /\ Configure("OPERATE", "goto_operate") /\ UNCHANGED busy
     \/ dlMode = "INACTIVE" /\ Configure("INACTIVE", "idle_INACTIVE") /\ IH_Conf_INACTIVE
     \/ /\ dlMode = "STARTUP" /\ mhInfo = "COMLOST"
        /\ Configure("INACTIVE", "idle_COMLOST") /\ IH_Conf_INACTIVE
     \/ /\ dlMode = "STARTUP" /\ mhInfo # "COMLOST"
        /\ UNCHANGED <<pc, cont, mhcmd, busy>>
  /\ UNCHANGED <<mdState, wurq, cyc, line>>

MD_Preoperate ==
  /\ mdState = "PREOPERATE_3"
  /\ \/ dlMode = "STARTUP" /\ Configure("STARTUP", "goto_startup") /\ IH_Conf_INACTIVE
     \/ dlMode = "INACTIVE" /\ Configure("OPERATE", "none") /\ UNCHANGED busy
     \/ /\ dlMode \in {"PREOPERATE", "OPERATE"} /\ mhInfo = "COMLOST"
        /\ Configure("INACTIVE", "idle_COMLOST") /\ IH_Conf_INACTIVE
     \/ /\ dlMode = "OPERATE" /\ mhInfo # "COMLOST"
        /\ Configure("OPERATE", "goto_operate") /\ UNCHANGED busy
     \/ /\ dlMode = "PREOPERATE" /\ mhInfo # "COMLOST"
        /\ UNCHANGED <<pc, cont, mhcmd, busy>>
  /\ UNCHANGED <<mdState, wurq, cyc, line>>

MD_Operate ==
  /\ mdState = "OPERATE_4"
  /\ \/ dlMode = "STARTUP" /\ Configure("STARTUP", "goto_startup") /\ IH_Conf_INACTIVE
     \/ dlMode = "INACTIVE" /\ Configure("INACTIVE", "idle_INACTIVE") /\ IH_Conf_INACTIVE
     \/ /\ dlMode \in {"PREOPERATE", "OPERATE"} /\ mhInfo = "COMLOST"
        /\ Configure("INACTIVE", "idle_COMLOST") /\ IH_Conf_INACTIVE
     \/ /\ dlMode \in {"PREOPERATE", "OPERATE"} /\ mhInfo # "COMLOST"
        /\ UNCHANGED <<pc, cont, mhcmd, busy>>
  /\ UNCHANGED <<mdState, wurq, cyc, line>>

ModeHandler == MD_Idle \/ MD_EstablishCom \/ MD_Startup \/ MD_Preoperate \/ MD_Operate

-----------------------------------------------------------------------------
(* dl_main: the loop, its handlers in the order of the source.              *)

Order == <<"RXRDY", "RXERR", "WURQ", "MDH", "MH", "TIMEOUT">>
Place(e) == CHOOSE i \in 1..6 : Order[i] = e

\* The loop is about to handle bit e of the triggered events.
Turn(e) ==
  /\ pc = "loop" /\ e \in todo
  /\ \A f \in todo : Place(e) <= Place(f)
  /\ todo' = todo \ {e}

Wait ==
  /\ pc = "loop" /\ todo = {} /\ events # {}
  /\ todo' = events /\ events' = {}
  /\ UNCHANGED <<pc, cont, modeVars, mhState, mhcmd, retry, odVars, timerVars,
                 chipVars, jobs, smVars>>

\* Mutant: the failing get_data leaves data_ready up.
RxReady_KeepsReady ==
  /\ Turn("RXRDY")
  /\ \/ MessageHandler("data") /\ dataReady' = FALSE
     \/ MessageHandler("error") /\ UNCHANGED dataReady
  /\ UNCHANGED <<pc, cont, mdState, dlMode, mhcmd, wurq, smVars>>

\* RXRDY: get_data reads the FIFO, or fails and reports a receive error.
RxReady ==
  /\ Turn("RXRDY") /\ dataReady' = FALSE
  /\ \E c \in {"data", "error"} : MessageHandler(c)
  /\ UNCHANGED <<pc, cont, mdState, dlMode, mhcmd, wurq, smVars>>

\* iolink_dl_handle_error
HandleError ==
  /\ Turn("RXERR") /\ MessageHandler("error")
  /\ UNCHANGED <<pc, cont, mdState, dlMode, mhcmd, wurq, dataReady, smVars>>

\* iolink_dl_wurq_recv: communication is established, or no device answered.
WurqRecv ==
  /\ Turn("WURQ")
  /\ \/ /\ mdState' = "IDLE_0" /\ mhInfo' = "NONE" /\ Post("INACTIVE")
        /\ UNCHANGED <<mhState, events>>
     \/ /\ mdState' = "STARTUP_2" /\ mhState' = "STARTUP_2"
        /\ \E cnf \in {"CNF_WURQ", "CNF_OK"} :
             /\ cnf = "CNF_WURQ" <=> dlAddr = "DUMMY_WURQ"
             /\ jobs' = Append(Append(jobs, cnf), "STARTUP")
        /\ events' = (events \ {"RXERR"}) \cup {"MH"} /\ UNCHANGED mhInfo
  /\ UNCHANGED <<pc, cont, dlMode, mhcmd, retry, odVars, timerVars, chipVars, smVars>>

HandleMDH ==
  /\ Turn("MDH") /\ ModeHandler
  /\ UNCHANGED <<events, dlMode, mhInfo, mhState, retry, rwcmd, mcmd, eventFlag,
                 timerVars, dataReady, jobs, smVars>>

HandleMH ==
  /\ Turn("MH") /\ MessageHandler("none")
  /\ UNCHANGED <<pc, cont, mdState, dlMode, mhcmd, wurq, dataReady, smVars>>

\* iolink_dl_handle_timer_timeout clears timer_type after the run.
HandleTimeout ==
  /\ Turn("TIMEOUT")
  /\ IF timerType = "TINITCYC_MH"
       THEN MessageHandler("timeout") /\ pc' = "timer"
       ELSE UNCHANGED <<mhVars, pc>>
  /\ UNCHANGED <<cont, mdState, dlMode, mhcmd, wurq, dataReady, smVars>>

TimerDone ==
  /\ pc = "timer" /\ pc' = "loop" /\ timerType' = "NONE"
  /\ UNCHANGED <<events, todo, cont, modeVars, mhState, mhcmd, retry, odVars, timerOn,
                 chipVars, jobs, smVars>>

\* MH_Conf runs the message handler inside the mode handler.
MhConf ==
  /\ pc = "conf" /\ pc' = "finish" /\ MessageHandler("none")
  /\ UNCHANGED <<todo, cont, mdState, dlMode, mhcmd, wurq, dataReady, smVars>>

\* Mutant: the indication is forgotten.
goto_idle_Silent(mode) ==
  mdState' = "IDLE_0" /\ mhInfo' = "NONE" /\ UNCHANGED jobs

goto_idle(mode) == mdState' = "IDLE_0" /\ mhInfo' = "NONE" /\ Post(mode)

\* What the mode handler does after MH_Conf: its state, mhinfo, the indication.
Finish ==
  /\ pc = "finish" /\ pc' = "loop" /\ cont' = "none"
  /\ \/ cont = "none" /\ UNCHANGED <<mdState, mhInfo, jobs>>
     \/ /\ cont = "goto_startup" /\ mdState' = "STARTUP_2" /\ Post("STARTUP")
        /\ UNCHANGED mhInfo
     \/ /\ cont = "goto_preoperate" /\ mdState' = "PREOPERATE_3" /\ Post("PREOPERATE")
        /\ UNCHANGED mhInfo
     \/ /\ cont = "goto_operate" /\ mdState' = "OPERATE_4" /\ Post("OPERATE")
        /\ UNCHANGED mhInfo
     \/ cont = "idle_INACTIVE" /\ goto_idle("INACTIVE")
     \/ cont = "idle_COMLOST" /\ goto_idle("COMLOST")
  /\ UNCHANGED <<events, todo, dlMode, mhState, mhcmd, retry, odVars, timerVars,
                 chipVars, smVars>>

DlThread == \/ Wait \/ RxReady \/ HandleError \/ WurqRecv
            \/ HandleMDH \/ HandleMH \/ HandleTimeout \/ TimerDone
            \/ MhConf \/ Finish

-----------------------------------------------------------------------------
(* The transceiver, the wire and the timer thread.  The interrupt and the    *)
(* handler it wakes at the head of the loop (iolink_pl_max14819_pl_handler)  *)
(* are one step.  A message on the wire is answered, answered badly (or not  *)
(* within the response time: the chip reports both as receive errors), or    *)
(* lost with no interrupt at all.                                            *)

dlVars == <<todo, pc, cont, modeVars, mhState, mhcmd, retry, odVars>>

Answer ==
  /\ pc = "loop" /\ line = "sent" /\ line' = "idle"
  /\ \E bits \in SUBSET {"RXRDY", "RXERR"} :
       /\ bits # {}
       /\ dataReady' = (dataReady \/ "RXRDY" \in bits)
       /\ events' = events \cup (IF dataReady THEN bits \ {"RXRDY"} ELSE bits)
  /\ UNCHANGED <<dlVars, timerVars, wurq, cyc, jobs, smVars>>

Lose ==
  /\ "Loss" \in Occurs
  /\ line = "sent" /\ line' = "idle"
  /\ UNCHANGED <<events, dlVars, timerVars, wurq, cyc, dataReady, jobs, smVars>>

\* The cycle timer of the chip sends the stored message again.
Cycle ==
  /\ cyc /\ line = "idle" /\ line' = "sent"
  /\ UNCHANGED <<events, dlVars, timerVars, wurq, cyc, dataReady, jobs, smVars>>

WakeUpDone ==
  /\ pc = "loop" /\ wurq /\ wurq' = FALSE /\ events' = events \cup {"WURQ"}
  /\ UNCHANGED <<dlVars, timerVars, cyc, line, dataReady, jobs, smVars>>

\* dl_timer_timeout
TimerFires ==
  /\ timerOn /\ timerOn' = FALSE /\ events' = events \cup {"TIMEOUT"}
  /\ UNCHANGED <<dlVars, timerType, chipVars, jobs, smVars>>

Environment == Answer \/ Lose \/ Cycle \/ WakeUpDone \/ TimerFires

-----------------------------------------------------------------------------
(* System management, the application layer and the application: the calls  *)
(* they make into the data link, in the phases in which they make them.  The *)
(* application of the master configures a port once and again after every    *)
(* loss it is told of; it never deactivates one.                             *)

\* Mutant: a mode of the mode handler where a mode of the request belongs.
SetMode_Indication(mode) == dlMode' = IF mode = "INACTIVE" THEN "COMLOST" ELSE mode

SetMode(mode) == dlMode' = mode
WakeMDH       == events' = events \cup {"MDH"}

smUnchanged == <<todo, pc, cont, mdState, mhInfo, mhState, mhcmd, retry, busy,
                 eventFlag, timerType>>

\* iolink_config_port, at the start of the program: the configuration travels
\* to SM as a job.
App_Configure ==
  /\ app = "INACTIVE" /\ app' = "STARTING" /\ Post("SetPortConfig")
  /\ UNCHANGED <<events, todo, pc, cont, modeVars, mhState, mhcmd, retry, odVars,
                 timerVars, chipVars, sm, req, dlAddr>>

\* EVENT_PORTE: the port is found operational.
App_Start ==
  /\ app = "STARTING" /\ sm = "SMOperate" /\ app' = "RUNNING"
  /\ UNCHANGED <<events, todo, pc, cont, modeVars, mhState, mhcmd, retry, odVars,
                 timerVars, chipVars, jobs, sm, req, dlAddr>>

\* A loss the application is told of (EVENT_COMLOST): a starting port, one that
\* waits already included, is woken up again 500 ms later, any other at once.
Lost == app' = IF app \in {"RUNNING", "RETRY"} THEN "RETRY" ELSE "WAIT_TSD"

\* The 500 ms timer.  By then the threads have done what was asked of them.
App_Tsd ==
  /\ app = "WAIT_TSD" /\ app' = "RETRY"
  /\ pc = "loop" /\ events = {} /\ todo = {} /\ ~timerOn /\ jobs = <<>>
  /\ UNCHANGED <<events, todo, pc, cont, modeVars, mhState, mhcmd, retry, odVars,
                 timerVars, chipVars, jobs, sm, req, dlAddr>>

\* EVENT_RETRY_ESTCOM: iolink_dl_reset from the application's thread, at any
\* point of what the DL thread does, then iolink_config_port.
App_Retry ==
  /\ "Retry" \in Occurs
  /\ app = "RETRY" /\ app' = "STARTING" /\ Post("SetPortConfig")
  /\ mdState' = "IDLE_0" /\ SetMode("INACTIVE") /\ mhInfo' = "NONE"
  /\ mhState' = "INACTIVE_0" /\ mhcmd' = "INACTIVE" /\ rwcmd' = "NONE" /\ retry' = 0
  /\ busy' = FALSE /\ mcmd' = "NONE" /\ eventFlag' = FALSE
  /\ timerOn' = FALSE /\ timerType' = "NONE" /\ todo' = {}
  /\ UNCHANGED <<pc, cont, events, chipVars, sm, req, dlAddr>>

\* DL_Write_Devicemode_req(OPERATE), on the way to SMOperate
SM_WriteDevmode ==
  /\ "Devmode" \in Occurs /\ sm = "Preoperate" /\ req = "none" /\ req' = "devmode"
  /\ IF mdState = "STARTUP_2"
       THEN Post("DEVMODE_ERROR") /\ UNCHANGED <<mcmd, events>>
       ELSE /\ mcmd' = "OPERATE" /\ UNCHANGED jobs
            /\ events' = events \cup (IF mdState = "PREOPERATE_3" THEN {"MH"} ELSE {})
  /\ UNCHANGED <<smUnchanged, dlMode, rwcmd, timerOn, chipVars, sm, dlAddr, app>>

\* DL_ReadParam_req, DL_WriteParam_req: rwcmd is set before the state of the
\* message handler is looked at.  AL asks again only once the slot is free.
AL_ReadWriteParam ==
  /\ "Param" \in Occurs /\ sm \in {"Preoperate", "SMOperate"} /\ rwcmd = "NONE"
  /\ rwcmd' \in {"READPARAM", "WRITEPARAM"}
  /\ events' = events \cup
       (IF mdState = "PREOPERATE_3" /\ mhState \in {"PREOPERATE_6", "AW_REPLY_16"}
          THEN {"MH"} ELSE {})
  /\ UNCHANGED <<smUnchanged, dlMode, mcmd, timerOn, chipVars, jobs, smVars>>

\* DL_ISDUTransport_req
AL_ISDUTransport ==
  /\ "ISDU" \in Occurs /\ sm \in {"Preoperate", "SMOperate"} /\ rwcmd = "NONE"
  /\ mdState \notin {"IDLE_0", "ESTCOM_1"} /\ ~busy
  /\ rwcmd' = "ISDUTRANSPORT"
  /\ events' = events \cup (IF mdState = "PREOPERATE_3" THEN {"MH"} ELSE {})
  /\ UNCHANGED <<smUnchanged, dlMode, mcmd, timerOn, chipVars, jobs, smVars>>

\* DL_Read_req, DL_Write_req: rwcmd' and the bit MH, or an immediate refusal.
\* q is what is left of the job queue.
ReadWrite(q) ==
  /\ dlAddr' = "PARAM"
  /\ IF mhState = "STARTUP_2"
       THEN rwcmd' \in {"READ", "WRITE"} /\ events' = events \cup {"MH"} /\ jobs' = q
       ELSE jobs' = Append(q, "CNF_CONFLICT") /\ UNCHANGED <<rwcmd, events>>

deliverUnchanged == <<smUnchanged, mcmd, timerOn, chipVars>>

Head_ == IF jobs = <<>> THEN "none" ELSE Head(jobs)
Handled == jobs' = Tail(jobs)

\* The phase p is entered with DL_SetMode_req(mode).
Enter(p, mode) ==
  /\ sm' = p /\ req' = "none" /\ SetMode(mode) /\ WakeMDH
  /\ Handled /\ UNCHANGED <<rwcmd, dlAddr, app>>

Ignore == Handled /\ UNCHANGED <<sm, req, dlAddr, app, dlMode, events, rwcmd>>

\* sm_comlost: the loss goes up through CM to the application (NO_DEV).
Comlost ==
  /\ sm' = "PortInactive" /\ req' = "none" /\ SetMode("INACTIVE") /\ WakeMDH
  /\ Lost /\ Handled /\ UNCHANGED <<rwcmd, dlAddr>>

\* SM_SetPortConfig: T15 is PL_SetMode_req(SDCI), which forgets a wake-up
\* request and clears the FIFOs, then DL_SetMode_req(STARTUP); SM in another
\* state drops the request.
SM_SetPortConfig ==
  /\ Head_ = "SetPortConfig" /\ Handled
  /\ IF sm \in {"PortInactive", "Preoperate", "SMOperate"} /\ req = "none"
       THEN /\ SetMode("STARTUP") /\ WakeMDH /\ sm' = "PortInactive"
            /\ dlAddr' = "DUMMY_WURQ" /\ cyc' = FALSE /\ wurq' = FALSE /\ line' = "idle"
            /\ UNCHANGED dataReady
       ELSE UNCHANGED <<dlMode, events, sm, dlAddr, chipVars>>
  /\ UNCHANGED <<smUnchanged, rwcmd, mcmd, timerOn, req, app>>

\* DL_Mode_ind(STARTUP) starts the reading of the communication parameters.
\* The first read of MIN_CYCL may be answered from the wake-up, without a
\* message (first_read_min_cycl).
SM_ModeStartup ==
  /\ Head_ = "STARTUP"
  /\ \/ /\ sm = "PortInactive" /\ sm' = "Startup" /\ req' = "dp"
        /\ \/ ReadWrite(Tail(jobs))
           \/ /\ mhState = "STARTUP_2" /\ jobs' = Append(Tail(jobs), "CNF_OK")
              /\ dlAddr' = "PARAM" /\ UNCHANGED <<rwcmd, events>>
        /\ UNCHANGED <<dlMode, app>>
     \/ sm \in {"Startup", "waitPreoperate"} /\ Ignore
     \/ sm \in {"SMOperate", "waitOperate"} /\ Ignore
     \/ sm = "Preoperate" /\ (IF req = "none" THEN Comlost ELSE Ignore)
  /\ UNCHANGED deliverUnchanged

SM_ModeUp ==
  /\ Head_ \in {"PREOPERATE", "OPERATE"}
  /\ \/ /\ Head_ = "PREOPERATE" /\ sm = "waitPreoperate" /\ sm' = "Preoperate"
        /\ Handled /\ UNCHANGED <<req, dlAddr, app, dlMode, events, rwcmd>>
     \/ /\ Head_ = "OPERATE" /\ sm = "waitOperate" /\ sm' = "SMOperate"
        /\ Handled /\ UNCHANGED <<req, dlAddr, app, dlMode, events, rwcmd>>
     \/ sm = "Preoperate" /\ req = "none" /\ Comlost
     \/ /\ <<Head_, sm>> \notin {<<"PREOPERATE", "waitPreoperate">>,
                                <<"OPERATE", "waitOperate">>}
        /\ ~(sm = "Preoperate" /\ req = "none")
        /\ Ignore
  /\ UNCHANGED deliverUnchanged

\* The link is down.  While SM waits for a confirmation it ignores the loss
\* (sm_comlost_ignore): the confirmation will report it.  In PortInactive an
\* INACTIVE indication means that the wake-up failed.
SM_ModeDown ==
  /\ Head_ \in {"COMLOST", "INACTIVE"}
  /\ \/ /\ sm = "PortInactive" /\ Head_ = "INACTIVE"
        /\ Lost /\ Handled /\ UNCHANGED <<sm, req, dlAddr, dlMode, events, rwcmd>>
     \/ sm = "Preoperate" /\ req = "none" /\ Comlost
     \/ sm \in {"SMOperate", "waitOperate"} /\ Head_ = "COMLOST" /\ Comlost
     \/ /\ \/ sm = "PortInactive" /\ Head_ = "COMLOST"
           \/ sm = "Preoperate" /\ req = "devmode"
           \/ sm \in {"SMOperate", "waitOperate"} /\ Head_ = "INACTIVE"
           \/ sm \in {"Startup", "waitPreoperate"}
        /\ Ignore
  /\ UNCHANGED deliverUnchanged

\* A direct parameter page access is confirmed: SM goes on with the next one,
\* or changes the mode (OPERATE for a device of V1.0).
SM_ReadWriteCnf ==
  /\ Head_ \in {"CNF_WURQ", "CNF_OK", "CNF_NO_COMM", "CNF_CONFLICT"}
  /\ \/ /\ Head_ = "CNF_OK" /\ sm = "Startup"
        /\ \/ ReadWrite(Tail(jobs)) /\ UNCHANGED <<sm, req, app, dlMode>>
           \/ Enter("waitPreoperate", "PREOPERATE")
           \/ Enter("waitOperate", "OPERATE")
     \/ /\ Head_ \in {"CNF_NO_COMM", "CNF_CONFLICT"} /\ sm = "Startup"
        /\ Comlost
     \/ /\ Head_ = "CNF_WURQ" \/ sm # "Startup"
        /\ Ignore
  /\ UNCHANGED deliverUnchanged

\* sm_DL_Write_Devmode_cnf; a confirmation nobody waits for counts as a lost
\* link where SM listens to losses.
SM_DevmodeCnf ==
  /\ Head_ \in {"DEVMODE_OK", "DEVMODE_ERROR"}
  /\ \/ /\ Head_ = "DEVMODE_OK" /\ sm = "Preoperate" /\ req = "devmode"
        /\ Enter("SMOperate", "OPERATE")
     \/ /\ \/ Head_ = "DEVMODE_ERROR" /\ sm = "Preoperate" /\ req = "devmode"
           \/ sm \in {"Preoperate", "SMOperate", "waitOperate"} /\ req = "none"
        /\ Comlost
     \/ /\ sm \in {"PortInactive", "Startup", "waitPreoperate"}
        /\ Ignore
  /\ UNCHANGED deliverUnchanged

SmThread == \/ SM_SetPortConfig \/ SM_ModeStartup \/ SM_ModeUp \/ SM_ModeDown \/ SM_ReadWriteCnf
            \/ SM_DevmodeCnf

Application == \/ App_Configure \/ App_Start \/ App_Tsd \/ App_Retry
               \/ SM_WriteDevmode \/ AL_ReadWriteParam \/ AL_ISDUTransport

Next == DlThread \/ Environment \/ SmThread \/ Application

\* The DL thread, the timer thread and the thread of the job mailbox run, and the
\* transceiver ends a wake-up and reports on every message that is not lost; the
\* device's answers and the application owe nothing.
Fairness == /\ WF_vars(DlThread) /\ WF_vars(TimerFires) /\ WF_vars(SmThread)
            /\ WF_vars(Answer) /\ WF_vars(WakeUpDone)

Spec == Init /\ [][Next]_vars
FairSpec == Spec /\ Fairness

-----------------------------------------------------------------------------
(* Properties.                                                              *)

\* Every variable stays in its domain.
TypeOK ==
  /\ events \subseteq Events /\ todo \subseteq Events
  /\ pc \in {"loop", "conf", "finish", "timer"} /\ cont \in Conts
  /\ mdState \in MdStates /\ dlMode \in DlModes /\ mhInfo \in {"NONE", "COMLOST"}
  /\ mhState \in MhStates /\ mhcmd \in DlModes /\ rwcmd \in RwCmds /\ retry \in Nat
  /\ busy \in BOOLEAN /\ mcmd \in {"NONE", "OPERATE"}
  /\ eventFlag \in BOOLEAN /\ timerOn \in BOOLEAN
  /\ timerType \in {"NONE", "TINITCYC_MH"}
  /\ wurq \in BOOLEAN /\ cyc \in BOOLEAN /\ line \in {"idle", "sent"}
  /\ dataReady \in BOOLEAN
  /\ jobs \in Seq(Jobs) /\ sm \in Phases /\ req \in {"none", "dp", "devmode"}
  /\ dlAddr \in {"DUMMY_WURQ", "PARAM"}
  /\ app \in {"INACTIVE", "STARTING", "RUNNING", "WAIT_TSD", "RETRY"}

\* A loss of communication that the message handler has flagged (MHInfo_ind) is
\* never forgotten: between two handlers the mode handler is still to run.  The
\* exception is iolink_dl_mode_h_sm_preoperate3 after SM asked for INACTIVE.
NoStrandedLoss ==
  pc = "loop" /\ mhInfo = "COMLOST" =>
    "MDH" \in events \cup todo \/ (mdState = "PREOPERATE_3" /\ dlMode = "INACTIVE")

\* The two state machines of iolink_dl.c agree between two handlers, unless a
\* loss is being reported: no link, no message; in STARTUP and PREOPERATE the
\* message handler is in a state of that mode.  (In OPERATE it may still wait
\* for an answer it expected in PREOPERATE.)  And a message handler at rest has
\* stopped the cycle timer, by which the transceiver repeats the stored message.
ModeAgreement ==
  pc = "loop" =>
    /\ mdState \in {"IDLE_0", "ESTCOM_1"} => mhState = "INACTIVE_0"
    /\ mdState = "STARTUP_2" /\ mhInfo = "NONE" =>
         mhState \in {"STARTUP_2", "RESPONSE_3", "AW_REPLY_4", "ERRORHANDLING_5"}
    /\ mdState = "PREOPERATE_3" /\ mhInfo = "NONE" =>
         mhState \in {"PREOPERATE_6", "GETOD_7", "RESPONSE_8", "AW_REPLY_9",
                      "ERRORHANDLING_10"}
    /\ mhState = "INACTIVE_0" => ~cyc

\* The driver signals RXRDY once until the FIFO has been read (data_ready): its
\* mark is up only while the signal is still on its way to the DL thread, or the
\* port would never hear of an answer again.
RxReported == dataReady => "RXRDY" \in events \cup todo

Positions(q, kinds) == {i \in 1..Len(q) : q[i] \in kinds}
Reads        == {"CNF_OK", "CNF_NO_COMM", "CNF_CONFLICT"}
DevmodeConfs == {"DEVMODE_OK", "DEVMODE_ERROR"}

\* While SM reads the direct parameter page exactly one access is under way, in
\* the message handler or as its confirmation in the job queue, and otherwise
\* none: DL_Read_cnf and DL_Write_cnf never come twice, late or unasked.
OneAccess ==
  Cardinality(Positions(jobs, Reads)) + (IF rwcmd \in {"READ", "WRITE"} THEN 1 ELSE 0)
    = (IF sm = "Startup" THEN 1 ELSE 0)

\* The master command m, the confirmations in the queue q and the request r that
\* SM waits for belong together.
ConfOnce(m, q, r) ==
  /\ m # "NONE" \/ Positions(q, DevmodeConfs) # {} => r = "devmode"
  /\ m # "NONE" => Positions(q, DevmodeConfs) = {}
  /\ \A i, j \in Positions(q, DevmodeConfs) : i = j

\* DL_Write_Devicemode_req is confirmed at most once, and only to an SM that
\* waits for it, over losses, retries and resets of the port.
OneDevmodeConf == ConfOnce(mcmd, jobs, req)

\* The chip has fallen silent on a message of STARTUP: nothing is on the wire or signalled,
\* no timer is armed and no handler has anything left to do.
Silent == /\ mhState \in {"RESPONSE_3", "AW_REPLY_4"}
          /\ pc = "loop" /\ events = {} /\ todo = {}
          /\ line = "idle" /\ ~dataReady /\ ~cyc /\ ~timerOn

\* A direct parameter access that SM started is confirmed, over bad answers, the retries
\* that their timer owes and losses of the link; the one exception is a chip that reports
\* nothing of a message, which AW_REPLY_4 has no timer for.
AccessConfirmed == rwcmd \in {"READ", "WRITE"} ~> rwcmd \notin {"READ", "WRITE"} \/ Silent

\* The link was gone when DL_Write_Devicemode_req came: the command handler is inactive,
\* and keeps a command that it will never confirm.
Unconfirmed == req = "devmode" /\ mdState = "IDLE_0" /\ mcmd # "NONE"

\* A loss of communication reaches the application, which then wakes the device up again,
\* unless SM waits for the confirmation of a command it gave to a link already lost.
LossReported == mhInfo = "COMLOST" ~> app \in {"WAIT_TSD", "RETRY"} \/ Unconfirmed

\* What SM sees of the link: its mode, and the indications in the job queue.
LinkOf == [IDLE_0 |-> "Down", ESTCOM_1 |-> "WakeUp", STARTUP_2 |-> "Startup",
           PREOPERATE_3 |-> "Preoperate", OPERATE_4 |-> "Operate"]
ModeInds == {"STARTUP", "PREOPERATE", "OPERATE", "COMLOST", "INACTIVE"}

\* The mode indications of a queue, in order.
ModeIndsOf(q) == SelectAt(q, Positions(q, ModeInds))

Link == INSTANCE LinkService WITH link <- LinkOf[mdState], ind <- ModeIndsOf(jobs)

\* The data link implements the service: no mode is skipped, each is indicated
\* once and in order, and a lost link is always reported.
LinkRefinement == Link!LinkSpec
====
