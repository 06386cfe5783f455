------------------------------ MODULE IolinkOD ------------------------------
(***************************************************************************)
(* On-request data in OPERATE: the OD handler of iolink_dl.c and the three   *)
(* handlers it shares the message's on-request bytes among (ISDU, master     *)
(* command, event), the message handler's AW_REPLY_16 and AW_REPLY_9 that    *)
(* drive them, and the threads that hand them work without a lock: AL and SM *)
(* in the master's thread, the application's process data output.            *)
(*                                                                         *)
(* Every answered message triggers the OD handler twice: DEVICE with the     *)
(* answer, MASTER to prepare the next message; the other threads run in      *)
(* between.  The chip then exchanges what was downloaded.  The buffer the    *)
(* OD handler writes to (tx) and the message in the chip differ: a handler   *)
(* that prepares nothing leaves the previous message in tx.                  *)
(*                                                                         *)
(* STARTUP and PREOPERATE are one step (Up), process data is left out.  A    *)
(* request's and a response's bytes are segments marked with the request     *)
(* they belong to; the device checks the flow control number of a segment.   *)
(***************************************************************************)
EXTENDS Naturals, Sequences, FiniteSets, Selection

CONSTANTS
  ReqSegs, RespSegs,   \* segments of an ISDU request and of its response
  EvBytes,             \* bytes of the event memory after the status code
  OPERATE_RETRY,       \* the literal 3 of AW_REPLY_16
  Mixes,               \* what happens together: one of these sets in each behaviour
  MaxJobs, MaxFaults, MaxEvents, MaxCommands, MaxSessions    \* bounds

ASSUME SegmentsAssumption == {ReqSegs, RespSegs, EvBytes} \subseteq Nat \ {0}
ASSUME RetryAssumption    == OPERATE_RETRY \in Nat
ASSUME BudgetAssumption   ==
  {MaxJobs, MaxFaults, MaxEvents, MaxCommands, MaxSessions} \subseteq Nat
ASSUME MixAssumption ==
  \A mix \in Mixes : mix \subseteq {"Isdu", "Read", "Write", "Mode", "Pdout", "Event",
                                    "Race", "Errors", "Drop", "Loss", "Reset"}

VARIABLES
  h,        \* the handlers: see HandlersInit
  md,       \* the mode handler: up (OPERATE_4 or IDLE_0), its event
  mh,       \* message_handler.state and retry
  pc,       \* the DL thread: "wait", or "prepare" after the DEVICE trigger
  chip,     \* the message the chip exchanges
  rx,       \* what the chip has for the DL thread
  dev,      \* the device
  al,       \* AL: the service it waits for, the call it is amid, the last one confirmed
  caller,   \* who is between setting control_code and cmd_h_sm; SM's wait; told events
  left,     \* the budgets
  occurs    \* the mix of this behaviour

vars == <<h, md, mh, pc, chip, rx, dev, al, caller, left, occurs>>

Msg(kind, at, arg) == [kind |-> kind, at |-> at, arg |-> arg]
IdleMsg == Msg("Idle", 0, 0)
NoRx    == [what |-> "none", at |-> 0, arg |-> 0, flag |-> FALSE]
NoSeg   == <<0, 0>>
Empty   == [i \in 0..RespSegs - 1 |-> NoSeg]
Cnf(kind, stat, data) == [kind |-> kind, stat |-> stat, data |-> data]

(***************************************************************************)
(* od, is, cs and es are the states of the four handlers and trig           *)
(* od_handler.trigger; act stands for ohcmd, ihcmd and ehcmd, ch for chcmd;  *)
(* rw is rwcmd, lost mhinfo = COMLOST; seg, tot, job and buf the ISDU's      *)
(* current and total segments, request and response, late its timer; val is  *)
(* data_addr and data_value; code and mcmd control_code and master_command;    *)
(* conf, flag, addr and got the event handler's; out what the step confirms. *)
(***************************************************************************)
HandlersInit ==
  [od |-> "Inactive", is |-> "Inactive", cs |-> "Inactive", es |-> "Inactive",
   trig |-> "NONE", act |-> FALSE, ch |-> FALSE, rw |-> "none", lost |-> FALSE,
   seg |-> 0, tot |-> 0, job |-> 0, buf |-> Empty, late |-> FALSE, val |-> 0,
   code |-> "NONE", mcmd |-> "none",
   conf |-> FALSE, flag |-> FALSE, addr |-> 0, got |-> <<>>,
   tx |-> IdleMsg, out |-> <<>>]

DeviceInit == [st |-> "Idle", segs |-> <<>>, done |-> <<>>, par |-> 0, mcmd |-> "none",
               ev |-> 0, cleared |-> {}]

Init ==
  /\ h = HandlersInit /\ md = [up |-> FALSE, mode |-> "INACTIVE", mdh |-> FALSE]
  /\ mh = [state |-> "off", retry |-> 0] /\ pc = "wait"
  /\ chip = IdleMsg /\ rx = NoRx /\ dev = DeviceInit
  /\ al = [op |-> "none", job |-> 0, amid |-> "none", told |-> <<0, Cnf("none", "OK", 0)>>]
  /\ caller = [pdout |-> FALSE, sm |-> "idle", events |-> <<>>]
  /\ left = [jobs |-> MaxJobs, faults |-> MaxFaults, events |-> MaxEvents,
             commands |-> MaxCommands, sessions |-> MaxSessions]
  /\ occurs \in Mixes

-----------------------------------------------------------------------------
\* OD_req: the on-request part of the next message.
Send(x, m)    == [x EXCEPT !.tx = m]
Confirm(x, c) == [x EXCEPT !.out = Append(@, c)]

(***************************************************************************)
(* The ISDU handler.  r is the answer in rxbuffer.                          *)
(***************************************************************************)
\* isdu_error4: sends ABORT and confirms, or, on IH_Conf (INACTIVE), neither.
IsduError(x) ==
  IF ~x.act THEN [x EXCEPT !.is = "Inactive"]
  ELSE Confirm([Send(x, Msg("Abort", 0, 0)) EXCEPT !.tot = 0, !.rw = "none", !.is = "Idle"],
               Cnf("isdu", "ERR", 0))

\* Mutant: a request that fails while the link goes down is not confirmed.
EnterError_Silent(x) ==
  IF ~x.act THEN [x EXCEPT !.tot = 0, !.is = "Inactive"]
  ELSE IF x.trig = "MASTER" THEN IsduError(x)
  ELSE [x EXCEPT !.is = "Error"]

EnterError(x) ==
  IF ~x.act THEN Confirm([x EXCEPT !.tot = 0, !.is = "Inactive"], Cnf("isdu", "ERR", 0))
  ELSE IF x.trig = "MASTER" THEN IsduError(x)
  ELSE [x EXCEPT !.is = "Error"]

\* valid_isdu_checksum: the segments are those of one response, in order.
Whole(buf) == \A i \in DOMAIN buf : buf[i] = <<i, buf[0][2]>>

\* Mutant: the checksum of the response is not looked at.
Complete_Unchecked(x) ==
  Confirm([x EXCEPT !.seg = 0, !.tot = 0, !.rw = "none", !.is = "Idle"],
          Cnf("isdu", "OK", x.buf))

\* reception_complete.
Complete(x) ==
  Confirm([x EXCEPT !.seg = 0, !.tot = 0, !.rw = "none", !.is = "Idle"],
          IF Whole(x.buf) THEN Cnf("isdu", "OK", x.buf) ELSE Cnf("isdu", "CHECKSUM", 0))

IsduIdle(x, r) ==
  IF ~x.act
  THEN LET y == IF x.tot # 0 THEN Confirm(x, Cnf("isdu", "ERR", 0)) ELSE x
       IN [y EXCEPT !.tot = 0, !.is = "Inactive"]
  ELSE IF x.trig = "MASTER"
  THEN CASE x.rw = "isdu"  -> [Send(x, Msg("Seg", 0, x.job)) EXCEPT !.seg = 1, !.is = "Request"]
         [] x.rw = "read"  -> Send(x, Msg("Read", 0, 0))
         [] x.rw = "write" -> Send(x, Msg("Write", 0, x.val))
         [] OTHER          -> Send(x, IdleMsg)
  ELSE IF x.trig = "DEVICE" /\ x.rw = "read"
  THEN Confirm([x EXCEPT !.rw = "none"], Cnf("read", "OK", <<r.what, r.arg>>))
  ELSE IF x.trig = "DEVICE" /\ x.rw = "write"
  THEN Confirm([x EXCEPT !.rw = "none"], Cnf("write", "OK", 0))
  ELSE x

IsduRequest(x) ==
  IF x.lost THEN EnterError(x)
  ELSE IF x.trig = "MASTER" THEN [Send(x, Msg("Seg", x.seg, x.job)) EXCEPT !.seg = @ + 1]
  ELSE IF x.trig = "DEVICE" /\ x.seg >= x.tot
  THEN [x EXCEPT !.seg = 0, !.is = "Wait", !.late = FALSE]
  ELSE x

\* Mutant: a request that is not answered in time is sent again.
IsduWait_Again(x, r) ==
  IF x.lost THEN EnterError(x)
  ELSE IF x.late THEN [x EXCEPT !.is = "Request", !.seg = 0, !.late = FALSE]
  ELSE IF x.trig = "MASTER" THEN Send(x, Msg("Get", 0, 0))
  ELSE IF x.trig # "DEVICE" \/ r.what = "busy" THEN x
  ELSE IF r.what # "seg" THEN EnterError(x)
  ELSE [x EXCEPT !.buf[0] = <<r.at, r.arg>>, !.seg = 1, !.tot = RespSegs, !.is = "Response"]

\* A busy answer changes nothing; no service and an answer that is no response fail.
IsduWait(x, r) ==
  IF x.late \/ x.lost THEN EnterError(x)
  ELSE IF x.trig = "MASTER" THEN Send(x, Msg("Get", 0, 0))
  ELSE IF x.trig # "DEVICE" \/ r.what = "busy" THEN x
  ELSE IF r.what # "seg" THEN EnterError([x EXCEPT !.late = FALSE])
  ELSE LET y == [x EXCEPT !.buf[0] = <<r.at, r.arg>>, !.seg = 1, !.tot = RespSegs]
       IN IF RespSegs = 1 THEN Complete(y) ELSE [y EXCEPT !.is = "Response"]

IsduResponse(x, r) ==
  IF x.lost THEN EnterError(x)
  ELSE IF x.trig = "MASTER" THEN Send(x, Msg("Get", x.seg, 0))
  ELSE IF x.trig # "DEVICE" THEN x
  ELSE LET y == [x EXCEPT !.buf[x.seg] = <<r.at, r.arg>>, !.seg = @ + 1]
       IN IF y.seg >= y.tot THEN Complete(y) ELSE y

IsduHandler(x, r) ==
  CASE x.is = "Inactive" -> IF x.act THEN [x EXCEPT !.tot = 0, !.seg = 0, !.is = "Idle"] ELSE x
    [] x.is = "Idle"     -> IsduIdle(x, r)
    [] x.is = "Request"  -> IsduRequest(x)
    [] x.is = "Wait"     -> IsduWait(x, r)
    [] x.is = "Error"    -> IsduError(x)
    [] OTHER             -> IsduResponse(x, r)

-----------------------------------------------------------------------------
\* Mutant: the control code is not reset when the command is written.
CmdHandler_KeepsCode(x) ==
  CASE x.cs = "Inactive" -> IF x.ch THEN [x EXCEPT !.cs = "Idle"] ELSE x
    [] x.cs = "Idle" ->
         IF ~x.ch THEN [x EXCEPT !.cs = "Inactive"]
         ELSE IF x.code = "PDOUTVALID" THEN [x EXCEPT !.mcmd = "PD_OUT", !.cs = "Master"]
         ELSE IF x.code = "PDOUTINVALID" THEN [x EXCEPT !.mcmd = "OPERATE", !.cs = "Master"]
         ELSE IF x.code = "DEVICEMODE" THEN [x EXCEPT !.cs = "Master"]
         ELSE x
    [] OTHER -> [Send(x, Msg("Cmd", 0, x.mcmd)) EXCEPT !.cs = "Idle"]

\* iolink_dl_cmd_h_sm: the first run with a control code takes the command, the second
\* writes it.  PDOUTINVALID is written as the device mode OPERATE.
CmdHandler(x) ==
  CASE x.cs = "Inactive" -> IF x.ch THEN [x EXCEPT !.cs = "Idle"] ELSE x
    [] x.cs = "Idle" ->
         IF ~x.ch THEN [x EXCEPT !.cs = "Inactive"]
         ELSE IF x.code = "PDOUTVALID" THEN [x EXCEPT !.mcmd = "PD_OUT", !.cs = "Master"]
         ELSE IF x.code = "PDOUTINVALID" THEN [x EXCEPT !.mcmd = "OPERATE", !.cs = "Master"]
         ELSE IF x.code = "DEVICEMODE" THEN [x EXCEPT !.cs = "Master"]
         ELSE x
    [] OTHER -> [Send(x, Msg("Cmd", 0, x.mcmd)) EXCEPT !.code = "NONE", !.cs = "Idle"]

\* Mutant: the fallback is not confirmed.
WriteMasterCommand_NoFallback(x, stat) ==
  LET y == [x EXCEPT !.mcmd = "none"]
  IN IF x.mcmd \in {"OPERATE", "PREOP"} THEN Confirm(y, Cnf("mode", stat, x.mcmd)) ELSE y

\* write_master_command: only the device modes are confirmed.
WriteMasterCommand(x, stat) ==
  LET y == [x EXCEPT !.mcmd = "none"]
  IN IF x.mcmd \in {"OPERATE", "PREOP", "FALLBACK"} THEN Confirm(y, Cnf("mode", stat, x.mcmd))
     ELSE y

(***************************************************************************)
(* The event handler: reads the status code and the event memory byte by     *)
(* byte, indicates the events, and confirms them to the device with the next *)
(* message.                                                                 *)
(***************************************************************************)
\* Mutant: the events are confirmed as soon as the status code is read.
EventRead_Early(x, r) ==
  IF x.addr = 0 THEN [x EXCEPT !.addr = 1, !.conf = TRUE, !.es = "Idle"]
  ELSE LET y == [x EXCEPT !.got = Append(@, r.arg), !.addr = @ + 1]
       IN IF x.addr < EvBytes THEN y
          ELSE Confirm([y EXCEPT !.conf = TRUE, !.es = "Idle"], Cnf("event", "OK", y.got))

\* A status code without events (the flag was an old one) is confirmed, too.
EventRead(x, r) ==
  IF x.addr = 0 THEN IF r.arg = 0 THEN [x EXCEPT !.conf = TRUE, !.es = "Idle"]
                     ELSE [x EXCEPT !.addr = 1]
  ELSE LET y == [x EXCEPT !.got = Append(@, r.arg), !.addr = @ + 1]
       IN IF x.addr < EvBytes THEN y
          ELSE Confirm([y EXCEPT !.conf = TRUE, !.es = "Idle"], Cnf("event", "OK", y.got))

EvHandler(x, r) ==
  CASE x.es = "Inactive" -> IF x.act THEN [x EXCEPT !.es = "Idle"] ELSE x
    [] x.es = "Idle" ->
         IF ~x.act THEN [x EXCEPT !.es = "Inactive"]
         ELSE IF x.trig # "MASTER" THEN x
         ELSE IF ~x.conf
         THEN [Send(x, Msg("EvRead", 0, 0)) EXCEPT !.addr = 0, !.got = <<>>, !.es = "Read"]
         ELSE IF x.lost THEN [x EXCEPT !.es = "Inactive"]
         ELSE [Send(x, Msg("EvConf", 0, 0)) EXCEPT !.conf = FALSE]
    [] OTHER ->
         IF x.lost THEN [x EXCEPT !.es = "Inactive"]
         ELSE IF x.trig = "MASTER" THEN Send(x, Msg("EvRead", x.addr, 0))
         ELSE IF x.trig = "DEVICE" THEN EventRead(x, r)
         ELSE x

-----------------------------------------------------------------------------
(***************************************************************************)
(* The OD handler: commands first, then events, then the ISDU handler.      *)
(***************************************************************************)
Untriggered(x) == [x EXCEPT !.trig = "NONE"]

\* Mutant: the event flag is looked at after a command only.
OdIsdu_NoEvents(x, r) ==
  IF ~x.act THEN [x EXCEPT !.od = "Inactive"]
  ELSE IF x.code # "NONE" /\ x.trig = "MASTER" THEN [CmdHandler(x) EXCEPT !.od = "Command"]
  ELSE IF x.trig # "NONE" THEN Untriggered(IsduHandler(x, r))
  ELSE x

OdIsdu(x, r) ==
  IF ~x.act THEN [x EXCEPT !.od = "Inactive"]
  ELSE IF x.code # "NONE" /\ x.trig = "MASTER" THEN [CmdHandler(x) EXCEPT !.od = "Command"]
  ELSE IF x.flag THEN [IsduHandler(x, r) EXCEPT !.od = "Event"]
  ELSE IF x.trig # "NONE" THEN Untriggered(IsduHandler(x, r))
  ELSE x

\* INACTIVE changes the command handler's state and leaves this one (iolink_dl.c:2647).
OdCommand(x) ==
  IF ~x.act THEN [x EXCEPT !.cs = "Inactive"]
  ELSE IF x.trig = "NONE" THEN x
  ELSE IF x.code # "NONE" THEN Untriggered(x)
  ELSE [WriteMasterCommand(Untriggered(x), "OK") EXCEPT !.od = IF x.flag THEN "Event" ELSE "Isdu"]

OdEvent(x, r) ==
  IF ~x.act THEN [x EXCEPT !.od = "Inactive"]
  ELSE IF x.code # "NONE" /\ x.trig = "MASTER" THEN [CmdHandler(x) EXCEPT !.od = "Command"]
  ELSE IF ~x.flag THEN [x EXCEPT !.od = "Isdu"]
  ELSE IF x.trig # "NONE" THEN Untriggered(EvHandler(x, r))
  ELSE x

OdHandler(x, r) ==
  CASE x.od = "Inactive" -> IF x.act THEN [x EXCEPT !.od = "Isdu"] ELSE x
    [] x.od = "Isdu"     -> OdIsdu(x, r)
    [] x.od = "Command"  -> OdCommand(x)
    [] OTHER             -> OdEvent(x, r)

Trigger(x, trig, r) == OdHandler([x EXCEPT !.trig = trig], r)

\* Whom the confirmations and indications of a step reach, in the master's thread: AL takes
\* those of the service it waits for.
Delivered(x) == [x EXCEPT !.out = <<>>]
Of(x, kind)  == SelectAt(x.out, {i \in DOMAIN x.out : x.out[i].kind = kind})
Ended(c)     == [c EXCEPT !.sm = IF @ = "wait" THEN "idle" ELSE IF @ = "set" THEN "told" ELSE @]
HandTo(x, c) ==
  LET mine == Of(x, al.op)
  IN /\ al' = IF mine = <<>> THEN al
              ELSE [al EXCEPT !.op = "none", !.job = 0, !.told = <<al.job, mine[1]>>]
     /\ caller' = [(IF Of(x, "mode") = <<>> THEN c ELSE Ended(c))
                   EXCEPT !.events = @ \o Of(x, "event")]
     /\ h' = Delivered(x)
Hand(x) == HandTo(x, caller)

-----------------------------------------------------------------------------
(***************************************************************************)
(* The DL thread.                                                           *)
(***************************************************************************)
\* Amid a caller's request - between the control code and the command handler, between rwcmd
\* and the data - the DL thread runs only with "Race".
Runs == caller.pdout \/ caller.sm \in {"set", "told"} \/ al.amid # "none"
          => "Race" \in occurs
Waiting(state) == Runs /\ pc = "wait" /\ mh.state = state

\* From STARTUP to OPERATE: CH_Conf (ACTIVE), then OH_, IH_ and EH_Conf (ACTIVE), then the
\* message handler.  STARTUP's accesses leave rwcmd NONE.
Activated(x) ==
  LET c == CmdHandler([x EXCEPT !.ch = TRUE, !.rw = "none"])
      o == OdHandler([c EXCEPT !.act = TRUE], NoRx)
  IN EvHandler(IsduHandler(o, NoRx), NoRx)

\* The last message before OPERATE is the master command that enters it.  SM takes the link
\* up in the master's thread, where no request of AL is under way then.
EnterOperate == Msg("Cmd", 0, "OPERATE")

Up ==
  /\ ~md.up /\ ~md.mdh /\ left.sessions > 0 /\ al.amid = "none"
  /\ Hand(Send(Activated(h), EnterOperate)) /\ chip' = EnterOperate
  /\ md' = [up |-> TRUE, mode |-> "OPERATE", mdh |-> FALSE]
  /\ mh' = [state |-> "reply16", retry |-> 0] /\ pc' = "prepare" /\ rx' = NoRx
  /\ left' = [left EXCEPT !.sessions = @ - 1]
  /\ dev' = [dev EXCEPT !.st = "Idle", !.segs = <<>>, !.mcmd = "OPERATE"]
  /\ UNCHANGED occurs

\* set_OH_IH_EH_Conf_active (false), CH_Conf (INACTIVE).
Deactivated(x) ==
  LET e == EvHandler(IsduHandler(OdHandler([x EXCEPT !.act = FALSE], rx), rx), rx)
  IN CmdHandler([e EXCEPT !.ch = FALSE])

\* The mode handler in OPERATE_4: goto_idle for the mode INACTIVE and for a loss.  MH_Conf
\* (INACTIVE) in AW_REPLY_16 sets the event again.  The indication ends SM's wait.
ModeHandler ==
  /\ md.mdh /\ pc = "wait" /\ Runs
  /\ IF md.up /\ (md.mode = "INACTIVE" \/ h.lost)
     THEN /\ HandTo([Deactivated(h) EXCEPT !.lost = FALSE], Ended(caller))
          /\ md' = [md EXCEPT !.up = FALSE, !.mdh = (mh.state = "reply16")]
          /\ mh' = [mh EXCEPT !.state = IF @ = "reply16" THEN "off" ELSE @]
          /\ rx' = NoRx
     ELSE md' = [md EXCEPT !.mdh = FALSE] /\ UNCHANGED <<h, al, caller, mh, rx>>
  /\ UNCHANGED <<pc, chip, dev, left, occurs>>

Good == rx # NoRx /\ rx.what # "error"

\* AW_REPLY_16 with an answer: the event flag and the DEVICE trigger.
Received ==
  /\ Waiting("reply16") /\ Good /\ h.rw # "write"
  /\ Hand(Trigger([h EXCEPT !.flag = rx.flag], "DEVICE", rx))
  /\ pc' = "prepare"
  /\ UNCHANGED <<md, mh, chip, rx, dev, left, occurs>>

\* The MASTER trigger and the download of the next message.
Prepare ==
  /\ pc = "prepare" /\ Runs /\ pc' = "wait"
  /\ LET x == Trigger(h, "MASTER", rx) IN Hand(x) /\ chip' = x.tx
  /\ rx' = NoRx
  /\ UNCHANGED <<md, mh, dev, left, occurs>>

\* Mutant: the message that is downloaded was prepared before.
WriteNow_Unprepared ==
  /\ Waiting("reply16") /\ rx # NoRx /\ h.rw = "write"
  /\ mh' = [state |-> "reply9", retry |-> 0] /\ rx' = NoRx
  /\ UNCHANGED <<h, md, pc, chip, dev, al, caller, left, occurs>>

\* AW_REPLY_16 with a WRITEPARAM pending, before it looks at the answer: whatever the chip
\* reported is dropped, the write is prepared and downloaded.
WriteNow ==
  /\ Waiting("reply16") /\ rx # NoRx /\ h.rw = "write"
  /\ LET x == Trigger(h, "MASTER", rx) IN Hand(x) /\ chip' = x.tx
  /\ mh' = [state |-> "reply9", retry |-> 0] /\ rx' = NoRx
  /\ UNCHANGED <<md, pc, dev, left, occurs>>

\* AW_REPLY_9: the DEVICE trigger, with the event flag of the answer before (cks is not read
\* from this one); back to AW_REPLY_16, where the chip repeats the message, when the ISDU
\* handler is idle (AL asks for one service at a time; GETOD_7, for an ISDU left from an
\* earlier session, is left out).
Written ==
  /\ Waiting("reply9") /\ Good
  /\ LET x == Trigger(h, "DEVICE", rx)
     IN /\ Hand(x)
        /\ mh' = [mh EXCEPT !.state = IF x.is = "Idle" THEN "reply16" ELSE @]
  /\ rx' = NoRx
  /\ UNCHANGED <<md, pc, chip, dev, left, occurs>>

\* Mutant: no limit to the retries.
Resend_Always ==
  /\ rx.what = "error"
  /\ \/ Waiting("reply9")
     \/ Waiting("reply16") /\ h.rw # "write"
  /\ mh' = [mh EXCEPT !.retry = @ + 1] /\ rx' = NoRx
  /\ UNCHANGED <<h, md, pc, chip, dev, al, caller, left, occurs>>

\* The chip reports an error: the message is sent again, OPERATE_RETRY times.
Resend ==
  /\ rx.what = "error" /\ mh.retry < OPERATE_RETRY
  /\ \/ Waiting("reply9")
     \/ Waiting("reply16") /\ h.rw # "write"
  /\ mh' = [mh EXCEPT !.retry = @ + 1] /\ rx' = NoRx
  /\ UNCHANGED <<h, md, pc, chip, dev, al, caller, left, occurs>>

\* Mutant: the mode handler is not told.
ComLost_Untold ==
  /\ rx.what = "error" /\ mh.retry >= OPERATE_RETRY
  /\ \/ Waiting("reply9")
     \/ Waiting("reply16") /\ h.rw # "write"
  /\ Hand([h EXCEPT !.rw = "none", !.lost = TRUE])
  /\ mh' = [state |-> "off", retry |-> 0] /\ rx' = NoRx
  /\ UNCHANGED <<md, pc, chip, dev, left, occurs>>

\* handle_com_lost; from ERRORHANDLING_10 the command and the parameter are confirmed.
ComLost ==
  /\ rx.what = "error" /\ mh.retry >= OPERATE_RETRY
  /\ \/ Waiting("reply9")
     \/ Waiting("reply16") /\ h.rw # "write"
  /\ LET w == IF mh.state = "reply9" THEN WriteMasterCommand(h, "ERR") ELSE h
         x == IF mh.state = "reply9" /\ h.rw \in {"read", "write"}
              THEN Confirm(w, Cnf(h.rw, "ERR", 0)) ELSE w
     IN Hand([x EXCEPT !.rw = "none", !.lost = TRUE])
  /\ mh' = [state |-> "off", retry |-> 0] /\ rx' = NoRx
  /\ md' = [md EXCEPT !.mdh = TRUE]
  /\ UNCHANGED <<pc, chip, dev, left, occurs>>

\* The response time of the ISDU in ISDUWAIT_3 passes.
IsduTimeout ==
  /\ "Errors" \in occurs /\ left.faults > 0 /\ h.is = "Wait" /\ ~h.late
  /\ h' = [h EXCEPT !.late = TRUE] /\ left' = [left EXCEPT !.faults = @ - 1]
  /\ UNCHANGED <<md, mh, pc, chip, rx, dev, al, caller, occurs>>

-----------------------------------------------------------------------------
(***************************************************************************)
(* The device: the flow control numbers keep it to whole requests; its      *)
(* event memory is frozen until it is confirmed, and the next event comes    *)
(* after another message.                                                   *)
(***************************************************************************)
Answer(what, at, arg) == [what |-> what, at |-> at, arg |-> arg]

\* Segment 0 begins a request; the next one continues it; the latest one again is a repeat.
TakeSegment(d, m) ==
  LET segs == IF m.at = 0 THEN <<m.arg>>
              ELSE IF m.at = Len(d.segs) THEN Append(d.segs, m.arg) ELSE d.segs
      begun == m.at = 0 \/ (d.st = "Rx" /\ m.at = Len(d.segs))
      again == d.st # "Idle" /\ m.at = Len(d.segs) - 1 /\ d.segs[m.at + 1] = m.arg
  IN IF again THEN d
     ELSE IF ~begun THEN [d EXCEPT !.st = "Idle"]
     ELSE IF Len(segs) < ReqSegs THEN [d EXCEPT !.st = "Rx", !.segs = segs]
     ELSE [d EXCEPT !.st = "Work", !.segs = segs, !.done = Append(@, segs)]

\* The device after message m, and its answer; ready: it has processed a request.
Takes(d, m, ready) ==
  CASE m.kind = "Seg" -> <<TakeSegment(d, m), Answer("any", 0, 0)>>
    [] m.kind = "Get" ->
         IF d.st = "Work" /\ m.at = 0
         THEN IF ready THEN <<[d EXCEPT !.st = "Tx"], Answer("seg", 0, d.segs[1])>>
              ELSE <<d, Answer("busy", 0, 0)>>
         ELSE IF d.st = "Tx" THEN <<d, Answer("seg", m.at, d.segs[1])>>
         ELSE <<d, Answer("noservice", 0, 0)>>
    [] m.kind = "Write"  -> <<[d EXCEPT !.par = m.arg], Answer("any", 0, 0)>>
    [] m.kind = "Read"   -> <<d, Answer("par", 0, d.par)>>
    [] m.kind = "Cmd"    -> <<[d EXCEPT !.mcmd = m.arg], Answer("any", 0, 0)>>
    [] m.kind = "EvRead" -> <<d, Answer("event", m.at, d.ev)>>
    [] m.kind = "EvConf" -> <<[d EXCEPT !.ev = 0, !.cleared = (@ \cup {d.ev}) \ {0}], Answer("any", 0, 0)>>
    [] OTHER             -> <<[d EXCEPT !.st = "Idle"], Answer("any", 0, 0)>>

Flagged(a, d) == [what |-> a.what, at |-> a.at, arg |-> a.arg, flag |-> d.ev # 0]

Exchanging == mh.state # "off" /\ pc = "wait" /\ rx = NoRx

Exchange ==
  /\ Exchanging
  /\ LET t == Takes(dev, chip, TRUE) IN dev' = t[1] /\ rx' = Flagged(t[2], t[1])
  /\ UNCHANGED <<h, md, mh, pc, chip, al, caller, left, occurs>>

\* The message or its answer is lost; more than the retries make up for only with "Loss".
Drop ==
  /\ Exchanging /\ left.faults > 0
  /\ \/ "Loss" \in occurs
     \/ "Drop" \in occurs /\ mh.retry < OPERATE_RETRY
  /\ dev' \in {dev, Takes(dev, chip, TRUE)[1]}
  /\ rx' = [NoRx EXCEPT !.what = "error"]
  /\ left' = [left EXCEPT !.faults = @ - 1]
  /\ UNCHANGED <<h, md, mh, pc, chip, al, caller, occurs>>

\* The device is busy with a request, forgets it, or answers what is no response to it.
Trouble ==
  /\ Exchanging /\ left.faults > 0 /\ "Errors" \in occurs
  /\ chip.kind = "Get" /\ dev.st = "Work"
  /\ \E a \in {"busy", "noservice", "bad"} :
       /\ rx' = Flagged(Answer(a, 0, 0), dev)
       /\ dev' = IF a = "busy" THEN dev ELSE [dev EXCEPT !.st = "Idle"]
  /\ left' = [left EXCEPT !.faults = @ - 1]
  /\ UNCHANGED <<h, md, mh, pc, chip, al, caller, occurs>>

DeviceEvent ==
  /\ "Event" \in occurs /\ left.events > 0 /\ dev.ev = 0 /\ chip.kind # "EvConf"
  /\ dev' = [dev EXCEPT !.ev = left.events] /\ left' = [left EXCEPT !.events = @ - 1]
  /\ UNCHANGED <<h, md, mh, pc, chip, rx, al, caller, occurs>>

-----------------------------------------------------------------------------
(***************************************************************************)
(* The threads above.                                                       *)
(***************************************************************************)
NextJob == MaxJobs - left.jobs + 1

\* DL_ISDUTransport_req takes a request in IDLE_1.
IsduAccepted(x) == md.up /\ x.is = "Idle"

OpOf == [Isdu |-> "isdu", Read |-> "read", Write |-> "write"]

Asks(kind) ==
  /\ al.op = "none" /\ al.amid = "none" /\ kind \in occurs /\ left.jobs > 0
  /\ left' = [left EXCEPT !.jobs = @ - 1]
  /\ UNCHANGED <<md, mh, pc, chip, rx, dev, caller, occurs>>

AskIsdu ==
  /\ Asks("Isdu")
  /\ IF IsduAccepted(h)
     THEN /\ h' = [h EXCEPT !.rw = "isdu", !.job = NextJob, !.seg = 0, !.tot = ReqSegs, !.buf = Empty]
          /\ al' = [al EXCEPT !.op = "isdu", !.job = NextJob]
     ELSE UNCHANGED <<h, al>>

\* DL_ReadWriteParam_req: rwcmd is set before the state is looked at and the data stored, with
\* no lock against the DL thread, which may take the command in between.
AskParam ==
  \E kind \in {"Read", "Write"} :
    /\ Asks(kind)
    /\ h' = [h EXCEPT !.rw = OpOf[kind]]
    /\ al' = [al EXCEPT !.op = OpOf[kind], !.job = NextJob, !.amid = OpOf[kind]]

\* The rest of it: refused, AL waits for nothing and rwcmd stays; else the data is stored.
StoreParam ==
  /\ al.amid # "none"
  /\ IF mh.state # "reply16"
     THEN al' = [al EXCEPT !.op = "none", !.job = 0, !.amid = "none"] /\ UNCHANGED h
     ELSE /\ al' = [al EXCEPT !.amid = "none"]
          /\ h' = IF al.amid = "write" THEN [h EXCEPT !.val = NextJob - 1] ELSE h
  /\ UNCHANGED <<md, mh, pc, chip, rx, dev, caller, left, occurs>>

\* DL_Control_req, once process data can be put out, and DL_Write_Devicemode_req (the
\* fallback) set the code, then run the command handler.
AskPdout ==
  /\ "Pdout" \in occurs /\ ~caller.pdout /\ md.up /\ left.commands > 0
  /\ \E code \in {"PDOUTVALID", "PDOUTINVALID"} : h' = [h EXCEPT !.code = code]
  /\ caller' = [caller EXCEPT !.pdout = TRUE]
  /\ left' = [left EXCEPT !.commands = @ - 1]
  /\ UNCHANGED <<md, mh, pc, chip, rx, dev, al, occurs>>

RunPdout ==
  /\ caller.pdout
  /\ h' = CmdHandler(h) /\ caller' = [caller EXCEPT !.pdout = FALSE]
  /\ UNCHANGED <<md, mh, pc, chip, rx, dev, al, left, occurs>>

AskMode ==
  /\ "Mode" \in occurs /\ caller.sm = "idle" /\ al.amid = "none" /\ md.up /\ left.commands > 0
  /\ h' = [h EXCEPT !.mcmd = "FALLBACK", !.code = "DEVICEMODE"]
  /\ caller' = [caller EXCEPT !.sm = "set"]
  /\ left' = [left EXCEPT !.commands = @ - 1]
  /\ UNCHANGED <<md, mh, pc, chip, rx, dev, al, occurs>>

RunMode ==
  /\ caller.sm \in {"set", "told"}
  /\ h' = CmdHandler(h)
  /\ caller' = [caller EXCEPT !.sm = IF @ = "set" THEN "wait" ELSE "idle"]
  /\ UNCHANGED <<md, mh, pc, chip, rx, dev, al, left, occurs>>

\* DL_SetMode_req (INACTIVE).
AskInactive ==
  /\ "Reset" \in occurs /\ md.up /\ md.mode = "OPERATE"
  /\ md' = [md EXCEPT !.mode = "INACTIVE", !.mdh = TRUE]
  /\ UNCHANGED <<h, mh, pc, chip, rx, dev, al, caller, left, occurs>>

-----------------------------------------------------------------------------
Thread  == ModeHandler \/ Received \/ Prepare \/ WriteNow \/ Written \/ Resend \/ ComLost
Callers == RunPdout \/ RunMode \/ StoreParam
Free    == \/ Up \/ IsduTimeout \/ Drop \/ Trouble \/ DeviceEvent
           \/ AskIsdu \/ AskParam \/ AskPdout \/ AskMode \/ AskInactive
Next    == Thread \/ Callers \/ Exchange \/ Free

\* The DL thread and the callers run, and the chip exchanges its message every cycle.
Fairness == WF_vars(Thread) /\ WF_vars(Callers) /\ WF_vars(Exchange)
Spec     == Init /\ [][Next]_vars
FairSpec == Spec /\ Fairness

-----------------------------------------------------------------------------
Kinds == {"Idle", "Seg", "Get", "Abort", "Read", "Write", "Cmd", "EvRead", "EvConf"}

\* Types of the handlers' and the threads' state.
TypeOK ==
  /\ h.od \in {"Inactive", "Isdu", "Command", "Event"}
  /\ h.is \in {"Inactive", "Idle", "Request", "Wait", "Error", "Response"}
  /\ h.cs \in {"Inactive", "Idle", "Master"} /\ h.es \in {"Inactive", "Idle", "Read"}
  /\ h.trig \in {"NONE", "DEVICE", "MASTER"} /\ h.rw \in {"none", "isdu", "read", "write"}
  /\ h.seg \in Nat /\ ("Reset" \notin occurs => h.seg <= ReqSegs + RespSegs)
  /\ h.tot \in {0, ReqSegs, RespSegs}
  /\ h.addr \in 0..EvBytes + 1 /\ h.out = <<>> /\ {h.tx.kind, chip.kind} \subseteq Kinds
  /\ mh.state \in {"off", "reply9", "reply16"} /\ mh.retry \in 0..OPERATE_RETRY
  /\ pc \in {"wait", "prepare"}
  /\ al.op \in {"none", "isdu", "read", "write"} /\ al.amid \in {"none", "read", "write"}
  /\ dev.st \in {"Idle", "Rx", "Work", "Tx"} /\ occurs \in Mixes

\* What AL waits for the DL has not forgotten: an ISDU is with its handler, a parameter that
\* was taken is in rwcmd, whatever events, retries, timeouts and lost links come between.
Remembered ==
  /\ al.op = "isdu" => h.is \notin {"Inactive", "Idle"} \/ h.tot # 0
  /\ al.op \in {"read", "write"} /\ al.amid = "none" => h.rw = al.op

\* A response that AL is given as good is the whole response to the request it asked,
\* which the device has processed: segments of an earlier response, resent messages and
\* events in between mix nothing into it.
ToldIsdu == al.told[2].kind = "isdu" /\ al.told[2].stat = "OK"
OwnResponse == ToldIsdu => /\ al.told[2].data = [i \in DOMAIN Empty |-> <<i, al.told[1]>>]
                           /\ \E i \in DOMAIN dev.done : dev.done[i][1] = al.told[1]

\* The device processes whole requests, each at most once and in the order AL asked, though
\* their messages are repeated and broken off.
AtMostOnce ==
  /\ \A i \in DOMAIN dev.done : \A k \in 1..ReqSegs : dev.done[i][k] = dev.done[i][1]
  /\ \A i, j \in DOMAIN dev.done : i < j => dev.done[i][1] < dev.done[j][1]

\* The events of the device are confirmed to it only after they were indicated, and each is
\* indicated once.
IsTold(e) == \E i \in DOMAIN caller.events : caller.events[i].data = [k \in 1..EvBytes |-> e]
EventsTold ==
  /\ \A e \in dev.cleared : IsTold(e)
  /\ \A i, j \in DOMAIN caller.events :
       caller.events[i].data = caller.events[j].data => i = j

\* A write of a direct parameter that is confirmed as good has reached the device, which has
\* it or a later one - where the DL thread has taken no write between rwcmd and its data
\* (iolink_dl.c:3058-3109): such a write goes out with the data of the one before and is
\* confirmed as good all the same.
WriteReached ==
  al.told[2].kind = "write" /\ al.told[2].stat = "OK" => dev.par >= al.told[1]
InTime       == al.amid = "write" => mh.state # "reply9"
WritesReach  == []InTime => []WriteReached

\* Every service AL asked for is answered, and no lost link leaves it waiting (a started
\* ISDU waits for the next session when SM sets the mode INACTIVE: iolink_dl.c:1851).
Answered == al.op # "none" ~> al.op = "none" \/ md.mode = "INACTIVE"

\* While the link is up the OD handler always comes back to the ISDU, from commands and
\* from events ("Event ended. Back to ISDU.", iolink_dl.c:2697); a device's event is
\* confirmed to it, and a device mode to SM.
OdReturns     == h.od # "Isdu" /\ md.up ~> h.od = "Isdu" \/ ~md.up
EventCleared  == dev.ev # 0 /\ md.up ~> dev.ev = 0 \/ ~md.up
ModeAnswered  == caller.sm = "wait" ~> caller.sm # "wait" \/ ~md.up
=============================================================================
