---------------------------- MODULE PortDataLink ----------------------------
(***************************************************************************)
(* The data link layer as the layers above it see it, with the device at    *)
(* the other end of the cable: iolink_dl.c seen through the calls that SM   *)
(* and AL make and the indications and confirmations they are given.        *)
(* IolinkDL models the same thread message by message; here a message       *)
(* exchange is one step with the outcomes that module shows it can have:    *)
(* the answer, or the loss of the communication after the retries.          *)
(*                                                                         *)
(* The message handler is up or down (mh).  SM's accesses to the direct     *)
(* parameters come in runs (0x02 to 0x06, 0x07 to 0x0D, the REV_ID, DID     *)
(* and MASTER_CMD of a restart): one access and one confirmation stand for  *)
(* a run.                                                                  *)
(***************************************************************************)
EXTENDS PortMailbox

CONSTANTS
  Devices,    \* the devices that can be plugged in
  V10,        \* those of protocol revision 1.0
  Big,        \* those whose data storage is larger than IOLINK_DS_MAX_SIZE
  Locked,     \* those whose data storage is locked
  NoSerial,   \* those without a serial number
  NEntries,   \* how many parameters a device lists for data storage
  Occurs      \* what happens in the environment

ASSUME DeviceAssumption ==
  /\ V10 \subseteq Devices /\ Big \subseteq Devices /\ Locked \subseteq Devices
  /\ NoSerial \subseteq Devices /\ "none" \notin Devices
  /\ NEntries \in Nat \ {0}
  /\ Occurs \subseteq {"WakeFail", "Loss", "Error", "Short", "Refuse", "Event", "Param",
                       "Swap"}

VARIABLES
  dl,      \* the data link: see DlInit
  dev,     \* the device on the cable
  bufr,    \* al.service.data_read, which the DL thread fills
  faults   \* how many things may still go wrong on the cable

Entries  == 1..NEntries
Values   == Devices \X (0..1)         \* a parameter's value: set by whom, changed or not
NoValue  == <<"none", 0>>
Factory(d) == [e \in Entries |-> <<d, 0>>]

\* A device: its identity, its parameters, its DS_UPLOAD_FLAG, and whether an upload or a
\* download is open, during which its parameters are not changed at the device.
Plugged(d) == [id |-> d, par |-> Factory(d), flag |-> FALSE, open |-> FALSE]

\* On-request data operations: what is read or written, which one, the value.
Op(rw, what, arg) == [rw |-> rw, what |-> what, arg |-> arg, val |-> NoValue]
NoOp == Op("none", "none", 0)

(***************************************************************************)
(* link is mode_handler.state, mode its dl_mode, mdh the MDH event ("set", or *)
(* "due" when the loop that waits for events comes to it next), lost         *)
(* mhinfo = COMLOST, acc SM's direct access, isdu the ISDU handler's request *)
(* (run: a segment was sent), par the pending READPARAM or WRITEPARAM, mcmd  *)
(* master_command, a device mode; code whether the command handler has it to *)
(* send ("due"), or was inactive when it was asked for ("jam": the OD handler *)
(* of the next session enters COMMAND_2 for it, where nothing sends it and   *)
(* nothing leaves); wurq a wake-up under way in the chip.                    *)
(***************************************************************************)
DlInit == [link |-> "Idle", mode |-> "INACTIVE", mdh |-> "no", lost |-> FALSE,
           mh |-> FALSE, wurq |-> FALSE, acc |-> "none", isdu |-> NoOp, run |-> FALSE,
           par |-> NoOp, mcmd |-> "none", code |-> "none"]

-----------------------------------------------------------------------------
(***************************************************************************)
(* What SM and AL call, in the master thread: the new dl and the jobs the   *)
(* call posts.                                                              *)
(***************************************************************************)

\* DL_SetMode_req.
SetMode(d, mode) == [d EXCEPT !.mode = mode, !.mdh = IF @ = "due" THEN @ ELSE "set"]

\* PL_SetMode_req (iolink_mode_SDCI): configures the channel anew and forgets a wake-up.
SetSDCI(d) == [d EXCEPT !.wurq = FALSE]

\* DL_Read_req and DL_Write_req: only the message handler's STARTUP_2 takes them; rwcmd
\* is the new access.
Reachable(d)    == d.link = "Startup" /\ d.mh
Access(d, what) == IF Reachable(d) THEN [d EXCEPT !.acc = what, !.par = NoOp] ELSE d
\* Mutant: an access that is under way is refused too.
AccessCnf_Always(d, what) == <<JobArg("DL_CNF", [what |-> what, ok |-> FALSE])>>

AccessCnf(d, what) ==
  IF Reachable(d) THEN <<>> ELSE <<JobArg("DL_CNF", [what |-> what, ok |-> FALSE])>>

\* DL_Write_Devicemode_req.  A fallback asked for in PREOPERATE is confirmed at once, and
\* once more when a message has carried it.
Devicemode(d, mode) ==
  IF d.link = "Startup" THEN d
  ELSE [d EXCEPT !.mcmd = mode, !.code = IF d.link \in {"Idle", "WakeUp"} THEN "jam" ELSE "due"]
DevicemodeCnf(d, mode) ==
  IF d.link = "Startup" THEN <<JobArg("DEVMODE_CNF", FALSE)>>
  ELSE IF d.link = "Preop" /\ mode = "FALLBACK" THEN <<JobArg("DEVMODE_CNF", TRUE)>>
  ELSE <<>>

\* DL_ISDUTransport_req: refused without communication, and while the ISDU handler is
\* not in IDLE_1.
Transport(d, op) ==
  IF d.link \notin {"Idle", "WakeUp", "Startup"} /\ d.isdu = NoOp
  THEN [d EXCEPT !.isdu = op, !.run = FALSE] ELSE d
TransportCnf(d) ==
  IF d.link \notin {"Idle", "WakeUp", "Startup"} /\ d.isdu = NoOp
  THEN <<>> ELSE <<JobArg("ISDU_CNF", "ERR")>>

\* DL_ReadParam_req and DL_WriteParam_req: rwcmd is set before the state of the message
\* handler is looked at, and stays when the request is refused.
Param(d, op) == [d EXCEPT !.par = op]
ParamRes(op, err, own) == JobArg("PARAM_CNF", [rw |-> op.rw, err |-> err, own |-> own])
ParamCnf(op, refused)  == IF refused THEN <<ParamRes(op, "ERR", FALSE)>> ELSE <<>>
MayRefuse(d) == IF ~d.mh \/ d.link \notin {"Preop", "Operate"} THEN {TRUE}
                ELSE IF "Refuse" \in Occurs THEN BOOLEAN ELSE {FALSE}

-----------------------------------------------------------------------------
(***************************************************************************)
(* The data link thread.                                                    *)
(***************************************************************************)
ModeInd(mode) == JobArg("MODE", mode)

\* The loop serves what the chip received before the MDH event: one more exchange may end
\* before the mode handler runs.
Serving    == dl.mdh # "due"
Served(d)  == [d EXCEPT !.mdh = IF @ = "set" THEN "due" ELSE @]

\* IH_Conf (INACTIVE): a request of which no segment was sent, or any request after a
\* loss, is confirmed with NO_COMM; another keeps its state into the next session.
Abandons(d)   == d.isdu # NoOp /\ (d.lost \/ ~d.run)
IsduDown(d)   == IF Abandons(d) THEN [d EXCEPT !.isdu = NoOp, !.run = FALSE] ELSE d
\* Mutant: the request that is given up is not confirmed.
IsduDownCnf_Silent(d) == <<>>

IsduDownCnf(d) == IF Abandons(d) THEN <<JobArg("ISDU_CNF", "ERR")>> ELSE <<>>

\* CH_Conf (INACTIVE): the command handler writes the command and forgets the control code,
\* but not the command; the OD handler, if it waits for the answer to one (COMMAND_2), goes
\* on waiting in the next session.
Shed(code) == IF code = "due" THEN {"none", "due"} ELSE {code}

\* Mutant: the mode is left without an indication.
GotoIdle_Silent(d, ind) ==
  /\ \E code \in Shed(d.code) :
       dl' = [IsduDown(d) EXCEPT !.link = "Idle", !.lost = FALSE, !.code = code,
                                 !.mh = d.mh /\ d.link = "Startup"]
  /\ Posted(IsduDownCnf(d))

GotoIdle(d, ind) ==
  /\ \E code \in Shed(d.code) :
       dl' = [IsduDown(d) EXCEPT !.link = "Idle", !.lost = FALSE, !.code = code,
                                 !.mh = d.mh /\ d.link = "Startup"]
  /\ Posted(IsduDownCnf(d) \o <<ModeInd(ind)>>)

Goto(d, link, ind) ==
  /\ dl' = [d EXCEPT !.link = link]
  /\ Posted(<<ModeInd(ind)>>)

\* From PREOPERATE the command handler is deactivated, from OPERATE it is not.
GotoStartup(d) ==
  /\ \E code \in IF d.link = "Preop" THEN Shed(d.code) ELSE {d.code} :
       dl' = [IsduDown(d) EXCEPT !.link = "Startup", !.code = code]
  /\ Posted(IsduDownCnf(d) \o <<ModeInd("STARTUP")>>)

\* iolink_dl_mode_h_sm with the MDH event: idle0, startup2, preoperate3, operate4, in the
\* order of their conditions.  In PREOPERATE_3 the mode INACTIVE is tested before the
\* loss and changes no state.
ModeStep ==
  /\ dl.mdh # "no"
  /\ LET d == [dl EXCEPT !.mdh = "no"]
         stays == dl' = d /\ UNCHANGED jobs
     IN CASE d.link = "Idle" ->
               IF d.mode = "STARTUP"
               THEN dl' = [d EXCEPT !.link = "WakeUp", !.wurq = TRUE] /\ UNCHANGED jobs
               ELSE stays
          [] d.link = "WakeUp" -> stays
          [] d.link = "Startup" ->
               IF d.mode = "PREOPERATE" THEN Goto(d, "Preop", "PREOPERATE")
               ELSE IF d.mode = "OPERATE" THEN Goto(d, "Operate", "OPERATE")
               ELSE IF d.mode = "INACTIVE" THEN GotoIdle(d, "INACTIVE")
               ELSE IF d.lost THEN GotoIdle(d, "COMLOST")
               ELSE stays
          [] d.link = "Preop" ->
               IF d.mode = "STARTUP" THEN GotoStartup(d)
               ELSE IF d.mode = "INACTIVE" THEN stays
               ELSE IF d.lost THEN GotoIdle(d, "COMLOST")
               ELSE IF d.mode = "OPERATE" THEN Goto(d, "Operate", "OPERATE")
               ELSE stays
          [] OTHER ->
               IF d.mode = "STARTUP" THEN GotoStartup(d)
               ELSE IF d.mode = "INACTIVE" THEN GotoIdle(d, "INACTIVE")
               ELSE IF d.lost THEN GotoIdle(d, "COMLOST")
               ELSE stays
  /\ UNCHANGED <<dev, bufr, faults>>

\* The chip reports the wake-up: communication, or none.
WakeUp ==
  /\ dl.link = "WakeUp" /\ dl.wurq /\ Serving
  /\ \/ /\ dl' = [Served(dl) EXCEPT !.link = "Startup", !.wurq = FALSE, !.mh = TRUE]
        /\ Posted(<<ModeInd("STARTUP")>>)
        /\ UNCHANGED faults
     \/ /\ "WakeFail" \in Occurs /\ faults > 0 /\ faults' = faults - 1
        /\ dl' = [Served(dl) EXCEPT !.link = "Idle", !.wurq = FALSE, !.mh = FALSE]
        /\ Posted(<<ModeInd("INACTIVE")>>)
  /\ UNCHANGED <<dev, bufr>>

\* SM's access is answered.
AccessDone ==
  /\ dl.acc # "none" /\ Serving
  /\ dl' = [Served(dl) EXCEPT !.acc = "none"]
  /\ Posted(<<JobArg("DL_CNF", [what |-> dl.acc, ok |-> TRUE])>>)
  /\ UNCHANGED <<dev, bufr, faults>>

Linked  == dl.mh /\ dl.link \in {"Preop", "Operate"}
\* The OD handler runs the handlers of events and of the ISDU.
Talking == Serving /\ Linked /\ dl.code # "jam"

\* The mode INACTIVE in PREOPERATE_3: MH_Conf (OPERATE) has the message handler call a
\* device that is told to fall back.
FellBack == dl.link = "Preop" /\ dl.mode = "INACTIVE" /\ dl.mdh = "no"

\* A segment of the request is sent.
IsduStart ==
  /\ Talking /\ dl.isdu # NoOp /\ ~dl.run
  /\ dl' = [Served(dl) EXCEPT !.run = TRUE]
  /\ UNCHANGED <<jobs, dev, bufr, faults>>

\* What the device answers to a read, and what a write does to it.
Answer(op) ==
  CASE op.what = "size"   -> <<"size", dev.id \in Big>>
    [] op.what = "state"  -> <<"state", <<dev.flag, dev.id \in Locked>>>>
    [] op.what = "cs"     -> <<"cs", dev.par>>
    [] op.what = "list"   -> <<"list", NEntries>>
    [] op.what = "par"    -> <<"par", dev.par[op.arg]>>
    [] op.what = "serial" -> <<"serial", dev.id>>
    [] OTHER              -> <<op.what, op.arg>>

Effect(op) ==
  IF op.rw # "write" THEN dev
  ELSE IF op.what = "par" THEN [dev EXCEPT !.par[op.arg] = op.val]
  ELSE IF op.what # "cmd" THEN dev
  ELSE [dev EXCEPT !.flag = @ /\ op.arg \notin {"UL_END", "DL_END"},
                   !.open = op.arg \in {"UL_START", "DL_START"}]

\* Mutant: the answer is not copied to the buffer of AL's service.
IsduDone_NoCopy ==
  /\ Talking /\ dl.isdu # NoOp /\ dl.run
  /\ dl' = [Served(dl) EXCEPT !.isdu = NoOp, !.run = FALSE]
  /\ dev' = Effect(dl.isdu)
  /\ Posted(<<JobArg("ISDU_CNF", "NONE")>>)
  /\ UNCHANGED <<bufr, faults>>

\* The device answers the ISDU: what was asked, or that it has no such parameter.
IsduDone ==
  /\ Talking /\ dl.isdu # NoOp /\ dl.run
  /\ dl' = [Served(dl) EXCEPT !.isdu = NoOp, !.run = FALSE]
  /\ dev' = Effect(dl.isdu)
  /\ LET none == dl.isdu.what = "serial" /\ dev.id \in NoSerial
     IN /\ bufr' = IF none THEN <<"negative">>
                   ELSE IF dl.isdu.rw = "read" THEN Answer(dl.isdu) ELSE bufr
        /\ Posted(<<JobArg("ISDU_CNF", IF none THEN "NOTAVAIL" ELSE "NONE")>>)
  /\ UNCHANGED faults

\* The request fails: a negative answer, a timeout, no service, a malformed answer; or
\* the answer is shorter than what was asked for.
IsduFails ==
  /\ Talking /\ dl.isdu # NoOp /\ dl.run
  /\ faults > 0 /\ faults' = faults - 1
  /\ dl' = [Served(dl) EXCEPT !.isdu = NoOp, !.run = FALSE]
  /\ \/ "Error" \in Occurs /\ Posted(<<JobArg("ISDU_CNF", "ERR")>>)
        /\ bufr' \in {bufr, <<"negative">>}
     \/ "Error" \in Occurs /\ Posted(<<JobArg("ISDU_CNF", "COM_ERR")>>) /\ UNCHANGED bufr
     \/ "Short" \in Occurs /\ dl.isdu.what \in {"size", "state", "cs"} /\ Posted(<<JobArg("ISDU_CNF", "SHORT")>>)
        /\ bufr' = <<"short">>
  /\ UNCHANGED dev

\* A pending direct parameter or device mode is exchanged.  In OPERATE a READPARAM is
\* accepted while another message is under way, whose answer confirms it with that
\* answer's first byte unless the OD handler is busy with a command or an event (own:
\* the byte is the one that was asked for; a jammed OD handler asks for none).
ParamDone ==
  /\ Serving /\ Linked /\ dl.par # NoOp
  /\ dl' = [Served(dl) EXCEPT !.par = NoOp]
  /\ \E own \in IF dl.code = "jam" THEN {FALSE}
                 ELSE IF dl.link = "Operate" /\ dl.par.rw = "read" THEN BOOLEAN ELSE {TRUE} :
       Posted(<<ParamRes(dl.par, "NONE", own)>>)
  /\ UNCHANGED <<dev, bufr, faults>>

\* A message carries the command.  In PREOPERATE only the command OPERATE makes one.
Carried == \/ dl.link = "Operate" \/ dl.mcmd = "OPERATE"
           \/ dl.isdu # NoOp \/ dl.par # NoOp \/ FellBack

ModeDone ==
  /\ Talking /\ dl.code = "due" /\ Carried
  /\ dl' = [Served(dl) EXCEPT !.mcmd = "none", !.code = "none"]
  /\ Posted(<<JobArg("DEVMODE_CNF", TRUE)>>)
  /\ UNCHANGED <<dev, bufr, faults>>

\* iolink_dl_mh_handle_com_lost, or ERRORHANDLING_5, after the last retry.  SM's access
\* and, by ERRORHANDLING_10, the direct parameter and the device mode are confirmed with
\* NO_COMM; in OPERATE a pending READPARAM is dropped with rwcmd, a WRITEPARAM is
\* exchanged by AW_REPLY_9 and confirmed, and the device mode stays.
LoseCnf(by10) ==
  IF dl.link = "Startup" THEN <<JobArg("DL_CNF", [what |-> dl.acc, ok |-> FALSE])>>
  ELSE (IF by10 /\ dl.mcmd # "none" THEN <<JobArg("DEVMODE_CNF", FALSE)>> ELSE <<>>)
    \o (IF dl.par # NoOp /\ (by10 \/ dl.par.rw = "write")
        THEN <<ParamRes(dl.par, "ERR", FALSE)>> ELSE <<>>)

Exchanging == \/ dl.link = "Startup" /\ dl.acc # "none"
              \/ dl.link = "Preop" /\ (dl.isdu # NoOp \/ dl.par # NoOp \/ dl.mcmd = "OPERATE")
              \/ dl.link = "Operate"

\* In which states the message handler may be when the retries are over: a message of
\* PREOPERATE may still be under way when the device is told to fall back.
By10 == IF dl.link # "Preop" THEN {FALSE} ELSE IF FellBack THEN BOOLEAN ELSE {TRUE}

Lose ==
  /\ \/ FellBack /\ UNCHANGED faults
     \/ "Loss" \in Occurs /\ faults > 0 /\ faults' = faults - 1 /\ Exchanging
  /\ dl.mh /\ Serving
  /\ \E by10 \in By10 :
       /\ dl' = [dl EXCEPT !.mh = FALSE, !.lost = TRUE, !.mdh = "due", !.acc = "none", !.par = NoOp,
                           !.mcmd = IF by10 THEN "none" ELSE @,
                           !.code = IF by10 /\ @ = "due" THEN "none" ELSE @]
       /\ Posted(LoseCnf(by10))
  /\ dev' = [dev EXCEPT !.open = FALSE]
  /\ UNCHANGED bufr

\* The device has events to tell: its event memory is read and each event indicated.
\* "UPLOAD" is DS_UPLOAD_REQ, sent when its parameters were changed at the device.
Events(codes) == [i \in DOMAIN codes |->
                    JobArg("EVENT", [code |-> codes[i], left |-> i < Len(codes)])]

DeviceEvent ==
  /\ Talking /\ faults > 0 /\ faults' = faults - 1
  /\ \/ "Event" \in Occurs /\ Posted(Events(<<"other">>)) /\ UNCHANGED dev
     \/ /\ "Param" \in Occurs /\ ~dev.open /\ dev' = [dev EXCEPT !.par[1] = <<dev.id, 1>>, !.flag = TRUE]
        /\ \/ Posted(Events(<<"UPLOAD">>))
           \/ "Event" \in Occurs /\ Posted(Events(<<"other", "UPLOAD">>))
  /\ dl' = Served(dl)
  /\ UNCHANGED bufr

\* Another device, or a new one of the same type, is plugged in while there is no
\* communication.
Swap ==
  /\ "Swap" \in Occurs /\ faults > 0 /\ faults' = faults - 1
  /\ dl.link = "Idle"
  /\ \E d \in Devices : dev' = Plugged(d)
  /\ UNCHANGED <<jobs, dl, bufr>>

LinkProgress == \/ ModeStep \/ WakeUp \/ AccessDone \/ IsduStart \/ IsduDone \/ ParamDone \/ ModeDone
LinkTrouble  == \/ IsduFails \/ Lose \/ DeviceEvent \/ Swap
=============================================================================
