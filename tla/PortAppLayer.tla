---------------------------- MODULE PortAppLayer ----------------------------
(***************************************************************************)
(* The application layer of a port, iolink_al.c: on-request data (one       *)
(* service at a time, for three users: SM, DS and ODE) and events.          *)
(* AL_Read_req and AL_Write_req post the request; a request that finds a    *)
(* service under way is answered SERVICE_TEMP_UNAVAILABLE at once.  The     *)
(* confirmation of a read carries a pointer to the service's one buffer.    *)
(***************************************************************************)
EXTENDS PortDataLink

CONSTANT EventSlots    \* al.event.events, 6 in the code

ASSUME SlotsAssumption == EventSlots \in Nat \ {0}

VARIABLE al

Users     == {"SM", "DS", "ODE"}

(***************************************************************************)
(* od is od_state, owner and op the service's callback and request; event   *)
(* is event_state, cnt and slots the event memory.                          *)
(***************************************************************************)
AlInit == [od |-> "Idle", owner |-> "none", op |-> NoOp,
           event |-> "Idle", cnt |-> 0, slots |-> [i \in 1..EventSlots |-> "none"]]

\* AL_Read_req, AL_Write_req.
AlReq(who, op)  == [type |-> "AL_REQ", who |-> who, op |-> op]
\* The callbacks of AL's users, which post al_read_cnf or al_write_cnf.
AlCnf(who, rw, err, len) == [type |-> "AL_CNF", who |-> who, rw |-> rw, err |-> err, len |-> len]

\* A direct parameter page: index 0 or 1.
IsParam(op)     == op.what \in {"cycl", "direct"}

(***************************************************************************)
(* al_read_write_cb.  op is the request with the data its pointer leads to  *)
(* now.                                                                    *)
(***************************************************************************)
AL_ReadWrite(op) ==
  LET j == Head(jobs) IN
  IF al.od # "Idle"
  THEN \* al_od_busy
       /\ Handled(<<AlCnf(j.who, j.op.rw, "BUSY", "none")>>)
       /\ UNCHANGED <<al, dl>>
  ELSE IF IsParam(op)
  THEN /\ al' = [al EXCEPT !.od = "Param", !.owner = j.who, !.op = op]
       /\ \E refused \in MayRefuse(dl) : dl' = Param(dl, op) /\ Handled(ParamCnf(op, refused))
  ELSE /\ al' = [al EXCEPT !.od = "Isdu", !.owner = j.who, !.op = op]
       /\ dl' = Transport(dl, op) /\ Handled(TransportCnf(dl))

\* Mutant: a failed transfer is not confirmed.
AL_Confirm_Lost(awaited, err, len) ==
  IF al.od # awaited THEN Handled(<<>>) /\ UNCHANGED al
  ELSE /\ Handled(IF err = "COM_ERR" THEN <<>> ELSE <<AlCnf(al.owner, al.op.rw, err, len)>>)
       /\ al' = [al EXCEPT !.od = "Idle", !.owner = "none", !.op = NoOp]
\* Mutant: the service is over but keeps its user.
AL_Confirm_KeepsOwner(awaited, err, len) ==
  IF al.od # awaited THEN Handled(<<>>) /\ UNCHANGED al
  ELSE /\ Handled(<<AlCnf(al.owner, al.op.rw, err, len)>>)
       /\ al' = [al EXCEPT !.od = "Idle", !.op = NoOp]

\* al_od_send_al_cnf, for a confirmation of the kind the service waits for; another is
\* ignored.
AL_Confirm(awaited, err, len) ==
  IF al.od # awaited THEN Handled(<<>>) /\ UNCHANGED al
  ELSE /\ Handled(<<AlCnf(al.owner, al.op.rw, err, len)>>)
       /\ al' = [al EXCEPT !.od = "Idle", !.owner = "none", !.op = NoOp]

\* al_dl_readparam_cnf_cb, al_dl_writeparam_cnf_cb.  The first appends to the buffer
\* whatever AL is waiting for.
AL_ParamCnf ==
  /\ Due("PARAM_CNF")
  /\ AL_Confirm("Param", DueArg("PARAM_CNF").err, "full")
  /\ bufr' = IF DueArg("PARAM_CNF").rw = "write" THEN bufr
             ELSE IF al.od = "Param" /\ DueArg("PARAM_CNF").own
             THEN <<al.op.what, al.op.arg>> ELSE <<"stale", 0>>

\* al_dl_isdu_transport_cnf_cb.
AL_IsduCnf ==
  /\ Due("ISDU_CNF")
  /\ LET stat == DueArg("ISDU_CNF")
     IN AL_Confirm("Isdu", IF stat = "SHORT" THEN "NONE" ELSE stat,
                   IF stat = "NONE" THEN "full" ELSE IF stat = "SHORT" THEN "short" ELSE "none")

-----------------------------------------------------------------------------
(***************************************************************************)
(* Events.  AL_Event_ind confirms them at once and looks for DS_UPLOAD_REQ  *)
(* in every slot, those of earlier events too.                              *)
(***************************************************************************)
AL_EventInd ==
  /\ Due("EVENT")
  /\ al.cnt < EventSlots                 \* CC_ASSERT
  /\ LET e     == DueArg("EVENT")
         slots == [al.slots EXCEPT ![al.cnt + 1] = e.code]
         shown == al.event # "Handling" /\ ~e.left
     IN /\ al' = [al EXCEPT !.cnt = @ + 1, !.slots = slots,
                            !.event = IF @ = "Handling" \/ ~e.left THEN "Handling"
                                      ELSE "Reading"]
        /\ Handled(IF ~shown THEN <<>>
                   ELSE IF \E i \in DOMAIN slots : slots[i] = "UPLOAD"
                   THEN <<Job("EVENT_RSP"), Job("DS_UPLOAD")>>
                   ELSE <<Job("EVENT_RSP")>>)

\* al_event_rsp_cb.
AL_EventRsp ==
  /\ Due("EVENT_RSP")
  /\ al' = IF al.event = "Handling" THEN [al EXCEPT !.event = "Idle", !.cnt = 0] ELSE al
  /\ Handled(<<>>)

AL_Handler == /\ \/ AL_ParamCnf
                 \/ (AL_IsduCnf \/ AL_EventInd \/ AL_EventRsp) /\ UNCHANGED bufr
              /\ UNCHANGED <<dl, dev, faults>>
=============================================================================
