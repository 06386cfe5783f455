---------------------------- MODULE PortOnRequest ----------------------------
(***************************************************************************)
(* The on-request data exchange (iolink_ode.c) and process data exchange    *)
(* (iolink_pde.c) of a port, and what the application sees of them: its     *)
(* SMI request and the confirmation, which the master thread gives by       *)
(* calling the application's callback.                                      *)
(***************************************************************************)
EXTENDS PortDataStorage

VARIABLES
  ode,     \* state, and the request of ode->smi_req: op, result
  pde,     \* whether the process data exchange is active
  app      \* the application: the request it waits for, the one before it, and its budgets

\* The application's operations: on an object or on a direct parameter.
AppOps == [rw : {"read", "write"}, what : {"obj", "direct"}, arg : Nat, val : {NoValue}]

OdeInit == [state |-> "Inactive", op |-> NoOp, result |-> "NONE"]

\* open is the request the application waits for; wait a configuration it waits for; told
\* the latest answer: to what, with which data; cfgs and reqs what it may still ask.
AppInit(cfgs, reqs) == [open |-> NoOp, wait |-> FALSE, told |-> <<NoOp, <<"nothing">>>>,
                        cfgs |-> cfgs, reqs |-> reqs]

NoData == <<"nothing">>

\* iolink_smi_cnf, iolink_smi_voidblock_cnf and iolink_smi_joberror_ind of a request.
Answered(a, data) == [a EXCEPT !.told = <<a.open, data>>, !.open = NoOp]

-----------------------------------------------------------------------------
\* SMI_rw_req_cb: asks AL when active, and refuses otherwise.
ODE_Request ==
  /\ Due("SMI_RW")
  /\ LET op == DueArg("SMI_RW") IN
     IF ode.state = "Active"
     THEN /\ ode' = [state |-> "Blocked", op |-> op, result |-> "NONE"]
          /\ Handled(<<AlReq("ODE", op)>>)
          /\ UNCHANGED app
     ELSE /\ app' = Answered(app, NoData)
          /\ Handled(<<>>)
          /\ UNCHANGED ode

\* ode_read_cnf_cb and ode_write_cnf_cb: they write the result of the request at hand
\* before they look whether one waits, a good read the data too (told here, when it is
\* confirmed); ode_smi_done confirms.
ODE_ALCnf ==
  /\ Due("AL_CNF") /\ Head(jobs).who = "ODE"
  /\ LET c      == Head(jobs)
         result == IF c.rw = "write" /\ c.err = "NONE" THEN ode.result ELSE c.err
         data   == IF result = "NONE" /\ ode.op.rw = "read"
                   THEN IF c.rw = "read" THEN bufr ELSE NoData
                   ELSE NoData
     IN /\ ode' = [ode EXCEPT !.result = result, !.state = IF @ = "Blocked" THEN "Active" ELSE @]
        /\ app' = IF ode.state = "Blocked" THEN Answered(app, data) ELSE app
  /\ Handled(<<>>)

\* od_start_cb, od_stop_cb.
ODE_Start == /\ Due("OD_START") /\ Handled(<<>>)
             /\ ode' = [ode EXCEPT !.state = IF @ = "Inactive" THEN "Active" ELSE @]
             /\ UNCHANGED app
ODE_Stop  == /\ Due("OD_STOP") /\ Handled(<<>>)
             /\ ode' = [ode EXCEPT !.state = "Inactive"]
             /\ UNCHANGED app

ODE_Handler == /\ ODE_Request \/ ODE_ALCnf \/ ODE_Start \/ ODE_Stop
               /\ UNCHANGED <<dl, dev, bufr, faults, al, sm, ds, info, pde>>
=============================================================================
