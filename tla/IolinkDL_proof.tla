---------------------------- MODULE IolinkDL_proof ----------------------------
(***************************************************************************)
(* Proofs about IolinkDL.  First, for every choice of what may occur, the    *)
(* types and the confirmations of a device mode; then one session, the life *)
(* of a port from the first configuration to the loss of its link, as long  *)
(* as the application does not reset the data link ("Retry").               *)
(***************************************************************************)
EXTENDS IolinkDL, FiniteSetTheorems, SequenceTheorems, TLAPS

\* The part of the type invariant that a run of the message handler can disturb.
TypeMH ==
  /\ mhInfo \in {"NONE", "COMLOST"} /\ mhState \in MhStates
  /\ rwcmd \in RwCmds /\ retry \in Nat /\ busy \in BOOLEAN
  /\ mcmd \in {"NONE", "OPERATE"} /\ eventFlag \in BOOLEAN
  /\ timerOn \in BOOLEAN /\ timerType \in {"NONE", "TINITCYC_MH"}
  /\ cyc \in BOOLEAN /\ line \in {"idle", "sent"}
  /\ events \subseteq Events /\ jobs \in Seq(Jobs)

\* The part that the thread of SM can disturb when it takes a job.
TypeSM ==
  /\ sm \in Phases /\ req \in {"none", "dp", "devmode"}
  /\ dlMode \in DlModes /\ events \subseteq Events
  /\ app \in {"INACTIVE", "STARTING", "RUNNING", "WAIT_TSD", "RETRY"}
  /\ jobs \in Seq(Jobs) /\ rwcmd \in RwCmds
  /\ dlAddr \in {"DUMMY_WURQ", "PARAM"}

\* Whatever the message handler runs for, its variables keep their types.
LEMMA MessageHandlerType ==
  ASSUME TypeOK, NEW c, MessageHandler(c)
  PROVE  TypeMH'
<1>j. \A q \in Seq(Jobs) :
         /\ Append(q, "CNF_OK") \in Seq(Jobs) /\ Append(q, "CNF_NO_COMM") \in Seq(Jobs)
         /\ Append(q, "DEVMODE_OK") \in Seq(Jobs)
         /\ Append(q, "DEVMODE_ERROR") \in Seq(Jobs)
  BY DEF Jobs
<1>s. /\ "INACTIVE_0" \in MhStates /\ "STARTUP_2" \in MhStates
      /\ "RESPONSE_3" \in MhStates /\ "AW_REPLY_4" \in MhStates
      /\ "ERRORHANDLING_5" \in MhStates /\ "PREOPERATE_6" \in MhStates
      /\ "GETOD_7" \in MhStates /\ "RESPONSE_8" \in MhStates
      /\ "AW_REPLY_9" \in MhStates /\ "ERRORHANDLING_10" \in MhStates
      /\ "OPERATE_12" \in MhStates /\ "RESPONSE_15" \in MhStates
      /\ "AW_REPLY_16" \in MhStates /\ "NONE" \in RwCmds
  BY DEF MhStates, RwCmds
<1>e. /\ events \cup {"MDH"} \subseteq Events
      /\ events \ {"RXERR"} \subseteq Events
  BY DEF TypeOK, Events
<1>t. TypeMH
  BY DEF TypeOK, TypeMH
<1> USE <1>j, <1>s, <1>e, <1>t DEF TypeMH, mhVars, odVars, timerVars
<1>1. CASE MH_Inactive(c)
  BY <1>1 DEF MH_Inactive
<1>2. CASE MH_Startup(c)
  <2>1. /\ timerOn' \in BOOLEAN /\ busy' \in BOOLEAN /\ cyc' \in BOOLEAN
        /\ eventFlag' \in BOOLEAN
    BY <1>2 DEF MH_Startup, StartTimer, Send
  <2>2. QED
    BY <1>2, <2>1 DEF MH_Startup, StartTimer, Send
<1>3. CASE MH_AwaitReply4(c)
  BY <1>3 DEF MH_AwaitReply4, Confirm, StartTimer, Post
<1>4. CASE MH_ErrorHandling5(c)
  BY <1>4 DEF MH_ErrorHandling5, Confirm, SignalComlost, Send, Post
<1>5. CASE MH_Preoperate(c)
  <2>1. /\ timerOn' \in BOOLEAN /\ busy' \in BOOLEAN /\ cyc' \in BOOLEAN
        /\ eventFlag' \in BOOLEAN
    BY <1>5 DEF MH_Preoperate, SignalComlost, Send, StartTimer
  <2>2. QED
    BY <1>5, <2>1 DEF MH_Preoperate, SignalComlost, Send, StartTimer
<1>6. CASE MH_GetOd7(c)
  BY <1>6 DEF MH_GetOd7, OdMaster, Send
<1>7. CASE MH_AwaitReply9(c)
  <2>1. eventFlag' \in BOOLEAN /\ rwcmd' \in RwCmds /\ busy' \in BOOLEAN
          /\ mcmd' \in {"NONE", "OPERATE"} /\ jobs' \in Seq(Jobs)
    BY <1>7 DEF MH_AwaitReply9, OdDevice, EventFlagInd, Post
  <2>2. QED
    BY <1>7, <2>1 DEF MH_AwaitReply9, StartTimer, ReadErrors
<1>8. CASE MH_ErrorHandling10(c)
  <2>1. /\ timerOn' \in BOOLEAN /\ busy' \in BOOLEAN /\ cyc' \in BOOLEAN
        /\ eventFlag' \in BOOLEAN
    BY <1>8 DEF MH_ErrorHandling10, handle_com_lost, SignalComlost, PostIf, Send
  <2>2. mhState' \in MhStates /\ rwcmd' \in RwCmds /\ retry' \in Nat
    BY <1>8 DEF MH_ErrorHandling10, handle_com_lost, Send
  <2>3. /\ mhInfo' \in {"NONE", "COMLOST"} /\ mcmd' \in {"NONE", "OPERATE"}
        /\ line' \in {"idle", "sent"} /\ timerType' \in {"NONE", "TINITCYC_MH"}
    BY <1>8 DEF MH_ErrorHandling10, handle_com_lost, SignalComlost, Send
  <2>4. events' \subseteq Events /\ jobs' \in Seq(Jobs)
    BY <1>8 DEF MH_ErrorHandling10, handle_com_lost, SignalComlost, PostIf, Send
  <2>5. QED
    BY <2>1, <2>2, <2>3, <2>4
<1>9. CASE MH_Operate(c)
  <2>1. /\ timerOn' \in BOOLEAN /\ busy' \in BOOLEAN /\ cyc' \in BOOLEAN
        /\ eventFlag' \in BOOLEAN
    BY <1>9 DEF MH_Operate, MH_Leave, SignalComlost, OdMaster, Send, StartTimer
  <2>2. QED
    BY <1>9, <2>1 DEF MH_Operate, MH_Leave, SignalComlost, OdMaster, Send, StartTimer
<1>10. CASE MH_AwaitReply16(c)
  <2>1. eventFlag' \in BOOLEAN /\ rwcmd' \in RwCmds /\ busy' \in BOOLEAN
          /\ mcmd' \in {"NONE", "OPERATE"} /\ jobs' \in Seq(Jobs)
    BY <1>10 DEF MH_AwaitReply16, MH_Leave, OdDevice, OdMaster, EventFlagInd, Post,
                 handle_com_lost
  <2>2. timerOn' \in BOOLEAN /\ cyc' \in BOOLEAN
    BY <1>10 DEF MH_AwaitReply16, MH_Leave, StartTimer, handle_com_lost
  <2>3. timerType' \in {"NONE", "TINITCYC_MH"} /\ retry' \in Nat
    BY <1>10 DEF MH_AwaitReply16, MH_Leave, StartTimer, handle_com_lost
  <2>4. /\ mhInfo' \in {"NONE", "COMLOST"} /\ mhState' \in MhStates
        /\ line' \in {"idle", "sent"} /\ events' \subseteq Events
    BY <1>10 DEF MH_AwaitReply16, MH_Leave, handle_com_lost, SignalComlost, Send, ReadErrors
  <2>5. QED
    BY <2>1, <2>2, <2>3, <2>4
<1>11. QED
  BY <1>1, <1>2, <1>3, <1>4, <1>5, <1>6, <1>7, <1>8, <1>9, <1>10 DEF MessageHandler

\* The mode handler keeps the types.
LEMMA ModeHandlerType ==
  ASSUME TypeOK, ModeHandler
  PROVE  /\ pc' \in {"loop", "conf", "finish", "timer"} /\ cont' \in Conts
         /\ mdState' \in MdStates /\ mhcmd' \in DlModes /\ busy' \in BOOLEAN
         /\ wurq' \in BOOLEAN /\ cyc' \in BOOLEAN /\ line' \in {"idle", "sent"}
<1> USE DEF TypeOK, Conts, MdStates, DlModes, Configure, IH_Conf_INACTIVE
<1>1. CASE MD_Idle          BY <1>1 DEF MD_Idle
<1>2. CASE MD_EstablishCom  BY <1>2 DEF MD_EstablishCom
<1>3. CASE MD_Startup       BY <1>3 DEF MD_Startup
<1>4. CASE MD_Preoperate    BY <1>4 DEF MD_Preoperate
<1>5. CASE MD_Operate       BY <1>5 DEF MD_Operate
<1>6. QED
  BY <1>1, <1>2, <1>3, <1>4, <1>5, ModeHandler DEF ModeHandler

\* Every action keeps every variable in its domain.
THEOREM TypeCorrect == Spec => []TypeOK
<1>1. Init => TypeOK
  <2> SUFFICES ASSUME Init PROVE TypeOK
    OBVIOUS
  <2>1. /\ events \subseteq Events /\ todo \subseteq Events /\ jobs \in Seq(Jobs)
        /\ retry \in Nat
    BY DEF Init
  <2>2. /\ mdState \in MdStates /\ dlMode \in DlModes /\ mhState \in MhStates
        /\ mhcmd \in DlModes /\ rwcmd \in RwCmds /\ cont \in Conts /\ sm \in Phases
    BY DEF Init, MdStates, DlModes, MhStates, RwCmds, Conts, Phases
  <2>3. QED
    BY <2>1, <2>2 DEF Init, TypeOK
<1>2. TypeOK /\ [Next]_vars => TypeOK'
  <2> SUFFICES ASSUME TypeOK, [Next]_vars
               PROVE  TypeOK'
    OBVIOUS
  <2>h. Head_ # "none" => jobs # <<>> /\ Tail(jobs) \in Seq(Jobs)
    BY DEF Head_, TypeOK
  <2>j. \A q \in Seq(Jobs), job \in Jobs : Append(q, job) \in Seq(Jobs)
    OBVIOUS
  <2>k. /\ "STARTUP" \in Jobs /\ "PREOPERATE" \in Jobs /\ "OPERATE" \in Jobs
        /\ "COMLOST" \in Jobs /\ "INACTIVE" \in Jobs /\ "CNF_WURQ" \in Jobs
        /\ "CNF_OK" \in Jobs /\ "CNF_CONFLICT" \in Jobs
        /\ "DEVMODE_ERROR" \in Jobs /\ "SetPortConfig" \in Jobs
    BY DEF Jobs
  <2> USE DEF TypeOK, modeVars, odVars, timerVars, chipVars, smVars
  <2>1. CASE Wait
    BY <2>1 DEF Wait
  <2>2. CASE RxReady
    <3>1. TypeMH'
      BY <2>2, MessageHandlerType DEF RxReady
    <3>2. QED
      BY <2>2, <3>1 DEF RxReady, Turn, TypeMH
  <2>3. CASE HandleError
    <3>1. TypeMH'
      BY <2>3, MessageHandlerType DEF HandleError
    <3>2. QED
      BY <2>3, <3>1 DEF HandleError, Turn, TypeMH
  <2>4. CASE WurqRecv
    <3>1. jobs' \in Seq(Jobs)
      BY <2>4, <2>j, <2>k DEF WurqRecv, Post
    <3>2. /\ mdState' \in MdStates /\ mhState' \in MhStates
          /\ events' \subseteq Events /\ mhInfo' \in {"NONE", "COMLOST"}
      BY <2>4 DEF WurqRecv, MdStates, MhStates, Events
    <3>3. QED
      BY <2>4, <3>1, <3>2 DEF WurqRecv, Turn
  <2>5. CASE HandleMDH
    BY <2>5, ModeHandlerType DEF HandleMDH, Turn
  <2>6. CASE HandleMH
    <3>1. TypeMH'
      BY <2>6, MessageHandlerType DEF HandleMH
    <3>2. QED
      BY <2>6, <3>1 DEF HandleMH, Turn, TypeMH
  <2>7. CASE HandleTimeout
    <3>1. TypeMH' /\ pc' \in {"loop", "conf", "finish", "timer"}
      BY <2>7, MessageHandlerType DEF HandleTimeout, TypeMH, mhVars
    <3>2. QED
      BY <2>7, <3>1 DEF HandleTimeout, Turn, TypeMH
  <2>8. CASE TimerDone
    BY <2>8 DEF TimerDone
  <2>9. CASE MhConf
    <3>1. TypeMH'
      BY <2>9, MessageHandlerType DEF MhConf
    <3>2. QED
      BY <2>9, <3>1 DEF MhConf, TypeMH
  <2>10. CASE Finish
    <3>1. /\ jobs' \in Seq(Jobs) /\ mdState' \in MdStates /\ cont' \in Conts
          /\ mhInfo' \in {"NONE", "COMLOST"}
      BY <2>10, <2>j, <2>k DEF Finish, goto_idle, Post, MdStates, Conts
    <3>2. QED
      BY <2>10, <3>1 DEF Finish
  <2>11. CASE Environment
    <3>1. events' \subseteq Events /\ line' \in {"idle", "sent"}
      BY <2>11 DEF Environment, Answer, Lose, Cycle, WakeUpDone, TimerFires, Events
    <3>2. wurq' \in BOOLEAN /\ timerOn' \in BOOLEAN
      BY <2>11 DEF Environment, Answer, Lose, Cycle, WakeUpDone, TimerFires
    <3>3. QED
      BY ZenonT(40), <2>11, <3>1, <3>2
      DEF Environment, Answer, Lose, Cycle, WakeUpDone, TimerFires, dlVars
  <2>12. CASE App_Configure
    BY <2>12, <2>j, <2>k DEF App_Configure, Post
  <2>13. CASE App_Start
    BY <2>13 DEF App_Start
  <2>14. CASE App_Tsd
    BY <2>14 DEF App_Tsd
  <2>15. CASE App_Retry
    <3>1. jobs' \in Seq(Jobs)
      BY <2>15, <2>j, <2>k DEF App_Retry, Post
    <3>2. QED
      BY <2>15, <3>1 DEF App_Retry, SetMode, MdStates, DlModes, MhStates, RwCmds
  <2> USE DEF smUnchanged, deliverUnchanged, Handled
  <2>16. CASE SM_WriteDevmode
    <3>1. jobs' \in Seq(Jobs) /\ events' \subseteq Events
            /\ mcmd' \in {"NONE", "OPERATE"}
      BY <2>16, <2>j, <2>k DEF SM_WriteDevmode, Post, Events
    <3>2. QED
      BY <2>16, <3>1 DEF SM_WriteDevmode
  <2>17. CASE AL_ReadWriteParam
    <3>1. rwcmd' \in RwCmds /\ events' \subseteq Events
      BY <2>17 DEF AL_ReadWriteParam, RwCmds, Events
    <3>2. QED
      BY <2>17, <3>1 DEF AL_ReadWriteParam
  <2>18. CASE AL_ISDUTransport
    <3>1. rwcmd' \in RwCmds /\ events' \subseteq Events
      BY <2>18 DEF AL_ISDUTransport, RwCmds, Events
    <3>2. QED
      BY <2>18, <3>1 DEF AL_ISDUTransport
  <2>19. CASE SM_SetPortConfig
    <3>1. /\ jobs' \in Seq(Jobs) /\ events' \subseteq Events
          /\ dlMode' \in DlModes /\ sm' \in Phases
      BY <2>19, <2>h DEF SM_SetPortConfig, SetMode, WakeMDH, DlModes, Phases, Events
    <3>2. /\ dlAddr' \in {"DUMMY_WURQ", "PARAM"} /\ cyc' \in BOOLEAN
          /\ wurq' \in BOOLEAN /\ line' \in {"idle", "sent"}
      BY <2>19 DEF SM_SetPortConfig
    <3>3. QED
      BY <2>19, <3>1, <3>2 DEF SM_SetPortConfig
  <2> USE DEF TypeSM
  <2>c. Comlost /\ jobs # <<>> => TypeSM'
    BY DEF Comlost, Lost, SetMode, WakeMDH, Phases, DlModes, Events
  <2>20. CASE SM_ModeStartup
    <3>1. TypeSM'
      BY ZenonT(40), <2>20, <2>h, <2>j, <2>k, <2>c
      DEF SM_ModeStartup, ReadWrite, Ignore, Phases, Events, RwCmds
    <3>2. QED
      BY <2>20, <3>1 DEF SM_ModeStartup
  <2>21. CASE SM_ModeUp
    <3>1. TypeSM'
      BY <2>21, <2>h, <2>c DEF SM_ModeUp, Ignore, Phases
    <3>2. QED
      BY <2>21, <3>1 DEF SM_ModeUp
  <2>22. CASE SM_ModeDown
    <3>1. TypeSM'
      BY <2>22, <2>h, <2>c DEF SM_ModeDown, Ignore, Lost
    <3>2. QED
      BY <2>22, <3>1 DEF SM_ModeDown
  <2>23. CASE SM_ReadWriteCnf
    <3>1. ASSUME NEW p \in Phases, NEW mode \in DlModes, Enter(p, mode), jobs # <<>>
          PROVE  TypeSM'
      BY <3>1, <2>h DEF Enter, SetMode, WakeMDH, Events
    <3>2. jobs # <<>> /\ Tail(jobs) \in Seq(Jobs)
      BY <2>23, <2>h DEF SM_ReadWriteCnf
    <3>3. ASSUME ReadWrite(Tail(jobs))
          PROVE  /\ jobs' \in Seq(Jobs) /\ rwcmd' \in RwCmds
                 /\ events' \subseteq Events /\ dlAddr' = "PARAM"
      <4>1. jobs' \in Seq(Jobs)
        BY <3>3, <3>2, <2>j, <2>k DEF ReadWrite
      <4>2. QED
        BY <3>3, <4>1 DEF ReadWrite, RwCmds, Events
    <3>4. /\ "waitPreoperate" \in Phases /\ "waitOperate" \in Phases
          /\ "PREOPERATE" \in DlModes /\ "OPERATE" \in DlModes
      BY DEF Phases, DlModes
    <3>5. TypeSM'
      <4>1. CASE ReadWrite(Tail(jobs)) /\ UNCHANGED <<sm, req, app, dlMode>>
        BY <4>1, <3>3, <3>2
      <4>2. CASE Enter("waitPreoperate", "PREOPERATE")
        BY <4>2, <3>1, <3>2, <3>4
      <4>3. CASE Enter("waitOperate", "OPERATE")
        BY <4>3, <3>1, <3>2, <3>4
      <4>4. CASE Comlost
        BY <4>4, <2>c, <3>2
      <4>5. CASE Ignore
        BY <4>5, <2>h, <3>2 DEF Ignore
      <4>6. QED
        BY <2>23, <4>1, <4>2, <4>3, <4>4, <4>5 DEF SM_ReadWriteCnf
    <3>6. QED
      BY <2>23, <3>5 DEF SM_ReadWriteCnf
  <2>24. CASE SM_DevmodeCnf
    <3>1. TypeSM'
      BY <2>24, <2>h, <2>c
      DEF SM_DevmodeCnf, Enter, SetMode, WakeMDH, Ignore, Phases, DlModes, Events
    <3>2. QED
      BY <2>24, <3>1 DEF SM_DevmodeCnf
  <2>25. CASE UNCHANGED vars
    BY <2>25 DEF vars
  <2>26. QED
    BY <2>1, <2>2, <2>3, <2>4, <2>5, <2>6, <2>7, <2>8, <2>9, <2>10, <2>11, <2>12,
       <2>13, <2>14, <2>15, <2>16, <2>17, <2>18, <2>19, <2>20, <2>21, <2>22, <2>23,
       <2>24, <2>25
    DEF Next, DlThread, SmThread, Application
<1>3. QED
  BY <1>1, <1>2, PTL DEF Spec

-----------------------------------------------------------------------------
(* The job queue and the confirmations of DL_Write_Devicemode_req in it.     *)

\* A job of another kind joins the queue.
LEMMA AppendOther ==
  ASSUME NEW q \in Seq(Jobs), NEW job \in Jobs, job \notin DevmodeConfs
  PROVE  Positions(Append(q, job), DevmodeConfs) = Positions(q, DevmodeConfs)
BY DEF Positions

\* A confirmation joins the queue.
LEMMA AppendConf ==
  ASSUME NEW q \in Seq(Jobs), NEW job \in DevmodeConfs, job \in Jobs,
         Positions(q, DevmodeConfs) = {}
  PROVE  /\ Positions(Append(q, job), DevmodeConfs) # {}
         /\ \A i, j \in Positions(Append(q, job), DevmodeConfs) : i = j
<1>1. \A i \in 1..Len(q) : q[i] \notin DevmodeConfs
  BY DEF Positions
<1>2. Positions(Append(q, job), DevmodeConfs) = {Len(q) + 1}
  BY <1>1 DEF Positions
<1>3. QED
  BY <1>2

\* The oldest job leaves the queue.
LEMMA TailPositions ==
  ASSUME NEW q \in Seq(Jobs), q # <<>>
  PROVE  \A i \in Positions(Tail(q), DevmodeConfs) :
           i \in Nat /\ i + 1 \in Positions(q, DevmodeConfs)
BY DEF Positions

\* A confirmation that is the oldest job is at the first position.
LEMMA HeadPosition ==
  ASSUME NEW q \in Seq(Jobs), q # <<>>, Head(q) \in DevmodeConfs
  PROVE  1 \in Positions(q, DevmodeConfs)
BY DEF Positions

\* ConfOnce survives each way in which m, q and r change.
LEMMA ConfOnceAppend ==
  ASSUME NEW m, NEW r, NEW q \in Seq(Jobs), NEW job \in Jobs, ConfOnce(m, q, r),
         job \notin DevmodeConfs
  PROVE  ConfOnce(m, Append(q, job), r)
BY AppendOther DEF ConfOnce

\* A device mode that is confirmed.
LEMMA ConfOnceConfirm ==
  ASSUME NEW m, NEW r, NEW q \in Seq(Jobs), NEW job \in DevmodeConfs, job \in Jobs,
         ConfOnce(m, q, r), m # "NONE"
  PROVE  ConfOnce("NONE", Append(q, job), r)
BY AppendConf DEF ConfOnce

\* A device mode that is refused.
LEMMA ConfOnceRefuse ==
  ASSUME NEW m, NEW r, NEW q \in Seq(Jobs), NEW job \in DevmodeConfs, job \in Jobs,
         ConfOnce(m, q, r), r # "devmode"
  PROVE  ConfOnce(m, Append(q, job), "devmode")
BY AppendConf DEF ConfOnce

\* The oldest job is taken.
LEMMA ConfOnceTail ==
  ASSUME NEW m, NEW r, NEW q \in Seq(Jobs), q # <<>>, ConfOnce(m, q, r)
  PROVE  ConfOnce(m, Tail(q), r)
BY TailPositions DEF ConfOnce

\* The confirmation is taken: no other is behind it.
LEMMA ConfOnceTaken ==
  ASSUME NEW m, NEW r, NEW s, NEW q \in Seq(Jobs), q # <<>>, ConfOnce(m, q, r),
         Head(q) \in DevmodeConfs
  PROVE  ConfOnce(m, Tail(q), s)
<1>1. Positions(Tail(q), DevmodeConfs) = {}
  <2> SUFFICES ASSUME NEW i \in Positions(Tail(q), DevmodeConfs) PROVE FALSE
    OBVIOUS
  <2>1. i \in Nat /\ i + 1 \in Positions(q, DevmodeConfs)
    BY TailPositions
  <2>2. i + 1 = 1
    BY <2>1, HeadPosition DEF ConfOnce
  <2>3. i \in 1..Len(Tail(q))
    BY DEF Positions
  <2>4. QED
    BY <2>1, <2>2, <2>3
<1>2. m = "NONE"
  BY HeadPosition DEF ConfOnce
<1>3. QED
  BY <1>1, <1>2 DEF ConfOnce

\* Nobody waits: no command is pending and no confirmation on its way.
LEMMA ConfOnceIdle ==
  ASSUME NEW m, NEW r, NEW s, NEW q, ConfOnce(m, q, r), r # "devmode"
  PROVE  ConfOnce(m, q, s) /\ ConfOnce("OPERATE", q, "devmode")
BY DEF ConfOnce

\* A run of the message handler confirms a master command it takes, and posts no
\* other confirmation of one.
LEMMA MessageHandlerConf ==
  ASSUME TypeOK, OneDevmodeConf, NEW c, MessageHandler(c)
  PROVE  ConfOnce(mcmd', jobs', req)
<1>1. jobs \in Seq(Jobs) /\ ConfOnce(mcmd, jobs, req)
  BY DEF TypeOK, OneDevmodeConf
<1>2. ASSUME NEW job \in {"CNF_OK", "CNF_NO_COMM"}
      PROVE  job \in Jobs /\ job \notin DevmodeConfs
  BY <1>2 DEF Jobs, DevmodeConfs
<1>3. ASSUME NEW job \in DevmodeConfs, mcmd # "NONE"
      PROVE  ConfOnce("NONE", Append(jobs, job), req)
  BY <1>1, <1>3, ConfOnceConfirm DEF DevmodeConfs, Jobs
<1>4. (mcmd' = mcmd /\ jobs' = jobs) => ConfOnce(mcmd', jobs', req)
  BY <1>1
<1> USE DEF mhVars, odVars
<1>5. ASSUME OdDevice PROVE ConfOnce(mcmd', jobs', req)
  BY <1>3, <1>4, <1>5 DEF OdDevice, Post, DevmodeConfs
<1>6. CASE MH_AwaitReply4(c) \/ MH_ErrorHandling5(c)
  BY <1>1, <1>2, <1>4, <1>6, ConfOnceAppend
  DEF MH_AwaitReply4, MH_ErrorHandling5, Confirm, Post
<1>7. CASE MH_ErrorHandling10(c)
  <2>1. CASE UNCHANGED <<mcmd, jobs>>
    BY <2>1, <1>4
  <2>2. CASE /\ mcmd' = "NONE"
             /\ jobs' = PostIf(rwcmd \in {"READ", "WRITE"},
                               PostIf(mcmd # "NONE", jobs, "DEVMODE_ERROR"),
                               "CNF_NO_COMM")
    <3> DEFINE q == PostIf(mcmd # "NONE", jobs, "DEVMODE_ERROR")
    <3>1. q \in Seq(Jobs) /\ ConfOnce("NONE", q, req)
      BY <1>1, <1>3 DEF PostIf, Jobs, DevmodeConfs
    <3>2. ConfOnce("NONE", Append(q, "CNF_NO_COMM"), req)
      BY <3>1, <1>2, ConfOnceAppend
    <3>3. QED
      BY <2>2, <3>1, <3>2 DEF PostIf
  <2>3. QED
    BY <1>7, <2>1, <2>2 DEF MH_ErrorHandling10
<1>8. CASE MH_AwaitReply9(c)
  BY <1>4, <1>5, <1>8 DEF MH_AwaitReply9
<1>9. CASE MH_AwaitReply16(c)
  BY <1>4, <1>5, <1>9 DEF MH_AwaitReply16, MH_Leave
<1>10. CASE MH_Inactive(c) \/ MH_Startup(c) \/ MH_Preoperate(c) \/ MH_GetOd7(c)
  BY <1>4, <1>10 DEF MH_Inactive, MH_Startup, MH_Preoperate, MH_GetOd7
<1>11. CASE MH_Operate(c)
  BY <1>4, <1>11 DEF MH_Operate, MH_Leave
<1>12. QED
  BY <1>6, <1>7, <1>8, <1>9, <1>10, <1>11 DEF MessageHandler

\* SM waits for the confirmation in one state only (wait_devmode_cnf).
ReqPhase == req = "devmode" => sm = "Preoperate"

DevmodeInv == TypeOK /\ OneDevmodeConf /\ ReqPhase

\* DL_Write_Devicemode_req is confirmed at most once and never unasked, whatever is
\* lost, retried or reset.  The invariant adds the state of SM: SM leaves it, and
\* drops its request, only with the confirmation.
THEOREM DevmodeConfirmedOnce == Spec => []OneDevmodeConf
<1>1. Init => OneDevmodeConf /\ ReqPhase
  BY DEF Init, OneDevmodeConf, ConfOnce, Positions, ReqPhase
<1>2. DevmodeInv /\ [Next]_vars => OneDevmodeConf' /\ ReqPhase'
  <2> SUFFICES ASSUME TypeOK, OneDevmodeConf, ReqPhase, [Next]_vars
               PROVE  OneDevmodeConf' /\ ReqPhase'
    BY DEF DevmodeInv
  <2>a. jobs \in Seq(Jobs) /\ ConfOnce(mcmd, jobs, req)
    BY DEF TypeOK, OneDevmodeConf
  <2>b. Head_ # "none" => jobs # <<>> /\ Tail(jobs) \in Seq(Jobs) /\ Head_ = Head(jobs)
    BY <2>a DEF Head_
  <2>c. \A job \in Jobs \ DevmodeConfs : ConfOnce(mcmd, Append(jobs, job), req)
    BY <2>a, ConfOnceAppend
  <2>d. ASSUME UNCHANGED <<mcmd, jobs, req>> PROVE OneDevmodeConf'
    BY <2>a, <2>d DEF OneDevmodeConf
  <2>e. ASSUME UNCHANGED smVars PROVE ReqPhase' /\ req' = req
    BY <2>e DEF ReqPhase, smVars
  <2>k. /\ "STARTUP" \in Jobs \ DevmodeConfs /\ "PREOPERATE" \in Jobs \ DevmodeConfs
        /\ "OPERATE" \in Jobs \ DevmodeConfs /\ "COMLOST" \in Jobs \ DevmodeConfs
        /\ "INACTIVE" \in Jobs \ DevmodeConfs /\ "CNF_WURQ" \in Jobs \ DevmodeConfs
        /\ "CNF_OK" \in Jobs \ DevmodeConfs /\ "CNF_CONFLICT" \in Jobs \ DevmodeConfs
        /\ "SetPortConfig" \in Jobs \ DevmodeConfs
    BY DEF Jobs, DevmodeConfs
  <2>1. CASE Wait
    BY <2>1, <2>d, <2>e DEF Wait, odVars, smVars
  <2>2. CASE RxReady \/ HandleError \/ HandleMH
    <3>1. ConfOnce(mcmd', jobs', req)
      BY <2>2, MessageHandlerConf DEF RxReady, HandleError, HandleMH
    <3>2. QED
      BY <2>2, <2>e, <3>1 DEF RxReady, HandleError, HandleMH, OneDevmodeConf
  <2>3. CASE HandleTimeout
    <3>1. ConfOnce(mcmd', jobs', req)
      BY <2>3, <2>a, MessageHandlerConf DEF HandleTimeout, mhVars, odVars
    <3>2. QED
      BY <2>3, <2>e, <3>1 DEF HandleTimeout, OneDevmodeConf
  <2>4. CASE MhConf
    <3>1. ConfOnce(mcmd', jobs', req)
      BY <2>4, MessageHandlerConf DEF MhConf
    <3>2. QED
      BY <2>4, <2>e, <3>1 DEF MhConf, OneDevmodeConf
  <2>5. CASE WurqRecv
    <3>1. ASSUME NEW cnf \in {"CNF_WURQ", "CNF_OK"}
          PROVE  ConfOnce(mcmd, Append(Append(jobs, cnf), "STARTUP"), req)
      <4>1. ConfOnce(mcmd, Append(jobs, cnf), req) /\ Append(jobs, cnf) \in Seq(Jobs)
        BY <2>a, <2>c, <2>k, <3>1
      <4>2. QED
        BY <4>1, <2>k, ConfOnceAppend
    <3>2. ConfOnce(mcmd, jobs', req)
      BY <2>5, <2>c, <2>k, <3>1 DEF WurqRecv, Post
    <3>3. QED
      BY <2>5, <2>e, <3>2 DEF WurqRecv, OneDevmodeConf, odVars
  <2>6. CASE HandleMDH \/ TimerDone
    BY <2>6, <2>d, <2>e DEF HandleMDH, TimerDone, odVars, smVars
  <2>7. CASE Finish
    <3>1. ConfOnce(mcmd, jobs', req)
      BY <2>7, <2>a, <2>c, <2>k DEF Finish, goto_idle, Post
    <3>2. QED
      BY <2>7, <2>e, <3>1 DEF Finish, OneDevmodeConf, odVars
  <2>8. CASE Environment
    BY <2>8, <2>d, <2>e
    DEF Environment, Answer, Lose, Cycle, WakeUpDone, TimerFires, dlVars, odVars, smVars
  <2>9. CASE App_Configure \/ App_Start \/ App_Tsd
    <3>1. ConfOnce(mcmd, jobs', req)
      BY <2>9, <2>a, <2>c, <2>k DEF App_Configure, App_Start, App_Tsd, Post
    <3>2. QED
      BY <2>9, <3>1 DEF App_Configure, App_Start, App_Tsd, OneDevmodeConf, ReqPhase, odVars
  <2>10. CASE App_Retry
    <3>1. ConfOnce("NONE", jobs', req)
      BY <2>10, <2>c, <2>k DEF App_Retry, Post, ConfOnce
    <3>2. QED
      BY <2>10, <3>1 DEF App_Retry, OneDevmodeConf, ReqPhase
  <2>11. CASE SM_WriteDevmode
    <3>1. CASE mdState = "STARTUP_2"
      <4>1. ConfOnce(mcmd, Append(jobs, "DEVMODE_ERROR"), "devmode")
        BY <2>11, <2>a, ConfOnceRefuse DEF SM_WriteDevmode, DevmodeConfs, Jobs
      <4>2. QED
        BY <2>11, <3>1, <4>1 DEF SM_WriteDevmode, Post, OneDevmodeConf, ReqPhase
    <3>2. CASE mdState # "STARTUP_2"
      <4>1. ConfOnce("OPERATE", jobs, "devmode")
        BY <2>11, <2>a, ConfOnceIdle DEF SM_WriteDevmode
      <4>2. QED
        BY <2>11, <3>2, <4>1 DEF SM_WriteDevmode, OneDevmodeConf, ReqPhase
    <3>3. QED
      BY <3>1, <3>2
  <2>12. CASE AL_ReadWriteParam \/ AL_ISDUTransport
    BY <2>12, <2>d, <2>e DEF AL_ReadWriteParam, AL_ISDUTransport, smVars
  <2> USE DEF smUnchanged, deliverUnchanged, Handled
  <2>t. jobs # <<>> => ConfOnce(mcmd, Tail(jobs), req)
    BY <2>a, ConfOnceTail
  <2>13. CASE SM_SetPortConfig
    BY <2>13, <2>b, <2>t DEF SM_SetPortConfig, OneDevmodeConf, ReqPhase
  <2>i. ASSUME jobs # <<>>, Ignore, UNCHANGED mcmd
        PROVE  OneDevmodeConf' /\ ReqPhase'
    BY <2>t, <2>i DEF Ignore, OneDevmodeConf, ReqPhase
  <2>l. ASSUME jobs # <<>>, Comlost, UNCHANGED mcmd, req # "devmode"
        PROVE  OneDevmodeConf' /\ ReqPhase'
    <3>1. ConfOnce(mcmd, Tail(jobs), "none")
      BY <2>t, <2>l, ConfOnceIdle
    <3>2. QED
      BY <2>l, <3>1 DEF Comlost, OneDevmodeConf, ReqPhase
  <2>14. CASE SM_ModeStartup
    <3>1. jobs # <<>> /\ Tail(jobs) \in Seq(Jobs) /\ UNCHANGED mcmd
      BY <2>14, <2>b DEF SM_ModeStartup
    <3>2. CASE sm = "PortInactive" /\ sm' = "Startup" /\ req' = "dp"
      <4>1. ConfOnce(mcmd, Tail(jobs), "dp")
        BY <3>1, <3>2, <2>t, ConfOnceIdle DEF ReqPhase
      <4>2. /\ ConfOnce(mcmd, Append(Tail(jobs), "CNF_OK"), "dp")
            /\ ConfOnce(mcmd, Append(Tail(jobs), "CNF_CONFLICT"), "dp")
        BY <4>1, <3>1, <2>k, ConfOnceAppend
      <4>3. jobs' \in {Tail(jobs), Append(Tail(jobs), "CNF_OK"),
                       Append(Tail(jobs), "CNF_CONFLICT")}
        BY <2>14, <3>2 DEF SM_ModeStartup, ReadWrite
      <4>4. QED
        BY <3>1, <3>2, <4>1, <4>2, <4>3 DEF OneDevmodeConf, ReqPhase
    <3>3. CASE ~(sm = "PortInactive" /\ sm' = "Startup" /\ req' = "dp")
      <4>1. Ignore \/ (Comlost /\ req = "none")
        BY <2>14, <3>3 DEF SM_ModeStartup
      <4>2. QED
        BY <4>1, <3>1, <2>i, <2>l
    <3>4. QED
      BY <3>2, <3>3
  <2>15. CASE SM_ModeUp \/ SM_ModeDown
    <3>1. jobs # <<>> /\ UNCHANGED mcmd
      BY <2>15, <2>b DEF SM_ModeUp, SM_ModeDown
    <3>2. (Comlost /\ req # "devmode") \/ Ignore \/ (Handled /\ req' = req /\ ReqPhase')
      BY <2>15, <2>e DEF SM_ModeUp, SM_ModeDown, ReqPhase
    <3>3. CASE Handled /\ req' = req /\ ReqPhase'
      BY <3>1, <3>3, <2>t DEF OneDevmodeConf
    <3>4. QED
      BY <2>i, <2>l, <3>1, <3>2, <3>3
  <2>16. CASE SM_ReadWriteCnf
    <3>1. jobs # <<>> /\ Tail(jobs) \in Seq(Jobs) /\ UNCHANGED mcmd
      BY <2>16, <2>b DEF SM_ReadWriteCnf
    <3>2. CASE sm = "Startup"
      <4>1. req # "devmode"
        BY <3>2 DEF ReqPhase
      <4>2. /\ ConfOnce(mcmd, Tail(jobs), req) /\ ConfOnce(mcmd, Tail(jobs), "none")
            /\ ConfOnce(mcmd, Append(Tail(jobs), "CNF_CONFLICT"), req)
        BY <3>1, <4>1, <2>k, <2>t, ConfOnceIdle, ConfOnceAppend
      <4>3. ASSUME ReadWrite(Tail(jobs)), UNCHANGED <<sm, req>>
            PROVE  OneDevmodeConf' /\ ReqPhase'
        BY <3>1, <4>1, <4>2, <4>3 DEF ReadWrite, OneDevmodeConf, ReqPhase
      <4>4. ASSUME NEW p, NEW mode, Enter(p, mode)
            PROVE  OneDevmodeConf' /\ ReqPhase'
        BY <3>1, <4>2, <4>4 DEF Enter, OneDevmodeConf, ReqPhase
      <4>5. QED
        BY <2>16, <2>i, <2>l, <3>1, <4>1, <4>3, <4>4 DEF SM_ReadWriteCnf
    <3>3. CASE sm # "Startup"
      BY <2>16, <2>i, <3>1, <3>3 DEF SM_ReadWriteCnf
    <3>4. QED
      BY <3>2, <3>3
  <2>17. CASE SM_DevmodeCnf
    <3>1. jobs # <<>> /\ Head(jobs) \in DevmodeConfs /\ UNCHANGED mcmd
      BY <2>17, <2>b DEF SM_DevmodeCnf, DevmodeConfs
    <3>2. ConfOnce(mcmd, Tail(jobs), "none")
      BY <2>a, <3>1, ConfOnceTaken
    <3>3. ASSUME NEW p, NEW mode, Enter(p, mode) \/ Comlost
          PROVE  OneDevmodeConf' /\ ReqPhase'
      BY <3>1, <3>2, <3>3 DEF Enter, Comlost, OneDevmodeConf, ReqPhase
    <3>4. QED
      BY <2>17, <2>i, <3>1, <3>3 DEF SM_DevmodeCnf
  <2>18. CASE UNCHANGED vars
    BY <2>18, <2>d, <2>e DEF vars, odVars, smVars
  <2>19. QED
    BY <2>1, <2>2, <2>3, <2>4, <2>5, <2>6, <2>7, <2>8, <2>9, <2>10, <2>11, <2>12,
       <2>13, <2>14, <2>15, <2>16, <2>17, <2>18
    DEF Next, DlThread, SmThread, Application
<1>3. QED
  BY <1>1, <1>2, TypeCorrect, PTL DEF Spec, DevmodeInv

\* A run of the message handler takes no signal away but that of a receive error.
LEMMA SignalsKept ==
  ASSUME NEW c, MessageHandler(c)
  PROVE  events \ {"RXERR"} \subseteq events'
<1> USE DEF mhVars, odVars, SignalComlost, ReadErrors, handle_com_lost, MH_Leave
<1>1. CASE MH_Inactive(c) \/ MH_Startup(c) \/ MH_AwaitReply4(c) \/ MH_ErrorHandling5(c)
  BY <1>1 DEF MH_Inactive, MH_Startup, MH_AwaitReply4, MH_ErrorHandling5
<1>2. CASE MH_Preoperate(c) \/ MH_GetOd7(c) \/ MH_AwaitReply9(c)
  BY <1>2 DEF MH_Preoperate, MH_GetOd7, MH_AwaitReply9
<1>3. CASE MH_ErrorHandling10(c) \/ MH_Operate(c) \/ MH_AwaitReply16(c)
  BY <1>3 DEF MH_ErrorHandling10, MH_Operate, MH_AwaitReply16
<1>4. QED
  BY <1>1, <1>2, <1>3 DEF MessageHandler

\* As long as the application does not reset the data link, the port never goes
\* deaf: every answer in the FIFO of the transceiver has its RXRDY on the way to
\* the DL thread.  (iolink_dl_reset, which clears triggered_events, breaks this.)
THEOREM AnswersReported == ASSUME "Retry" \notin Occurs PROVE Spec => []RxReported
<1>1. Init => RxReported
  BY DEF Init, RxReported
<1>2. RxReported /\ [Next]_vars => RxReported'
  <2> SUFFICES ASSUME RxReported, [Next]_vars
               PROVE  RxReported'
    OBVIOUS
  <2> USE DEF RxReported, vars, chipVars, dlVars, Turn
  <2>1. CASE Wait \/ RxReady \/ TimerDone \/ Finish \/ WurqRecv
    BY <2>1 DEF Wait, RxReady, TimerDone, Finish, WurqRecv
  <2>2. CASE HandleError \/ HandleMH \/ HandleTimeout \/ MhConf
    <3>1. CASE HandleError
      BY <3>1, SignalsKept DEF HandleError
    <3>2. CASE HandleMH
      BY <3>2, SignalsKept DEF HandleMH
    <3>3. CASE HandleTimeout
      BY <3>3, SignalsKept DEF HandleTimeout, mhVars
    <3>4. CASE MhConf
      BY <3>4, SignalsKept DEF MhConf
    <3>5. QED
      BY <2>2, <3>1, <3>2, <3>3, <3>4
  <2>3. CASE HandleMDH
    BY <2>3 DEF HandleMDH
  <2>4. CASE Environment
    BY <2>4 DEF Environment, Answer, Lose, Cycle, WakeUpDone, TimerFires
  <2>5. CASE SmThread
    <3> USE DEF deliverUnchanged, smUnchanged, ReadWrite, Enter, Ignore, Comlost, WakeMDH
    <3>1. CASE SM_SetPortConfig
      BY <3>1 DEF SM_SetPortConfig
    <3>2. CASE SM_ModeStartup \/ SM_ModeUp \/ SM_ModeDown
      BY <3>2 DEF SM_ModeStartup, SM_ModeUp, SM_ModeDown
    <3>3. CASE SM_ReadWriteCnf \/ SM_DevmodeCnf
      BY <3>3 DEF SM_ReadWriteCnf, SM_DevmodeCnf
    <3>4. QED
      BY <2>5, <3>1, <3>2, <3>3 DEF SmThread
  <2>6. CASE Application
    BY <2>6 DEF Application, App_Configure, App_Start, App_Tsd, App_Retry,
       SM_WriteDevmode, AL_ReadWriteParam, AL_ISDUTransport, smUnchanged
  <2>7. CASE UNCHANGED vars
    BY <2>7
  <2>8. QED
    BY <2>1, <2>2, <2>3, <2>4, <2>5, <2>6, <2>7 DEF Next, DlThread
<1>3. QED
  BY <1>1, <1>2, PTL DEF Spec

-----------------------------------------------------------------------------
(***************************************************************************)
(* The session.  One inductive invariant, Session, relates SM, its job       *)
(* queue and the two handlers of the DL thread; what the runs check, the    *)
(* refinement of LinkService included, follows from it.                     *)
(***************************************************************************)

NoRetry == "Retry" \notin Occurs

Accesses == {"READ", "WRITE"}
StartupStates    == {"STARTUP_2", "RESPONSE_3", "AW_REPLY_4", "ERRORHANDLING_5"}
PreoperateStates == {"PREOPERATE_6", "GETOD_7", "RESPONSE_8", "AW_REPLY_9",
                     "ERRORHANDLING_10"}
OperateStates    == {"GETOD_7", "RESPONSE_8", "AW_REPLY_9", "ERRORHANDLING_10",
                     "OPERATE_12", "RESPONSE_15", "AW_REPLY_16"}

\* The phases of SM: for each, the request it waits for, the mode it has asked
\* for, and how far the link has come, by the jobs that still tell SM of it.

\* Nothing is asked of the link: before the first configuration and after a loss.
AtRest ==
  /\ sm = "PortInactive" /\ req = "none" /\ dlMode = "INACTIVE"
  /\ rwcmd \notin Accesses
  /\ \/ mdState = "IDLE_0" /\ jobs \in {<<>>, <<"SetPortConfig">>, <<"COMLOST">>, <<"INACTIVE">>}
     \/ mdState \in {"STARTUP_2", "PREOPERATE_3"} /\ mhInfo = "COMLOST" /\ jobs = <<>>

\* The wake-up: asked of the mode handler, on the wire, done or given up.
Waking ==
  /\ sm = "PortInactive" /\ req = "none" /\ dlMode = "STARTUP" /\ app # "INACTIVE"
  /\ rwcmd \notin Accesses
  /\ \/ mdState = "IDLE_0" /\ jobs \in {<<>>, <<"INACTIVE">>}
     \/ mdState = "ESTCOM_1" /\ jobs = <<>>
     \/ /\ mdState = "STARTUP_2" /\ mhState = "STARTUP_2" /\ mhInfo = "NONE"
        /\ jobs \in {<<"CNF_WURQ", "STARTUP">>, <<"STARTUP">>}

\* The parameter page is read: one access is under way, confirmed or refused.
Reading ==
  /\ sm = "Startup" /\ req = "dp" /\ dlMode = "STARTUP"
  /\ \/ /\ mdState = "STARTUP_2" /\ mhInfo = "NONE"
        /\ rwcmd \in Accesses /\ jobs = <<>>
     \/ /\ mdState = "STARTUP_2" /\ mhState = "STARTUP_2" /\ mhInfo = "NONE"
        /\ rwcmd \notin Accesses /\ jobs = <<"CNF_OK">>
     \/ /\ mdState = "STARTUP_2" /\ mhInfo = "COMLOST"
        /\ rwcmd \notin Accesses /\ jobs = <<"CNF_NO_COMM">>
     \/ /\ mdState = "IDLE_0"
        /\ rwcmd \notin Accesses /\ jobs = <<"CNF_NO_COMM", "COMLOST">>

ToPreoperate ==
  /\ sm = "waitPreoperate" /\ req = "none" /\ dlMode = "PREOPERATE"
  /\ rwcmd \notin Accesses
  /\ \/ /\ mdState = "STARTUP_2" /\ mhInfo = "NONE" /\ jobs = <<>>
        /\ pc \in {"loop", "timer"} => mhState = "STARTUP_2"
     \/ mdState = "PREOPERATE_3" /\ jobs = <<"PREOPERATE">>
     \/ mdState = "IDLE_0" /\ jobs = <<"PREOPERATE", "COMLOST">>

InPreoperate ==
  /\ sm = "Preoperate" /\ req \in {"none", "devmode"} /\ dlMode = "PREOPERATE"
  /\ rwcmd \notin Accesses
  /\ \/ mdState = "PREOPERATE_3" /\ jobs \in {<<>>, <<"DEVMODE_OK">>}
     \/ mdState = "PREOPERATE_3" /\ mhInfo = "COMLOST" /\ jobs = <<"DEVMODE_ERROR">>
     \/ /\ mdState = "IDLE_0"
        /\ jobs \in {<<"COMLOST">>, <<"DEVMODE_OK", "COMLOST">>, <<"DEVMODE_ERROR", "COMLOST">>}
     \/ mdState = "IDLE_0" /\ req = "devmode" /\ jobs = <<>>

ToOperate ==
  /\ sm = "waitOperate" /\ req = "none" /\ dlMode = "OPERATE"
  /\ rwcmd \notin Accesses
  /\ \/ /\ mdState = "STARTUP_2" /\ mhInfo = "NONE" /\ jobs = <<>>
        /\ pc \in {"loop", "timer"} => mhState = "STARTUP_2"
     \/ mdState = "OPERATE_4" /\ jobs = <<"OPERATE">>
     \/ mdState = "IDLE_0" /\ jobs = <<"OPERATE", "COMLOST">>

InOperate ==
  /\ sm = "SMOperate" /\ req = "none" /\ dlMode = "OPERATE"
  /\ rwcmd \notin Accesses
  /\ \/ mdState = "PREOPERATE_3" /\ jobs = <<>>
     \/ mdState = "OPERATE_4" /\ jobs \in {<<>>, <<"OPERATE">>}
     \/ mdState = "IDLE_0" /\ jobs \in {<<"COMLOST">>, <<"OPERATE", "COMLOST">>}

Phase == \/ AtRest \/ Waking \/ Reading \/ ToPreoperate \/ InPreoperate
         \/ ToOperate \/ InOperate

\* Before the mode handler has taken the first configuration, and while the chip
\* wakes the device up, nothing else is signalled, sent or timed: the wake-up is
\* made once, and its end is reported once.
Undisturbed(es, ts) == /\ events = es /\ todo = ts /\ pc = "loop"
                       /\ ~timerOn /\ ~cyc /\ line = "idle" /\ dlAddr = "DUMMY_WURQ"
Once ==
  /\ app = "INACTIVE" => AtRest /\ mdState = "IDLE_0" /\ jobs = <<>> /\ ~wurq /\ Undisturbed({}, {})
  /\ jobs = <<"SetPortConfig">> => ~wurq /\ app # "INACTIVE" /\ Undisturbed({}, {})
  /\ Waking /\ mdState = "IDLE_0" =>
       /\ ~wurq
       /\ \/ Undisturbed({}, {})
          \/ jobs = <<>> /\ (Undisturbed({"MDH"}, {}) \/ Undisturbed({}, {"MDH"}))
  /\ mdState = "ESTCOM_1" =>
       /\ Waking
       /\ \/ wurq /\ Undisturbed({}, {})
          \/ ~wurq /\ (Undisturbed({"WURQ"}, {}) \/ Undisturbed({}, {"WURQ"}))
  /\ mdState # "ESTCOM_1" => ~wurq /\ "WURQ" \notin events \cup todo
  /\ Waking /\ mdState = "STARTUP_2" => "MDH" \notin events \cup todo
  /\ sm = "Startup" =>
       /\ "MDH" \in events \cup todo => mhInfo = "COMLOST" /\ pc \in {"loop", "timer"}
       /\ ~("MDH" \in events /\ "MDH" \in todo)

\* The states of the two handlers, and the mode the message handler was told.
Agree ==
  /\ mhInfo = "COMLOST" => mhState = "INACTIVE_0"
  /\ mdState \in {"IDLE_0", "ESTCOM_1"} =>
       mhInfo = "NONE" /\ mhState = "INACTIVE_0" /\ mhcmd = "INACTIVE"
  /\ mdState = "STARTUP_2" /\ mhInfo = "NONE" =>
       \/ mhcmd = "INACTIVE" /\ mhState \in StartupStates
       \/ mhcmd = "PREOPERATE" /\ mhState \in {"STARTUP_2", "PREOPERATE_6"}
       \/ mhcmd = "OPERATE" /\ mhState \in {"STARTUP_2", "OPERATE_12"}
  /\ mdState = "PREOPERATE_3" /\ mhInfo = "NONE" =>
       \/ mhcmd = "PREOPERATE" /\ mhState \in PreoperateStates
       \/ mhcmd = "OPERATE" /\ mhState \in PreoperateStates \cup OperateStates
  /\ mdState = "OPERATE_4" /\ mhInfo = "NONE" =>
       mhcmd = "OPERATE" /\ mhState \in OperateStates
  /\ cyc => mhState \notin {"INACTIVE_0"} \cup StartupStates

\* Where the mode handler is cut: what it has told the message handler, and what
\* it has decided to do next.
Calls ==
  /\ pc \in {"loop", "timer"} =>
       /\ cont = "none"
       /\ mdState = "STARTUP_2" => mhcmd = "INACTIVE"
       /\ mdState = "PREOPERATE_3" /\ mhInfo = "NONE" => mhcmd = "PREOPERATE"
  /\ pc \in {"conf", "finish"} =>
       \/ /\ cont = "goto_preoperate" /\ mhcmd = "PREOPERATE" /\ dlMode = "PREOPERATE"
          /\ mdState = "STARTUP_2" /\ mhInfo = "NONE"
          /\ mhState = IF pc = "conf" THEN "STARTUP_2" ELSE "PREOPERATE_6"
       \/ /\ cont = "goto_operate" /\ mhcmd = "OPERATE" /\ dlMode = "OPERATE"
          /\ mdState = "STARTUP_2" /\ mhInfo = "NONE"
          /\ mhState = IF pc = "conf" THEN "STARTUP_2" ELSE "OPERATE_12"
       \/ /\ cont = "goto_operate" /\ mhcmd = "OPERATE" /\ dlMode = "OPERATE"
          /\ mdState = "PREOPERATE_3"
          /\ pc = "conf" => mhInfo = "NONE" /\ mhState \in PreoperateStates
          /\ pc = "finish" /\ mhInfo = "NONE" => mhState \in OperateStates
       \/ /\ cont = "idle_INACTIVE" /\ mhcmd = "INACTIVE" /\ dlMode = "INACTIVE"
          /\ mdState \in {"STARTUP_2", "OPERATE_4"} /\ mhInfo = "COMLOST"
       \/ /\ cont = "idle_COMLOST" /\ mhcmd = "INACTIVE"
          /\ mdState \in {"STARTUP_2", "PREOPERATE_3", "OPERATE_4"} /\ mhInfo = "COMLOST"
       \/ /\ cont = "none" /\ mhcmd = "OPERATE" /\ dlMode = "INACTIVE"
          /\ mdState = "PREOPERATE_3" /\ mhInfo = "COMLOST"

\* A loss the mode handler has not begun to report.
Pending ==
  mhInfo = "COMLOST" /\ cont \notin {"idle_INACTIVE", "idle_COMLOST"} =>
    "MDH" \in events \cup todo \/ (mdState = "PREOPERATE_3" /\ dlMode = "INACTIVE")

Session == Phase /\ Once /\ Agree /\ Calls /\ Pending

-----------------------------------------------------------------------------
(* What a run of the message handler does, by the state it finds.           *)

\* At rest it stays at rest.
LEMMA MhInactive ==
  ASSUME NEW c, MessageHandler(c), mhState = "INACTIVE_0"
  PROVE  UNCHANGED <<mhInfo, mhState, rwcmd, jobs, events, mcmd, timerOn, line>> /\ ~cyc'
BY DEF MessageHandler, MH_Inactive, MH_Startup, MH_AwaitReply4, MH_ErrorHandling5,
   MH_Preoperate, MH_GetOd7, MH_AwaitReply9, MH_ErrorHandling10, MH_Operate,
   MH_AwaitReply16, odVars, timerVars

\* In STARTUP it goes on with the access, confirms it, or gives the link up.
LEMMA MhStarting ==
  ASSUME NEW c, MessageHandler(c), mhState \in StartupStates, mhcmd = "INACTIVE"
  PROVE  /\ \/ /\ UNCHANGED <<mhInfo, rwcmd, jobs, events>> /\ mhState' \in StartupStates
               /\ mhState = "STARTUP_2" /\ rwcmd \notin Accesses => mhState' = "STARTUP_2"
            \/ /\ mhState # "STARTUP_2" /\ mhState' = "STARTUP_2"
               /\ UNCHANGED <<mhInfo, events>> /\ Confirm("CNF_OK")
            \/ /\ mhState # "STARTUP_2" /\ mhState' = "INACTIVE_0"
               /\ SignalComlost /\ Confirm("CNF_NO_COMM")
         /\ UNCHANGED <<mcmd, cyc>>
<1> USE DEF StartupStates, odVars, timerVars
<1>1. CASE mhState = "STARTUP_2"
  BY <1>1 DEF MessageHandler, MH_Inactive, MH_Startup, MH_AwaitReply4, MH_ErrorHandling5,
     MH_Preoperate, MH_GetOd7, MH_AwaitReply9, MH_ErrorHandling10, MH_Operate,
     MH_AwaitReply16, Accesses
<1>2. CASE mhState \in {"RESPONSE_3", "AW_REPLY_4"}
  <2>1. MH_AwaitReply4(c)
    BY <1>2 DEF MessageHandler, MH_Inactive, MH_Startup, MH_ErrorHandling5, MH_Preoperate,
       MH_GetOd7, MH_AwaitReply9, MH_ErrorHandling10, MH_Operate, MH_AwaitReply16
  <2>2. QED
    BY <1>2, <2>1 DEF MH_AwaitReply4
<1>3. CASE mhState = "ERRORHANDLING_5"
  <2>1. MH_ErrorHandling5(c)
    BY <1>3 DEF MessageHandler, MH_Inactive, MH_Startup, MH_AwaitReply4, MH_Preoperate,
       MH_GetOd7, MH_AwaitReply9, MH_ErrorHandling10, MH_Operate, MH_AwaitReply16
  <2>2. QED
    BY <1>3, <2>1 DEF MH_ErrorHandling5
<1>4. QED
  BY <1>1, <1>2, <1>3

\* Told to leave STARTUP it does so, and nothing else.
LEMMA MhLeavesStartup ==
  ASSUME NEW c, MessageHandler(c), mhState = "STARTUP_2", mhcmd \in {"PREOPERATE", "OPERATE"}
  PROVE  /\ mhState' = IF mhcmd = "PREOPERATE" THEN "PREOPERATE_6" ELSE "OPERATE_12"
         /\ UNCHANGED <<mhInfo, rwcmd, jobs, events, mcmd, cyc>>
BY DEF MessageHandler, MH_Inactive, MH_Startup, MH_AwaitReply4, MH_ErrorHandling5,
   MH_Preoperate, MH_GetOd7, MH_AwaitReply9, MH_ErrorHandling10, MH_Operate,
   MH_AwaitReply16, odVars

\* In PREOPERATE and OPERATE it stays in the states of the mode it was told, or
\* gives the link up; only a master command is confirmed.
RunsOn ==
  /\ mhInfo' = mhInfo
  /\ mhState' \in IF mhcmd = "PREOPERATE" THEN PreoperateStates ELSE OperateStates
  /\ jobs' = jobs \/ (mcmd # "NONE" /\ jobs' = Append(jobs, "DEVMODE_OK"))
GivesUp ==
  /\ mhInfo' = "COMLOST" /\ "MDH" \in events' /\ mhState' = "INACTIVE_0" /\ ~cyc'
  /\ jobs' = jobs \/ (mcmd # "NONE" /\ jobs' = Append(jobs, "DEVMODE_ERROR"))

\* In PREOPERATE and OPERATE the message handler goes on, or gives the link up.
LEMMA MhRunning ==
  ASSUME NEW c, MessageHandler(c), rwcmd \notin Accesses,
         \/ mhcmd = "PREOPERATE" /\ mhState \in PreoperateStates
         \/ mhcmd = "OPERATE" /\ mhState \in PreoperateStates \cup OperateStates
  PROVE  (RunsOn \/ GivesUp) /\ rwcmd' \notin Accesses
<1> USE DEF RunsOn, GivesUp, PreoperateStates, OperateStates, Accesses, odVars, mhVars
<1>1. CASE mhState \in {"PREOPERATE_6", "GETOD_7"}
  <2>1. MH_Preoperate(c) \/ MH_GetOd7(c)
    BY <1>1 DEF MessageHandler, MH_Inactive, MH_Startup, MH_AwaitReply4, MH_ErrorHandling5,
       MH_AwaitReply9, MH_ErrorHandling10, MH_Operate, MH_AwaitReply16
  <2>2. QED
    BY <1>1, <2>1 DEF MH_Preoperate, MH_GetOd7
<1>2. CASE mhState \in {"RESPONSE_8", "AW_REPLY_9"}
  <2>1. MH_AwaitReply9(c)
    BY <1>2 DEF MessageHandler, MH_Inactive, MH_Startup, MH_AwaitReply4, MH_ErrorHandling5,
       MH_Preoperate, MH_GetOd7, MH_ErrorHandling10, MH_Operate, MH_AwaitReply16
  <2>2. QED
    BY <1>2, <2>1 DEF MH_AwaitReply9, OdDevice, Post, ReadErrors
<1>3. CASE mhState = "ERRORHANDLING_10"
  <2>1. MH_ErrorHandling10(c)
    BY <1>3 DEF MessageHandler, MH_Inactive, MH_Startup, MH_AwaitReply4, MH_ErrorHandling5,
       MH_Preoperate, MH_GetOd7, MH_AwaitReply9, MH_Operate, MH_AwaitReply16
  <2>2. QED
    BY <1>3, <2>1 DEF MH_ErrorHandling10, handle_com_lost, SignalComlost, PostIf
<1>4. CASE mhState = "OPERATE_12"
  <2>1. MH_Operate(c)
    BY <1>4 DEF MessageHandler, MH_Inactive, MH_Startup, MH_AwaitReply4, MH_ErrorHandling5,
       MH_Preoperate, MH_GetOd7, MH_AwaitReply9, MH_ErrorHandling10, MH_AwaitReply16
  <2>2. QED
    BY <1>4, <2>1 DEF MH_Operate
<1>5. CASE mhState \in {"RESPONSE_15", "AW_REPLY_16"}
  <2>1. MH_AwaitReply16(c)
    BY <1>5 DEF MessageHandler, MH_Inactive, MH_Startup, MH_AwaitReply4, MH_ErrorHandling5,
       MH_Preoperate, MH_GetOd7, MH_AwaitReply9, MH_ErrorHandling10, MH_Operate
  <2>2. QED
    BY <1>5, <2>1
    DEF MH_AwaitReply16, OdDevice, Post, handle_com_lost, SignalComlost, ReadErrors
<1>6. QED
  BY <1>1, <1>2, <1>3, <1>4, <1>5

\* Whatever its state, it asks for the mode handler only when it gives up, and
\* never for a wake-up.
LEMMA MhSignals ==
  ASSUME NEW c, MessageHandler(c)
  PROVE  events \ {"RXERR"} \subseteq events' /\ events' \subseteq events \cup {"MDH"}
<1>1. events' \subseteq events \cup {"MDH"}
  <2> USE DEF mhVars, odVars, SignalComlost, ReadErrors, handle_com_lost, MH_Leave
  <2>1. CASE MH_Inactive(c) \/ MH_Startup(c) \/ MH_AwaitReply4(c) \/ MH_ErrorHandling5(c)
    BY <2>1 DEF MH_Inactive, MH_Startup, MH_AwaitReply4, MH_ErrorHandling5
  <2>2. CASE MH_Preoperate(c) \/ MH_GetOd7(c) \/ MH_AwaitReply9(c)
    BY <2>2 DEF MH_Preoperate, MH_GetOd7, MH_AwaitReply9
  <2>3. CASE MH_ErrorHandling10(c) \/ MH_Operate(c) \/ MH_AwaitReply16(c)
    BY <2>3 DEF MH_ErrorHandling10, MH_Operate, MH_AwaitReply16
  <2>4. QED
    BY <2>1, <2>2, <2>3 DEF MessageHandler
<1>2. QED
  BY <1>1, SignalsKept

-----------------------------------------------------------------------------
(* The message handler keeps the invariant, called from the loop or from     *)
(* the mode handler (MhConf).                                               *)

MhRun(c) ==
  /\ MessageHandler(c)
  /\ UNCHANGED <<cont, mdState, dlMode, mhcmd, wurq, smVars>>
  /\ todo' \subseteq todo /\ ("MDH" \in todo => "MDH" \in todo')
  /\ \/ pc = "loop" /\ pc' \in {"loop", "timer"} /\ todo \ {"MDH", "WURQ"} # {}
     \/ pc = "conf" /\ pc' = "finish"

\* A master command is pending only while SM waits for its confirmation, and then
\* none is in the queue.
LEMMA PendingCommand ==
  ASSUME OneDevmodeConf, Phase, mcmd # "NONE"
  PROVE  /\ InPreoperate /\ req = "devmode"
         /\ mdState = "PREOPERATE_3" => jobs = <<>>
<1>1. req = "devmode" /\ Positions(jobs, DevmodeConfs) = {}
  BY DEF OneDevmodeConf, ConfOnce
<1>2. InPreoperate
  BY <1>1 DEF Phase, AtRest, Waking, Reading, ToPreoperate, ToOperate, InOperate
<1>3. ASSUME NEW conf \in DevmodeConfs PROVE jobs # <<conf>>
  <2> SUFFICES ASSUME jobs = <<conf>> PROVE FALSE
    OBVIOUS
  <2>1. 1 \in Positions(jobs, DevmodeConfs)
    BY DEF Positions
  <2>2. QED
    BY <1>1, <2>1
<1>4. QED
  BY <1>1, <1>2, <1>3 DEF InPreoperate, DevmodeConfs

\* A run of the message handler keeps the session.
LEMMA SessionMh ==
  ASSUME TypeOK, OneDevmodeConf, Session, NEW c, MhRun(c)
  PROVE  Session'
<1>s. /\ events \ {"RXERR"} \subseteq events' /\ events' \subseteq events \cup {"MDH"}
  BY MhSignals DEF MhRun
<1>e. mdState # "ESTCOM_1"
  BY DEF MhRun, Session, Once, Undisturbed
<1>q. /\ app # "INACTIVE" /\ jobs # <<"SetPortConfig">>
      /\ ~(Waking /\ mdState = "IDLE_0")
  BY DEF MhRun, Session, Once, Undisturbed
<1> USE <1>s, <1>e, <1>q DEF MhRun, smVars
<1>1. CASE mhState = "INACTIVE_0"
  <2>1. UNCHANGED <<mhInfo, mhState, rwcmd, jobs, events, mcmd, timerOn, line>> /\ ~cyc'
    BY <1>1, MhInactive
  <2>2. Phase'
    BY <1>1, <2>1 DEF Session, Phase, AtRest, Waking, Reading, ToPreoperate, InPreoperate,
       ToOperate, InOperate
  <2>3. Once'
    BY <2>1 DEF Session, Once, Waking
  <2>4. Agree' /\ Pending'
    BY <2>1 DEF Session, Agree, Pending
  <2>5. Calls'
    BY <1>1, <2>1 DEF Session, Calls, Agree, StartupStates, PreoperateStates
  <2>6. QED
    BY <2>2, <2>3, <2>4, <2>5 DEF Session
<1>2. CASE mhState # "INACTIVE_0" /\ mdState = "STARTUP_2" /\ mhcmd = "INACTIVE"
  <2>0. mhInfo = "NONE" /\ mhState \in StartupStates /\ pc = "loop" /\ pc' \in {"loop", "timer"}
    BY <1>2 DEF Session, Agree, Calls, TypeOK
  <2>1. /\ mcmd' = mcmd /\ cyc' = cyc
        /\ \/ /\ UNCHANGED <<mhInfo, rwcmd, jobs, events>> /\ mhState' \in StartupStates
              /\ mhState = "STARTUP_2" /\ rwcmd \notin Accesses => mhState' = "STARTUP_2"
           \/ /\ mhState # "STARTUP_2" /\ mhState' = "STARTUP_2"
              /\ UNCHANGED <<mhInfo, events>> /\ Confirm("CNF_OK")
           \/ /\ mhState # "STARTUP_2" /\ mhState' = "INACTIVE_0"
              /\ SignalComlost /\ Confirm("CNF_NO_COMM")
    BY <1>2, <2>0, MhStarting
  <2>2. Waking \/ Reading \/ ToPreoperate \/ ToOperate
    BY <1>2, <2>0 DEF Session, Phase, AtRest, InPreoperate, InOperate
  <2>3. CASE Waking \/ ToPreoperate \/ ToOperate
    <3>1. mhState = "STARTUP_2" /\ rwcmd \notin Accesses
      BY <1>2, <2>0, <2>3 DEF Waking, ToPreoperate, ToOperate
    <3>2. UNCHANGED <<mhInfo, mhState, rwcmd, jobs, events>>
      BY <2>1, <3>1
    <3>3. Phase'
      BY <1>2, <2>0, <2>3, <3>2 DEF Phase, Waking, ToPreoperate, ToOperate
    <3>4. Once' /\ Agree' /\ Calls' /\ Pending'
      BY <1>2, <2>0, <2>1, <3>2 DEF Session, Once, Waking, Agree, Calls, Pending
    <3>5. QED
      BY <3>3, <3>4 DEF Session
  <2>4. CASE Reading
    <3>1. CASE UNCHANGED <<mhInfo, rwcmd, jobs, events>> /\ mhState' \in StartupStates
      <4>1. Phase'
        BY <1>2, <2>0, <2>1, <2>4, <3>1 DEF Phase, Reading, Confirm, Post, Accesses
      <4>2. Once' /\ Agree' /\ Calls' /\ Pending'
        BY <1>2, <2>0, <2>1, <2>4, <3>1
        DEF Session, Once, Waking, Agree, Calls, Pending, Reading, StartupStates
      <4>3. QED
        BY <4>1, <4>2 DEF Session
    <3>2. CASE mhState # "STARTUP_2" /\ ~(UNCHANGED <<mhInfo, rwcmd, jobs, events>>)
      <4>1. rwcmd \in Accesses /\ jobs = <<>>
        BY <1>2, <2>0, <2>4, <3>2 DEF Reading
      <4>2. CASE mhState' = "STARTUP_2" /\ UNCHANGED <<mhInfo, events>> /\ Confirm("CNF_OK")
        <5>1. rwcmd' = "NONE" /\ jobs' = <<"CNF_OK">>
          BY <4>1, <4>2 DEF Confirm, Post, Accesses
        <5>2. Phase'
          BY <1>2, <2>0, <2>4, <4>2, <5>1 DEF Phase, Reading, Accesses
        <5>3. Once' /\ Agree' /\ Calls' /\ Pending'
          BY <1>2, <2>0, <2>1, <2>4, <4>2, <5>1
          DEF Session, Once, Waking, Agree, Calls, Pending, Reading, StartupStates, AtRest
        <5>4. QED
          BY <5>2, <5>3 DEF Session
      <4>3. CASE mhState' = "INACTIVE_0" /\ SignalComlost /\ Confirm("CNF_NO_COMM")
        <5>1. /\ rwcmd' = "NONE" /\ jobs' = <<"CNF_NO_COMM">> /\ mhInfo' = "COMLOST"
              /\ events' = events \cup {"MDH"}
          BY <4>1, <4>3 DEF Confirm, Post, Accesses, SignalComlost
        <5>2. Phase'
          BY <1>2, <2>0, <2>4, <5>1 DEF Phase, Reading, Accesses
        <5>3. Once' /\ Agree' /\ Calls' /\ Pending'
          BY <1>2, <2>0, <2>1, <2>4, <4>3, <5>1
          DEF Session, Once, Waking, Agree, Calls, Pending, Reading, StartupStates, AtRest
        <5>4. QED
          BY <5>2, <5>3 DEF Session
      <4>4. QED
        BY <2>1, <3>2, <4>2, <4>3
    <3>3. QED
      BY <2>0, <2>1, <3>1, <3>2 DEF StartupStates, SignalComlost
  <2>5. QED
    BY <2>2, <2>3, <2>4
<1>3. CASE mhState # "INACTIVE_0" /\ mdState = "STARTUP_2" /\ mhcmd # "INACTIVE"
  <2>1. /\ pc = "conf" /\ pc' = "finish" /\ mhInfo = "NONE" /\ mhState = "STARTUP_2"
        /\ mhcmd \in {"PREOPERATE", "OPERATE"} /\ dlMode = mhcmd
    BY <1>3 DEF Session, Agree, Calls, TypeOK
  <2>2. /\ mhState' = IF mhcmd = "PREOPERATE" THEN "PREOPERATE_6" ELSE "OPERATE_12"
        /\ UNCHANGED <<mhInfo, rwcmd, jobs, events, mcmd, cyc>>
    BY <2>1, MhLeavesStartup
  <2>3. Phase'
    BY <1>3, <2>1, <2>2 DEF Session, Phase, AtRest, Waking, Reading, ToPreoperate,
       InPreoperate, ToOperate, InOperate
  <2>4. Once' /\ Agree' /\ Pending'
    BY <1>3, <2>1, <2>2 DEF Session, Once, Waking, Agree, Pending, StartupStates
  <2>5. Calls'
    BY <1>3, <2>1, <2>2 DEF Session, Calls
  <2>6. QED
    BY <2>3, <2>4, <2>5 DEF Session
<1>4. CASE mhState # "INACTIVE_0" /\ mdState \in {"PREOPERATE_3", "OPERATE_4"}
  <2>1. /\ mhInfo = "NONE"
        /\ \/ mhcmd = "PREOPERATE" /\ mhState \in PreoperateStates
           \/ mhcmd = "OPERATE" /\ mhState \in PreoperateStates \cup OperateStates
    BY <1>4 DEF Session, Agree, TypeOK
  <2>2. rwcmd \notin Accesses
    BY <1>4 DEF Session, Phase, AtRest, Waking, Reading, ToPreoperate, InPreoperate,
       ToOperate, InOperate
  <2>3. (RunsOn \/ GivesUp) /\ rwcmd' \notin Accesses
    BY <2>1, <2>2, MhRunning
  <2>4. /\ mcmd # "NONE" => InPreoperate /\ req = "devmode"
        /\ mcmd # "NONE" /\ mdState = "PREOPERATE_3" => jobs = <<>>
    BY PendingCommand DEF Session
  <2>5. Phase'
    <3>1. CASE jobs' = jobs
      BY <1>4, <2>1, <2>3, <3>1 DEF Session, Phase, AtRest, Waking, Reading, ToPreoperate,
         InPreoperate, ToOperate, InOperate, RunsOn, GivesUp
    <3>2. CASE jobs' # jobs
      <4>1. mcmd # "NONE"
        BY <2>3, <3>2 DEF RunsOn, GivesUp
      <4>2. InPreoperate /\ req = "devmode" /\ mdState = "PREOPERATE_3" /\ jobs = <<>>
        BY <1>4, <2>4, <4>1 DEF InPreoperate
      <4>3. \/ jobs' = <<"DEVMODE_OK">>
            \/ jobs' = <<"DEVMODE_ERROR">> /\ mhInfo' = "COMLOST"
        BY <2>3, <3>2, <4>2 DEF RunsOn, GivesUp
      <4>4. InPreoperate'
        BY <2>3, <4>2, <4>3 DEF InPreoperate
      <4>5. QED
        BY <4>4 DEF Phase
    <3>3. QED
      BY <3>1, <3>2
  <2>6. jobs' # <<"SetPortConfig">> /\ sm # "Startup"
    BY <1>4, <2>3, <2>4 DEF RunsOn, GivesUp, InPreoperate, Session, Phase, AtRest, Waking,
       Reading, ToPreoperate, ToOperate, InOperate
  <2>7. Once'
    BY <1>4, <2>6 DEF Session, Once, Waking
  <2>8. Agree'
    BY <1>4, <2>1, <2>3 DEF Session, Agree, RunsOn, GivesUp, PreoperateStates,
       OperateStates, StartupStates
  <2>9. Calls' /\ Pending'
    <3>1. CASE pc = "loop"
      BY <1>4, <2>1, <2>3, <3>1 DEF Session, Calls, Pending, RunsOn, GivesUp
    <3>2. CASE pc = "conf"
      BY <1>4, <2>1, <2>3, <3>2 DEF Session, Calls, Pending, RunsOn, GivesUp
    <3>3. QED
      BY <3>1, <3>2
  <2>10. QED
    BY <2>5, <2>7, <2>8, <2>9 DEF Session
<1>5. QED
  BY <1>1, <1>2, <1>3, <1>4 DEF Session, Agree, TypeOK, MdStates

-----------------------------------------------------------------------------
(* The steps of the other threads and of the mode handler.                  *)

\* SM takes its oldest job, of one or of two.
LEMMA HeadTail ==
  /\ \A a \in Jobs : jobs = <<a>> => Head_ = a /\ Tail(jobs) = <<>>
  /\ \A a, b \in Jobs : jobs = <<a, b>> => Head_ = a /\ Tail(jobs) = <<b>>
<1>1. ASSUME NEW a \in Jobs, jobs = <<a>> PROVE Head_ = a /\ Tail(jobs) = <<>>
  <2>1. Tail(<<a>>) = <<>> /\ Head(<<a>>) = a /\ <<a>> # <<>>
    OBVIOUS
  <2>2. QED
    BY <1>1, <2>1 DEF Head_
<1>2. ASSUME NEW a \in Jobs, NEW b \in Jobs, jobs = <<a, b>>
      PROVE  Head_ = a /\ Tail(jobs) = <<b>>
  <2>1. Tail(<<a, b>>) = <<b>> /\ Head(<<a, b>>) = a /\ <<a, b>> # <<>>
    OBVIOUS
  <2>2. QED
    BY <1>2, <2>1 DEF Head_
<1>3. QED
  BY <1>1, <1>2

\* The queues of the phases.
Takes(q, head, tail) == jobs = q => Head_ = head /\ Tail(jobs) = tail
\* The oldest job of each of them, and what is left when it is taken.
LEMMA Oldest ==
  /\ jobs = <<>> => Head_ = "none"
  /\ \A a \in {"SetPortConfig", "COMLOST", "INACTIVE", "STARTUP", "CNF_OK", "CNF_NO_COMM",
               "PREOPERATE", "DEVMODE_OK", "DEVMODE_ERROR", "OPERATE"} :
       Takes(<<a>>, a, <<>>)
  /\ Takes(<<"CNF_WURQ", "STARTUP">>, "CNF_WURQ", <<"STARTUP">>)
  /\ \A a \in {"CNF_NO_COMM", "PREOPERATE", "DEVMODE_OK", "DEVMODE_ERROR", "OPERATE"} :
       Takes(<<a, "COMLOST">>, a, <<"COMLOST">>)
<1>1. jobs = <<>> => Head_ = "none"
  BY DEF Head_
<1>2. QED
  BY <1>1, HeadTail DEF Takes, Jobs

\* The thread of SM, between two handlers or within one, keeps the invariant.
LEMMA SessionSm ==
  ASSUME TypeOK, OneDevmodeConf, Session, SmThread
  PROVE  Session'
<1> USE DEF smUnchanged, deliverUnchanged, Handled, odVars, chipVars
<1>1. CASE SM_SetPortConfig
  <2>1. jobs = <<"SetPortConfig">> /\ jobs' = <<>>
    BY <1>1, Oldest DEF Takes, SM_SetPortConfig, Session, Phase, AtRest, Waking, Reading,
       ToPreoperate, InPreoperate, ToOperate, InOperate
  <2>2. AtRest /\ mdState = "IDLE_0" /\ app # "INACTIVE" /\ ~wurq /\ Undisturbed({}, {})
    BY <2>1 DEF Session, Once, Phase, AtRest, Waking, Reading,
       ToPreoperate, InPreoperate, ToOperate, InOperate
  <2>3. /\ Waking' /\ events' = {"MDH"} /\ todo' = {} /\ pc' = "loop" /\ ~cyc' /\ ~wurq'
        /\ ~timerOn' /\ line' = "idle" /\ dlAddr' = "DUMMY_WURQ" /\ mdState' = "IDLE_0"
    BY <1>1, <2>1, <2>2 DEF SM_SetPortConfig, AtRest, Waking, SetMode, WakeMDH, Undisturbed
  <2>4. Phase' /\ Once'
    BY <2>1, <2>3 DEF Phase, Once, Undisturbed, Waking
  <2>5. Agree' /\ Calls' /\ Pending'
    BY <1>1, <2>2, <2>3 DEF SM_SetPortConfig, Session, Agree, Calls, Pending, AtRest,
       StartupStates
  <2>6. QED
    BY <2>4, <2>5 DEF Session
<1>d. Head_ \in DevmodeConfs => req = "devmode"
  <2> SUFFICES ASSUME Head_ \in DevmodeConfs PROVE req = "devmode"
    OBVIOUS
  <2>1. jobs \in Seq(Jobs) /\ jobs # <<>> /\ Head(jobs) \in DevmodeConfs
    BY DEF TypeOK, Head_, DevmodeConfs
  <2>2. QED
    BY <2>1, HeadPosition DEF OneDevmodeConf, ConfOnce
\* SM reports the loss upwards, and asks for INACTIVE.
<1>c. ASSUME Comlost, ~(Waking \/ AtRest), jobs' \in {<<>>, <<"COMLOST">>},
             UNCHANGED <<mdState, mhInfo, mhState, mhcmd, pc, cont, todo, wurq, cyc>>,
             mdState = "IDLE_0" \/ (/\ jobs' = <<>> /\ mhInfo = "COMLOST" /\ dlMode # "OPERATE"
                                    /\ mdState \in {"STARTUP_2", "PREOPERATE_3"}),
             rwcmd \notin Accesses
      PROVE  Session'
  <2>1. AtRest' /\ dlMode' = "INACTIVE" /\ events' = events \cup {"MDH"} /\ app' # "INACTIVE"
    BY <1>c DEF Comlost, AtRest, SetMode, WakeMDH, Lost
  <2>2. Phase' /\ Once'
    BY <1>c, <2>1 DEF Session, Phase, Once, AtRest, Waking
  <2>3. Agree' /\ Calls' /\ Pending'
    BY <1>c, <2>1 DEF Session, Agree, Calls, Pending
  <2>4. QED
    BY <2>2, <2>3 DEF Session
<1>2. CASE SM_ModeStartup
  <2>1. /\ Waking /\ jobs = <<"STARTUP">> /\ Tail(jobs) = <<>> /\ mdState = "STARTUP_2"
        /\ mhState = "STARTUP_2" /\ mhInfo = "NONE"
    BY <1>2, Oldest DEF Takes, SM_ModeStartup, Session, Phase, AtRest, Waking, Reading,
       ToPreoperate, InPreoperate, ToOperate, InOperate
  <2>2. /\ sm' = "Startup" /\ req' = "dp" /\ UNCHANGED <<dlMode, app>>
        /\ \/ jobs' = <<>> /\ rwcmd' \in Accesses /\ events' = events \cup {"MH"}
           \/ jobs' = <<"CNF_OK">> /\ UNCHANGED <<rwcmd, events>>
    BY <1>2, <2>1 DEF SM_ModeStartup, ReadWrite, Accesses, Waking
  <2>3. Phase'
    BY <1>2, <2>1, <2>2 DEF SM_ModeStartup, Phase, Reading, Waking
  <2>4. Once'
    BY <1>2, <2>1, <2>2 DEF SM_ModeStartup, Session, Once, Waking
  <2>5. Agree' /\ Calls' /\ Pending'
    BY <1>2, <2>1, <2>2 DEF SM_ModeStartup, Session, Agree, Calls, Pending
  <2>6. QED
    BY <2>3, <2>4, <2>5 DEF Session
<1>3. CASE SM_ModeUp
  <2>1. \/ /\ ToPreoperate /\ Head_ = "PREOPERATE" /\ jobs' = Tail(jobs) /\ sm' = "Preoperate"
           /\ UNCHANGED <<req, app, dlMode, events, rwcmd>>
        \/ /\ ToOperate \/ InOperate
           /\ Head_ = "OPERATE" /\ jobs' = Tail(jobs) /\ sm' = "SMOperate"
           /\ UNCHANGED <<req, app, dlMode, events, rwcmd>>
    BY <1>3, Oldest DEF Takes, SM_ModeUp, Ignore, Session, Phase, AtRest, Waking, Reading,
       ToPreoperate, InPreoperate, ToOperate, InOperate
  <2>2. Phase'
    <3>1. ToPreoperate /\ sm' = "Preoperate" => InPreoperate'
      BY <1>3, <2>1, Oldest DEF Takes, SM_ModeUp, ToPreoperate, InPreoperate, ToOperate, InOperate
    <3>2. (ToOperate \/ InOperate) /\ sm' = "SMOperate" => InOperate'
      BY <1>3, <2>1, Oldest DEF Takes, SM_ModeUp, ToPreoperate, ToOperate, InOperate
    <3>3. QED
      BY <2>1, <3>1, <3>2 DEF Phase
  <2>3. Once'
    BY <1>3, <2>1, <2>2, Oldest
    DEF Takes, SM_ModeUp, Session, Phase, Once, AtRest, Waking, ToPreoperate, ToOperate, InOperate
  <2>4. Agree' /\ Calls' /\ Pending'
    BY <1>3, <2>1 DEF SM_ModeUp, Session, Agree, Calls, Pending
  <2>5. QED
    BY <2>2, <2>3, <2>4 DEF Session
<1>4. CASE SM_ModeDown
  <2>1. CASE AtRest \/ Waking
    <3>1. /\ mdState = "IDLE_0" /\ jobs \in {<<"COMLOST">>, <<"INACTIVE">>} /\ jobs' = <<>>
          /\ UNCHANGED <<sm, req, dlAddr, dlMode, events, rwcmd>>
          /\ app' = app \/ app' \in {"RETRY", "WAIT_TSD"}
      BY <1>4, <2>1, Oldest DEF Takes, SM_ModeDown, Ignore, Lost, AtRest, Waking
    <3>2. Phase'
      BY <1>4, <2>1, <3>1 DEF SM_ModeDown, Phase, AtRest, Waking
    <3>3. Once'
      BY <1>4, <2>1, <3>1 DEF SM_ModeDown, Session, Once, AtRest, Waking, Undisturbed
    <3>4. Agree' /\ Calls' /\ Pending'
      BY <1>4, <3>1 DEF SM_ModeDown, Session, Agree, Calls, Pending
    <3>5. QED
      BY <3>2, <3>3, <3>4 DEF Session
  <2>2. CASE ~(AtRest \/ Waking)
    <3>1. /\ InPreoperate \/ InOperate
          /\ mdState = "IDLE_0" /\ jobs = <<"COMLOST">> /\ Tail(jobs) = <<>>
          /\ rwcmd \notin Accesses
      BY <1>4, <2>2, Oldest DEF Takes, SM_ModeDown, Session, Phase, Reading,
         ToPreoperate, InPreoperate, ToOperate, InOperate
    <3>2. CASE Comlost
      <4>1. jobs' = <<>>
        BY <3>1, <3>2 DEF Comlost
      <4>2. QED
        BY <1>4, <2>2, <3>1, <3>2, <4>1, <1>c DEF SM_ModeDown
    <3>3. CASE ~Comlost
      <4>1. InPreoperate /\ req = "devmode" /\ Ignore
        BY <1>4, <3>1, <3>3, Oldest DEF Takes, SM_ModeDown, InPreoperate, InOperate
      <4>2. Phase'
        BY <1>4, <3>1, <4>1 DEF SM_ModeDown, Ignore, Phase, InPreoperate
      <4>3. Once' /\ Agree' /\ Calls' /\ Pending'
        BY <1>4, <3>1, <4>1
        DEF SM_ModeDown, Ignore, Session, Once, Waking, Agree, Calls, Pending, InPreoperate, AtRest
      <4>4. QED
        BY <4>2, <4>3 DEF Session
    <3>4. QED
      BY <3>2, <3>3
  <2>3. QED
    BY <2>1, <2>2
<1>5. CASE SM_ReadWriteCnf
  <2>1. CASE Waking
    <3>1. /\ jobs = <<"CNF_WURQ", "STARTUP">> /\ jobs' = <<"STARTUP">> /\ mdState = "STARTUP_2"
          /\ UNCHANGED <<sm, req, dlAddr, app, dlMode, events, rwcmd>>
      BY <1>5, <2>1, Oldest DEF Takes, SM_ReadWriteCnf, Ignore, Waking, Enter, Comlost, ReadWrite
    <3>2. Phase'
      BY <1>5, <2>1, <3>1 DEF SM_ReadWriteCnf, Phase, Waking
    <3>3. Once' /\ Agree' /\ Calls' /\ Pending'
      BY <1>5, <2>1, <3>1 DEF SM_ReadWriteCnf, Session, Once, Waking, AtRest, Agree, Calls, Pending
    <3>4. QED
      BY <3>2, <3>3 DEF Session
  <2>2. CASE Reading /\ jobs = <<"CNF_OK">>
    <3>1. /\ mdState = "STARTUP_2" /\ mhState = "STARTUP_2" /\ mhInfo = "NONE"
          /\ rwcmd \notin Accesses /\ Tail(jobs) = <<>> /\ Head_ = "CNF_OK"
          /\ dlMode = "STARTUP" /\ sm = "Startup"
      BY <2>2, Oldest DEF Takes, Reading
    <3>2. pc \in {"loop", "timer"}
      BY <3>1 DEF Session, Calls, TypeOK
    <3>3. CASE ReadWrite(Tail(jobs)) /\ UNCHANGED <<sm, req, app, dlMode>>
      <4>1. jobs' = <<>> /\ rwcmd' \in Accesses /\ events' = events \cup {"MH"}
        BY <3>1, <3>3 DEF ReadWrite, Accesses
      <4>2. Phase'
        BY <1>5, <2>2, <3>1, <3>3, <4>1 DEF SM_ReadWriteCnf, Phase, Reading
      <4>3. Once' /\ Agree' /\ Calls' /\ Pending'
        BY <1>5, <3>1, <3>3, <4>1
        DEF SM_ReadWriteCnf, Session, Once, Waking, AtRest, Agree, Calls, Pending
      <4>4. QED
        BY <4>2, <4>3 DEF Session
    <3>4. ASSUME NEW p, NEW mode, Enter(p, mode),
                 \/ p = "waitPreoperate" /\ mode = "PREOPERATE"
                 \/ p = "waitOperate" /\ mode = "OPERATE"
          PROVE  Session'
      <4>1. /\ sm' = p /\ req' = "none" /\ dlMode' = mode /\ events' = events \cup {"MDH"}
            /\ jobs' = <<>> /\ UNCHANGED <<rwcmd, app>>
        BY <3>1, <3>4 DEF Enter, SetMode, WakeMDH
      <4>2. ToPreoperate' \/ ToOperate'
        BY <1>5, <3>1, <3>4, <4>1 DEF SM_ReadWriteCnf, ToPreoperate, ToOperate
      <4>3. Phase' /\ Once' /\ Agree' /\ Calls' /\ Pending'
        BY <1>5, <3>1, <3>2, <3>4, <4>1, <4>2
        DEF SM_ReadWriteCnf, Phase, Session, Once, Waking, AtRest, Agree, Calls, Pending
      <4>4. QED
        BY <4>3 DEF Session
    <3>5. QED
      BY <1>5, <3>1, <3>3, <3>4 DEF SM_ReadWriteCnf
  <2>3. CASE Reading /\ jobs # <<"CNF_OK">>
    <3>1. /\ sm = "Startup" /\ rwcmd \notin Accesses /\ Head_ = "CNF_NO_COMM"
          /\ dlMode = "STARTUP"
          /\ \/ mdState = "IDLE_0" /\ Tail(jobs) = <<"COMLOST">>
             \/ mdState = "STARTUP_2" /\ mhInfo = "COMLOST" /\ Tail(jobs) = <<>>
      BY <1>5, <2>3, Oldest DEF Takes, SM_ReadWriteCnf, Reading
    <3>2. Comlost /\ jobs' = Tail(jobs)
      BY <1>5, <3>1 DEF SM_ReadWriteCnf, Comlost
    <3>3. ~(Waking \/ AtRest)
      BY <3>1 DEF Waking, AtRest
    <3>4. QED
      BY <1>5, <3>1, <3>2, <3>3, <1>c DEF SM_ReadWriteCnf
  <2>4. Waking \/ Reading
    BY <1>5, Oldest DEF Takes, SM_ReadWriteCnf, Session, Phase, AtRest, Waking, Reading,
       ToPreoperate, InPreoperate, ToOperate, InOperate
  <2>5. QED
    BY <2>1, <2>2, <2>3, <2>4
<1>6. CASE SM_DevmodeCnf
  <2>1. /\ InPreoperate /\ req = "devmode" /\ rwcmd \notin Accesses
        /\ dlMode = "PREOPERATE"
        /\ \/ mdState = "IDLE_0" /\ Tail(jobs) = <<"COMLOST">>
           \/ mdState = "PREOPERATE_3" /\ Tail(jobs) = <<>>
        /\ Head_ = "DEVMODE_ERROR" => mdState = "IDLE_0" \/ mhInfo = "COMLOST"
    BY <1>6, <1>d, Oldest DEF Takes, DevmodeConfs, SM_DevmodeCnf, Session, Phase, AtRest,
       Waking, Reading, ToPreoperate, InPreoperate, ToOperate, InOperate
  <2>2. CASE Head_ = "DEVMODE_OK"
    <3>1. /\ sm' = "SMOperate" /\ req' = "none" /\ dlMode' = "OPERATE" /\ jobs' = Tail(jobs)
          /\ events' = events \cup {"MDH"} /\ UNCHANGED <<rwcmd, app>>
      BY <1>6, <2>1, <2>2 DEF SM_DevmodeCnf, InPreoperate, Enter, SetMode, WakeMDH
    <3>2. Phase'
      BY <1>6, <2>1, <3>1 DEF SM_DevmodeCnf, Phase, InOperate
    <3>3. Once' /\ Agree' /\ Pending'
      BY <1>6, <2>1, <3>1
      DEF SM_DevmodeCnf, Session, Once, Waking, AtRest, InPreoperate, Agree, Pending
    <3>4. Calls'
      BY <1>6, <2>1, <3>1 DEF SM_DevmodeCnf, Session, Calls, InPreoperate
    <3>5. QED
      BY <3>2, <3>3, <3>4 DEF Session
  <2>3. CASE Head_ = "DEVMODE_ERROR"
    <3>1. Comlost /\ jobs' = Tail(jobs)
      BY <1>6, <2>1, <2>3 DEF SM_DevmodeCnf, InPreoperate, Comlost
    <3>2. ~(Waking \/ AtRest)
      BY <2>1 DEF Waking, AtRest, InPreoperate
    <3>3. QED
      BY <1>6, <2>1, <2>3, <3>1, <3>2, <1>c DEF SM_DevmodeCnf
  <2>4. QED
    BY <1>6, <2>2, <2>3 DEF SM_DevmodeCnf
<1>7. QED
  BY <1>1, <1>2, <1>3, <1>4, <1>5, <1>6 DEF SmThread

\* The mode handler decides.
LEMMA SessionMdh ==
  ASSUME TypeOK, Session, HandleMDH
  PROVE  Session'
<1> USE DEF HandleMDH, Turn, smVars, timerVars
<1>0. /\ pc = "loop" /\ "MDH" \in todo /\ todo' = todo \ {"MDH"}
      /\ UNCHANGED <<events, dlMode, mhInfo, mhState, rwcmd, jobs, sm, req, dlAddr, app, timerOn>>
      /\ mdState # "ESTCOM_1" /\ app # "INACTIVE" /\ jobs # <<"SetPortConfig">>
      /\ cont = "none" /\ ModeHandler
  BY DEF Session, Once, Undisturbed, Calls
<1>1. CASE mdState = "IDLE_0" /\ dlMode = "STARTUP"
  <2>1. Waking
    BY <1>0, <1>1 DEF Session, Phase, AtRest, Reading, ToPreoperate, InPreoperate,
       ToOperate, InOperate, Once, Agree
  <2>2. ~wurq /\ jobs = <<>> /\ Undisturbed({}, {"MDH"})
    BY <1>0, <1>1, <2>1 DEF Session, Once, Undisturbed
  <2>3. /\ mdState' = "ESTCOM_1" /\ wurq' /\ ~cyc' /\ line' = "idle"
        /\ UNCHANGED <<pc, cont, mhcmd>>
    BY <1>0, <1>1, <2>2
    DEF ModeHandler, MD_Idle, MD_EstablishCom, MD_Startup, MD_Preoperate, MD_Operate
  <2>4. Waking'
    BY <1>0, <2>1, <2>2, <2>3 DEF Waking
  <2>5. Once'
    BY <1>0, <1>1, <2>1, <2>2, <2>3, <2>4 DEF Once, Undisturbed, Waking
  <2>6. Agree' /\ Calls' /\ Pending'
    BY <1>0, <1>1, <2>3 DEF Session, Agree, Calls, Pending
  <2>7. QED
    BY <2>4, <2>5, <2>6 DEF Session, Phase
<1>2. CASE mdState = "IDLE_0" /\ dlMode # "STARTUP"
  <2>1. UNCHANGED <<mdState, pc, cont, mhcmd, wurq, cyc, line>>
    BY <1>0, <1>2
    DEF ModeHandler, MD_Idle, MD_EstablishCom, MD_Startup, MD_Preoperate, MD_Operate
  <2>2. Phase'
    BY <1>0, <2>1 DEF Session, Phase, AtRest, Waking, Reading, ToPreoperate, InPreoperate,
       ToOperate, InOperate
  <2>3. Once' /\ Agree' /\ Calls' /\ Pending'
    BY <1>0, <1>2, <2>1 DEF Session, Once, Waking, Agree, Calls, Pending
  <2>4. QED
    BY <2>2, <2>3 DEF Session
<1>3. CASE mdState \in {"STARTUP_2", "PREOPERATE_3", "OPERATE_4"}
  <2>1. UNCHANGED <<mdState, wurq, cyc, line>>
    BY <1>0, <1>3
    DEF ModeHandler, MD_Idle, MD_EstablishCom, MD_Startup, MD_Preoperate, MD_Operate
  <2>2. /\ mdState = "STARTUP_2" => dlMode \in {"STARTUP", "INACTIVE"} \/ mhState = "STARTUP_2"
        /\ mdState = "STARTUP_2" /\ dlMode = "INACTIVE" => mhInfo = "COMLOST"
        /\ mdState = "STARTUP_2" /\ dlMode \in {"PREOPERATE", "OPERATE"} => mhInfo = "NONE"
        /\ mdState = "PREOPERATE_3" => dlMode # "STARTUP"
        /\ mdState = "PREOPERATE_3" /\ dlMode = "INACTIVE" => mhInfo = "COMLOST"
        /\ mdState = "OPERATE_4" => dlMode = "OPERATE"
        /\ sm = "Startup" => mhInfo = "COMLOST" /\ dlMode = "STARTUP" /\ mdState = "STARTUP_2"
        /\ Waking => FALSE
    BY <1>0, <1>3 DEF Session, Once, Phase, AtRest, Waking, Reading, ToPreoperate,
       InPreoperate, ToOperate, InOperate, Undisturbed, Agree
  <2>3. \/ UNCHANGED <<pc, cont, mhcmd>> /\ mhInfo # "COMLOST"
        \/ Configure("PREOPERATE", "goto_preoperate") /\ mdState = "STARTUP_2"
             /\ dlMode = "PREOPERATE"
        \/ Configure("OPERATE", "goto_operate") /\ dlMode = "OPERATE" /\ mhInfo = "NONE"
             /\ mdState \in {"STARTUP_2", "PREOPERATE_3"}
        \/ Configure("INACTIVE", "idle_INACTIVE") /\ mdState = "STARTUP_2"
             /\ dlMode = "INACTIVE"
        \/ Configure("OPERATE", "none") /\ mdState = "PREOPERATE_3" /\ dlMode = "INACTIVE"
        \/ Configure("INACTIVE", "idle_COMLOST") /\ mhInfo = "COMLOST"
    BY <1>0, <1>3, <2>2
    DEF ModeHandler, MD_Idle, MD_EstablishCom, MD_Startup, MD_Preoperate, MD_Operate, TypeOK
  <2>4. Phase'
    BY <1>0, <1>3, <2>1, <2>2, <2>3 DEF Session, Phase, AtRest, Waking, Reading, ToPreoperate,
       InPreoperate, ToOperate, InOperate
  <2>5. Once'
    BY <1>0, <1>3, <2>1, <2>2 DEF Session, Once, Waking
  <2>6. Agree'
    <3>1. mdState = "STARTUP_2" /\ mhInfo = "NONE" => mhState \in StartupStates
      BY <1>0 DEF Session, Agree, Calls, StartupStates
    <3>2. mdState = "PREOPERATE_3" /\ mhInfo = "NONE" => mhState \in PreoperateStates
      BY <1>0 DEF Session, Agree, Calls
    <3>3. QED
      BY <1>0, <1>3, <2>1, <2>2, <2>3, <3>1, <3>2
      DEF Session, Agree, Configure, StartupStates
  <2>7. Calls'
    <3>1. mdState = "PREOPERATE_3" /\ mhInfo = "NONE" => mhState \in PreoperateStates
      BY <1>0 DEF Session, Agree, Calls
    <3>2. QED
      BY <1>0, <1>3, <2>1, <2>2, <2>3, <3>1 DEF Session, Calls, Configure
  <2>8. Pending'
    BY <1>0, <1>3, <2>1, <2>2, <2>3 DEF Session, Pending, Configure
  <2>9. QED
    BY <2>4, <2>5, <2>6, <2>7, <2>8 DEF Session
<1>4. QED
  BY <1>0, <1>1, <1>2, <1>3 DEF TypeOK, MdStates

\* The mode handler acts on what it decided, once the message handler has run.
LEMMA SessionFinish ==
  ASSUME TypeOK, Session, Finish
  PROVE  Session'
<1> USE DEF Finish, smVars, timerVars, odVars, chipVars
<1>0. /\ pc = "finish" /\ pc' = "loop" /\ cont' = "none"
      /\ UNCHANGED <<events, todo, dlMode, mhState, mhcmd, rwcmd, timerOn, wurq, cyc, line,
                     sm, req, dlAddr, app>>
      /\ mdState \in {"STARTUP_2", "PREOPERATE_3", "OPERATE_4"}
      /\ app # "INACTIVE" /\ jobs # <<"SetPortConfig">> /\ ~Waking
      /\ "WURQ" \notin events \cup todo /\ ~wurq
  BY DEF Session, Once, Undisturbed, Calls, Waking
<1>s. sm = "Startup" => "MDH" \notin events \cup todo
  BY <1>0 DEF Session, Once
<1>1. CASE cont = "none"
  <2>1. UNCHANGED <<mdState, mhInfo, jobs>>
    BY <1>1
  <2>2. Phase'
    BY <1>0, <1>1, <2>1 DEF Session, Calls, Phase, AtRest, Waking, Reading, ToPreoperate,
       InPreoperate, ToOperate, InOperate
  <2>3. Once' /\ Agree' /\ Calls' /\ Pending'
    BY <1>0, <1>1, <1>s, <2>1 DEF Session, Once, Waking, Agree, Calls, Pending
  <2>4. QED
    BY <2>2, <2>3 DEF Session
<1>2. CASE cont = "goto_preoperate"
  <2>1. /\ ToPreoperate /\ jobs = <<>> /\ mhState = "PREOPERATE_6" /\ mhInfo = "NONE"
        /\ mhcmd = "PREOPERATE"
    BY <1>0, <1>2 DEF Session, Calls, Phase, AtRest, Waking, Reading, ToPreoperate,
       InPreoperate, ToOperate, InOperate
  <2>2. mdState' = "PREOPERATE_3" /\ jobs' = <<"PREOPERATE">> /\ mhInfo' = "NONE"
    BY <1>2, <2>1 DEF Post
  <2>3. Phase'
    BY <1>0, <2>1, <2>2 DEF Phase, ToPreoperate
  <2>4. Once' /\ Agree' /\ Calls' /\ Pending'
    BY <1>0, <1>2, <1>s, <2>1, <2>2
    DEF Session, Once, Waking, Agree, Calls, Pending, PreoperateStates
  <2>5. QED
    BY <2>3, <2>4 DEF Session
<1>3. CASE cont = "goto_operate"
  <2>1. /\ ToOperate \/ InOperate
        /\ jobs = <<>> /\ mhcmd = "OPERATE"
        /\ mhInfo = "NONE" => mhState \in OperateStates
        /\ mhInfo = "COMLOST" => "MDH" \in events \cup todo /\ mhState = "INACTIVE_0"
    BY <1>0, <1>3 DEF Session, Calls, Agree, Pending, Phase, AtRest, Waking, Reading,
       ToPreoperate, InPreoperate, ToOperate, InOperate, OperateStates
  <2>2. mdState' = "OPERATE_4" /\ jobs' = <<"OPERATE">> /\ mhInfo' = mhInfo
    BY <1>3, <2>1 DEF Post
  <2>3. Phase'
    BY <1>0, <2>1, <2>2 DEF Phase, ToOperate, InOperate
  <2>4. Once' /\ Agree' /\ Calls' /\ Pending'
    BY <1>0, <1>3, <1>s, <2>1, <2>2
    DEF Session, Once, Waking, Agree, Calls, Pending, OperateStates
  <2>5. QED
    BY <2>3, <2>4 DEF Session
<1>4. CASE cont \in {"idle_INACTIVE", "idle_COMLOST"}
  <2>1. /\ mhcmd = "INACTIVE" /\ mhInfo = "COMLOST" /\ mhState = "INACTIVE_0"
        /\ cont = "idle_INACTIVE" => AtRest
    BY <1>0, <1>4 DEF Session, Calls, Agree, Phase, AtRest, Waking, Reading, ToPreoperate,
       InPreoperate, ToOperate, InOperate
  <2>2. /\ mdState' = "IDLE_0" /\ mhInfo' = "NONE"
        /\ \/ AtRest /\ jobs' \in {Append(jobs, "COMLOST"), Append(jobs, "INACTIVE")}
           \/ jobs' = Append(jobs, "COMLOST")
    BY <1>4, <2>1 DEF goto_idle, Post
  <2>3. Phase'
    <3>1. CASE AtRest
      <4>0. jobs = <<>>
        BY <1>0, <3>1 DEF AtRest
      <4>1. jobs' \in {<<"COMLOST">>, <<"INACTIVE">>}
        BY <2>2, <4>0
      <4>2. QED
        BY <1>0, <2>2, <3>1, <4>1 DEF Phase, AtRest
    <3>2. CASE Reading
      BY <1>0, <2>1, <2>2, <3>2 DEF Phase, AtRest, Reading
    <3>3. CASE ToPreoperate
      BY <1>0, <2>1, <2>2, <3>3 DEF Phase, AtRest, ToPreoperate
    <3>4. CASE InPreoperate
      BY <1>0, <2>1, <2>2, <3>4 DEF Phase, AtRest, InPreoperate
    <3>5. CASE ToOperate
      BY <1>0, <2>1, <2>2, <3>5 DEF Phase, AtRest, ToOperate
    <3>6. CASE InOperate
      BY <1>0, <2>1, <2>2, <3>6 DEF Phase, AtRest, InOperate
    <3>7. QED
      BY <1>0, <3>1, <3>2, <3>3, <3>4, <3>5, <3>6 DEF Session, Phase
  <2>4. jobs' # <<"SetPortConfig">> /\ ~Waking'
    <3>1. \A job \in {"COMLOST", "INACTIVE"} : jobs' = Append(jobs, job) =>
             jobs'[Len(jobs')] = job
      BY DEF TypeOK
    <3>2. jobs' # <<"SetPortConfig">>
      BY <2>2, <3>1
    <3>3. ~Waking'
      BY <1>0, <1>4, <2>1, <2>2 DEF Session, Phase, Waking, AtRest, Reading, ToPreoperate,
         InPreoperate, ToOperate, InOperate
    <3>4. QED
      BY <3>2, <3>3
  <2>5. Once' /\ Agree' /\ Calls' /\ Pending'
    BY <1>0, <1>s, <2>1, <2>2, <2>4 DEF Session, Once, Agree, Calls, Pending
  <2>6. QED
    BY <2>3, <2>5 DEF Session
<1>5. QED
  BY <1>0, <1>1, <1>2, <1>3, <1>4 DEF Session, Calls

-----------------------------------------------------------------------------
(* One session.                                                             *)

\* From Init on, a port that is not reset is in one of the phases of a session, in which the
\* mode handler, the message handler, SM and AL wait for one another in one way only
\* (iolink_dl.c, dl_main and the handlers it runs; iolink_sm.c, the callbacks of the link).
THEOREM SessionKept == ASSUME NoRetry PROVE Spec => []Session
<1>1. Init => Session
  BY DEF Init, Session, Phase, AtRest, Once, Waking, Undisturbed, Agree, Calls, Pending,
     Accesses, StartupStates
<1>2. TypeOK /\ OneDevmodeConf /\ Session /\ [Next]_vars => Session'
  <2> SUFFICES ASSUME TypeOK, OneDevmodeConf, Session, [Next]_vars
               PROVE  Session'
    OBVIOUS
  <2>1. CASE Wait
    <3> USE <2>1 DEF Wait, modeVars, odVars, timerVars, chipVars, smVars
    <3>1. Phase' /\ Agree' /\ Calls' /\ Pending'
      BY DEF Session, Phase, AtRest, Waking, Reading, ToPreoperate, InPreoperate,
         ToOperate, InOperate, Agree, Calls, Pending
    <3>2. Once'
      BY DEF Session, Once, Waking, AtRest, Undisturbed
    <3>3. QED
      BY <3>1, <3>2 DEF Session
  <2>2. ASSUME NEW c, NEW e \in {"RXRDY", "RXERR", "MH", "TIMEOUT"}, Turn(e),
               MessageHandler(c), pc' \in {"loop", "timer"},
               UNCHANGED <<cont, mdState, dlMode, mhcmd, wurq, smVars>>
        PROVE  Session'
    <3>1. MhRun(c)
      BY <2>2 DEF MhRun, Turn
    <3>2. QED
      BY <3>1, SessionMh
  <2>3. CASE RxReady \/ HandleError \/ HandleMH
    <3>1. pc' \in {"loop", "timer"} /\ UNCHANGED <<cont, mdState, dlMode, mhcmd, wurq, smVars>>
      BY <2>3 DEF RxReady, HandleError, HandleMH, Turn
    <3>2. PICK e \in {"RXRDY", "RXERR", "MH", "TIMEOUT"}, c \in {"data", "error", "none"} :
            Turn(e) /\ MessageHandler(c)
      BY <2>3 DEF RxReady, HandleError, HandleMH
    <3>3. QED
      BY <2>2, <3>1, <3>2
  <2>4. CASE HandleTimeout
    <3>1. CASE timerType = "TINITCYC_MH"
      <4>1. /\ Turn("TIMEOUT") /\ MessageHandler("timeout") /\ pc' \in {"loop", "timer"}
            /\ UNCHANGED <<cont, mdState, dlMode, mhcmd, wurq, smVars>>
        BY <2>4, <3>1 DEF HandleTimeout
      <4>2. QED
        BY <2>2, <4>1
    <3>2. CASE timerType # "TINITCYC_MH"
      <4> USE <2>4, <3>2 DEF HandleTimeout, Turn, mhVars, odVars, timerVars, smVars
      <4>1. Phase' /\ Agree' /\ Calls' /\ Pending'
        BY DEF Session, Phase, AtRest, Waking, Reading, ToPreoperate, InPreoperate,
           ToOperate, InOperate, Agree, Calls, Pending
      <4>2. Once'
        BY DEF Session, Once, Waking, AtRest, Undisturbed
      <4>3. QED
        BY <4>1, <4>2 DEF Session
    <3>3. QED
      BY <3>1, <3>2
  <2>5. CASE MhConf
    <3>1. MhRun("none")
      BY <2>5 DEF MhConf, MhRun
    <3>2. QED
      BY <3>1, SessionMh
  <2>6. CASE TimerDone
    <3> USE <2>6 DEF TimerDone, modeVars, odVars, timerVars, chipVars, smVars
    <3>1. Phase' /\ Agree' /\ Calls' /\ Pending'
      BY DEF Session, Phase, AtRest, Waking, Reading, ToPreoperate, InPreoperate,
         ToOperate, InOperate, Agree, Calls, Pending
    <3>2. Once'
      BY DEF Session, Once, Waking, AtRest, Undisturbed
    <3>3. QED
      BY <3>1, <3>2 DEF Session
  <2>7. CASE WurqRecv
    <3> USE <2>7 DEF WurqRecv, Turn, odVars, timerVars, chipVars, smVars
    <3>1. /\ mdState = "ESTCOM_1" /\ Waking /\ jobs = <<>> /\ ~wurq /\ Undisturbed({}, {"WURQ"})
          /\ mhcmd = "INACTIVE" /\ mhInfo = "NONE" /\ mhState = "INACTIVE_0" /\ cont = "none"
      BY DEF Session, Once, Undisturbed, Waking, Agree, Calls
    <3>2. /\ pc' = "loop" /\ todo' = {} /\ ~wurq' /\ ~cyc'
          /\ UNCHANGED <<dlMode, mhcmd, rwcmd, timerOn, line, dlAddr, app, sm, req, cont>>
      BY <3>1 DEF Undisturbed
    <3>3. CASE mdState' = "IDLE_0"
      <4>1. jobs' = <<"INACTIVE">> /\ mhInfo' = "NONE" /\ mhState' = mhState /\ events' = {}
        BY <3>1, <3>3 DEF Post, Undisturbed
      <4>2. Waking' /\ Phase'
        BY <3>1, <3>2, <3>3, <4>1 DEF Phase, Waking
      <4>3. Once'
        BY <3>1, <3>2, <3>3, <4>1, <4>2 DEF Once, Waking, Undisturbed
      <4>4. Agree' /\ Calls' /\ Pending'
        BY <3>1, <3>2, <3>3, <4>1 DEF Agree, Calls, Pending
      <4>5. QED
        BY <4>2, <4>3, <4>4 DEF Session
    <3>4. CASE mdState' = "STARTUP_2"
      <4>1. /\ jobs' = <<"CNF_WURQ", "STARTUP">> /\ mhInfo' = "NONE" /\ mhState' = "STARTUP_2"
            /\ events' = {"MH"}
        BY <3>1, <3>4 DEF Undisturbed
      <4>2. Waking' /\ Phase'
        BY <3>1, <3>2, <3>4, <4>1 DEF Phase, Waking
      <4>3. Once'
        BY <3>1, <3>2, <3>4, <4>1, <4>2 DEF Once, Waking, AtRest
      <4>4. Agree' /\ Calls' /\ Pending'
        BY <3>1, <3>2, <3>4, <4>1 DEF Agree, Calls, Pending, StartupStates
      <4>5. QED
        BY <4>2, <4>3, <4>4 DEF Session
    <3>5. QED
      BY <3>3, <3>4
  <2>8. CASE HandleMDH
    BY <2>8, SessionMdh
  <2>9. CASE Finish
    BY <2>9, SessionFinish
  <2>10. CASE Environment
    <3> USE <2>10 DEF Environment, dlVars, modeVars, odVars, timerVars, chipVars, smVars
    <3>1. Phase' /\ Agree' /\ Calls' /\ Pending'
      BY DEF Answer, Lose, Cycle, WakeUpDone, TimerFires, Session, Phase, AtRest, Waking,
         Reading, ToPreoperate, InPreoperate, ToOperate, InOperate, Agree, Calls, Pending
    <3>2. Once'
      <4>1. CASE Answer
        BY <4>1 DEF Answer, Session, Once, Waking, AtRest, Undisturbed
      <4>2. CASE Lose \/ Cycle
        BY <4>2 DEF Lose, Cycle, Session, Once, Waking, AtRest, Undisturbed
      <4>3. CASE WakeUpDone
        BY <4>3 DEF WakeUpDone, Session, Once, Waking, AtRest, Undisturbed
      <4>4. CASE TimerFires
        BY <4>4 DEF TimerFires, Session, Once, Waking, AtRest, Undisturbed
      <4>5. QED
        BY <4>1, <4>2, <4>3, <4>4
    <3>3. QED
      BY <3>1, <3>2 DEF Session
  <2>11. CASE SmThread
    BY <2>11, SessionSm
  <2>12. CASE App_Configure
    <3> USE <2>12 DEF App_Configure, modeVars, odVars, timerVars, chipVars
    <3>1. AtRest /\ mdState = "IDLE_0" /\ jobs = <<>> /\ ~wurq /\ Undisturbed({}, {})
      BY DEF Session, Once
    <3>2. jobs' = <<"SetPortConfig">> /\ app' = "STARTING"
      BY <3>1 DEF Post
    <3>3. Phase' /\ Once'
      BY <3>1, <3>2 DEF Phase, AtRest, Once, Waking, Undisturbed
    <3>4. Agree' /\ Calls' /\ Pending'
      BY DEF Session, Agree, Calls, Pending
    <3>5. QED
      BY <3>3, <3>4 DEF Session
  <2>13. CASE App_Start \/ App_Tsd
    <3> USE <2>13 DEF App_Start, App_Tsd, modeVars, odVars, timerVars, chipVars
    <3>1. Phase' /\ Agree' /\ Calls' /\ Pending'
      BY DEF Session, Phase, AtRest, Waking, Reading, ToPreoperate, InPreoperate,
         ToOperate, InOperate, Agree, Calls, Pending
    <3>2. Once'
      BY DEF Session, Once, Waking, AtRest, Undisturbed
    <3>3. QED
      BY <3>1, <3>2 DEF Session
  <2>14. CASE App_Retry
    BY <2>14 DEF App_Retry, NoRetry
  <2> USE DEF smUnchanged
  <2>15. CASE SM_WriteDevmode
    <3> USE <2>15 DEF SM_WriteDevmode, chipVars
    <3>1. InPreoperate /\ req = "none" /\ req' = "devmode" /\ mdState # "STARTUP_2"
      BY DEF Session, Phase, AtRest, Waking, Reading, ToPreoperate, InPreoperate,
         ToOperate, InOperate
    <3>2. Phase'
      BY <3>1 DEF Phase, InPreoperate
    <3>3. Once' /\ Agree' /\ Calls' /\ Pending'
      BY <3>1 DEF Session, Once, Waking, AtRest, Undisturbed, Agree, Calls, Pending, InPreoperate
    <3>4. QED
      BY <3>2, <3>3 DEF Session
  <2>16. CASE AL_ReadWriteParam \/ AL_ISDUTransport
    <3> USE <2>16 DEF AL_ReadWriteParam, AL_ISDUTransport, chipVars, smVars
    <3>1. /\ InPreoperate \/ InOperate
          /\ rwcmd' \notin Accesses /\ events \subseteq events' /\ events' \subseteq events \cup {"MH"}
          /\ UNCHANGED <<mdState, mhInfo, dlMode, pc, cont, mhState, mhcmd, jobs, todo>>
      BY DEF Session, Phase, AtRest, Waking, Reading, ToPreoperate, InPreoperate,
         ToOperate, InOperate, Accesses
    <3>2. Phase'
      BY <3>1 DEF Phase, InPreoperate, InOperate
    <3>3. Once' /\ Agree' /\ Calls' /\ Pending'
      BY <3>1 DEF Session, Once, Waking, AtRest, Undisturbed, Agree, Calls, Pending,
         InPreoperate, InOperate
    <3>4. QED
      BY <3>2, <3>3 DEF Session
  <2>17. CASE UNCHANGED vars
    <3> USE <2>17 DEF vars, modeVars, odVars, timerVars, chipVars, smVars
    <3>1. Phase' /\ Agree' /\ Calls' /\ Pending'
      BY DEF Session, Phase, AtRest, Waking, Reading, ToPreoperate, InPreoperate,
         ToOperate, InOperate, Agree, Calls, Pending
    <3>2. Once'
      BY DEF Session, Once, Waking, AtRest, Undisturbed
    <3>3. QED
      BY <3>1, <3>2 DEF Session
  <2>18. QED
    BY <2>1, <2>3, <2>4, <2>5, <2>6, <2>7, <2>8, <2>9, <2>10, <2>11, <2>12, <2>13, <2>14,
       <2>15, <2>16, <2>17
    DEF Next, DlThread, Application
<1>3. QED
  BY <1>1, <1>2, TypeCorrect, DevmodeConfirmedOnce, PTL DEF Spec

-----------------------------------------------------------------------------
(* What the runs check of a session.                                        *)

\* The session and the types, for the theorems below.
LEMMA SessionTypes == ASSUME NoRetry PROVE Spec => [](TypeOK /\ Session)
BY SessionKept, TypeCorrect, PTL

\* Between two handlers the states of the two machines of iolink_dl.c agree.
THEOREM HandlersAgree == ASSUME NoRetry PROVE Spec => []ModeAgreement
<1>1. TypeOK /\ Session => ModeAgreement
  <2> SUFFICES ASSUME TypeOK, Session PROVE ModeAgreement
    OBVIOUS
  <2> QED
    BY DEF TypeOK, Session, Agree, Calls, ModeAgreement, StartupStates, PreoperateStates
<1>2. QED
  BY <1>1, SessionTypes, PTL

\* A loss of communication is never left without a run of the mode handler to come.
THEOREM LossNotStranded == ASSUME NoRetry PROVE Spec => []NoStrandedLoss
<1>1. Session => NoStrandedLoss
  BY DEF Session, Calls, Pending, NoStrandedLoss
<1>2. QED
  BY <1>1, SessionKept, PTL

\* The reads among the jobs of a queue of a session.
LEMMA ReadsInQueue ==
  /\ Cardinality(Positions(<<>>, Reads)) = 0
  /\ \A a : Cardinality(Positions(<<a>>, Reads)) = IF a \in Reads THEN 1 ELSE 0
  /\ \A a, b : b \notin Reads =>
       Cardinality(Positions(<<a, b>>, Reads)) = IF a \in Reads THEN 1 ELSE 0
<1>0. \A q : Positions(q, Reads) = {} => Cardinality(Positions(q, Reads)) = 0
  BY FS_EmptySet
<1>1. \A q : Positions(q, Reads) = {1} => Cardinality(Positions(q, Reads)) = 1
  BY FS_Singleton
<1>2. Positions(<<>>, Reads) = {}
  BY DEF Positions
<1>3. ASSUME NEW a PROVE Positions(<<a>>, Reads) = IF a \in Reads THEN {1} ELSE {}
  BY DEF Positions
<1>4. ASSUME NEW a, NEW b, b \notin Reads
      PROVE  Positions(<<a, b>>, Reads) = IF a \in Reads THEN {1} ELSE {}
  BY <1>4 DEF Positions
<1>5. QED
  BY <1>0, <1>1, <1>2, <1>3, <1>4

\* While SM reads the parameter page exactly one access is under way, in the message
\* handler or confirmed in the queue, and otherwise none.
THEOREM OneAccessAtATime == ASSUME NoRetry PROVE Spec => []OneAccess
<1>1. Session => OneAccess
  <2> SUFFICES ASSUME Session PROVE OneAccess
    OBVIOUS
  <2>1. CASE Reading
    BY <2>1, ReadsInQueue DEF Reading, OneAccess, Accesses, Reads
  <2>2. CASE AtRest \/ Waking \/ ToPreoperate \/ InPreoperate \/ ToOperate \/ InOperate
    BY <2>2, ReadsInQueue DEF AtRest, Waking, ToPreoperate, InPreoperate, ToOperate,
       InOperate, OneAccess, Accesses, Reads
  <2>3. QED
    BY <2>1, <2>2 DEF Session, Phase
<1>2. QED
  BY <1>1, SessionKept, PTL

-----------------------------------------------------------------------------
(* The data link of a session implements LinkService.                       *)

\* The mode indications of the queues of a session.
LEMMA IndsOfQueue ==
  /\ ModeIndsOf(<<>>) = <<>>
  /\ \A a : ModeIndsOf(<<a>>) = IF a \in ModeInds THEN <<a>> ELSE <<>>
  /\ \A a, b : ModeIndsOf(<<a, b>>) =
       IF a \in ModeInds THEN IF b \in ModeInds THEN <<a, b>> ELSE <<a>>
                         ELSE IF b \in ModeInds THEN <<b>> ELSE <<>>
<1>0. /\ Cardinality({}) = 0 /\ Cardinality({1}) = 1 /\ Cardinality({2}) = 1
      /\ Cardinality({1, 2}) = 2
  <2>1. Cardinality({}) = 0
    BY FS_EmptySet
  <2>2. \A x : IsFiniteSet({x}) /\ Cardinality({x}) = 1
    BY FS_Singleton
  <2>3. \A S : S = {1} => Cardinality(S \cup {2}) = Cardinality(S) + 1
    <3> SUFFICES ASSUME NEW S, S = {1} PROVE Cardinality(S \cup {2}) = Cardinality(S) + 1
      OBVIOUS
    <3>1. IsFiniteSet(S)
      BY <2>2, Zenon
    <3>2. 2 \notin S
      OBVIOUS
    <3> QED
      BY <3>1, <3>2, FS_AddElement, Zenon
  <2>4. {1} \cup {2} = {1, 2}
    OBVIOUS
  <2>5. Cardinality({1, 2}) = 2
    <3>1. Cardinality({1} \cup {2}) = Cardinality({1}) + 1
      BY <2>3, Zenon
    <3>2. Cardinality({1, 2}) = Cardinality({1}) + 1
      BY <3>1, <2>4, Zenon
    <3>3. Cardinality({1}) = 1
      BY <2>2, Zenon
    <3>4. QED
      BY <3>2, <3>3
  <2>6. QED
    BY <2>1, <2>2, <2>5
<1>1. Rank({1}, 1) = 1 /\ Rank({2}, 2) = 1 /\ Rank({1, 2}, 1) = 1 /\ Rank({1, 2}, 2) = 2
  <2>1. /\ {j \in {1} : j <= 1} = {1} /\ {j \in {2} : j <= 2} = {2}
        /\ {j \in {1, 2} : j <= 1} = {1} /\ {j \in {1, 2} : j <= 2} = {1, 2}
    OBVIOUS
  <2>2. QED
    <3>1. /\ Rank({1}, 1) = Cardinality({j \in {1} : j <= 1})
          /\ Rank({2}, 2) = Cardinality({j \in {2} : j <= 2})
          /\ Rank({1, 2}, 1) = Cardinality({j \in {1, 2} : j <= 1})
          /\ Rank({1, 2}, 2) = Cardinality({j \in {1, 2} : j <= 2})
      BY DEF Rank
    <3>2. QED
      BY <3>1, <2>1, <1>0
<1>2. Nth({1}, 1) = 1 /\ Nth({2}, 1) = 2 /\ Nth({1, 2}, 1) = 1 /\ Nth({1, 2}, 2) = 2
  <2>1. /\ {j \in {1} : Rank({1}, j) = 1} = {1} /\ {j \in {2} : Rank({2}, j) = 1} = {2}
        /\ {j \in {1, 2} : Rank({1, 2}, j) = 1} = {1}
        /\ {j \in {1, 2} : Rank({1, 2}, j) = 2} = {2}
    BY <1>1
  <2>2. QED
    BY <2>1 DEF Nth
<1>3. \A q : ModeIndsOf(q) = [k \in 1..Cardinality(Positions(q, ModeInds)) |->
                                q[Nth(Positions(q, ModeInds), k)]]
  BY DEF ModeIndsOf, SelectAt
<1>4. \A q : Positions(q, ModeInds) = {} => ModeIndsOf(q) = <<>>
  BY <1>0, <1>3
<1>5. ASSUME NEW q, NEW i \in {1, 2}, Positions(q, ModeInds) = {i}
      PROVE  ModeIndsOf(q) = <<q[i]>>
  <2>1. ModeIndsOf(q) = [k \in 1..1 |-> q[Nth({i}, k)]]
    BY <1>0, <1>3, <1>5
  <2>2. \A k \in 1..1 : q[Nth({i}, k)] = q[i]
    BY <1>2
  <2>3. [k \in 1..1 |-> q[i]] = <<q[i]>>
    OBVIOUS
  <2>4. QED
    BY <2>1, <2>2, <2>3
<1>6. ASSUME NEW q, Positions(q, ModeInds) = {1, 2}
      PROVE  ModeIndsOf(q) = <<q[1], q[2]>>
  <2>1. ModeIndsOf(q) = [k \in 1..2 |-> q[Nth({1, 2}, k)]]
    BY <1>0, <1>3, <1>6
  <2>2. \A k \in 1..2 : q[Nth({1, 2}, k)] = <<q[1], q[2]>>[k]
    BY <1>2
  <2>3. [k \in 1..2 |-> <<q[1], q[2]>>[k]] = <<q[1], q[2]>>
    OBVIOUS
  <2>4. QED
    BY <2>1, <2>2, <2>3
<1>7. Positions(<<>>, ModeInds) = {}
  BY DEF Positions
<1>8. \A a : Positions(<<a>>, ModeInds) = IF a \in ModeInds THEN {1} ELSE {}
  BY DEF Positions
<1>9. \A a, b : Positions(<<a, b>>, ModeInds) =
         IF a \in ModeInds THEN IF b \in ModeInds THEN {1, 2} ELSE {1}
                           ELSE IF b \in ModeInds THEN {2} ELSE {}
  BY DEF Positions
<1>10. QED
  BY <1>4, <1>5, <1>6, <1>7, <1>8, <1>9

\* A job behind none, and behind one.
LEMMA AppendOne ==
  ASSUME NEW S, NEW a \in S, NEW b \in S
  PROVE  Append(<<>>, b) = <<b>> /\ Append(<<a>>, b) = <<a, b>>
<1> DEFINE s == Append(<<a>>, b)
           t == <<a, b>>
<1>1. s \in Seq(S) /\ t \in Seq(S) /\ Len(s) = Len(t)
  OBVIOUS
<1>2. Len(s) = 2 /\ \A i \in 1..2 : s[i] = t[i]
  OBVIOUS
<1>3. s = t
  <2> HIDE DEF s, t
  <2>1. QED
    BY <1>1, <1>2, SeqEqual
<1>4. Append(<<>>, b) = <<b>>
  OBVIOUS
<1>5. QED
  BY <1>3, <1>4

\* The link's mode in LinkService, state by state.
LEMMA ModeOfLink ==
  /\ LinkOf["IDLE_0"] = "Down" /\ LinkOf["ESTCOM_1"] = "WakeUp"
  /\ LinkOf["STARTUP_2"] = "Startup" /\ LinkOf["PREOPERATE_3"] = "Preoperate"
  /\ LinkOf["OPERATE_4"] = "Operate"
BY DEF LinkOf

\* A run of the message handler posts no mode indication.
LEMMA MhIndicatesNothing ==
  ASSUME TypeOK, OneDevmodeConf, Session, Session', NEW c, MhRun(c)
  PROVE  ModeIndsOf(jobs') = ModeIndsOf(jobs)
<1>e. mdState \in {"IDLE_0", "STARTUP_2", "PREOPERATE_3", "OPERATE_4"}
  BY DEF MhRun, Session, Once, Undisturbed, TypeOK, MdStates
<1>1. CASE mhState = "INACTIVE_0"
  BY <1>1, MhInactive DEF MhRun
<1>2. CASE mhState # "INACTIVE_0" /\ mdState = "OPERATE_4"
  <2>1. /\ rwcmd \notin Accesses /\ mcmd = "NONE"
        /\ mhcmd = "OPERATE" /\ mhState \in OperateStates
    BY <1>2, PendingCommand DEF Session, Agree, TypeOK, Phase, AtRest, Waking, Reading,
       ToPreoperate, InPreoperate, ToOperate, InOperate
  <2>2. RunsOn \/ GivesUp
    BY <2>1, MhRunning DEF MhRun
  <2>3. QED
    BY <2>1, <2>2 DEF RunsOn, GivesUp
<1>3. CASE mhState # "INACTIVE_0" /\ mdState \in {"STARTUP_2", "PREOPERATE_3"}
  <2> USE <1>3 DEF MhRun, smVars
  <2>1. CASE Waking \/ Waking'
    <3>1. /\ jobs \in {<<"CNF_WURQ", "STARTUP">>, <<"STARTUP">>}
          /\ jobs' \in {<<"CNF_WURQ", "STARTUP">>, <<"STARTUP">>}
      BY <2>1 DEF Session, Phase, AtRest, Waking, Reading, ToPreoperate, InPreoperate,
         ToOperate, InOperate
    <3>2. /\ ModeIndsOf(<<"CNF_WURQ", "STARTUP">>) = <<"STARTUP">>
          /\ ModeIndsOf(<<"STARTUP">>) = <<"STARTUP">>
      BY IndsOfQueue DEF ModeInds
    <3>3. QED
      BY <3>1, <3>2
  <2>2. CASE ToPreoperate \/ ToPreoperate'
    BY <2>2, IndsOfQueue DEF Session, Phase, AtRest, Waking, Reading, ToPreoperate,
       InPreoperate, ToOperate, InOperate, ModeInds
  <2>3. CASE ~(Waking \/ ToPreoperate \/ Waking' \/ ToPreoperate')
    <3>1. /\ jobs \in {<<>>, <<"CNF_OK">>, <<"CNF_NO_COMM">>, <<"DEVMODE_OK">>, <<"DEVMODE_ERROR">>}
          /\ jobs' \in {<<>>, <<"CNF_OK">>, <<"CNF_NO_COMM">>, <<"DEVMODE_OK">>, <<"DEVMODE_ERROR">>}
      BY <2>3 DEF Session, Phase, AtRest, Reading, InPreoperate, ToOperate, InOperate
    <3>2. QED
      BY <3>1, IndsOfQueue DEF ModeInds
  <2>4. QED
    BY <2>1, <2>2, <2>3
<1>4. CASE mhState # "INACTIVE_0" /\ mdState = "IDLE_0"
  BY <1>4 DEF Session, Agree
<1>5. QED
  BY <1>e, <1>1, <1>2, <1>3, <1>4

\* The queue of a session that SM takes a job from, and what is left.
LEMMA SmTakesInds ==
  ASSUME TypeOK, OneDevmodeConf, Session, SmThread
  PROVE  /\ mdState' = mdState
         /\ \/ ModeIndsOf(jobs') = ModeIndsOf(jobs)
            \/ ModeIndsOf(jobs) # <<>> /\ ModeIndsOf(jobs') = Tail(ModeIndsOf(jobs))
<1>1. mdState' = mdState
  BY DEF SmThread, SM_SetPortConfig, SM_ModeStartup, SM_ModeUp, SM_ModeDown,
     SM_ReadWriteCnf, SM_DevmodeCnf, deliverUnchanged, smUnchanged
<1>2. \/ jobs' = Tail(jobs)
      \/ Head_ \in {"STARTUP", "CNF_OK"} /\ jobs' \in {Append(Tail(jobs), "CNF_OK"),
                                                     Append(Tail(jobs), "CNF_CONFLICT")}
  BY DEF SmThread, SM_SetPortConfig, SM_ModeStartup, SM_ModeUp, SM_ModeDown,
     SM_ReadWriteCnf, SM_DevmodeCnf, ReadWrite, Ignore, Enter, Comlost, Handled
<1>3. jobs # <<>>
  BY DEF Head_, SmThread, SM_SetPortConfig, SM_ModeStartup, SM_ModeUp, SM_ModeDown,
     SM_ReadWriteCnf, SM_DevmodeCnf
<1>4. \/ \E a \in Jobs : jobs = <<a>> /\ a \in {"STARTUP", "CNF_OK"}
      \/ \E a \in Jobs : jobs = <<a>> /\ a \notin {"STARTUP", "CNF_OK"}
      \/ \E a \in {"PREOPERATE", "OPERATE"} : jobs = <<a, "COMLOST">>
      \/ \E a \in {"CNF_NO_COMM", "DEVMODE_OK", "DEVMODE_ERROR"} : jobs = <<a, "COMLOST">>
      \/ jobs = <<"CNF_WURQ", "STARTUP">>
  BY <1>3 DEF Session, Phase, AtRest, Waking, Reading, ToPreoperate, InPreoperate,
     ToOperate, InOperate, Jobs
<1>5. ASSUME NEW a \in Jobs, jobs = <<a>>, a \in {"STARTUP", "CNF_OK"}
      PROVE  \/ ModeIndsOf(jobs') = ModeIndsOf(jobs)
             \/ ModeIndsOf(jobs) # <<>> /\ ModeIndsOf(jobs') = Tail(ModeIndsOf(jobs))
  <2>1. Tail(<<a>>) = <<>> /\ \A x : Append(<<>>, x) = <<x>> /\ <<a>> # <<>>
    OBVIOUS
  <2>2. jobs' \in {<<>>, <<"CNF_OK">>, <<"CNF_CONFLICT">>}
    BY <1>2, <1>5, <2>1
  <2>3. ModeIndsOf(jobs') = <<>>
    BY <2>2, IndsOfQueue DEF ModeInds
  <2>4. ModeIndsOf(jobs) \in {<<>>, <<a>>}
    BY <1>5, IndsOfQueue
  <2>5. QED
    BY <2>1, <2>3, <2>4
<1>6. ASSUME NEW a \in Jobs, jobs = <<a>>, a \notin {"STARTUP", "CNF_OK"}
      PROVE  \/ ModeIndsOf(jobs') = ModeIndsOf(jobs)
             \/ ModeIndsOf(jobs) # <<>> /\ ModeIndsOf(jobs') = Tail(ModeIndsOf(jobs))
  <2>1. Tail(<<a>>) = <<>> /\ <<a>> # <<>>
    OBVIOUS
  <2>2. jobs' = <<>>
    BY <1>2, <1>6, <2>1, HeadTail
  <2>3. ModeIndsOf(jobs') = <<>> /\ ModeIndsOf(jobs) \in {<<>>, <<a>>}
    BY <1>6, <2>2, IndsOfQueue
  <2>4. QED
    BY <2>1, <2>3
<1>7. ASSUME NEW a \in Jobs, NEW b \in ModeInds, jobs = <<a, b>>, a \notin {"STARTUP", "CNF_OK"},
             b \in Jobs
      PROVE  \/ ModeIndsOf(jobs') = ModeIndsOf(jobs)
             \/ ModeIndsOf(jobs) # <<>> /\ ModeIndsOf(jobs') = Tail(ModeIndsOf(jobs))
  <2>1. Tail(<<a, b>>) = <<b>> /\ <<a, b>> # <<>>
    OBVIOUS
  <2>2. jobs' = <<b>>
    BY <1>2, <1>7, <2>1, HeadTail
  <2>3. ModeIndsOf(jobs') = <<b>> /\ ModeIndsOf(jobs) \in {<<b>>, <<a, b>>}
    BY <1>7, <2>2, IndsOfQueue
  <2>4. QED
    BY <2>1, <2>3
<1>8. QED
  BY <1>1, <1>4, <1>5, <1>6, <1>7 DEF Jobs, ModeInds

\* A session of the data link implements the service: no mode is skipped, each is
\* indicated once and in order, and a lost link is always reported.
THEOREM LinkImplemented == ASSUME NoRetry PROVE Spec => LinkRefinement
<1> USE DEF Link!lvars, Link!LinkNext, Link!Indicate
<1>1. Init => Link!LinkInit
  BY ModeOfLink, IndsOfQueue DEF Init, Link!LinkInit
<1>2. TypeOK /\ OneDevmodeConf /\ Session /\ Session' /\ [Next]_vars
        => [Link!LinkNext]_(Link!lvars)
  <2> SUFFICES ASSUME TypeOK, OneDevmodeConf, Session, Session', [Next]_vars
               PROVE  [Link!LinkNext]_(Link!lvars)
    OBVIOUS
  <2>s. ASSUME mdState' = mdState, ModeIndsOf(jobs') = ModeIndsOf(jobs)
        PROVE  [Link!LinkNext]_(Link!lvars)
    BY <2>s
  <2>1. CASE \/ Wait \/ TimerDone \/ Environment \/ App_Start \/ App_Tsd
             \/ AL_ReadWriteParam \/ AL_ISDUTransport \/ UNCHANGED vars
    <3>1. mdState' = mdState /\ jobs' = jobs
      BY <2>1 DEF Wait, TimerDone, Environment, Answer, Lose, Cycle, WakeUpDone, TimerFires,
         App_Start, App_Tsd, AL_ReadWriteParam, AL_ISDUTransport, modeVars, dlVars,
         smUnchanged, vars
    <3>2. QED
      BY <3>1, <2>s
  <2>2. ASSUME NEW c, NEW e \in {"RXRDY", "RXERR", "MH", "TIMEOUT"}, Turn(e),
               MessageHandler(c), pc' \in {"loop", "timer"},
               UNCHANGED <<cont, mdState, dlMode, mhcmd, wurq, smVars>>
        PROVE  [Link!LinkNext]_(Link!lvars)
    <3>1. MhRun(c)
      BY <2>2 DEF MhRun, Turn
    <3>2. QED
      BY <2>s, <2>2, <3>1, MhIndicatesNothing
  <2>3. CASE RxReady \/ HandleError \/ HandleMH
    <3>1. pc' \in {"loop", "timer"} /\ UNCHANGED <<cont, mdState, dlMode, mhcmd, wurq, smVars>>
      BY <2>3 DEF RxReady, HandleError, HandleMH, Turn
    <3>2. PICK e \in {"RXRDY", "RXERR", "MH", "TIMEOUT"}, c \in {"data", "error", "none"} :
            Turn(e) /\ MessageHandler(c)
      BY <2>3 DEF RxReady, HandleError, HandleMH
    <3>3. QED
      BY <2>2, <3>1, <3>2
  <2>4. CASE HandleTimeout
    <3>1. CASE timerType = "TINITCYC_MH"
      <4>1. /\ Turn("TIMEOUT") /\ MessageHandler("timeout") /\ pc' \in {"loop", "timer"}
            /\ UNCHANGED <<cont, mdState, dlMode, mhcmd, wurq, smVars>>
        BY <2>4, <3>1 DEF HandleTimeout
      <4>2. QED
        BY <2>2, <4>1
    <3>2. CASE timerType # "TINITCYC_MH"
      BY <2>4, <3>2, <2>s DEF HandleTimeout, mhVars
    <3>3. QED
      BY <3>1, <3>2
  <2>5. CASE MhConf
    <3>1. MhRun("none")
      BY <2>5 DEF MhConf, MhRun
    <3>2. QED
      BY <2>5, <2>s, <3>1, MhIndicatesNothing DEF MhConf
  <2>6. CASE WurqRecv
    <3>1. mdState = "ESTCOM_1" /\ jobs = <<>> /\ dlAddr = "DUMMY_WURQ"
      BY <2>6 DEF WurqRecv, Turn, Session, Once, Waking, Undisturbed
    <3>2. \/ mdState' = "IDLE_0" /\ jobs' = <<"INACTIVE">>
          \/ mdState' = "STARTUP_2" /\ jobs' = <<"CNF_WURQ", "STARTUP">>
      BY <2>6, <3>1 DEF WurqRecv, Post
    <3>3. /\ ModeIndsOf(jobs) = <<>> /\ ModeIndsOf(<<"INACTIVE">>) = <<"INACTIVE">>
          /\ ModeIndsOf(<<"CNF_WURQ", "STARTUP">>) = <<"STARTUP">>
      BY <3>1, IndsOfQueue DEF ModeInds
    <3>4. Append(<<>>, "INACTIVE") = <<"INACTIVE">> /\ Append(<<>>, "STARTUP") = <<"STARTUP">>
      OBVIOUS
    <3>5. Link!NoDevice \/ Link!Established
      BY <3>1, <3>2, <3>3, <3>4, ModeOfLink DEF Link!NoDevice, Link!Established
    <3>6. QED
      BY <3>5
  <2>7. CASE HandleMDH
    <3>1. jobs' = jobs /\ (mdState' = mdState \/ (mdState = "IDLE_0" /\ mdState' = "ESTCOM_1"))
      BY <2>7 DEF HandleMDH, ModeHandler, MD_Idle, MD_EstablishCom, MD_Startup,
         MD_Preoperate, MD_Operate
    <3>2. QED
      BY <2>s, <3>1, ModeOfLink DEF Link!WakeUp
  <2>8. CASE Finish
    <3>0. mdState \in {"STARTUP_2", "PREOPERATE_3", "OPERATE_4"}
      BY <2>8 DEF Finish, Session, Calls
    <3>1. CASE cont = "none"
      BY <2>8, <2>s, <3>1 DEF Finish
    <3>2. CASE cont \in {"goto_preoperate", "goto_operate"}
      <4>1. /\ jobs = <<>>
            /\ cont = "goto_preoperate" => mdState = "STARTUP_2"
            /\ cont = "goto_operate" => mdState \in {"STARTUP_2", "PREOPERATE_3"}
        BY <2>8, <3>2 DEF Finish, Session, Calls, Phase, AtRest, Waking, Reading,
           ToPreoperate, InPreoperate, ToOperate, InOperate
      <4>2. \/ /\ mdState = "STARTUP_2" /\ mdState' = "PREOPERATE_3" /\ jobs' = <<"PREOPERATE">>
            \/ /\ mdState' = "OPERATE_4" /\ jobs' = <<"OPERATE">>
               /\ mdState \in {"STARTUP_2", "PREOPERATE_3"}
        BY <2>8, <3>2, <4>1 DEF Finish, Post
      <4>3. /\ ModeIndsOf(jobs) = <<>> /\ ModeIndsOf(<<"PREOPERATE">>) = <<"PREOPERATE">>
            /\ ModeIndsOf(<<"OPERATE">>) = <<"OPERATE">>
        BY <4>1, IndsOfQueue DEF ModeInds
      <4>4. Link!ToPreoperate \/ Link!ToOperate
        BY <4>2, <4>3, ModeOfLink DEF Link!ToPreoperate, Link!ToOperate
      <4>5. QED
        BY <4>4
    <3>3. CASE cont \in {"idle_INACTIVE", "idle_COMLOST"}
      <4>1. PICK mode \in {"INACTIVE", "COMLOST"} :
              mdState' = "IDLE_0" /\ jobs' = Append(jobs, mode)
        BY <2>8, <3>3 DEF Finish, goto_idle, Post
      <4>2. jobs = <<>> \/ \E a \in Jobs : jobs = <<a>>
        BY <2>8, <3>0, <3>3 DEF Jobs, Finish, Session, Calls, Phase, AtRest, Waking, Reading,
           ToPreoperate, InPreoperate, ToOperate, InOperate
      <4>3. ModeIndsOf(jobs') = Append(ModeIndsOf(jobs), mode)
        <5>1. CASE jobs = <<>>
          <6>1. jobs' = <<mode>>
            BY <4>1, <5>1
          <6>2. Append(<<>>, mode) = <<mode>>
            OBVIOUS
          <6>3. QED
            BY <5>1, <6>1, <6>2, IndsOfQueue DEF ModeInds
        <5>2. ASSUME NEW a \in Jobs, jobs = <<a>> PROVE ModeIndsOf(jobs') = Append(ModeIndsOf(jobs), mode)
          <6>1. a \in Jobs /\ mode \in Jobs
            BY <5>2 DEF Jobs
          <6>2. jobs' = <<a, mode>>
            BY <4>1, <5>2, <6>1, AppendOne
          <6>3. Append(<<>>, mode) = <<mode>> /\ Append(<<a>>, mode) = <<a, mode>>
            BY <6>1, AppendOne
          <6>4. QED
            BY <5>2, <6>2, <6>3, IndsOfQueue DEF ModeInds
        <5>3. QED
          BY <4>2, <5>1, <5>2
      <4>4. Link!Drop
        BY <3>0, <4>1, <4>3, ModeOfLink DEF Link!Drop
      <4>5. QED
        BY <4>4
    <3>4. QED
      BY <2>8, <3>1, <3>2, <3>3 DEF Finish, Session, Calls
  <2>9. CASE SmThread
    <3>1. \/ mdState' = mdState /\ ModeIndsOf(jobs') = ModeIndsOf(jobs)
          \/ Link!Take
      BY <2>9, SmTakesInds DEF Link!Take
    <3>2. QED
      BY <3>1, <2>s
  <2>10. CASE App_Configure
    <3>1. jobs = <<>> /\ mdState' = mdState /\ jobs' = <<"SetPortConfig">>
      BY <2>10 DEF App_Configure, modeVars, Session, Once, Post
    <3>2. ModeIndsOf(jobs') = ModeIndsOf(jobs)
      BY <3>1, IndsOfQueue DEF ModeInds
    <3>3. QED
      BY <3>1, <3>2, <2>s
  <2>11. CASE App_Retry
    BY <2>11 DEF App_Retry, NoRetry
  <2>12. CASE SM_WriteDevmode
    <3>1. mdState # "STARTUP_2"
      BY <2>12 DEF SM_WriteDevmode, Session, Phase, AtRest, Waking, Reading,
         ToPreoperate, InPreoperate, ToOperate, InOperate
    <3>2. QED
      BY <2>12, <3>1, <2>s DEF SM_WriteDevmode, smUnchanged
  <2>13. QED
    BY <2>1, <2>3, <2>4, <2>5, <2>6, <2>7, <2>8, <2>9, <2>10, <2>11, <2>12
    DEF Next, DlThread, Application
<1>3. QED
  BY <1>1, <1>2, SessionTypes, DevmodeConfirmedOnce, PTL DEF Spec, LinkRefinement, Link!LinkSpec
==============================================================================
