-------------------------- MODULE PortStart_proof --------------------------
(***************************************************************************)
(* Proofs about PortStack: the types of what the layers keep and of what    *)
(* the jobs carry, for every budget of faults, events and requests; then    *)
(* the start-up of a device, as SM and the data link agree on it (HandInv), *)
(* and from it that a confirmation SM is handed is of the access its state  *)
(* waits for, whatever the link loses, refuses or reports; then that SM     *)
(* and the on-request exchange have one service of AL at most (ServiceInv); *)
(* and last that CM's idea of a running device is true (RunInv).            *)
(***************************************************************************)
EXTENDS PortStack_proof

-----------------------------------------------------------------------------
(***************************************************************************)
(* Types: of the state of every layer, and of what the jobs carry from one   *)
(* to another.                                                              *)
(***************************************************************************)
Parameters == Values \cup {NoValue, <<"none", 1>>}
Names      == Devices \cup {"none"}
\* An operation: a parameter of the data set is read by its number, and written with a value.
OpOK(op)   == /\ DOMAIN op = DOMAIN NoOp /\ Asks(op)
              /\ op.what = "par" => op.arg \in Entries /\ op.val \in Parameters
JobOK(j)   == /\ j.type \in JobTypes
              /\ j.type = "AL_REQ" => j.who \in Users /\ OpOK(j.op)
              /\ j.type = "SMI_RW" => j.arg \in Requests
              /\ j.type \in {"SMI_PORTCFG", "DS_INIT"} => j.arg \in Cfgs
              /\ j.type \in {"MODE", "PORT_MODE"} => j = JobArg(j.type, j.arg)
Sound(p)   == IsSeq(p) /\ \A i \in DOMAIN p : JobOK(p[i])

LinkTyped == /\ DOMAIN dl = DOMAIN DlInit
             /\ dl.link \in {"Idle", "WakeUp", "Startup", "Preop", "Operate"}
             /\ dl.mode \in {"INACTIVE", "STARTUP", "PREOPERATE", "OPERATE"}
             /\ dl.mdh \in {"no", "set", "due"}
             /\ dl.mh \in BOOLEAN /\ dl.lost \in BOOLEAN /\ dl.run \in BOOLEAN
             /\ dl.isdu = NoOp \/ OpOK(dl.isdu)
CableTyped == /\ dev \in [id : Devices, par : Sets, flag : BOOLEAN, open : BOOLEAN]
              /\ faults \in 0..MaxFaults
\* What DS reads in the buffer: the length of a list, a parameter.
BufferTyped == /\ bufr[1] = "list" => bufr[2] \in 0..NEntries
               /\ bufr[1] = "par" => bufr[2] \in Parameters
AlTyped == /\ DOMAIN al = DOMAIN AlInit
           /\ al.od \in {"Idle", "Isdu", "Param"} /\ al.owner \in Users \cup {"none"}
           /\ al.event \in {"Idle", "Reading", "Handling"} /\ al.cnt \in 0..EventSlots
           /\ al.od = "Param" => IsParam(al.op)
SmTyped == /\ DOMAIN sm = DOMAIN SmInit
           /\ sm.state \in SmStates /\ sm.id \in Names /\ sm.retry \in 0..1
DsTyped == /\ DOMAIN ds = DOMAIN DsInit
           /\ ds.state \in DsStates /\ ds.set \in Sets
           /\ ds.pos \in 0..NEntries /\ ds.size \in 0..NEntries /\ ds.count \in 0..NEntries
           /\ ds.id \in Names /\ ds.pend \in Names
ExchangeTyped == /\ DOMAIN ode = DOMAIN OdeInit
                 /\ ode.state \in {"Inactive", "Active", "Blocked"} /\ pde \in BOOLEAN
                 /\ DOMAIN app = DOMAIN AppInit(MaxCfgs, MaxReqs)
                 /\ app.open \in Requests \cup {NoOp} /\ app.wait \in BOOLEAN
ManagerTyped == DOMAIN cm = {"state", "cfg"} /\ cm.state \in CmStates /\ cm.cfg \in Cfgs

TypeInv == /\ Sound(jobs) /\ LinkTyped /\ CableTyped /\ BufferTyped /\ AlTyped /\ SmTyped
           /\ DsTyped /\ ExchangeTyped /\ ManagerTyped

\* What TypeInv says implies the types the runs check.
LEMMA TypesImplied == ASSUME TypeInv PROVE TypeOK
BY DEF TypeInv, TypeOK, Sound, JobOK, LinkTyped, CableTyped, AlTyped, SmTyped, DsTyped,
       ExchangeTyped, ManagerTyped, Names

\* A parameter's values, and the sets of them.
LEMMA ParameterSets ==
  /\ Sets = [Entries -> Parameters]
  /\ NoValue \in Parameters /\ <<"none", 1>> \in Parameters
  /\ \A d \in Devices : <<d, 0>> \in Parameters /\ <<d, 1>> \in Parameters
  /\ \A d \in Devices : Factory(d) \in Sets
  /\ Zero \in Sets
<1>1. Sets = [Entries -> Parameters] /\ NoValue \in Parameters /\ <<"none", 1>> \in Parameters
  BY DEF Sets, Parameters
<1>2. 0 \in 0..1 /\ 1 \in 0..1  OBVIOUS
<1>3. \A d \in Devices : <<d, 0>> \in Parameters /\ <<d, 1>> \in Parameters
  BY <1>2 DEF Parameters, Values
<1> QED BY <1>1, <1>3 DEF Factory, Zero

\* At the start.
LEMMA TypesInit == ASSUME Init PROVE TypeInv
<1>1. Sound(jobs)
  <2>1. jobs = <<>> /\ <<>> \in Seq({})  BY DEF Init
  <2> QED BY <2>1 DEF Sound, IsSeq
<1>2. LinkTyped  BY DEF Init, LinkTyped, DlInit
<1>3. CableTyped
  <2>1. faults \in 0..MaxFaults  BY BudgetAssumption DEF Init
  <2>2. PICK d \in Devices : dev = Plugged(d)  BY DEF Init
  <2> QED BY <2>1, <2>2, ParameterSets DEF CableTyped, Plugged
<1>4. BufferTyped  BY DEF Init, BufferTyped, NoData
<1>5. AlTyped  BY SlotsAssumption DEF Init, AlTyped, AlInit
<1>6. SmTyped  BY DEF Init, SmTyped, SmInit, SmStates, Names
<1>7. DsTyped  BY DeviceAssumption, ParameterSets DEF Init, DsTyped, DsInit, DsStates, Names
<1>8. ExchangeTyped  BY DEF Init, ExchangeTyped, OdeInit, AppInit
<1>9. ManagerTyped  BY DEF Init, ManagerTyped, CmInit, NoCfg, CmStates, Cfgs
<1> QED BY <1>1, <1>2, <1>3, <1>4, <1>5, <1>6, <1>7, <1>8, <1>9 DEF TypeInv

\* What is posted is sound when it is nothing, one job that is, or both parts of it are.
LEMMA SoundPosts ==
  /\ Sound(<<>>)
  /\ \A j : JobOK(j) => Sound(<<j>>)
  /\ \A p, q : Sound(p) /\ Sound(q) => Sound(p \o q)
<1>1. Sound(<<>>)
  <2>1. <<>> \in Seq({})  OBVIOUS
  <2> QED BY <2>1 DEF Sound, IsSeq
<1>2. ASSUME NEW j, JobOK(j) PROVE Sound(<<j>>)
  <2>1. <<j>> \in Seq({j}) /\ Len(<<j>>) = 1 /\ <<j>>[1] = j  OBVIOUS
  <2>2. \A i \in DOMAIN <<j>> : i = 1  BY <2>1
  <2> QED BY <1>2, <2>1, <2>2 DEF Sound, IsSeq
<1>3. ASSUME NEW p, NEW q, Sound(p), Sound(q) PROVE Sound(p \o q)
  <2>1. IsSeq(p) /\ IsSeq(q)  BY <1>3 DEF Sound
  <2>2. ASSUME NEW i \in DOMAIN (p \o q) PROVE JobOK((p \o q)[i])
    <3>1. CASE i <= Len(p)  BY <1>3, <2>1, <3>1, ConcatSeq DEF Sound
    <3>2. CASE i > Len(p)
      <4>1. i - Len(p) \in 1..Len(q) /\ i = Len(p) + (i - Len(p))  BY <2>1, <3>2, ConcatSeq
      <4> QED BY <1>3, <2>1, <4>1, ConcatSeq DEF Sound
    <3> QED BY <2>1, <3>1, <3>2, ConcatSeq
  <2> QED BY <2>1, <2>2, ConcatSeq DEF Sound
<1> QED BY <1>1, <1>2, <1>3

\* The jobs that carry nothing whose type matters.
Plain == JobTypes \ {"AL_REQ", "AL_CNF", "SMI_RW", "SMI_PORTCFG", "DS_INIT"}

\* The jobs the layers post, by their constructors.
LEMMA SoundNames ==
  /\ \A type \in Plain : \A arg : Sound(<<JobArg(type, arg)>>)
  /\ \A type \in Plain \ {"MODE", "PORT_MODE"} : Sound(<<Job(type)>>)
  /\ \A who \in Users : \A op : OpOK(op) => Sound(<<AlReq(who, op)>>)
  /\ \A who, rw, err, len : Sound(<<AlCnf(who, rw, err, len)>>)
  /\ \A cfg \in Cfgs : Sound(<<JobArg("SMI_PORTCFG", cfg)>>) /\ Sound(<<JobArg("DS_INIT", cfg)>>)
  /\ \A op \in Requests : Sound(<<JobArg("SMI_RW", op)>>)
<1>1. \A type, arg : JobArg(type, arg).type = type /\ JobArg(type, arg).arg = arg  BY DEF JobArg
<1>2. \A type \in Plain : \A arg : JobOK(JobArg(type, arg))  BY <1>1 DEF JobOK, Plain
<1>3. \A type \in Plain \ {"MODE", "PORT_MODE"} : JobOK(Job(type))  BY DEF Job, JobOK, Plain
<1>4. \A who \in Users : \A op : OpOK(op) => JobOK(AlReq(who, op))
  BY DEF AlReq, JobOK, JobTypes
<1>5. \A who, rw, err, len : JobOK(AlCnf(who, rw, err, len))
  BY DEF AlCnf, JobOK, JobTypes
<1>6. \A cfg \in Cfgs : JobOK(JobArg("SMI_PORTCFG", cfg)) /\ JobOK(JobArg("DS_INIT", cfg))
  BY <1>1 DEF JobOK, JobTypes
<1>7. \A op \in Requests : JobOK(JobArg("SMI_RW", op))  BY <1>1 DEF JobOK, JobTypes
<1> QED BY <1>2, <1>3, <1>4, <1>5, <1>6, <1>7, SoundPosts

\* A callback posted what is sound; or another thread did.
SoundHandled == \E p : Sound(p) /\ Handled(p)
SoundPosted  == UNCHANGED jobs \/ \E p : Sound(p) /\ Posted(p)

\* The mailbox stays sound.
LEMMA SoundKept == ASSUME Sound(jobs)
  PROVE /\ jobs # <<>> /\ SoundHandled => Sound(jobs')
        /\ SoundPosted => Sound(jobs')
        /\ jobs # <<>> => JobOK(Head(jobs))
<1>1. ASSUME jobs # <<>> PROVE Sound(Tail(jobs)) /\ JobOK(Head(jobs))
  BY <1>1, TailSeq DEF Sound
<1>2. ASSUME NEW p, Sound(p), Handled(p), jobs # <<>> PROVE Sound(jobs')
  BY <1>1, <1>2, SoundPosts DEF Handled
<1>3. ASSUME NEW p, Sound(p), Posted(p) PROVE Sound(jobs')
  BY <1>3, SoundPosts DEF Posted
<1> QED BY <1>1, <1>2, <1>3 DEF SoundHandled, SoundPosted

\* The operations the layers name.
LEMMA NamedOps ==
  /\ \A what, arg : what # "par" => OpOK(Op("read", what, arg)) /\ OpOK(Op("write", what, arg))
  /\ \A arg \in Entries : OpOK(Op("read", "par", arg))
  /\ \A arg \in Entries, v \in Parameters : OpOK([Op("write", "par", arg) EXCEPT !.val = v])
  /\ \A op \in Requests : OpOK(op) /\ op.what # "par"
<1>1. NoValue \in Parameters  BY ParameterSets
<1>2. \A arg : Op("read", "par", arg).arg = arg /\ Op("read", "par", arg).val = NoValue
  BY DEF Op
<1>3. \A arg, v : LET op == [Op("write", "par", arg) EXCEPT !.val = v]
                  IN op.arg = arg /\ op.val = v /\ op.rw = "write" /\ DOMAIN op = DOMAIN NoOp
  BY DEF Op, NoOp
<1>4. \A op \in Requests : OpOK(op) /\ op.what # "par"
  BY RequestsAssumption DEF AppOps, OpOK, Asks, NoOp, Op
<1>5. \A what, arg : what # "par" => OpOK(Op("read", what, arg)) /\ OpOK(Op("write", what, arg))
  BY OpAsks DEF Op, NoOp, OpOK
<1>6. \A arg \in Entries : OpOK(Op("read", "par", arg))  BY <1>1, <1>2, OpAsks DEF OpOK, Op, NoOp
<1>7. \A arg \in Entries, v \in Parameters : OpOK([Op("write", "par", arg) EXCEPT !.val = v])
  BY <1>3 DEF OpOK, Asks, NoOp, Op
<1> QED BY <1>4, <1>5, <1>6, <1>7

-----------------------------------------------------------------------------
\* The data link's state after a call of the layers above.
CalledTyped(d) == /\ DOMAIN d = DOMAIN DlInit /\ d.link = dl.link /\ d.mh = dl.mh
                  /\ d.lost = dl.lost
                  /\ d.mode \in {"INACTIVE", "STARTUP", "PREOPERATE", "OPERATE"}
                  /\ d.mdh \in {"no", "set", "due"}
                  /\ d.run \in BOOLEAN /\ (d.isdu = NoOp \/ OpOK(d.isdu))

\* The calls of SM and AL keep the data link's state typed.
LEMMA CallsTyped == ASSUME LinkTyped
  PROVE /\ CalledTyped(dl)
        /\ \A what : CalledTyped(Access(dl, what))
        /\ \A mode \in {"INACTIVE", "STARTUP", "PREOPERATE", "OPERATE"} :
             CalledTyped(SetMode(dl, mode)) /\ CalledTyped(SetMode(SetSDCI(dl), mode))
        /\ \A mode : CalledTyped(Devicemode(dl, mode))
        /\ \A op : CalledTyped(Param(dl, op))
        /\ \A op : OpOK(op) => CalledTyped(Transport(dl, op))
        /\ \A d : CalledTyped(d) /\ dl' = d => LinkTyped'
<1>1. CalledTyped(dl)  BY DEF LinkTyped, CalledTyped
<1>2. ASSUME NEW what PROVE CalledTyped(Access(dl, what))
  BY DEF LinkTyped, CalledTyped, Access, DlInit
<1>3. ASSUME NEW mode \in {"INACTIVE", "STARTUP", "PREOPERATE", "OPERATE"}
      PROVE CalledTyped(SetMode(dl, mode)) /\ CalledTyped(SetMode(SetSDCI(dl), mode))
  BY DEF LinkTyped, CalledTyped, SetMode, SetSDCI, DlInit
<1>4. ASSUME NEW mode PROVE CalledTyped(Devicemode(dl, mode))
  BY DEF LinkTyped, CalledTyped, Devicemode, DlInit
<1>5. ASSUME NEW op PROVE CalledTyped(Param(dl, op))
  BY DEF LinkTyped, CalledTyped, Param, DlInit
<1>6. ASSUME NEW op, OpOK(op) PROVE CalledTyped(Transport(dl, op))
  BY <1>6 DEF LinkTyped, CalledTyped, Transport, DlInit
<1>7. ASSUME NEW d, CalledTyped(d), dl' = d PROVE LinkTyped'
  BY <1>7 DEF LinkTyped, CalledTyped
<1> QED BY <1>1, <1>2, <1>3, <1>4, <1>5, <1>6, <1>7

-----------------------------------------------------------------------------
\* SM's context, and a step of SM that keeps it and the data link typed.
Context(s) == /\ DOMAIN s = DOMAIN SmInit
              /\ s.state \in SmStates /\ s.id \in Names /\ s.retry \in 0..1
SmSteps    == SmTyped' /\ LinkTyped' /\ SoundHandled

\* A row of SM's table leads to a state of SM; only RETRY restarts the device.
LEMMA RowsTyped == \A t \in SmTable : t[3] \in SmStates /\ (t[4] = "restart" => t[2] = "RETRY")
BY DEF SmTable, SmStates

\* What SM calls and posts.
LEMMA SmCallsTyped ==
  ASSUME LinkTyped, NEW s, NEW d, NEW p, Context(s), CalledTyped(d), Sound(p), Calls(s, d, p)
  PROVE SmSteps
<1>1. LinkTyped'  BY CallsTyped DEF Calls
<1>2. SmTyped'  BY DEF Calls, SmTyped, Context
<1>3. SoundHandled  BY DEF Calls, SoundHandled
<1> QED BY <1>1, <1>2, <1>3 DEF SmSteps

\* The jobs of SM are sound.
LEMMA SmPosts ==
  /\ \A mode : Sound(<<PortMode(mode)>>)
  /\ \A what : Sound(AccessCnf(dl, what))
  /\ \A mode : Sound(DevicemodeCnf(dl, mode))
  /\ Sound(<<AlReq("SM", Op("read", "serial", 0))>>)
  /\ Sound(<<AlReq("SM", Op("write", "cycl", 0))>>)
<1>1. {"PORT_MODE", "DL_CNF", "DEVMODE_CNF"} \subseteq Plain  BY DEF Plain, JobTypes
<1>2. \A mode : Sound(<<PortMode(mode)>>)  BY <1>1, SoundNames DEF PortMode
<1>3. \A what : Sound(AccessCnf(dl, what))  BY <1>1, SoundNames, SoundPosts DEF AccessCnf
<1>4. \A mode : Sound(DevicemodeCnf(dl, mode))
  BY <1>1, SoundNames, SoundPosts DEF DevicemodeCnf
<1>5. "SM" \in Users  BY DEF Users
<1> QED BY <1>2, <1>3, <1>4, <1>5, SoundNames, NamedOps

\* The actions of SM's table keep the types.
LEMMA SmDoTyped == ASSUME LinkTyped, NEW do, NEW s, NEW event, Context(s), SmDo(do, s, event),
                          do = "restart" => s.retry = 0
  PROVE SmSteps
<1>1. ASSUME NEW x, Context(x), NEW what, SmAccess(x, what) PROVE SmSteps
  BY <1>1, SmCallsTyped, CallsTyped, SmPosts DEF SmAccess
<1>2. Context([s EXCEPT !.retry = 0]) /\ Context([s EXCEPT !.error = "none"])
  BY DEF Context, SmInit
<1>3. CASE do = "restart"
  <2>1. Context([s EXCEPT !.retry = @ + 1])  BY <1>3 DEF Context, SmInit
  <2> QED BY <1>1, <1>3, <2>1 DEF SmDo
<1>4. CASE do \in {"read_com", "read_id", "ident", "preop_cmd", "operate_cmd"}
  BY <1>1, <1>2, <1>4 DEF SmDo
<1>5. CASE do = "fault"
  <2>1. FaultMode(event) \in {"INACTIVE", "STARTUP", "PREOPERATE", "OPERATE"}  BY DEF FaultMode
  <2> QED BY <1>5, <2>1, CallsTyped, SmCallsTyped, SmPosts DEF SmDo, SmFault
<1>6. CASE do \in {"serial", "write_cycl", "comready", "comlost", "inactive", "start", "dido",
                   "operate_ind"}
  BY <1>2, <1>6, CallsTyped, SmCallsTyped, SmPosts, SoundPosts DEF SmDo
<1>7. CASE do \in {"fallback", "devmode"}
  BY <1>7, CallsTyped, SmCallsTyped, SmPosts DEF SmDo
<1>8. CASE do \notin {"read_com", "read_id", "ident", "preop_cmd", "operate_cmd", "restart",
                      "fault", "serial", "write_cycl", "comready", "comlost", "inactive",
                      "start", "dido", "operate_ind", "fallback", "devmode"}
  BY <1>8, CallsTyped, SmCallsTyped, SoundPosts DEF SmDo
<1> QED BY <1>3, <1>4, <1>5, <1>6, <1>7, <1>8

\* So does an event; the device is restarted once.
LEMMA SmEventTyped == ASSUME LinkTyped, NEW s, NEW event, Context(s), SmEvent(s, event),
                             event = "RETRY" => s.retry = 0
  PROVE SmSteps
<1>1. ASSUME NEW t \in SmRows(s.state, event), SmDo(t[4], [s EXCEPT !.state = t[3]], event)
      PROVE SmSteps
  <2>1. t \in SmTable /\ t[2] = event  BY <1>1 DEF SmRows
  <2>2. Context([s EXCEPT !.state = t[3]]) /\ [s EXCEPT !.state = t[3]].retry = s.retry
    BY <2>1, RowsTyped DEF Context, SmInit
  <2>3. t[4] = "restart" => [s EXCEPT !.state = t[3]].retry = 0  BY <2>1, <2>2, RowsTyped
  <2> QED BY <1>1, <2>2, <2>3, SmDoTyped
<1>2. ASSUME Calls(s, dl, <<>>) PROVE SmSteps
  BY <1>2, SmCallsTyped, CallsTyped, SoundPosts
<1> QED BY <1>1, <1>2 DEF SmEvent

\* The handlers of SM keep the types.
LEMMA SmTypes == ASSUME TypeInv, SM_Handler PROVE SmSteps /\ jobs # <<>>
<1>1. LinkTyped /\ Context(sm)  BY DEF TypeInv, SmTyped, Context
<1>2. \A f, v : f \in {"cfg", "error", "rev"} => Context([sm EXCEPT ![f] = v])
  BY <1>1 DEF Context, SmInit
<1>3. dev.id \in Names  BY DEF TypeInv, CableTyped, Names
<1>4. ASSUME Calls(sm, dl, <<>>) PROVE SmSteps
  BY <1>1, <1>4, SmCallsTyped, CallsTyped, SoundPosts
<1>5. ASSUME SM_SetPortConfig PROVE SmSteps
  <2>1. Context([sm EXCEPT !.cfg = DueArg("SM_CONFIG")])  BY <1>2
  <2> QED BY <1>1, <1>4, <1>5, <2>1, SmEventTyped DEF SM_SetPortConfig
<1>6. ASSUME SM_Operate PROVE SmSteps
  BY <1>1, <1>6, SmEventTyped DEF SM_Operate
<1>7. ASSUME SM_Mode PROVE SmSteps
  <2>1. ASSUME NEW mode, Calls(sm, dl, <<PortMode(mode)>>) PROVE SmSteps
    BY <1>1, <2>1, SmCallsTyped, CallsTyped, SmPosts
  <2> QED BY <1>1, <1>4, <1>7, <2>1, SmEventTyped DEF SM_Mode
<1>8. ASSUME SM_DLCnf PROVE SmSteps
  <2>1. ASSUME NEW mode \in {"PREOPERATE", "OPERATE"}, Calls(sm, SetMode(dl, mode), <<>>)
        PROVE SmSteps
    BY <1>1, <2>1, SmCallsTyped, CallsTyped, SoundPosts
  <2>2. CASE ~DueArg("DL_CNF").ok
    BY <1>1, <1>8, <2>2, SmEventTyped DEF SM_DLCnf
  <2>3. CASE DueArg("DL_CNF").ok /\ sm.state = "ReadCom"
    <3>1. \A v : Context([sm EXCEPT !.rev = v])  BY <1>2
    <3> QED BY <1>1, <1>8, <2>3, <3>1, SmEventTyped DEF SM_DLCnf
  <2>4. CASE DueArg("DL_CNF").ok /\ sm.state \in {"CheckComp", "CheckCompV10"}
    <3> DEFINE s == [sm EXCEPT !.id = dev.id]
    <3>1. Context(s)  BY <1>1, <1>3 DEF Context, SmInit
    <3>2. CompEvent(s) = "RETRY" => s.retry = 0  BY DEF CompEvent
    <3>3. Context(WithError(s, CompEvent(s))) /\ WithError(s, CompEvent(s)).retry = s.retry
      BY <3>1 DEF WithError, Context, SmInit
    <3> HIDE DEF s
    <3>4. SmEvent(WithError(s, CompEvent(s)), CompEvent(s))  BY <1>8, <2>4 DEF SM_DLCnf, s
    <3> QED BY <1>1, <3>2, <3>3, <3>4, SmEventTyped
  <2>5. CASE DueArg("DL_CNF").ok /\ sm.state = "CheckVxy"
    <3>1. RevisionEvent(sm) = "RETRY" => sm.retry = 0  BY DEF RevisionEvent
    <3>2. Context(WithError(sm, RevisionEvent(sm)))
          /\ WithError(sm, RevisionEvent(sm)).retry = sm.retry
      BY <1>1, <1>2 DEF WithError, Context, SmInit
    <3> QED BY <1>1, <1>8, <2>5, <3>1, <3>2, SmEventTyped DEF SM_DLCnf
  <2>6. CASE DueArg("DL_CNF").ok /\ sm.state = "RestartDevice"
    BY <1>1, <1>8, <2>6, SmEventTyped DEF SM_DLCnf
  <2>7. CASE DueArg("DL_CNF").ok /\ sm.state \in {"waitonDLPreop", "waitonDLOperate"}
    BY <1>8, <2>1, <2>7 DEF SM_DLCnf
  <2>8. CASE DueArg("DL_CNF").ok
             /\ sm.state \notin {"ReadCom", "CheckComp", "CheckCompV10", "CheckVxy",
                                 "RestartDevice", "waitonDLPreop", "waitonDLOperate"}
    <3>1. sm.state = "InspectionFault" /\ SmEvent(sm, sm.error)
      BY <1>8, <2>8 DEF SM_DLCnf, Expected
    <3>2. SmRows(sm.state, "RETRY") = {}  BY <3>1 DEF SmRows, SmTable
    <3>3. CASE sm.error = "RETRY"  BY <1>4, <3>1, <3>2, <3>3 DEF SmEvent
    <3> QED BY <1>1, <3>1, <3>3, SmEventTyped
  <2> QED BY <2>2, <2>3, <2>4, <2>5, <2>6, <2>7, <2>8
<1>9. ASSUME SM_ALCnf PROVE SmSteps
  <2>1. \A v : Context([sm EXCEPT !.error = v])  BY <1>2
  <2> QED BY <1>1, <1>9, <2>1, SmEventTyped DEF SM_ALCnf, SM_SerialCnf, SM_CyclCnf
<1>10. ASSUME SM_DevmodeCnf PROVE SmSteps
  <2>1. CASE DueArg("DEVMODE_CNF") /\ sm.state = "wait_devmode_cnf"
    <3> DEFINE p == IF sm.rev = "V10" THEN <<PortMode("OPERATE")>> ELSE <<>>
    <3>1. Sound(p)  BY SmPosts, SoundPosts
    <3>2. Context([sm EXCEPT !.state = "SMOperate"])  BY <1>1 DEF Context, SmInit, SmStates
    <3>3. Calls([sm EXCEPT !.state = "SMOperate"], SetMode(dl, "OPERATE"), p)
      BY <1>10, <2>1 DEF SM_DevmodeCnf, Calls
    <3> QED BY <1>1, <3>1, <3>2, <3>3, SmCallsTyped, CallsTyped
  <2> QED BY <1>1, <1>4, <1>10, <2>1, SmEventTyped DEF SM_DevmodeCnf
<1>11. jobs # <<>>
  BY DEF SM_Handler, SM_SetPortConfig, SM_Operate, SM_Mode, SM_DLCnf, SM_ALCnf, SM_DevmodeCnf,
         Due
<1> QED BY <1>5, <1>6, <1>7, <1>8, <1>9, <1>10, <1>11 DEF SM_Handler

-----------------------------------------------------------------------------
\* A confirmation of AL to its user.
LEMMA AlConfirmTyped == ASSUME AlTyped, NEW awaited, NEW err, NEW len,
                               AL_Confirm(awaited, err, len)
  PROVE AlTyped' /\ SoundHandled
<1>1. SoundHandled  BY SoundNames, SoundPosts DEF AL_Confirm, SoundHandled
<1>2. AlTyped'  BY DEF AL_Confirm, AlTyped, AlInit
<1> QED BY <1>1, <1>2

\* What the data link confirms to AL, and the events it indicates.
LEMMA AlTypes == ASSUME TypeInv, AL_Handler
  PROVE jobs # <<>> /\ SoundHandled /\ AlTyped' /\ BufferTyped'
<1>1. AlTyped /\ BufferTyped  BY DEF TypeInv
<1>2. ASSUME AL_ParamCnf PROVE SoundHandled /\ AlTyped' /\ BufferTyped'
  <2>1. SoundHandled /\ AlTyped'  BY <1>1, <1>2, AlConfirmTyped DEF AL_ParamCnf
  <2>2. al.od = "Param" => al.op.what \notin {"list", "par"}  BY <1>1 DEF AlTyped, IsParam
  <2>3. BufferTyped'
    <3>1. \/ bufr' \in {bufr, <<"stale", 0>>}
          \/ bufr' = <<al.op.what, al.op.arg>> /\ al.od = "Param"
      BY <1>2 DEF AL_ParamCnf
    <3> QED BY <1>1, <2>2, <3>1 DEF BufferTyped
  <2> QED BY <2>1, <2>3
<1>3. ASSUME AL_IsduCnf PROVE SoundHandled /\ AlTyped'
  BY <1>1, <1>3, AlConfirmTyped DEF AL_IsduCnf
<1>4. ASSUME AL_EventInd PROVE SoundHandled /\ AlTyped'
  <2>1. "EVENT_RSP" \in Plain /\ "DS_UPLOAD" \in Plain  BY DEF Plain, JobTypes
  <2>2. <<Job("EVENT_RSP"), Job("DS_UPLOAD")>> = <<Job("EVENT_RSP")>> \o <<Job("DS_UPLOAD")>>
    OBVIOUS
  <2>3. Sound(<<Job("EVENT_RSP"), Job("DS_UPLOAD")>>) /\ Sound(<<Job("EVENT_RSP")>>)
    BY <2>1, <2>2, SoundNames, SoundPosts
  <2>4. SoundHandled  BY <1>4, <2>3, SoundPosts DEF AL_EventInd, SoundHandled
  <2>5. AlTyped'  BY <1>1, <1>4, SlotsAssumption DEF AL_EventInd, AlTyped, AlInit
  <2> QED BY <2>4, <2>5
<1>5. ASSUME AL_EventRsp PROVE SoundHandled /\ AlTyped'
  <2>1. SoundHandled  BY <1>5, SoundPosts DEF AL_EventRsp, SoundHandled
  <2>2. AlTyped'  BY <1>1, <1>5, SlotsAssumption DEF AL_EventRsp, AlTyped, AlInit
  <2> QED BY <2>1, <2>2
<1>6. UNCHANGED bufr => BufferTyped'  BY <1>1 DEF BufferTyped
<1>7. jobs # <<>>
  BY DEF AL_Handler, AL_ParamCnf, AL_IsduCnf, AL_EventInd, AL_EventRsp, Due
<1> QED BY <1>2, <1>3, <1>4, <1>5, <1>6, <1>7 DEF AL_Handler

\* A request to AL, as its pointers lead to now.
LEMMA RequestTypes == ASSUME TypeInv, AL_Request
  PROVE jobs # <<>> /\ SoundHandled /\ AlTyped' /\ LinkTyped'
<1> DEFINE j == Head(jobs)
           op == Resolved(j)
<1>1. jobs # <<>> /\ j.type = "AL_REQ"  BY DEF AL_Request, Due
<1>2. j.who \in Users /\ OpOK(j.op)  BY <1>1, SoundKept DEF TypeInv, JobOK
<1>3. OpOK(op)
  <2>1. CASE j.op.what = "cmd"
    <3>1. op.what = "cmd" /\ op.rw = j.op.rw /\ DOMAIN op = DOMAIN j.op
      BY <1>2, <2>1 DEF Resolved, OpOK, NoOp, Op
    <3> QED BY <1>2, <3>1 DEF OpOK, Asks
  <2>2. CASE j.op.what = "par" /\ j.op.rw = "write"
    <3>1. ds.set[j.op.arg] \in Parameters
      BY <1>2, <2>2, ParameterSets DEF TypeInv, DsTyped, OpOK
    <3>2. op = [j.op EXCEPT !.val = ds.set[j.op.arg]]  BY <2>2 DEF Resolved
    <3>3. op.rw = j.op.rw /\ op.what = j.op.what /\ op.arg = j.op.arg /\ DOMAIN op = DOMAIN j.op
      BY <1>2, <3>2 DEF OpOK, NoOp, Op
    <3>4. op.val = ds.set[j.op.arg]  BY <1>2, <3>2 DEF OpOK, NoOp, Op
    <3> QED BY <1>2, <3>1, <3>3, <3>4, <2>2 DEF OpOK, Asks
  <2>3. CASE ~(j.op.what = "cmd") /\ ~(j.op.what = "par" /\ j.op.rw = "write")
    BY <1>2, <2>3 DEF Resolved
  <2> QED BY <2>1, <2>2, <2>3
<1>4. LinkTyped /\ AlTyped  BY DEF TypeInv
<1> HIDE DEF op
<1>5. AL_ReadWrite(op)  BY DEF AL_Request, op
<1>6. {"PARAM_CNF", "ISDU_CNF"} \subseteq Plain  BY DEF Plain, JobTypes
<1>7. CASE al.od # "Idle"
  <2>1. Handled(<<AlCnf(j.who, j.op.rw, "BUSY", "none")>>) /\ UNCHANGED <<al, dl>>
    BY <1>5, <1>7 DEF AL_ReadWrite
  <2>2. SoundHandled  BY <2>1, SoundNames DEF SoundHandled
  <2> QED BY <1>1, <1>4, <2>1, <2>2 DEF AlTyped, LinkTyped
<1>8. CASE al.od = "Idle" /\ IsParam(op)
  <2>1. PICK refused \in MayRefuse(dl) : dl' = Param(dl, op) /\ Handled(ParamCnf(op, refused))
    BY <1>5, <1>8 DEF AL_ReadWrite
  <2>2. SoundHandled
    BY <1>6, <2>1, SoundNames, SoundPosts DEF ParamCnf, ParamRes, SoundHandled
  <2>3. LinkTyped'  BY <1>4, <2>1, CallsTyped
  <2>4. al' = [al EXCEPT !.od = "Param", !.owner = j.who, !.op = op]
    BY <1>5, <1>8 DEF AL_ReadWrite
  <2>5. AlTyped'  BY <1>2, <1>4, <1>8, <2>4 DEF AlTyped, AlInit
  <2> QED BY <1>1, <2>2, <2>3, <2>5
<1>9. CASE al.od = "Idle" /\ ~IsParam(op)
  <2>1. /\ al' = [al EXCEPT !.od = "Isdu", !.owner = j.who, !.op = op]
        /\ dl' = Transport(dl, op) /\ Handled(TransportCnf(dl))
    BY <1>5, <1>9 DEF AL_ReadWrite
  <2>2. SoundHandled
    BY <1>6, <2>1, SoundNames, SoundPosts DEF TransportCnf, SoundHandled
  <2>3. LinkTyped'  BY <1>3, <1>4, <2>1, CallsTyped
  <2>4. AlTyped'  BY <1>2, <1>4, <2>1 DEF AlTyped, AlInit
  <2> QED BY <1>1, <2>2, <2>3, <2>4
<1> QED BY <1>7, <1>8, <1>9

-----------------------------------------------------------------------------
\* DS's own state, and a step of DS that keeps it typed.
StoreTyped(d) == /\ DOMAIN d = DOMAIN DsInit
                 /\ d.state \in DsStates /\ d.set \in Sets
                 /\ d.pos \in 0..NEntries /\ d.size \in 0..NEntries /\ d.count \in 0..NEntries
                 /\ d.id \in Names /\ d.pend \in Names
DsSteps == DsTyped' /\ SoundHandled

\* What DS posts, and what it changes of its own state on the way.
LEMMA DsStepTyped ==
  /\ \A d, p : StoreTyped(d) /\ Sound(p) /\ DsStep(d, p) => DsSteps
  /\ \A d, v : StoreTyped(d) => /\ StoreTyped([d EXCEPT !.cmd = v])
                                /\ StoreTyped([d EXCEPT !.fault = v])
                                /\ StoreTyped([d EXCEPT !.dcs = v])
                                /\ StoreTyped([d EXCEPT !.enable = v])
  /\ \A d : \A n \in 0..NEntries :
       StoreTyped(d) => /\ StoreTyped([d EXCEPT !.size = n])
                        /\ StoreTyped([d EXCEPT !.count = n])
                        /\ StoreTyped([d EXCEPT !.pos = n])
                        /\ \A i : StoreTyped([d EXCEPT !.pos = n, !.item = i])
  /\ \A d : \A state \in DsStates : StoreTyped(d) => StoreTyped([d EXCEPT !.state = state])
<1>1. \A d, p : StoreTyped(d) /\ Sound(p) /\ DsStep(d, p) => DsSteps
  BY DEF DsStep, DsSteps, DsTyped, StoreTyped, SoundHandled
<1> QED BY <1>1 DEF StoreTyped, DsInit

\* The reads, the commands and the last confirmation of DS: what each posts is sound.
LEMMA DsRequestsTyped ==
  /\ \A d, what, arg : \A state \in DsStates :
       StoreTyped(d) /\ OpOK(Op("read", what, arg)) /\ DsRead(d, state, what, arg) => DsSteps
  /\ \A d, cmd : \A state \in DsStates : StoreTyped(d) /\ DsCommand(d, state, cmd) => DsSteps
  /\ \A d : StoreTyped(d) /\ DsReady(d) => DsSteps
  /\ \A d, fault : StoreTyped(d) /\ DsFault(d, fault) => DsSteps
  /\ \A d, fault : StoreTyped(d) /\ DsBreak(d, fault) => DsSteps
  /\ \A d : StoreTyped(d) /\ DsStep(d, <<>>) => DsSteps
<1>1. "DS" \in Users /\ {"DS_READY", "DS_FAULT"} \subseteq Plain  BY DEF Users, Plain, JobTypes
<1>2. ASSUME NEW d, NEW what, NEW arg, NEW state \in DsStates, StoreTyped(d),
             OpOK(Op("read", what, arg)), DsRead(d, state, what, arg)
      PROVE DsSteps
  BY <1>1, <1>2, DsStepTyped, SoundNames DEF DsRead
<1>3. ASSUME NEW d, NEW cmd, NEW state \in DsStates, StoreTyped(d), DsCommand(d, state, cmd)
      PROVE DsSteps
  <2>1. StoreTyped([d EXCEPT !.state = state, !.cmd = cmd])  BY <1>3 DEF StoreTyped, DsInit
  <2> QED BY <1>1, <1>3, <2>1, DsStepTyped, SoundNames, NamedOps DEF DsCommand
<1>4. "Waiting" \in DsStates /\ "DS_Fault" \in DsStates  BY DEF DsStates
<1>5. ASSUME NEW d, StoreTyped(d), DsReady(d) PROVE DsSteps
  BY <1>1, <1>4, <1>5, DsStepTyped, SoundNames DEF DsReady
<1>6. ASSUME NEW d, NEW fault, StoreTyped(d), DsFault(d, fault) PROVE DsSteps
  <2>1. StoreTyped([d EXCEPT !.state = "Waiting", !.enable = @ /\ fault # "LOCK"])
    BY <1>4, <1>6 DEF StoreTyped, DsInit
  <2> QED BY <1>1, <1>6, <2>1, DsStepTyped, SoundNames DEF DsFault
<1>7. ASSUME NEW d, NEW fault, StoreTyped(d), DsBreak(d, fault) PROVE DsSteps
  BY <1>3, <1>4, <1>7, DsStepTyped DEF DsBreak
<1> QED BY <1>2, <1>3, <1>5, <1>6, <1>7, DsStepTyped, SoundPosts

\* DS's check of the device, from the identity to the decision to upload.
LEMMA DsChainTyped ==
  /\ \A d : StoreTyped(d) /\ CheckIdentity(d) => DsSteps
  /\ \A d, flag, locked : StoreTyped(d) /\ CheckUpload(d, flag, locked) => DsSteps
  /\ \A d : StoreTyped(d) /\ CheckValidity(d) => DsSteps
  /\ \A d : StoreTyped(d) /\ StartUpload(d) => DsSteps
  /\ \A d : StoreTyped(d) /\ NextUpload(d) => DsSteps
  /\ \A d : StoreTyped(d) /\ NextDownload(d) => DsSteps
  /\ \A d : StoreTyped(d) /\ DsComErr(d) => DsSteps
<1>1. {"CheckIdentity", "CheckUpload", "CheckDSValidity", "DecomposeSet", "ReadParameter",
       "StoreDataSet", "WriteParameter", "DownloadDone", "Waiting"} \subseteq DsStates
  BY DEF DsStates
<1>2. NEntries \in Nat \ {0} /\ Entries = 1..NEntries  BY DeviceAssumption DEF Entries
<1>3. ASSUME NEW d, StoreTyped(d), CheckIdentity(d) PROVE DsSteps
  BY <1>1, <1>3, DsRequestsTyped, NamedOps DEF CheckIdentity
<1>4. ASSUME NEW d, NEW flag, NEW locked, StoreTyped(d), CheckUpload(d, flag, locked) PROVE DsSteps
  BY <1>1, <1>4, DsRequestsTyped, NamedOps DEF CheckUpload
<1>5. ASSUME NEW d, StoreTyped(d), CheckValidity(d) PROVE DsSteps
  BY <1>1, <1>5, DsRequestsTyped DEF CheckValidity
<1>6. ASSUME NEW d, StoreTyped(d), StartUpload(d) PROVE DsSteps
  <2>1. StoreTyped([d EXCEPT !.pos = 0, !.item = 0])  BY <1>2, <1>6 DEF StoreTyped, DsInit
  <2> QED BY <1>1, <1>6, <2>1, DsRequestsTyped, NamedOps DEF StartUpload
<1>7. ASSUME NEW d, StoreTyped(d), NextUpload(d) PROVE DsSteps
  <2>1. CASE d.pos < d.count
    <3>1. d.pos + 1 \in 0..NEntries /\ d.pos + 1 \in Entries
      BY <1>2, <1>7, <2>1 DEF StoreTyped
    <3>2. [d EXCEPT !.pos = @ + 1, !.item = d.pos + 1] = [d EXCEPT !.pos = d.pos + 1, !.item = d.pos + 1]
      BY <1>7 DEF StoreTyped, DsInit
    <3>3. StoreTyped([d EXCEPT !.pos = @ + 1, !.item = d.pos + 1])
      BY <1>7, <3>1, <3>2, DsStepTyped
    <3> QED BY <1>1, <1>7, <2>1, <3>1, <3>3, DsRequestsTyped, NamedOps DEF NextUpload
  <2>2. CASE ~(d.pos < d.count)
    <3>1. StoreTyped([d EXCEPT !.size = d.pos])  BY <1>7, DsStepTyped DEF StoreTyped
    <3> QED BY <1>1, <1>7, <2>2, <3>1, DsRequestsTyped, NamedOps DEF NextUpload
  <2> QED BY <2>1, <2>2
<1>8. ASSUME NEW d, StoreTyped(d), NextDownload(d) PROVE DsSteps
  <2>1. CASE d.pos >= d.size  BY <1>1, <1>8, <2>1, DsRequestsTyped DEF NextDownload
  <2>2. CASE ~(d.pos >= d.size)
    <3>1. d.pos + 1 \in 0..NEntries /\ d.pos + 1 \in Entries
      BY <1>2, <1>8, <2>2 DEF StoreTyped
    <3>2. d.set[d.pos + 1] \in Parameters  BY <1>8, <3>1, ParameterSets DEF StoreTyped
    <3>3. StoreTyped([d EXCEPT !.state = "WriteParameter", !.pos = @ + 1])
      BY <1>1, <1>8, <3>1 DEF StoreTyped, DsInit
    <3>4. "DS" \in Users  BY DEF Users
    <3> QED BY <1>8, <2>2, <3>1, <3>2, <3>3, <3>4, DsStepTyped, SoundNames, NamedOps
            DEF NextDownload
  <2> QED BY <2>1, <2>2
<1>9. ASSUME NEW d, StoreTyped(d), DsComErr(d) PROVE DsSteps
  BY <1>1, <1>9, DsRequestsTyped, DsStepTyped DEF DsComErr
<1> QED BY <1>3, <1>4, <1>5, <1>6, <1>7, <1>8, <1>9

\* The confirmations of AL to DS: what DS reads in AL's buffer is of its type.
LEMMA DsReadTyped == ASSUME TypeInv, NEW c, ReadCnf(c) PROVE DsSteps
<1>1. StoreTyped(ds) /\ BufferTyped  BY DEF TypeInv, DsTyped, StoreTyped
<1>2. {"CheckMemSize", "StoreDataSet", "DS_Fault"} \subseteq DsStates  BY DEF DsStates
<1>3. ASSUME StoreChecksum(c) PROVE DsSteps
  <2>1. PICK cs \in Checksums :
          LET d == [ds EXCEPT !.dcs = cs, !.cmd = "UL_END"] IN
          IF c.len = "full" THEN DsCommand(d, "StoreDataSet", "UL_END")
          ELSE DsStep([d EXCEPT !.state = "DS_Fault", !.fault = "UP"],
                      <<AlReq("DS", Op("write", "cmd", "BREAK")),
                        AlReq("DS", Op("write", "cmd", "UL_END"))>>)
    BY <1>3 DEF StoreChecksum
  <2> DEFINE d == [ds EXCEPT !.dcs = cs, !.cmd = "UL_END"]
             a == AlReq("DS", Op("write", "cmd", "BREAK"))
             b == AlReq("DS", Op("write", "cmd", "UL_END"))
  <2>2. StoreTyped(d) /\ StoreTyped([d EXCEPT !.state = "DS_Fault", !.fault = "UP"])
    BY <1>1, <1>2 DEF StoreTyped, DsInit
  <2>3. <<a, b>> = <<a>> \o <<b>>  OBVIOUS
  <2>4. "DS" \in Users  BY DEF Users
  <2>5. Sound(<<a>>) /\ Sound(<<b>>)  BY <2>4, SoundNames, NamedOps
  <2>6. Sound(<<a, b>>)  BY <2>3, <2>5, SoundPosts
  <2> QED BY <1>2, <2>1, <2>2, <2>6, DsRequestsTyped, DsStepTyped
<1>4. ASSUME FinalChecksum(c) PROVE DsSteps
  BY <1>1, <1>4, DsStepTyped, DsRequestsTyped DEF FinalChecksum
<1>5. ASSUME DsListed(ds) PROVE DsSteps
  <2>1. PICK n \in Reads("list", {ds.count}) : NextUpload([ds EXCEPT !.count = n])
    BY <1>5 DEF DsListed
  <2>2. n \in 0..NEntries  BY <1>1, <2>1 DEF Reads, BufferTyped, StoreTyped
  <2> QED BY <1>1, <2>1, <2>2, DsStepTyped, DsChainTyped
<1>6. ASSUME DsValue(ds) PROVE DsSteps
  <2>1. PICK v \in Reads("par", {<<"none", 1>>}) : NextUpload([ds EXCEPT !.set[ds.item] = v])
    BY <1>6 DEF DsValue
  <2>2. v \in Parameters  BY <1>1, <2>1, ParameterSets DEF Reads, BufferTyped
  <2>3. [ds.set EXCEPT ![ds.item] = v] \in Sets  BY <1>1, <2>2, ParameterSets DEF StoreTyped
  <2>4. StoreTyped([ds EXCEPT !.set[ds.item] = v])  BY <1>1, <2>3 DEF StoreTyped, DsInit
  <2> QED BY <2>1, <2>4, DsChainTyped
<1>7. CASE c.err = "COM_ERR"  BY <1>1, <1>7, DsChainTyped DEF ReadCnf
<1>8. CASE c.err # "COM_ERR" /\ ds.state = "CheckIdentity"
  BY <1>1, <1>2, <1>8, DsRequestsTyped, NamedOps DEF ReadCnf
<1>9. CASE c.err # "COM_ERR" /\ ds.state = "CheckMemSize"
  BY <1>1, <1>9, DsRequestsTyped, DsChainTyped DEF ReadCnf
<1>10. CASE c.err # "COM_ERR" /\ ds.state = "ReadParameter"
  BY <1>1, <1>5, <1>6, <1>10, DsRequestsTyped DEF ReadCnf
<1>11. CASE c.err # "COM_ERR" /\ ds.state = "CheckUpload"
  BY <1>1, <1>11, DsStepTyped, DsChainTyped DEF ReadCnf
<1>12. CASE c.err # "COM_ERR" /\ ds.state \in {"StoreDataSet", "DownloadDone"}
  BY <1>3, <1>4, <1>12 DEF ReadCnf
<1>13. CASE c.err # "COM_ERR"
            /\ ds.state \notin {"CheckIdentity", "CheckMemSize", "ReadParameter", "CheckUpload",
                                "StoreDataSet", "DownloadDone"}
  BY <1>1, <1>13, DsRequestsTyped DEF ReadCnf
<1> QED BY <1>7, <1>8, <1>9, <1>10, <1>11, <1>12, <1>13

\* The confirmation of a write of DS.
LEMMA DsWriteTyped == ASSUME TypeInv, NEW c, WriteCnf(c) PROVE DsSteps
<1>1. StoreTyped(ds)  BY DEF TypeInv, DsTyped, StoreTyped
<1>2. StoreTyped([ds EXCEPT !.id = ds.pend, !.cs = ds.dcs, !.valid = TRUE])
  BY <1>1 DEF StoreTyped, DsInit
<1>3. StoreTyped([ds EXCEPT !.pos = 0])  BY <1>1, DeviceAssumption DEF StoreTyped, DsInit
<1>4. "DownloadDone" \in DsStates  BY DEF DsStates
<1>5. CASE c.err # "NONE"  BY <1>1, <1>5, DsChainTyped DEF WriteCnf
<1>6. CASE c.err = "NONE" /\ ds.state \in {"CheckUpload", "CheckDSValidity", "WriteParameter"}
  BY <1>1, <1>6, DsChainTyped DEF WriteCnf
<1>7. CASE c.err = "NONE" /\ ds.state \in {"StoreDataSet", "DecomposeSet", "DownloadDone", "DS_Fault"}
  BY <1>1, <1>2, <1>3, <1>4, <1>7, DsChainTyped, DsRequestsTyped, NamedOps DEF WriteCnf
<1>8. CASE c.err = "NONE"
           /\ ds.state \notin {"CheckUpload", "CheckDSValidity", "WriteParameter", "StoreDataSet",
                               "DecomposeSet", "DownloadDone", "DS_Fault"}
  BY <1>1, <1>8, DsRequestsTyped DEF WriteCnf
<1> QED BY <1>5, <1>6, <1>7, <1>8

\* The handlers of DS keep the types.
LEMMA DsTypes == ASSUME TypeInv, DS_Handler PROVE DsSteps /\ jobs # <<>>
<1>1. StoreTyped(ds)  BY DEF TypeInv, DsTyped, StoreTyped
<1>2. ASSUME DS_ALCnf PROVE DsSteps  BY <1>2, DsReadTyped, DsWriteTyped DEF DS_ALCnf
<1>3. ASSUME DS_Startup PROVE DsSteps
  <2>1. "DS_READY" \in Plain  BY DEF Plain, JobTypes
  <2> QED BY <1>1, <1>3, <2>1, DsChainTyped, DsRequestsTyped, DsStepTyped, SoundNames
          DEF DS_Startup
<1>4. ASSUME DS_Upload PROVE DsSteps
  BY <1>1, <1>4, DsChainTyped, DsRequestsTyped DEF DS_Upload
<1>5. ASSUME DS_Delete PROVE DsSteps
  <2>1. StoreTyped([ds EXCEPT !.id = "none", !.cs = Zero, !.valid = FALSE, !.pos = 0])
    BY <1>1, DeviceAssumption DEF StoreTyped, DsInit, Names
  <2> QED BY <1>1, <1>5, <2>1, DsRequestsTyped DEF DS_Delete
<1>6. ASSUME DS_Init PROVE DsSteps
  <2> DEFINE cfg == DueArg("DS_INIT")
  <2>1. jobs # <<>> /\ Head(jobs).type = "DS_INIT"  BY <1>6 DEF DS_Init, Due
  <2>2. cfg \in Cfgs  BY <2>1, SoundKept DEF TypeInv, JobOK, DueArg
  <2>3. cfg.dev \in Names  BY <2>2 DEF Cfgs, Names
  <2> HIDE DEF cfg
  <2> DEFINE up    == cfg.mode = "MAN" /\ cfg.val = "BAK_RESTORE"
             down  == cfg.mode = "MAN" /\ cfg.val \in {"RESTORE", "BAK_RESTORE"}
             on    == ds.enable \/ down
             state == IF ds.state \in DsResting \cup {"CheckIdentity", "CheckMemSize"}
                      THEN IF on THEN "Waiting" ELSE "Off" ELSE ds.state
             d     == [ds EXCEPT !.up = up, !.down = down, !.fault = "NONE", !.enable = on,
                                 !.pend = cfg.dev, !.state = state]
  <2>4. DsStep(d, <<>>)  BY <1>6 DEF DS_Init, cfg
  <2>5. state \in DsStates  BY <1>1 DEF StoreTyped, DsStates
  <2> HIDE DEF up, down, on, state
  <2>6. StoreTyped(d)  BY <1>1, <2>3, <2>5 DEF StoreTyped, DsInit
  <2> QED BY <2>4, <2>6, DsRequestsTyped
<1>7. jobs # <<>>
  BY DEF DS_Handler, DS_ALCnf, DS_Startup, DS_Upload, DS_Delete, DS_Init, Due
<1> QED BY <1>2, <1>3, <1>4, <1>5, <1>6, <1>7 DEF DS_Handler

-----------------------------------------------------------------------------
\* The exchange keeps the types.
LEMMA OdeTypes == ASSUME TypeInv, ODE_Handler PROVE jobs # <<>> /\ SoundHandled /\ ExchangeTyped'
<1>1. ExchangeTyped  BY DEF TypeInv
<1>2. \A data : LET a == Answered(app, data) IN
                /\ DOMAIN a = DOMAIN app /\ a.open = NoOp /\ a.wait = app.wait
  BY <1>1 DEF Answered, ExchangeTyped, AppInit
<1>3. UNCHANGED pde  BY DEF ODE_Handler
<1>4. ASSUME ODE_Request PROVE jobs # <<>> /\ SoundHandled /\ ExchangeTyped'
  <2>1. jobs # <<>> /\ Head(jobs).type = "SMI_RW"  BY <1>4 DEF ODE_Request, Due
  <2>2. DueArg("SMI_RW") \in Requests  BY <2>1, SoundKept DEF TypeInv, JobOK, DueArg
  <2>3. "ODE" \in Users  BY DEF Users
  <2>4. SoundHandled
    BY <1>4, <2>2, <2>3, NamedOps, SoundNames, SoundPosts DEF ODE_Request, SoundHandled
  <2>5. ExchangeTyped'
    BY <1>1, <1>2, <1>3, <1>4 DEF ODE_Request, ExchangeTyped, OdeInit, AppInit
  <2> QED BY <2>1, <2>4, <2>5
<1>5. ASSUME ODE_ALCnf \/ ODE_Start \/ ODE_Stop
      PROVE jobs # <<>> /\ SoundHandled /\ ExchangeTyped'
  <2>1. jobs # <<>> /\ Handled(<<>>)  BY <1>5 DEF ODE_ALCnf, ODE_Start, ODE_Stop, Due
  <2>2. UNCHANGED app \/ \E data : app' = Answered(app, data)
    BY <1>5 DEF ODE_ALCnf, ODE_Start, ODE_Stop
  <2>3. /\ DOMAIN ode' = DOMAIN ode
        /\ ode'.state \in {ode.state, "Active", "Inactive"}
    BY <1>1, <1>5 DEF ODE_ALCnf, ODE_Start, ODE_Stop, ExchangeTyped, OdeInit
  <2>4. ExchangeTyped'  BY <1>1, <1>2, <1>3, <2>2, <2>3 DEF ExchangeTyped, AppInit
  <2> QED BY <2>1, <2>4, SoundPosts DEF SoundHandled
<1> QED BY <1>4, <1>5 DEF ODE_Handler

\* The jobs of a configuration.
LEMMA ConfigPosts == ASSUME NEW cfg \in Cfgs
  PROVE /\ \A c : Sound(<<SmConfig(c)>>)
        /\ Sound(<<Job("OD_STOP")>>) /\ Sound(<<Job("DS_DELETE")>>)
        /\ Sound(<<JobArg("DS_INIT", cfg)>>)
        /\ \A c : Sound(<<JobArg("DS_INIT", cfg), SmConfig(c)>>)
<1>1. {"SM_CONFIG", "OD_STOP", "DS_DELETE"} \subseteq Plain  BY DEF Plain, JobTypes
<1>2. \A c : Sound(<<SmConfig(c)>>)  BY <1>1, SoundNames DEF SmConfig
<1>3. \A c : <<JobArg("DS_INIT", cfg), SmConfig(c)>> = <<JobArg("DS_INIT", cfg)>> \o <<SmConfig(c)>>
  OBVIOUS
<1> QED BY <1>1, <1>2, <1>3, SoundNames, SoundPosts

\* CM keeps the types.
LEMMA CmTypes == ASSUME TypeInv, CM_Handler
  PROVE jobs # <<>> /\ SoundHandled /\ ExchangeTyped' /\ ManagerTyped'
<1>1. ExchangeTyped /\ ManagerTyped  BY DEF TypeInv
<1>2. ASSUME NEW state \in CmStates, NEW cfg \in Cfgs, NEW p, Sound(p), CM_Calls(state, cfg, p)
      PROVE SoundHandled /\ ManagerTyped'
  BY <1>2 DEF CM_Calls, SoundHandled, ManagerTyped
<1>3. ASSUME NEW state \in CmStates, NEW p, Sound(p), CM_Moves(state, p)
      PROVE SoundHandled /\ ManagerTyped'
  BY <1>1, <1>2, <1>3 DEF CM_Moves, ManagerTyped
<1>4. ASSUME CM_Ignores PROVE SoundHandled /\ ExchangeTyped' /\ ManagerTyped'
  BY <1>1, <1>4, SoundPosts DEF CM_Ignores, SoundHandled, ExchangeTyped, ManagerTyped
<1>5. UNCHANGED <<ode, pde, app>> => ExchangeTyped'  BY <1>1 DEF ExchangeTyped
<1>6. UNCHANGED <<ode, app>> /\ pde' \in BOOLEAN => ExchangeTyped'  BY <1>1 DEF ExchangeTyped
<1>7. ASSUME CM_Configure PROVE SoundHandled /\ ExchangeTyped' /\ ManagerTyped'
  <2> DEFINE cfg == DueArg("SMI_PORTCFG")
  <2>1. jobs # <<>> /\ Head(jobs).type = "SMI_PORTCFG"  BY <1>7 DEF CM_Configure, Due
  <2>2. cfg \in Cfgs  BY <2>1, SoundKept DEF TypeInv, JobOK, DueArg
  <2> HIDE DEF cfg
  <2>3. CASE cm.state = "DS_ParamManager"
    BY <1>4, <1>7, <2>3 DEF CM_Configure
  <2>4. CASE cm.state # "DS_ParamManager"
    <3>1. pde' = FALSE /\ app' = [app EXCEPT !.wait = FALSE] /\ UNCHANGED ode
      BY <1>7, <2>4 DEF CM_Configure
    <3>2. ExchangeTyped'  BY <1>1, <3>1 DEF ExchangeTyped, AppInit
    <3>3. {"SM_Startup", "Port_DIDO", "Port_Deactivated"} \subseteq CmStates  BY DEF CmStates
    <3>4. ASSUME CM_Startup(cfg) PROVE SoundHandled /\ ManagerTyped'
      <4> DEFINE del  == IF cfg.mode = "AUTO" \/ ~DS_ChkCfg(cfg) THEN <<Job("DS_DELETE")>> ELSE <<>>
                 rest == <<JobArg("DS_INIT", cfg), SmConfig(ParamList(cfg))>>
      <4>1. Sound(del) /\ Sound(rest)  BY <2>2, ConfigPosts, SoundPosts
      <4>2. CM_Calls("SM_Startup", cfg, <<Job("OD_STOP")>> \o del \o rest)
        BY <3>4 DEF CM_Startup
      <4> HIDE DEF del, rest
      <4>3. Sound(<<Job("OD_STOP")>> \o del \o rest)
        BY <2>2, <4>1, ConfigPosts, SoundPosts
      <4> QED BY <1>2, <2>2, <3>3, <4>2, <4>3
    <3>5. ASSUME CM_DIDO(cfg) PROVE SoundHandled /\ ManagerTyped'
      <4> DEFINE a == Job("OD_STOP")
                 b == Job("DS_DELETE")
                 c == JobArg("DS_INIT", cfg)
                 d == SmConfig(ParamList(cfg))
      <4>1. CM_Calls("Port_DIDO", cfg, <<a, b, c, d>>)  BY <3>5 DEF CM_DIDO
      <4>2. Sound(<<a>>) /\ Sound(<<b>>) /\ Sound(<<c, d>>)  BY <2>2, ConfigPosts
      <4>3. <<a, b, c, d>> = <<a>> \o (<<b>> \o <<c, d>>)  OBVIOUS
      <4> HIDE DEF a, b, c, d
      <4>4. Sound(<<a, b, c, d>>)  BY <4>2, <4>3, SoundPosts
      <4> QED BY <1>2, <2>2, <3>3, <4>1, <4>4
    <3>6. ASSUME NEW refused, CM_Deactivate(cfg, refused) PROVE SoundHandled /\ ManagerTyped'
      <4> DEFINE kept == IF refused THEN cm.cfg ELSE cfg
                 del  == IF refused THEN <<Job("DS_DELETE")>> ELSE <<>>
                 last == <<SmConfig(NoParams(kept.mode))>>
      <4>1. kept \in Cfgs  BY <1>1, <2>2 DEF ManagerTyped
      <4>2. CM_Calls("Port_Deactivated", kept, <<Job("OD_STOP")>> \o del \o last)
        BY <3>6 DEF CM_Deactivate
      <4>3. Sound(del) /\ Sound(last)  BY <2>2, ConfigPosts, SoundPosts
      <4> HIDE DEF kept, del, last
      <4>4. Sound(<<Job("OD_STOP")>> \o del \o last)
        BY <2>2, <4>3, ConfigPosts, SoundPosts
      <4> QED BY <1>2, <3>3, <4>1, <4>2, <4>4
    <3>7. \/ CM_Startup(cfg) \/ CM_DIDO(cfg) \/ CM_Deactivate(cfg, FALSE) \/ CM_Deactivate(cfg, TRUE)
      BY <1>7, <2>4 DEF CM_Configure, cfg
    <3> QED BY <3>2, <3>4, <3>5, <3>6, <3>7
  <2> QED BY <2>3, <2>4
<1>8. ASSUME CM_PortMode PROVE SoundHandled /\ ExchangeTyped' /\ ManagerTyped'
  <2>1. {"DS_ParamManager", "Port_Active", "PortFault", "CheckPortMode"} \subseteq CmStates
    BY DEF CmStates
  <2>2. cm.state \in CmStates  BY <1>1 DEF ManagerTyped
  <2>3. Sound(<<Job("DS_STARTUP")>>) /\ Sound(<<Job("OD_START")>>) /\ Sound(<<>>)
    <3>1. {"DS_STARTUP", "OD_START"} \subseteq Plain  BY DEF Plain, JobTypes
    <3> QED BY <3>1, SoundNames, SoundPosts
  <2>4. ASSUME CM_ComReady PROVE SoundHandled /\ ExchangeTyped' /\ ManagerTyped'
    BY <1>3, <1>5, <2>1, <2>3, <2>4 DEF CM_ComReady
  <2>5. ASSUME CM_Operate PROVE SoundHandled /\ ExchangeTyped' /\ ManagerTyped'
    BY <1>3, <1>6, <2>1, <2>3, <2>5 DEF CM_Operate
  <2>6. ASSUME NEW states, CM_PortFault(states) PROVE SoundHandled /\ ExchangeTyped' /\ ManagerTyped'
    BY <1>3, <1>5, <2>1, <2>3, <2>6 DEF CM_PortFault
  <2>7. ASSUME CM_Comlost PROVE SoundHandled /\ ExchangeTyped' /\ ManagerTyped'
    BY <1>3, <1>5, <2>1, <2>3, <2>7 DEF CM_Comlost
  <2>8. ASSUME CM_Moves(cm.state, <<>>), UNCHANGED <<ode, pde, app>>
        PROVE SoundHandled /\ ExchangeTyped' /\ ManagerTyped'
    BY <1>3, <1>5, <2>2, <2>3, <2>8
  <2> QED BY <1>4, <1>8, <2>4, <2>5, <2>6, <2>7, <2>8 DEF CM_PortMode
<1>9. ASSUME CM_DsReady \/ CM_DsFault PROVE SoundHandled /\ ExchangeTyped' /\ ManagerTyped'
  <2>1. {"WaitingOnOperate", "PortFault"} \subseteq CmStates  BY DEF CmStates
  <2>2. Sound(<<Job("SM_OPERATE")>>) /\ Sound(<<>>)
    <3>1. "SM_OPERATE" \in Plain  BY DEF Plain, JobTypes
    <3> QED BY <3>1, SoundNames, SoundPosts
  <2>3. ASSUME NEW states, CM_PortFault(states) PROVE SoundHandled /\ ExchangeTyped' /\ ManagerTyped'
    BY <1>3, <1>5, <2>1, <2>2, <2>3 DEF CM_PortFault
  <2> QED BY <1>3, <1>4, <1>5, <1>9, <2>1, <2>2, <2>3 DEF CM_DsReady, CM_DsFault
<1>10. jobs # <<>>
  BY DEF CM_Handler, CM_Configure, CM_PortMode, CM_DsReady, CM_DsFault, Due
<1> QED BY <1>7, <1>8, <1>9, <1>10 DEF CM_Handler

-----------------------------------------------------------------------------
\* The jobs of the data link are sound.
LEMMA LinkPosts ==
  /\ \A mode : Sound(<<ModeInd(mode)>>)
  /\ \A d : Sound(IsduDownCnf(d))
  /\ \A d, mode : Sound(IsduDownCnf(d) \o <<ModeInd(mode)>>)
  /\ \A arg : Sound(<<JobArg("DL_CNF", arg)>>) /\ Sound(<<JobArg("ISDU_CNF", arg)>>)
              /\ Sound(<<JobArg("DEVMODE_CNF", arg)>>)
  /\ \A op, err, own : Sound(<<ParamRes(op, err, own)>>)
  /\ \A by10 : Sound(LoseCnf(by10))
  /\ \A code : Sound(Events(<<code>>))
  /\ \A code, more : Sound(Events(<<code, more>>))
<1>1. {"MODE", "DL_CNF", "ISDU_CNF", "DEVMODE_CNF", "PARAM_CNF", "EVENT"} \subseteq Plain
  BY DEF Plain, JobTypes
<1>2. \A mode : Sound(<<ModeInd(mode)>>)  BY <1>1, SoundNames DEF ModeInd
<1>3. \A d : Sound(IsduDownCnf(d))  BY <1>1, SoundNames, SoundPosts DEF IsduDownCnf
<1>4. \A op, err, own : Sound(<<ParamRes(op, err, own)>>)  BY <1>1, SoundNames DEF ParamRes
<1>5. ASSUME NEW by10 PROVE Sound(LoseCnf(by10))
  <2> DEFINE a == IF by10 /\ dl.mcmd # "none"
                  THEN <<JobArg("DEVMODE_CNF", FALSE)>> ELSE <<>>
             b == IF dl.par # NoOp /\ (by10 \/ dl.par.rw = "write")
                  THEN <<ParamRes(dl.par, "ERR", FALSE)>> ELSE <<>>
  <2>1. Sound(a)  BY <1>1, SoundNames, SoundPosts
  <2>2. Sound(b)  BY <1>4, SoundPosts
  <2>3. dl.link # "Startup" => LoseCnf(by10) = a \o b  BY DEF LoseCnf
  <2>4. dl.link = "Startup" => Sound(LoseCnf(by10))  BY <1>1, SoundNames DEF LoseCnf
  <2> HIDE DEF a, b
  <2> QED BY <2>1, <2>2, <2>3, <2>4, SoundPosts
<1>6. ASSUME NEW codes, IsSeq(codes) PROVE Sound(Events(codes))
  <2>1. PICK S : codes \in Seq(S)  BY <1>6 DEF IsSeq
  <2>2. Len(codes) \in Nat /\ DOMAIN codes = 1..Len(codes)  BY <2>1
  <2> DEFINE ev(i) == JobArg("EVENT", [code |-> codes[i], left |-> i < Len(codes)])
  <2>3. Events(codes) = [i \in 1..Len(codes) |-> ev(i)]  BY <2>2 DEF Events
  <2>4. Events(codes) \in Seq({ev(i) : i \in 1..Len(codes)})  BY <2>2, <2>3
  <2>5. \A i : JobOK(ev(i))  BY <1>1 DEF JobArg, JobOK, Plain
  <2> QED BY <2>2, <2>3, <2>4, <2>5 DEF Sound, IsSeq
<1>7. \A code : IsSeq(<<code>>)
  <2>1. \A code : <<code>> \in Seq({code})  OBVIOUS
  <2> QED BY <2>1 DEF IsSeq
<1>8. \A code, more : IsSeq(<<code, more>>)
  <2>1. \A code, more : <<code, more>> \in Seq({code, more})  OBVIOUS
  <2> QED BY <2>1 DEF IsSeq
<1> QED BY <1>1, <1>2, <1>3, <1>4, <1>5, <1>6, <1>7, <1>8, SoundNames, SoundPosts

\* A step of the data link's thread that keeps its state, the device and the buffer typed.
LinkSteps == SoundPosted /\ LinkTyped' /\ CableTyped' /\ BufferTyped'

\* The mode handler keeps the types.
LEMMA ModeTyped == ASSUME TypeInv, ModeStep PROVE LinkSteps
<1>1. LinkTyped /\ CableTyped /\ BufferTyped  BY DEF TypeInv
<1>2. CableTyped' /\ BufferTyped'  BY <1>1 DEF ModeStep, CableTyped, BufferTyped
<1> DEFINE d0 == [dl EXCEPT !.mdh = "no"]
           Kept(d) == /\ DOMAIN d = DOMAIN DlInit /\ d.mode = dl.mode /\ d.mdh = "no"
                      /\ d.mh \in BOOLEAN /\ d.lost \in BOOLEAN /\ d.run \in BOOLEAN
                      /\ d.isdu = NoOp \/ OpOK(d.isdu)
<1>3. Kept(d0) /\ d0.link = dl.link  BY <1>1 DEF LinkTyped, DlInit
<1>4. ASSUME NEW d, Kept(d), NEW ind, GotoIdle(d, ind) \/ (GotoStartup(d) /\ ind = "STARTUP")
      PROVE SoundPosted /\ LinkTyped'
  <2>1. SoundPosted  BY <1>4, LinkPosts DEF GotoIdle, GotoStartup, SoundPosted
  <2>2. Kept(IsduDown(d))  BY <1>4 DEF IsduDown, DlInit
  <2>3. Kept(dl') /\ dl'.link \in {"Idle", "Startup"}
    <3> DEFINE x == IsduDown(d)
    <3> HIDE DEF x
    <3>1. CASE GotoIdle(d, ind)
      <4>1. PICK code : dl' = [x EXCEPT !.link = "Idle", !.lost = FALSE, !.code = code,
                                        !.mh = d.mh /\ d.link = "Startup"]
        BY <3>1 DEF GotoIdle, x
      <4> QED BY <1>4, <2>2, <4>1 DEF DlInit, x
    <3>2. CASE GotoStartup(d)
      <4>1. PICK code : dl' = [x EXCEPT !.link = "Startup", !.code = code]
        BY <3>2 DEF GotoStartup, x
      <4> QED BY <2>2, <4>1 DEF DlInit, x
    <3> QED BY <1>4, <3>1, <3>2
  <2> QED BY <1>1, <2>1, <2>3 DEF LinkTyped
<1>5. ASSUME NEW d, Kept(d), NEW state \in {"Preop", "Operate"}, NEW ind, Goto(d, state, ind)
      PROVE SoundPosted /\ LinkTyped'
  <2>1. SoundPosted  BY <1>5, LinkPosts DEF Goto, SoundPosted
  <2>2. LinkTyped'  BY <1>1, <1>5 DEF Goto, LinkTyped, DlInit
  <2> QED BY <2>1, <2>2
<1>6. ASSUME dl' = d0, UNCHANGED jobs PROVE SoundPosted /\ LinkTyped'
  BY <1>1, <1>3, <1>6 DEF SoundPosted, LinkTyped
<1>7. ASSUME dl' = [d0 EXCEPT !.link = "WakeUp", !.wurq = TRUE], UNCHANGED jobs
      PROVE SoundPosted /\ LinkTyped'
  BY <1>1, <1>7 DEF SoundPosted, LinkTyped, DlInit
<1>8. \/ dl' = d0 /\ UNCHANGED jobs
      \/ dl' = [d0 EXCEPT !.link = "WakeUp", !.wurq = TRUE] /\ UNCHANGED jobs
      \/ \E state \in {"Preop", "Operate"}, ind \in {"PREOPERATE", "OPERATE"} : Goto(d0, state, ind)
      \/ \E ind \in {"INACTIVE", "COMLOST"} : GotoIdle(d0, ind)
      \/ GotoStartup(d0)
  BY <1>3 DEF ModeStep
<1> HIDE DEF Kept, d0
<1> QED BY <1>2, <1>3, <1>4, <1>5, <1>6, <1>7, <1>8 DEF LinkSteps

\* So do the exchanges with the device: its answer, and what a write does to it,
LEMMA IsduTyped == ASSUME TypeInv, IsduDone PROVE LinkSteps
<1>1. LinkTyped /\ CableTyped /\ BufferTyped  BY DEF TypeInv
<1>2. OpOK(dl.isdu)  BY <1>1 DEF IsduDone, LinkTyped
<1>3. SoundPosted  BY LinkPosts DEF IsduDone, SoundPosted
<1>4. LinkTyped'  BY <1>1 DEF IsduDone, Served, LinkTyped, DlInit
<1>5. CableTyped'
  <2>1. faults' = faults /\ dev' = Effect(dl.isdu)  BY DEF IsduDone
  <2>2. dev.par \in [Entries -> Parameters]  BY <1>1, ParameterSets DEF CableTyped
  <2>3. CASE dl.isdu.rw = "write" /\ dl.isdu.what = "par"
    <3>1. dl.isdu.arg \in Entries /\ dl.isdu.val \in Parameters  BY <1>2, <2>3 DEF OpOK
    <3>2. [dev.par EXCEPT ![dl.isdu.arg] = dl.isdu.val] \in Sets  BY <2>2, <3>1, ParameterSets
    <3>3. dev' = [dev EXCEPT !.par = [dev.par EXCEPT ![dl.isdu.arg] = dl.isdu.val]]
      BY <2>1, <2>3 DEF Effect
    <3> QED BY <1>1, <2>1, <3>2, <3>3 DEF CableTyped
  <2>4. CASE ~(dl.isdu.rw = "write" /\ dl.isdu.what = "par")
    <3> DEFINE flag == dev.flag /\ dl.isdu.arg \notin {"UL_END", "DL_END"}
               open == dl.isdu.arg \in {"UL_START", "DL_START"}
    <3>1. flag \in BOOLEAN /\ open \in BOOLEAN  BY <1>1 DEF CableTyped
    <3>2. dev' = dev \/ dev' = [dev EXCEPT !.flag = flag, !.open = open]
      BY <2>1, <2>4 DEF Effect
    <3> HIDE DEF flag, open
    <3> QED BY <1>1, <2>1, <3>1, <3>2 DEF CableTyped
  <2> QED BY <2>3, <2>4
<1>6. BufferTyped'
  <2>1. \/ bufr' = <<"negative">>
        \/ bufr' = Answer(dl.isdu)
        \/ bufr' = bufr
    BY DEF IsduDone
  <2>2. ASSUME bufr' = Answer(dl.isdu) PROVE BufferTyped'
    <3>1. CASE dl.isdu.what = "par"
      <4>1. dev.par[dl.isdu.arg] \in Parameters
        BY <1>1, <1>2, <3>1, ParameterSets DEF CableTyped, OpOK
      <4>2. bufr' = <<"par", dev.par[dl.isdu.arg]>>  BY <2>2, <3>1 DEF Answer
      <4> QED BY <4>1, <4>2 DEF BufferTyped
    <3>2. CASE dl.isdu.what = "list"
      <4>1. bufr' = <<"list", NEntries>>  BY <2>2, <3>2 DEF Answer
      <4> QED BY <4>1, DeviceAssumption DEF BufferTyped
    <3>3. CASE dl.isdu.what \notin {"par", "list"}
      <4>1. bufr'[1] = dl.isdu.what  BY <2>2, <3>3 DEF Answer
      <4> QED BY <3>3, <4>1 DEF BufferTyped
    <3> QED BY <3>1, <3>2, <3>3
  <2>3. ASSUME bufr' = <<"negative">> PROVE BufferTyped'  BY <2>3 DEF BufferTyped
  <2> QED BY <1>1, <2>1, <2>2, <2>3 DEF BufferTyped
<1> QED BY <1>3, <1>4, <1>5, <1>6 DEF LinkSteps

\* what fails, is lost or happens at the device,
LEMMA TroubleTyped == ASSUME TypeInv, LinkTrouble PROVE LinkSteps
<1>1. LinkTyped /\ CableTyped /\ BufferTyped  BY DEF TypeInv
<1>2. faults > 0 => faults - 1 \in 0..MaxFaults  BY <1>1, BudgetAssumption DEF CableTyped
<1>3. ASSUME IsduFails PROVE LinkSteps
  <2>1. SoundPosted  BY <1>3, LinkPosts DEF IsduFails, SoundPosted
  <2>2. LinkTyped'  BY <1>1, <1>3 DEF IsduFails, Served, LinkTyped, DlInit
  <2>3. CableTyped'  BY <1>1, <1>2, <1>3 DEF IsduFails, CableTyped
  <2>4. bufr' \in {bufr, <<"negative">>, <<"short">>}  BY <1>3 DEF IsduFails
  <2>5. BufferTyped'  BY <1>1, <2>4 DEF BufferTyped
  <2> QED BY <2>1, <2>2, <2>3, <2>5 DEF LinkSteps
<1>4. ASSUME Lose PROVE LinkSteps
  <2>1. SoundPosted  BY <1>4, LinkPosts DEF Lose, SoundPosted
  <2>2. LinkTyped'  BY <1>1, <1>4 DEF Lose, LinkTyped, DlInit
  <2>3. CableTyped'  BY <1>1, <1>2, <1>4 DEF Lose, CableTyped
  <2> QED BY <1>1, <1>4, <2>1, <2>2, <2>3 DEF LinkSteps, Lose, BufferTyped
<1>5. ASSUME DeviceEvent PROVE LinkSteps
  <2>1. SoundPosted  BY <1>5, LinkPosts DEF DeviceEvent, SoundPosted
  <2>2. LinkTyped'  BY <1>1, <1>5 DEF DeviceEvent, Served, LinkTyped, DlInit
  <2>3. dev' = dev \/ dev' = [dev EXCEPT !.par = [dev.par EXCEPT ![1] = <<dev.id, 1>>], !.flag = TRUE]
    BY <1>5 DEF DeviceEvent
  <2>4. [dev.par EXCEPT ![1] = <<dev.id, 1>>] \in Sets  BY <1>1, ParameterSets DEF CableTyped
  <2>5. CableTyped'  BY <1>1, <1>2, <1>5, <2>3, <2>4 DEF DeviceEvent, CableTyped
  <2> QED BY <1>1, <1>5, <2>1, <2>2, <2>5 DEF LinkSteps, DeviceEvent, BufferTyped
<1>6. ASSUME Swap PROVE LinkSteps
  <2>1. PICK d \in Devices : dev' = Plugged(d)  BY <1>6 DEF Swap
  <2>2. CableTyped'  BY <1>1, <1>2, <1>6, <2>1, ParameterSets DEF Swap, CableTyped, Plugged
  <2> QED BY <1>1, <1>6, <2>2 DEF LinkSteps, Swap, SoundPosted, LinkTyped, BufferTyped
<1> QED BY <1>3, <1>4, <1>5, <1>6 DEF LinkTrouble

\* and the rest of the thread.
LEMMA ThreadTyped == ASSUME TypeInv, LinkProgress PROVE LinkSteps
<1>1. LinkTyped /\ CableTyped /\ BufferTyped  BY DEF TypeInv
<1>2. ASSUME WakeUp PROVE LinkSteps
  <2>1. SoundPosted  BY <1>2, LinkPosts DEF WakeUp, SoundPosted
  <2>2. LinkTyped'  BY <1>1, <1>2 DEF WakeUp, Served, LinkTyped, DlInit
  <2>3. CableTyped'  BY <1>1, <1>2, BudgetAssumption DEF WakeUp, CableTyped
  <2> QED BY <1>1, <1>2, <2>1, <2>2, <2>3 DEF LinkSteps, WakeUp, BufferTyped
<1>3. ASSUME AccessDone \/ IsduStart \/ ParamDone \/ ModeDone PROVE LinkSteps
  <2>1. SoundPosted
    BY <1>3, LinkPosts DEF AccessDone, IsduStart, ParamDone, ModeDone, SoundPosted
  <2>2. LinkTyped'
    BY <1>1, <1>3 DEF AccessDone, IsduStart, ParamDone, ModeDone, Served, LinkTyped, DlInit
  <2>3. UNCHANGED <<dev, bufr, faults>>  BY <1>3 DEF AccessDone, IsduStart, ParamDone, ModeDone
  <2> QED BY <1>1, <2>1, <2>2, <2>3 DEF LinkSteps, CableTyped, BufferTyped
<1> QED BY <1>2, <1>3, ModeTyped, IsduTyped DEF LinkProgress

\* The application asks only for what is sound.
LEMMA ApplicationTypes == ASSUME TypeInv, Application PROVE SoundPosted /\ ExchangeTyped'
<1>1. ExchangeTyped  BY DEF TypeInv
<1>2. ASSUME Configure PROVE SoundPosted /\ ExchangeTyped'
  <2>1. SoundPosted  BY <1>2, ConfigsAssumption, SoundNames DEF Configure, SoundPosted
  <2>2. ExchangeTyped'  BY <1>1, <1>2 DEF Configure, Application, ExchangeTyped, AppInit
  <2> QED BY <2>1, <2>2
<1>3. ASSUME Request PROVE SoundPosted /\ ExchangeTyped'
  <2>1. SoundPosted  BY <1>3, SoundNames DEF Request, SoundPosted
  <2>2. ExchangeTyped'  BY <1>1, <1>3 DEF Request, Application, ExchangeTyped, AppInit
  <2> QED BY <2>1, <2>2
<1>4. ASSUME GiveUp PROVE SoundPosted /\ ExchangeTyped'
  BY <1>1, <1>4 DEF GiveUp, Application, ExchangeTyped, AppInit, SoundPosted
<1> QED BY <1>2, <1>3, <1>4 DEF Application

\* Every step keeps the types.
LEMMA TypesNext == ASSUME TypeInv, [Next]_vars PROVE TypeInv'
<1>1. Sound(jobs)  BY DEF TypeInv
<1>2. jobs # <<>> /\ SoundHandled => Sound(jobs)'  BY <1>1, SoundKept
<1>3. SoundPosted => Sound(jobs)'  BY <1>1, SoundKept
<1>4. /\ UNCHANGED dl => LinkTyped'
      /\ UNCHANGED <<dev, faults>> => CableTyped'
      /\ UNCHANGED bufr => BufferTyped'
      /\ UNCHANGED al => AlTyped'
      /\ UNCHANGED sm => SmTyped'
      /\ UNCHANGED ds => DsTyped'
      /\ UNCHANGED <<ode, pde, app>> => ExchangeTyped'
      /\ UNCHANGED cm => ManagerTyped'
  BY DEF TypeInv, LinkTyped, CableTyped, BufferTyped, AlTyped, SmTyped, DsTyped, ExchangeTyped,
         ManagerTyped
<1>5. CASE Application
  BY <1>3, <1>4, <1>5, ApplicationTypes DEF Application, TypeInv, link
<1>6. CASE LinkRuns \/ LinkFails
  BY <1>3, <1>4, <1>6, ThreadTyped, TroubleTyped DEF LinkRuns, LinkFails, LinkSteps, TypeInv, above
<1>7. CASE AL_Request /\ UNCHANGED <<ode, pde, app, cm>>
  <2>1. UNCHANGED <<sm, ds, dev, faults, bufr>>  BY <1>7 DEF AL_Request, AL_ReadWrite
  <2> QED BY <1>2, <1>4, <1>7, <2>1, RequestTypes DEF TypeInv
<1>8. CASE AL_Handler /\ UNCHANGED <<sm, ds, info, ode, pde, app, cm>>
  <2>1. UNCHANGED <<dl, dev, faults>>
    BY <1>8 DEF AL_Handler, AL_ParamCnf, AL_IsduCnf, AL_EventInd, AL_EventRsp, AL_Confirm
  <2> QED BY <1>2, <1>4, <1>8, <2>1, AlTypes DEF TypeInv
<1>9. CASE SM_Handler /\ UNCHANGED <<ds, info, ode, pde, app, cm>>
  <2>1. UNCHANGED <<al, dev, faults, bufr>>  BY <1>9 DEF SM_Handler
  <2> QED BY <1>2, <1>4, <1>9, <2>1, SmTypes DEF TypeInv, SmSteps
<1>10. CASE DS_Handler /\ UNCHANGED <<ode, pde, app, cm>>
  <2>1. UNCHANGED <<dl, dev, faults, bufr, al, sm>>  BY <1>10 DEF DS_Handler
  <2> QED BY <1>2, <1>4, <1>10, <2>1, DsTypes DEF TypeInv, DsSteps
<1>11. CASE ODE_Handler /\ UNCHANGED cm
  <2>1. UNCHANGED <<dl, dev, faults, bufr, al, sm, ds>>  BY <1>11 DEF ODE_Handler
  <2> QED BY <1>2, <1>4, <1>11, <2>1, OdeTypes DEF TypeInv
<1>12. CASE CM_Handler
  <2>1. UNCHANGED <<dl, dev, faults, bufr, al, sm, ds>>  BY <1>12 DEF CM_Handler
  <2> QED BY <1>2, <1>4, <1>12, <2>1, CmTypes DEF TypeInv
<1>13. CASE UNCHANGED vars
  BY <1>1, <1>4, <1>13 DEF vars, link, above, TypeInv
<1> QED BY <1>5, <1>6, <1>7, <1>8, <1>9, <1>10, <1>11, <1>12, <1>13 DEF Next, Master

\* The types of every layer, and of what the jobs carry, hold throughout.
LEMMA TypesHold == Spec => []TypeInv
BY TypesInit, TypesNext, PTL DEF Spec

\* PortStack's state has its types: among them, the table of SM never restarts a device
\* twice (retry), the confirmations of events are counted within their slots, and every data
\* set is a set of parameters, however uploads, losses and configurations interleave.
THEOREM PortTypes == Spec => []TypeOK
BY TypesHold, TypesImplied, PTL

-----------------------------------------------------------------------------
(***************************************************************************)
(* The start-up of a device, as SM and the data link agree on it: SM's      *)
(* handlers run one at a time, the thread of the data link between them,    *)
(* and each is told of the other's steps by jobs.  The jobs that matter, by *)
(* kind: configurations, the requests of SM to AL and their confirmations   *)
(* ("odd": not the read of the serial number), the indications of the mode, *)
(* and the confirmations of SM's accesses and of a device mode.             *)
(***************************************************************************)
Kind(j, k) ==
  \/ k = "cfg"   /\ j.type \in {"SMI_PORTCFG", "SM_CONFIG"}
  \/ k = "al"    /\ j.type \in {"AL_REQ", "AL_CNF"} /\ j.who = "SM"
  \/ k = "odd"   /\ j.type = "AL_REQ" /\ j.who = "SM" /\ j.op # Op("read", "serial", 0)
  \/ k = "mode"  /\ j.type = "MODE"
  \/ k = "start" /\ j.type = "MODE" /\ j.arg = "STARTUP"
  \/ k = "preop" /\ j.type = "MODE" /\ j.arg = "PREOPERATE"
  \/ k = "oper"  /\ j.type = "MODE" /\ j.arg = "OPERATE"
  \/ k = "cnf"   /\ j.type = "DL_CNF"
  \/ k = "good"  /\ j.type = "DL_CNF" /\ j.arg.ok
  \/ k = "bad"   /\ j.type = "DL_CNF" /\ ~j.arg.ok
  \/ k = "dev"   /\ j.type = "DEVMODE_CNF"

\* No job of that kind is in the mailbox; none of kind l is behind one of kind k.
No(s, k)       == \A i \in DOMAIN s : ~Kind(s[i], k)
Apart(s, k, l) == \A i, j \in DOMAIN s : i < j /\ Kind(s[i], k) => ~Kind(s[j], l)
\* Jobs that are of none of these kinds.
Aside(p) == IsSeq(p) /\ \A k : No(p, k)

\* The kinds of the jobs, by their constructors.
LEMMA KindNames ==
  /\ \A type, k, arg :
       type \notin {"SMI_PORTCFG", "SM_CONFIG", "MODE", "DL_CNF", "DEVMODE_CNF", "AL_REQ", "AL_CNF"}
         => ~Kind(JobArg(type, arg), k) /\ ~Kind(Job(type), k)
  /\ \A type \in {"SMI_PORTCFG", "SM_CONFIG"} : \A k, arg : Kind(JobArg(type, arg), k) <=> k = "cfg"
  /\ \A k, arg : Kind(JobArg("DEVMODE_CNF", arg), k) <=> k = "dev"
  /\ \A k, what : /\ Kind(JobArg("DL_CNF", [what |-> what, ok |-> TRUE]), k) <=> k \in {"cnf", "good"}
                  /\ Kind(JobArg("DL_CNF", [what |-> what, ok |-> FALSE]), k) <=> k \in {"cnf", "bad"}
  /\ \A k, mode : Kind(ModeInd(mode), k) <=> \/ k = "mode"
                                             \/ mode = "STARTUP" /\ k = "start"
                                             \/ mode = "PREOPERATE" /\ k = "preop"
                                             \/ mode = "OPERATE" /\ k = "oper"
  /\ \A k, who, op : Kind(AlReq(who, op), k) <=>
       who = "SM" /\ (k = "al" \/ (k = "odd" /\ op # Op("read", "serial", 0)))
  /\ \A k, who, rw, err, len : Kind(AlCnf(who, rw, err, len), k) <=> who = "SM" /\ k = "al"
BY DEF Kind, JobArg, Job, ModeInd, AlReq, AlCnf

\* The kinds within a kind.
LEMMA KindsWithin == ASSUME NEW s
  PROVE /\ No(s, "cnf") <=> No(s, "good") /\ No(s, "bad")
        /\ No(s, "mode") => No(s, "start") /\ No(s, "preop") /\ No(s, "oper")
        /\ No(s, "al") => No(s, "odd")
BY DEF No, Kind

\* Nothing.
LEMMA KindNone == IsSeq(<<>>) /\ (\A k : No(<<>>, k)) /\ \A k, l : Apart(<<>>, k, l)
<1>1. <<>> \in Seq({})  OBVIOUS
<1> QED BY <1>1 DEF IsSeq, No, Apart

\* One job.
LEMMA KindOne == ASSUME NEW a
  PROVE /\ IsSeq(<<a>>) /\ \A k : No(<<a>>, k) <=> ~Kind(a, k)
        /\ \A k, l : Apart(<<a>>, k, l)
<1>1. <<a>> \in Seq({a}) /\ Len(<<a>>) = 1 /\ <<a>>[1] = a  OBVIOUS
<1>2. IsSeq(<<a>>)  BY <1>1 DEF IsSeq
<1> DEFINE s == <<a>>
<1>3. 1 \in DOMAIN s /\ s[1] = a /\ \A i \in DOMAIN s : i = 1  BY <1>1
<1> HIDE DEF s
<1>4. \A k : No(s, k) <=> ~Kind(a, k)  BY <1>3 DEF No
<1>5. \A i, j \in DOMAIN s : ~(i < j)  BY <1>3
<1>6. \A k, l : Apart(s, k, l)  BY <1>5 DEF Apart
<1> QED BY <1>2, <1>4, <1>6 DEF s

\* Two parts of the mailbox, one behind the other.
LEMMA KindBoth == ASSUME NEW s, NEW p, IsSeq(s), IsSeq(p)
  PROVE /\ IsSeq(s \o p)
        /\ \A k : No(s \o p, k) <=> No(s, k) /\ No(p, k)
        /\ \A k, l : Apart(s \o p, k, l) <=> Apart(s, k, l) /\ Apart(p, k, l) /\ (No(s, k) \/ No(p, l))
<1>1. IsSeq(s \o p)  BY ConcatSeq
<1> DEFINE n == Len(s)  m == Len(p)  c == s \o p
<1>2. /\ n \in Nat /\ m \in Nat /\ DOMAIN s = 1..n /\ DOMAIN p = 1..m /\ DOMAIN c = 1..(n + m)
      /\ \A i \in 1..n : c[i] = s[i]
      /\ \A i \in 1..m : c[n + i] = p[i]
  BY ConcatSeq
<1> HIDE DEF n, m, c
<1>3. \A i \in DOMAIN s : i \in DOMAIN c /\ c[i] = s[i] /\ i \in 1..n  BY <1>2
<1>4. \A i \in DOMAIN p : n + i \in DOMAIN c /\ c[n + i] = p[i] /\ i \in 1..m  BY <1>2
<1>5. \A i \in DOMAIN c : i \in DOMAIN s \/ (i - n \in DOMAIN p /\ c[i] = p[i - n] /\ i \in Nat /\ i > n)
  <2> TAKE i \in DOMAIN c
  <2>1. i \in 1..(n + m)  BY <1>2
  <2>2. CASE i <= n  BY <1>2, <2>1, <2>2
  <2>3. CASE i > n
    <3>1. i - n \in 1..m /\ n + (i - n) = i  BY <1>2, <2>1, <2>3
    <3>2. c[i] = p[i - n]  BY <1>2, <3>1
    <3> QED BY <1>2, <2>1, <2>3, <3>1, <3>2
  <2> QED BY <1>2, <2>1, <2>2, <2>3
<1>6. \A k : No(c, k) <=> No(s, k) /\ No(p, k)
  <2> TAKE k
  <2>1. No(c, k) => No(s, k) /\ No(p, k)  BY <1>3, <1>4 DEF No
  <2>2. No(s, k) /\ No(p, k) => No(c, k)  BY <1>3, <1>5 DEF No
  <2> QED BY <2>1, <2>2
<1>7. ASSUME NEW k, NEW l, Apart(c, k, l)
      PROVE Apart(s, k, l) /\ Apart(p, k, l) /\ (No(s, k) \/ No(p, l))
  <2>1. Apart(s, k, l)  BY <1>3, <1>7 DEF Apart
  <2>2. ASSUME NEW i \in DOMAIN p, NEW j \in DOMAIN p, i < j, Kind(p[i], k) PROVE ~Kind(p[j], l)
    <3>1. n + i \in DOMAIN c /\ n + j \in DOMAIN c /\ n + i < n + j
      BY <1>2, <1>4, <2>2
    <3> QED BY <1>4, <1>7, <2>2, <3>1 DEF Apart
  <2>3. ASSUME NEW i \in DOMAIN s, Kind(s[i], k), NEW j \in DOMAIN p PROVE ~Kind(p[j], l)
    <3>1. i \in DOMAIN c /\ n + j \in DOMAIN c /\ i < n + j  BY <1>2, <1>3, <1>4, <2>3
    <3> QED BY <1>3, <1>4, <1>7, <2>3, <3>1 DEF Apart
  <2> QED BY <2>1, <2>2, <2>3 DEF Apart, No
<1>8. ASSUME NEW k, NEW l, Apart(s, k, l), Apart(p, k, l), No(s, k) \/ No(p, l) PROVE Apart(c, k, l)
  <2> SUFFICES ASSUME NEW i \in DOMAIN c, NEW j \in DOMAIN c, i < j, Kind(c[i], k), Kind(c[j], l)
               PROVE FALSE
    BY DEF Apart
  <2>1. CASE i \in DOMAIN s /\ j \in DOMAIN s  BY <1>3, <1>8, <2>1 DEF Apart
  <2>2. CASE i \in DOMAIN s /\ j \notin DOMAIN s  BY <1>3, <1>5, <1>8, <2>2 DEF No
  <2>3. CASE i \notin DOMAIN s /\ j \notin DOMAIN s
    <3>1. i - n \in DOMAIN p /\ j - n \in DOMAIN p /\ i - n < j - n  BY <1>2, <1>5, <2>3
    <3>2. c[i] = p[i - n] /\ c[j] = p[j - n]  BY <1>5, <2>3
    <3> QED BY <1>8, <3>1, <3>2 DEF Apart
  <2>4. CASE i \notin DOMAIN s /\ j \in DOMAIN s  BY <1>2, <1>5, <2>4
  <2> QED BY <2>1, <2>2, <2>3, <2>4
<1> QED BY <1>1, <1>6, <1>7, <1>8 DEF c

\* What is aside stays so when it is one behind the other.
LEMMA AsideBoth == ASSUME NEW p, NEW q, Aside(p), Aside(q) PROVE Aside(p \o q)
<1>1. IsSeq(p) /\ IsSeq(q) /\ \A k : No(p, k) /\ No(q, k)  BY DEF Aside
<1>2. IsSeq(p \o q) /\ \A k : No(p \o q, k) <=> No(p, k) /\ No(q, k)  BY <1>1, KindBoth
<1> QED BY <1>1, <1>2 DEF Aside

\* The head and the rest.
LEMMA KindTail == ASSUME NEW s, IsSeq(s), s # <<>>
  PROVE /\ IsSeq(Tail(s))
        /\ \A k : No(s, k) <=> ~Kind(Head(s), k) /\ No(Tail(s), k)
        /\ \A k, l : Apart(s, k, l) <=> Apart(Tail(s), k, l) /\ (Kind(Head(s), k) => No(Tail(s), l))
<1>1. PICK S : s \in Seq(S)  BY DEF IsSeq
<1>2. <<Head(s)>> \o Tail(s) = s /\ Tail(s) \in Seq(S)
  <2>1. <<Head(s)>> \o Tail(s) = s
    <3>1. Head(s) \in S /\ Tail(s) \in Seq(S)  BY <1>1
    <3>2. <<Head(s)>> \in Seq(S)  BY <3>1
    <3>3. DOMAIN s = 1..Len(s) /\ Len(s) \in Nat \ {0} /\ Head(s) = s[1]
          /\ DOMAIN Tail(s) = 1..(Len(s) - 1) /\ \A i \in 1..(Len(s) - 1) : Tail(s)[i] = s[i + 1]
      BY <1>1, <3>1, TailSeq
    <3> QED BY <1>1, <3>1, <3>2
  <2> QED BY <1>1, <2>1
<1> DEFINE h == <<Head(s)>>  t == Tail(s)
<1>3. IsSeq(t)  BY <1>2 DEF IsSeq
<1>4. IsSeq(h) /\ (\A k : No(h, k) <=> ~Kind(Head(s), k)) /\ \A k, l : Apart(h, k, l)  BY KindOne
<1> HIDE DEF h
<1>5. s = h \o t  BY <1>2 DEF h
<1> HIDE DEF t
<1>6. /\ \A k : No(h \o t, k) <=> No(h, k) /\ No(t, k)
      /\ \A k, l : Apart(h \o t, k, l) <=> Apart(h, k, l) /\ Apart(t, k, l) /\ (No(h, k) \/ No(t, l))
  BY <1>3, <1>4, KindBoth
<1>7. \A k : No(s, k) <=> ~Kind(Head(s), k) /\ No(t, k)  BY <1>4, <1>5, <1>6
<1>8. \A k, l : Apart(s, k, l) <=> Apart(t, k, l) /\ (Kind(Head(s), k) => No(t, l))
  <2> TAKE k, l
  <2>1. /\ No(h, k) <=> ~Kind(Head(s), k)
        /\ Apart(h, k, l)
    BY <1>4
  <2>2. Apart(h \o t, k, l) <=> Apart(h, k, l) /\ Apart(t, k, l) /\ (No(h, k) \/ No(t, l))
    BY <1>6
  <2> QED BY <1>5, <2>1, <2>2
<1> QED BY <1>3, <1>7, <1>8 DEF t

\* Of what is absent, none is behind another.
LEMMA NoApart == ASSUME NEW s, NEW k, NEW l, No(s, k) \/ No(s, l) PROVE Apart(s, k, l)
BY DEF No, Apart

-----------------------------------------------------------------------------
(***************************************************************************)
(* The agreement, of the jobs s, the data link d, the state q of SM and AL's *)
(* service a.                                                               *)
(***************************************************************************)
Waits     == {"waitonDLPreop", "waitonDLOperate"}
Expecting == DOMAIN Expected

\* A session is starting: its STARTUP is on its way to SM, or SM has asked for it.
Starting(s, d) == \/ ~No(s, "start") \/ d.link = "WakeUp"
                  \/ d.mode = "STARTUP" /\ d.mdh # "no" /\ d.link \in {"Idle", "Preop", "Operate"}
\* An access of SM is with the data link, or its confirmation is on its way.
Token(s, d)    == d.acc # "none" \/ ~No(s, "cnf")
\* A request of SM is with AL, or on its way there or back.
Asked(s, a)    == a.owner = "SM" \/ ~No(s, "al")
\* The session lasts, or its loss is about to be seen, or was with no ISDU left behind.
Up(d) == /\ d.mode \in {"PREOPERATE", "OPERATE"}
         /\ \/ d.link \in {"Preop", "Operate"} /\ (d.mh \/ (d.lost /\ d.mdh = "due"))
            \/ d.link = "Idle" /\ d.isdu = NoOp

\* The data link alone.
LinkRules(d) == /\ d.lost => ~d.mh
                /\ d.link \in {"Idle", "WakeUp"} => ~d.lost
                /\ d.link = "WakeUp" => d.mode = "STARTUP" /\ d.mdh = "no"
                /\ d.mdh = "no" /\ d.link \in {"Preop", "Operate"} => d.mode # "STARTUP"
\* A session starts when SM waits for it, with nothing else to be told of.
StartRules(s, d, q) ==
  /\ Starting(s, d) => q = "PortInactive" /\ ~Token(s, d) /\ No(s, "cfg")
  /\ ~No(s, "start") => d.link = "Startup" /\ d.mode = "STARTUP" /\ d.mdh = "no"
  /\ Apart(s, "start", "mode") /\ Apart(s, "start", "dev")
\* An access, or its confirmation, is the only one, and the mode handler is at rest with it.
TokenRules(s, d, q) ==
  /\ d.acc # "none" => /\ d.link = "Startup" /\ d.mh /\ d.mode = "STARTUP" /\ d.mdh = "no"
                       /\ No(s, "mode") /\ No(s, "cnf")
  /\ Apart(s, "cnf", "cnf") /\ Apart(s, "mode", "cnf")
  /\ ~No(s, "good") => /\ d.link = "Startup" /\ d.mh /\ d.mode = "STARTUP" /\ d.mdh = "no"
                       /\ No(s, "mode")
  /\ ~No(s, "bad") => /\ ~d.mh /\ d.mode = "STARTUP" /\ d.link \in {"Startup", "Idle"}
                      /\ d.link = "Idle" => d.mdh = "no"
  /\ Token(s, d) => q \in Expecting /\ No(s, "dev") /\ No(s, "cfg")
\* SM has one request, in the states that wait for one; the first is that for the serial number.
AskRules(s, q, a) ==
  /\ a.owner = "SM" => No(s, "al")
  /\ Apart(s, "al", "al")
  /\ Asked(s, a) => q \in {"checkSerNum", "write_master_cycl"}
  /\ q = "checkSerNum" => No(s, "odd") /\ (a.owner = "SM" => a.od = "Isdu")
\* A configuration comes when nothing is under way.
ConfigRules(s, q, a) ==
  /\ Apart(s, "cfg", "cfg")
  /\ ~No(s, "cfg") => q \notin Waits /\ (q = "checkSerNum" => ~Asked(s, a))
\* What SM waits for comes: a confirmation, or the mode it has set and its indication.
Reaches(s, d, mode, k) ==
  \/ Token(s, d)
  \/ d.mode = mode /\ d.link = "Startup" /\ d.mdh # "no" /\ d.mh /\ No(s, "mode")
  \/ ~No(s, k) /\ Up(d)
WaitRules(s, d, q) == /\ q = "waitonDLPreop" => Reaches(s, d, "PREOPERATE", "preop")
                      /\ q = "waitonDLOperate" => Reaches(s, d, "OPERATE", "oper")
                      /\ q = "checkSerNum" => Up(d)

HandAt(s, d, q, a) == /\ LinkRules(d) /\ StartRules(s, d, q) /\ TokenRules(s, d, q)
                      /\ AskRules(s, q, a) /\ ConfigRules(s, q, a) /\ WaitRules(s, d, q)
HandInv == HandAt(jobs, dl, sm.state, al)

\* The jobs SM waits for in a state.
Wants(q, k) == \/ q \in Waits /\ k = "cnf"
               \/ q = "waitonDLPreop" /\ k = "preop"
               \/ q = "waitonDLOperate" /\ k = "oper"

\* The states of SM that wait for an access of theirs.
LEMMA ExpectingStates ==
  Expecting = {"ReadCom", "CheckComp", "CheckCompV10", "RestartDevice", "waitonDLPreop",
               "InspectionFault", "CheckVxy", "waitonDLOperate"}
BY DEF Expecting, Expected

\* Jobs of none of the kinds join,
LEMMA HandPost == ASSUME NEW s, NEW d, NEW q, NEW a, IsSeq(s), HandAt(s, d, q, a), NEW p, Aside(p)
  PROVE HandAt(s \o p, d, q, a)
<1>1. /\ \A k : No(s \o p, k) <=> No(s, k)
      /\ \A k, l : Apart(s \o p, k, l) <=> Apart(s, k, l)
  BY KindBoth, NoApart DEF Aside
<1> DEFINE c == s \o p
<1> HIDE DEF c
<1>2. /\ \A k : No(c, k) <=> No(s, k)
      /\ \A k, l : Apart(c, k, l) <=> Apart(s, k, l)
  BY <1>1 DEF c
<1>3. StartRules(c, d, q)  BY <1>2 DEF HandAt, StartRules, Starting, Token
<1>4. TokenRules(c, d, q)  BY <1>2 DEF HandAt, TokenRules, Token
<1>5. AskRules(c, q, a) /\ ConfigRules(c, q, a)
  BY <1>2 DEF HandAt, AskRules, ConfigRules, Asked
<1>6. WaitRules(c, d, q)  BY <1>2 DEF HandAt, WaitRules, Reaches, Token
<1> QED BY <1>3, <1>4, <1>5, <1>6 DEF HandAt, c

\* and the first leaves, when SM does not wait for it.
LEMMA HandDrop ==
  ASSUME NEW s, NEW d, NEW q, NEW a, IsSeq(s), s # <<>>, HandAt(s, d, q, a),
         \A k : Wants(q, k) => ~Kind(Head(s), k)
  PROVE HandAt(Tail(s), d, q, a)
<1> DEFINE t == Tail(s)
           h == Head(s)
<1>1. /\ \A k : No(s, k) <=> ~Kind(h, k) /\ No(t, k)
      /\ \A k, l : Apart(s, k, l) <=> Apart(t, k, l) /\ (Kind(h, k) => No(t, l))
  BY KindTail
<1> HIDE DEF t, h
<1>2. Starting(t, d) => Starting(s, d)  BY <1>1 DEF Starting
<1>3. Token(t, d) => Token(s, d)  BY <1>1 DEF Token
<1>4. Asked(t, a) => Asked(s, a)  BY <1>1 DEF Asked
<1>5. StartRules(t, d, q)  BY <1>1, <1>2, <1>3 DEF HandAt, StartRules
<1>6. TokenRules(t, d, q)  BY <1>1, <1>3 DEF HandAt, TokenRules
<1>7. AskRules(t, q, a)  BY <1>1, <1>4 DEF HandAt, AskRules
<1>8. ConfigRules(t, q, a)  BY <1>1, <1>4 DEF HandAt, ConfigRules
<1>9. WaitRules(t, d, q)
  <2>1. /\ q = "waitonDLPreop" => (No(t, "preop") <=> No(s, "preop"))
        /\ q = "waitonDLOperate" => (No(t, "oper") <=> No(s, "oper"))
        /\ q \in Waits => (No(t, "cnf") <=> No(s, "cnf"))
    BY <1>1 DEF h, Wants, Waits
  <2>2. No(s, "mode") => No(t, "mode")  BY <1>1
  <2> QED BY <2>1, <2>2 DEF HandAt, WaitRules, Reaches, Token, Waits
<1> QED BY <1>5, <1>6, <1>7, <1>8, <1>9 DEF HandAt, t

-----------------------------------------------------------------------------
\* The thread goes on: a pending MDH event comes due, and the ISDU handler is given a request
\* or has done with one.
Ticks(d, e) == /\ e.link = d.link /\ e.mh = d.mh /\ e.lost = d.lost /\ e.mode = d.mode
               /\ e.acc = d.acc
               /\ e.mdh = d.mdh \/ (d.mdh = "set" /\ e.mdh = "due")
               /\ d.link = "Idle" => e.isdu \in {d.isdu, NoOp}

\* What a run of the message handler leaves of the link keeps the handshake.
LEMMA HandTick == ASSUME NEW s, NEW d, NEW e, NEW q, NEW a, HandAt(s, d, q, a), Ticks(d, e)
  PROVE HandAt(s, e, q, a)
<1>1. /\ Starting(s, e) <=> Starting(s, d)
      /\ Token(s, e) <=> Token(s, d)
      /\ Up(d) => Up(e)
  BY DEF Ticks, Starting, Token, Up
<1>2. LinkRules(e)  BY DEF HandAt, LinkRules, Ticks
<1>3. StartRules(s, e, q)  BY <1>1 DEF HandAt, StartRules, Ticks
<1>4. TokenRules(s, e, q)  BY <1>1 DEF HandAt, TokenRules, Ticks
<1>5. WaitRules(s, e, q)  BY <1>1 DEF HandAt, WaitRules, Reaches, Ticks
<1> QED BY <1>2, <1>3, <1>4, <1>5 DEF HandAt

\* A confirmation of a device mode joins, in a session that has started.
LEMMA HandDevice ==
  ASSUME NEW s, NEW d, NEW q, NEW a, IsSeq(s), HandAt(s, d, q, a),
         NEW p, IsSeq(p), \A k : k # "dev" => No(p, k), No(s, "start"), ~Token(s, d)
  PROVE HandAt(s \o p, d, q, a)
<1> DEFINE c == s \o p
<1>1. /\ \A k : k # "dev" => (No(c, k) <=> No(s, k))
      /\ \A k, l : k # "dev" /\ l # "dev" => (Apart(c, k, l) <=> Apart(s, k, l))
      /\ Apart(c, "start", "dev")
  <2>1. \A k, l : k # "dev" => Apart(p, k, l)  BY NoApart
  <2> QED BY <2>1, KindBoth, NoApart
<1> HIDE DEF c
<1>2. StartRules(c, d, q)  BY <1>1 DEF HandAt, StartRules, Starting, Token
<1>3. TokenRules(c, d, q)  BY <1>1 DEF HandAt, TokenRules, Token
<1>4. AskRules(c, q, a) /\ ConfigRules(c, q, a)
  BY <1>1 DEF HandAt, AskRules, ConfigRules, Asked
<1>5. WaitRules(c, d, q)  BY <1>1 DEF HandAt, WaitRules, Reaches, Token
<1> QED BY <1>2, <1>3, <1>4, <1>5 DEF HandAt, c

\* SM sets a mode, or leaves it: what it set is not STARTUP, or it waits for the session.
Turns(d, e, q, t) ==
  /\ e.link = d.link /\ e.mh = d.mh /\ e.lost = d.lost /\ e.acc = d.acc
  /\ \/ e.mode = d.mode /\ e.mdh = d.mdh
     \/ e.mdh # "no" /\ (e.mode = "STARTUP" => q = "PortInactive" /\ No(t, "cfg"))

\* SM goes where nothing is awaited of the data link, with nothing of it under way.
LEMMA HandLeave ==
  ASSUME NEW s, NEW d, NEW e, NEW q, NEW r, NEW a, NEW p,
         IsSeq(s), s # <<>>, HandAt(s, d, q, a), Turns(d, e, r, Tail(s)),
         ~Starting(s, d), ~Token(Tail(s), d), ~Asked(Tail(s), a),
         r \notin Waits \cup {"checkSerNum"}, IsSeq(p), \A k : k # "dev" => No(p, k)
  PROVE HandAt(Tail(s) \o p, e, r, a)
<1> DEFINE t == Tail(s)
           h == Head(s)
           c == t \o p
<1>1. /\ IsSeq(t)
      /\ \A k : No(s, k) <=> ~Kind(h, k) /\ No(t, k)
      /\ \A k, l : Apart(s, k, l) <=> Apart(t, k, l) /\ (Kind(h, k) => No(t, l))
  BY KindTail
<1> HIDE DEF t, h
<1>2. /\ \A k : k # "dev" => (No(c, k) <=> No(t, k))
      /\ \A k, l : k # "dev" /\ l # "dev" => (Apart(c, k, l) <=> Apart(t, k, l))
  <2>1. \A k, l : k # "dev" => Apart(p, k, l)  BY NoApart
  <2> QED BY <1>1, <2>1, KindBoth, NoApart
<1> HIDE DEF c
<1>3. No(t, "start") /\ No(t, "cnf") /\ No(t, "al")
  BY <1>1 DEF Starting, Token, Asked, t
<1>4. No(c, "start") /\ No(c, "cnf") /\ No(c, "al") /\ No(c, "good") /\ No(c, "bad") /\ No(c, "odd")
  BY <1>2, <1>3, KindsWithin
<1>5. d.link # "WakeUp" /\ d.acc = "none" /\ a.owner # "SM"
  BY DEF Starting, Token, Asked
<1>6. LinkRules(e)  BY <1>5 DEF HandAt, LinkRules, Turns
<1>7. ~Token(c, e)  BY <1>4, <1>5 DEF Token, Turns
<1>8. StartRules(c, e, r)
  <2>1. Apart(c, "start", "mode") /\ Apart(c, "start", "dev")  BY <1>4, NoApart
  <2>2. Starting(c, e) => r = "PortInactive" /\ No(c, "cfg")
    BY <1>2, <1>4, <1>5 DEF Starting, Turns, t
  <2> QED BY <1>4, <1>7, <2>1, <2>2 DEF StartRules
<1>9. TokenRules(c, e, r)
  <2>1. Apart(c, "cnf", "cnf") /\ Apart(c, "mode", "cnf")  BY <1>4, NoApart
  <2> QED BY <1>4, <1>5, <1>7, <2>1 DEF TokenRules, Turns
<1>10. AskRules(c, r, a)
  <2>1. Apart(c, "al", "al")  BY <1>4, NoApart
  <2> QED BY <1>4, <1>5, <2>1 DEF AskRules, Asked
<1>11. ConfigRules(c, r, a)
  <2>1. Apart(c, "cfg", "cfg")  BY <1>1, <1>2 DEF HandAt, ConfigRules
  <2> QED BY <2>1 DEF ConfigRules
<1>12. WaitRules(c, e, r)  BY DEF WaitRules, Waits
<1> QED BY <1>6, <1>8, <1>9, <1>10, <1>11, <1>12 DEF HandAt, c, t

\* SM's access, in a session that has started and of which nothing is under way.
LEMMA HandAccess ==
  ASSUME NEW t, NEW d, NEW r, NEW a, NEW what, what # "none",
         IsSeq(t), DOMAIN d = DOMAIN DlInit, LinkRules(d),
         d.link = "Startup" /\ d.mode = "STARTUP" /\ d.mdh = "no",
         No(t, "mode") /\ No(t, "dev") /\ No(t, "cfg"), ~Token(t, d), ~Asked(t, a),
         r \in Expecting
  PROVE HandAt(t \o AccessCnf(d, what), Access(d, what), r, a)
<1> DEFINE p == AccessCnf(d, what)
           e == Access(d, what)
           c == t \o p
<1>1. /\ e.link = "Startup" /\ e.mh = d.mh /\ e.lost = d.lost /\ e.mode = "STARTUP" /\ e.mdh = "no"
      /\ e.acc = IF d.mh THEN what ELSE "none"
  BY DEF Access, Reachable, DlInit, Token
<1>2. IsSeq(p) /\ (\A k, l : Apart(p, k, l))
      /\ \A k : No(p, k) <=> d.mh \/ k \notin {"cnf", "bad"}
  <2>1. CASE d.mh
    <3>1. p = <<>>  BY <2>1 DEF AccessCnf, Reachable
    <3> QED BY <2>1, <3>1, KindNone
  <2>2. CASE ~d.mh
    <3> DEFINE j == JobArg("DL_CNF", [what |-> what, ok |-> FALSE])
    <3>1. p = <<j>>  BY <2>2 DEF AccessCnf, Reachable
    <3>2. \A k : Kind(j, k) <=> k \in {"cnf", "bad"}  BY KindNames
    <3> HIDE DEF j
    <3> QED BY <2>2, <3>1, <3>2, KindOne
  <2> QED BY <2>1, <2>2
<1> HIDE DEF p, e
<1>3. /\ No(t, "cnf") /\ No(t, "good") /\ No(t, "bad") /\ No(t, "start") /\ No(t, "al") /\ No(t, "odd")
      /\ a.owner # "SM" /\ d.acc = "none"
  BY KindsWithin DEF Token, Asked
<1>4. \A k : No(c, k) <=> No(t, k) /\ No(p, k)  BY <1>2, KindBoth
<1>5. /\ No(c, "mode") /\ No(c, "dev") /\ No(c, "cfg") /\ No(c, "good") /\ No(c, "start")
      /\ No(c, "al") /\ No(c, "odd")
      /\ No(c, "cnf") <=> d.mh
      /\ No(c, "bad") <=> d.mh
  BY <1>2, <1>3, <1>4
<1>6. Apart(c, "cnf", "cnf")
  BY <1>2, <1>3, KindBoth, NoApart
<1> HIDE DEF c
<1>7. LinkRules(e)  BY <1>1 DEF LinkRules
<1>8. ~Starting(c, e)  BY <1>1, <1>5 DEF Starting
<1>9. StartRules(c, e, r)  BY <1>5, <1>8, NoApart DEF StartRules
<1>10. TokenRules(c, e, r)
  <2>1. Apart(c, "mode", "cnf")  BY <1>5, NoApart
  <2> QED BY <1>1, <1>3, <1>5, <1>6, <2>1 DEF TokenRules, Token
<1>11. AskRules(c, r, a) /\ ConfigRules(c, r, a)
  BY <1>3, <1>5, NoApart DEF AskRules, ConfigRules, Asked
<1>12. WaitRules(c, e, r)
  <2>1. Token(c, e)  BY <1>1, <1>5 DEF Token
  <2>2. r # "checkSerNum"  BY ExpectingStates
  <2> QED BY <2>1, <2>2 DEF WaitRules, Reaches
<1> QED BY <1>7, <1>9, <1>10, <1>11, <1>12 DEF HandAt, c, p, e

\* SM asks AL: for the serial number when the mode it waits for is indicated, or to write the
\* cycle time.
LEMMA HandAsk ==
  ASSUME NEW s, NEW d, NEW q, NEW r, NEW a, NEW op,
         IsSeq(s), s # <<>>, HandAt(s, d, q, a),
         \/ /\ r = "checkSerNum" /\ op = Op("read", "serial", 0)
            /\ \/ q = "waitonDLPreop" /\ Kind(Head(s), "preop")
               \/ q = "waitonDLOperate" /\ Kind(Head(s), "oper")
         \/ q = "wait" /\ r = "write_master_cycl"
  PROVE HandAt(Tail(s) \o <<AlReq("SM", op)>>, d, r, a)
<1> DEFINE t == Tail(s)
           h == Head(s)
           p == <<AlReq("SM", op)>>
           c == t \o p
<1>1. /\ IsSeq(t)
      /\ \A k : No(s, k) <=> ~Kind(h, k) /\ No(t, k)
      /\ \A k, l : Apart(s, k, l) <=> Apart(t, k, l) /\ (Kind(h, k) => No(t, l))
  BY KindTail
<1>2. /\ IsSeq(p) /\ (\A k, l : Apart(p, k, l))
      /\ \A k : No(p, k) <=> ~(k = "al" \/ (k = "odd" /\ op # Op("read", "serial", 0)))
  <2>1. \A k : Kind(AlReq("SM", op), k) <=> k = "al" \/ (k = "odd" /\ op # Op("read", "serial", 0))
    BY KindNames
  <2> QED BY <2>1, KindOne
<1>3. Kind(h, "preop") \/ Kind(h, "oper") => Kind(h, "mode")  BY DEF Kind
<1>4. Kind(h, "preop") => ~No(s, "preop")  BY <1>1
<1>5. Kind(h, "oper") => ~No(s, "oper")  BY <1>1
<1> HIDE DEF h, p
<1>6. q \notin {"PortInactive", "checkSerNum", "write_master_cycl"}  BY DEF Waits
<1>7. ~Starting(s, d) /\ ~Asked(s, a)  BY <1>6 DEF HandAt, StartRules, AskRules
<1>8. ~Token(s, d)
  <2>1. CASE q = "wait"  BY <2>1, ExpectingStates DEF HandAt, TokenRules
  <2>2. CASE q # "wait"
    <3>1. Kind(h, "mode")  BY <1>3, <2>2 DEF h
    <3>2. ~No(s, "mode") /\ No(t, "cnf")
      BY <1>1, <3>1 DEF HandAt, TokenRules
    <3>3. ~Kind(h, "cnf")  BY <3>1 DEF Kind
    <3> QED BY <1>1, <3>2, <3>3 DEF HandAt, TokenRules, Token
  <2> QED BY <2>1, <2>2
<1>9. Up(d) \/ r # "checkSerNum"
  <2>1. ASSUME q \in Waits, r = "checkSerNum" PROVE Up(d)
    <3>1. ~No(s, "mode")  BY <1>1, <1>3, <2>1, ExpectingStates DEF h, Waits
    <3> QED BY <1>8, <2>1, <3>1 DEF HandAt, WaitRules, Reaches, Waits
  <2> QED BY <2>1 DEF Waits
<1>10. No(s, "cfg") \/ r # "checkSerNum"
  BY DEF HandAt, ConfigRules, Waits
<1> HIDE DEF t
<1>11. \A k : No(c, k) <=> No(t, k) /\ No(p, k)  BY <1>1, <1>2, KindBoth
<1>12. /\ \A k : k \notin {"al", "odd"} => (No(c, k) <=> No(t, k))
       /\ \A k, l : k \notin {"al", "odd"} /\ l \notin {"al", "odd"}
                      => (Apart(c, k, l) <=> Apart(t, k, l))
       /\ Apart(c, "al", "al")
       /\ op = Op("read", "serial", 0) => No(c, "odd")
       /\ ~No(c, "al")
  <2>1. No(t, "al") /\ No(t, "odd")  BY <1>1, <1>7, KindsWithin DEF Asked
  <2>2. \A k : k \notin {"al", "odd"} => No(p, k)  BY <1>2
  <2>3. Apart(t, "al", "al")  BY <2>1, NoApart
  <2>4. \A k, l : Apart(c, k, l) <=> Apart(t, k, l) /\ Apart(p, k, l) /\ (No(t, k) \/ No(p, l))
    BY <1>1, <1>2, KindBoth
  <2> HIDE DEF c
  <2> QED BY <1>2, <1>11, <2>1, <2>2, <2>3, <2>4
<1> HIDE DEF c
<1>13. ~Starting(c, d) /\ ~Token(c, d)
  BY <1>1, <1>7, <1>8, <1>12 DEF Starting, Token
<1>14. No(c, "start") /\ No(c, "cnf") /\ No(c, "good") /\ No(c, "bad") /\ d.acc = "none"
  BY <1>13, KindsWithin DEF Starting, Token
<1>15. StartRules(c, d, r)  BY <1>13, <1>14, NoApart DEF StartRules
<1>16. TokenRules(c, d, r)  BY <1>13, <1>14, NoApart DEF TokenRules
<1>17. AskRules(c, r, a)  BY <1>7, <1>12 DEF AskRules, Asked
<1>18. ConfigRules(c, r, a)
  BY <1>1, <1>10, <1>12 DEF HandAt, ConfigRules, Waits
<1>19. WaitRules(c, d, r)  BY <1>9 DEF WaitRules
<1> QED BY <1>15, <1>16, <1>17, <1>18, <1>19 DEF HandAt, c, t, p

\* SM sets the mode it waits for, when its command has been confirmed.
LEMMA HandSet ==
  ASSUME NEW s, NEW d, NEW q, NEW a, NEW mode, IsSeq(s), s # <<>>, HandAt(s, d, q, a),
         DOMAIN d = DOMAIN DlInit, Kind(Head(s), "good"),
         \/ q = "waitonDLPreop" /\ mode = "PREOPERATE"
         \/ q = "waitonDLOperate" /\ mode = "OPERATE"
  PROVE HandAt(Tail(s), SetMode(d, mode), q, a)
<1> DEFINE t == Tail(s)
           h == Head(s)
           e == SetMode(d, mode)
<1>1. /\ IsSeq(t)
      /\ \A k : No(s, k) <=> ~Kind(h, k) /\ No(t, k)
      /\ \A k, l : Apart(s, k, l) <=> Apart(t, k, l) /\ (Kind(h, k) => No(t, l))
  BY KindTail
<1>2. Kind(h, "good") /\ Kind(h, "cnf")  BY DEF Kind
<1> HIDE DEF t, h
<1>3. ~No(s, "good") /\ ~No(s, "cnf") /\ No(t, "cnf") /\ No(t, "mode")
  BY <1>1, <1>2 DEF HandAt, TokenRules
<1>4. d.link = "Startup" /\ d.mh /\ d.acc = "none" /\ ~d.lost
  BY <1>3 DEF HandAt, TokenRules, LinkRules
<1>5. ~Asked(s, a) /\ q \notin {"PortInactive", "checkSerNum"}
  BY DEF HandAt, AskRules
<1>6. No(s, "cfg")  BY <1>3 DEF HandAt, TokenRules, Token
<1>7. /\ e.link = "Startup" /\ e.mh /\ e.acc = "none" /\ ~e.lost /\ e.mode = mode /\ e.mdh # "no"
  BY <1>4 DEF SetMode, DlInit
<1> HIDE DEF e
<1>8. /\ No(t, "cnf") /\ No(t, "good") /\ No(t, "bad") /\ No(t, "mode") /\ No(t, "start")
      /\ No(t, "al") /\ No(t, "odd") /\ No(t, "cfg") /\ a.owner # "SM"
  BY <1>1, <1>3, <1>5, <1>6, KindsWithin DEF Asked
<1>9. ~Starting(t, e) /\ ~Token(t, e) /\ ~Asked(t, a)
  BY <1>7, <1>8 DEF Starting, Token, Asked
<1>10. LinkRules(e)  BY <1>7 DEF LinkRules
<1>11. StartRules(t, e, q)  BY <1>8, <1>9, NoApart DEF StartRules
<1>12. TokenRules(t, e, q)  BY <1>7, <1>8, <1>9, NoApart DEF TokenRules
<1>13. AskRules(t, q, a) /\ ConfigRules(t, q, a)
  BY <1>8, <1>9, NoApart DEF AskRules, ConfigRules
<1>14. WaitRules(t, e, q)  BY <1>5, <1>7, <1>8 DEF WaitRules, Reaches
<1> QED BY <1>10, <1>11, <1>12, <1>13, <1>14 DEF HandAt, t, e

-----------------------------------------------------------------------------
(***************************************************************************)
(* SM's callbacks: most leave for a state where SM waits for nothing of the  *)
(* data link, or change nothing.                                            *)
(***************************************************************************)
SmLeaves == \E p : /\ IsSeq(p) /\ Handled(p) /\ \A k : k # "dev" => No(p, k)
                   /\ sm'.state \notin Waits \cup {"checkSerNum"}
                   /\ Turns(dl, dl', sm'.state, Tail(jobs))
SmStays  == \E p : Aside(p) /\ Handled(p) /\ sm'.state = sm.state /\ UNCHANGED dl

\* What SM tells CM, and a confirmation of a device mode, are no news of the start-up.
LEMMA SmTells ==
  /\ \A mode : Aside(<<PortMode(mode)>>)
  /\ Aside(<<>>)
  /\ \A d, mode : IsSeq(DevicemodeCnf(d, mode)) /\ \A k : k # "dev" => No(DevicemodeCnf(d, mode), k)
<1>1. \A mode, k : ~Kind(PortMode(mode), k)  BY KindNames DEF PortMode
<1>2. \A k, arg : k # "dev" => ~Kind(JobArg("DEVMODE_CNF", arg), k)  BY KindNames
<1>3. \A mode : Aside(<<PortMode(mode)>>)  BY <1>1, KindOne DEF Aside
<1>4. ASSUME NEW d, NEW mode
      PROVE IsSeq(DevicemodeCnf(d, mode)) /\ \A k : k # "dev" => No(DevicemodeCnf(d, mode), k)
  <2>1. PICK p : p = DevicemodeCnf(d, mode)  OBVIOUS
  <2>2. p = <<>> \/ \E arg : p = <<JobArg("DEVMODE_CNF", arg)>>  BY <2>1 DEF DevicemodeCnf
  <2> QED BY <1>2, <2>1, <2>2, KindNone, KindOne
<1> QED BY <1>3, <1>4, KindNone DEF Aside

\* Of the actions of SM's table, those that ask nothing leave.
Asking == {"read_com", "read_id", "ident", "preop_cmd", "operate_cmd", "restart", "serial",
           "write_cycl"}

\* An action of SM that asks for nothing.
LEMMA SmDoLeaves ==
  ASSUME LinkTyped, NEW do, NEW s, NEW event, SmDo(do, s, event), do \notin Asking, Context(s),
         s.state \notin Waits \cup {"checkSerNum"},
         do = "start" => s.state = "PortInactive" /\ No(Tail(jobs), "cfg")
  PROVE SmLeaves
<1> DEFINE Free(p) == IsSeq(p) /\ \A k : k # "dev" => No(p, k)
<1>1. ASSUME NEW x, NEW e, NEW p, Calls(x, e, p), x.state = s.state, Free(p),
             Turns(dl, e, s.state, Tail(jobs))
      PROVE SmLeaves
  <2>1. sm' = x /\ dl' = e /\ Handled(p)  BY <1>1 DEF Calls
  <2> QED BY <1>1, <2>1 DEF SmLeaves
<1>2. /\ \A mode : Free(<<PortMode(mode)>>) /\ Free(DevicemodeCnf(dl, mode))
      /\ Free(<<>>)
  BY SmTells DEF Aside
<1>3. /\ Turns(dl, dl, s.state, Tail(jobs))
      /\ \A mode : mode # "STARTUP" => Turns(dl, SetMode(dl, mode), s.state, Tail(jobs))
                                       /\ Turns(dl, SetMode(SetSDCI(dl), mode), s.state, Tail(jobs))
      /\ \A mode : Turns(dl, Devicemode(dl, mode), s.state, Tail(jobs))
      /\ do = "start" => Turns(dl, SetMode(SetSDCI(dl), "STARTUP"), s.state, Tail(jobs))
  <2>1. Turns(dl, dl, s.state, Tail(jobs))  BY DEF Turns
  <2>2. ASSUME NEW mode,
               mode = "STARTUP" => s.state = "PortInactive" /\ No(Tail(jobs), "cfg")
        PROVE Turns(dl, SetMode(dl, mode), s.state, Tail(jobs))
              /\ Turns(dl, SetMode(SetSDCI(dl), mode), s.state, Tail(jobs))
    BY <2>2 DEF Turns, SetMode, SetSDCI, LinkTyped, DlInit
  <2>3. \A mode : Turns(dl, Devicemode(dl, mode), s.state, Tail(jobs))
    BY DEF Turns, Devicemode, LinkTyped, DlInit
  <2> QED BY <2>1, <2>2, <2>3
<1> HIDE DEF Free
<1>4. CASE do = "fault"
  <2>1. FaultMode(event) # "STARTUP"  BY DEF FaultMode
  <2>2. \E e \in {dl, SetMode(dl, FaultMode(event))} : Calls(s, e, <<PortMode("FAULT")>>)
    BY <1>4 DEF SmDo, SmFault
  <2> QED BY <1>1, <1>2, <1>3, <2>1, <2>2
<1>5. CASE do \in {"inactive", "start"}
  <2>1. [s EXCEPT !.error = "none"].state = s.state  BY DEF Context, SmInit
  <2> QED BY <1>1, <1>2, <1>3, <1>5, <2>1 DEF SmDo
<1>6. CASE do \in {"comready", "comlost", "dido", "operate_ind"}
  BY <1>1, <1>2, <1>3, <1>6 DEF SmDo
<1>7. CASE do \in {"fallback", "devmode"}
  BY <1>1, <1>2, <1>3, <1>7 DEF SmDo
<1>8. CASE do \notin {"fault", "inactive", "start", "comready", "comlost", "dido", "operate_ind",
                      "fallback", "devmode"}
  BY <1>1, <1>2, <1>3, <1>8 DEF SmDo, Asking
<1> QED BY <1>4, <1>5, <1>6, <1>7, <1>8

\* An event whose rows ask nothing leaves, or has no row.
LEMMA SmEventLeaves ==
  ASSUME LinkTyped, NEW s, NEW event, SmEvent(s, event), Context(s), s.state = sm.state,
         \A t \in SmRows(s.state, event) :
           /\ t[3] \notin Waits \cup {"checkSerNum"} /\ t[4] \notin Asking
           /\ t[4] = "start" => t[3] = "PortInactive" /\ No(Tail(jobs), "cfg")
  PROVE SmLeaves \/ (SmStays /\ SmRows(s.state, event) = {})
<1>1. ASSUME NEW t \in SmRows(s.state, event), SmDo(t[4], [s EXCEPT !.state = t[3]], event)
      PROVE SmLeaves
  <2>1. t \in SmTable  BY DEF SmRows
  <2>2. Context([s EXCEPT !.state = t[3]]) /\ [s EXCEPT !.state = t[3]].state = t[3]
    BY <2>1, RowsTyped DEF Context, SmInit
  <2> QED BY <1>1, <2>2, SmDoLeaves
<1>2. ASSUME Calls(s, dl, <<>>) PROVE SmStays
  BY <1>2, SmTells DEF Calls, SmStays
<1> QED BY <1>1, <1>2 DEF SmEvent

\* SM leaves with nothing under way: the job it handles says so.
LEMMA HandLeaves ==
  ASSUME HandInv, IsSeq(jobs), jobs # <<>>, UNCHANGED al, SmLeaves,
         sm.state = "PortInactive" => Kind(Head(jobs), "cfg"),
         sm.state \in Expecting => \E k \in {"mode", "cnf", "dev", "cfg"} : Kind(Head(jobs), k),
         sm.state \in {"checkSerNum", "write_master_cycl"}
           => \/ Kind(Head(jobs), "al")
              \/ Kind(Head(jobs), "cfg") /\ sm.state = "checkSerNum"
  PROVE HandInv'
<1> DEFINE h == Head(jobs)
           t == Tail(jobs)
<1>1. /\ \A k : No(jobs, k) <=> ~Kind(h, k) /\ No(t, k)
      /\ \A k, l : Apart(jobs, k, l) <=> Apart(t, k, l) /\ (Kind(h, k) => No(t, l))
  BY KindTail
<1>2. HandAt(jobs, dl, sm.state, al)  BY DEF HandInv
<1> HIDE DEF h, t
<1>3. ~Starting(jobs, dl)
  <2>1. CASE sm.state = "PortInactive"
    <3>1. Kind(h, "cfg")  BY <2>1 DEF h
    <3> QED BY <1>1, <1>2, <3>1 DEF HandAt, StartRules
  <2> QED BY <1>2, <2>1 DEF HandAt, StartRules
<1>4. ~Token(t, dl)
  <2>1. Token(t, dl) => Token(jobs, dl)  BY <1>1 DEF Token
  <2>2. CASE sm.state \notin Expecting  BY <1>2, <2>1, <2>2 DEF HandAt, TokenRules
  <2>3. CASE Kind(h, "dev") \/ Kind(h, "cfg")  BY <1>1, <1>2, <2>1, <2>3 DEF HandAt, TokenRules
  <2>4. CASE Kind(h, "mode")  BY <1>1, <1>2, <2>4 DEF HandAt, TokenRules, Token
  <2>5. CASE Kind(h, "cnf")  BY <1>1, <1>2, <2>5 DEF HandAt, TokenRules, Token
  <2> QED BY <2>2, <2>3, <2>4, <2>5 DEF h
<1>5. ~Asked(t, al)
  <2>1. Asked(t, al) => Asked(jobs, al)  BY <1>1 DEF Asked
  <2>2. CASE Kind(h, "al")  BY <1>1, <1>2, <2>2 DEF HandAt, AskRules, Asked
  <2>3. CASE Kind(h, "cfg") /\ sm.state = "checkSerNum"
    BY <1>1, <1>2, <2>1, <2>3 DEF HandAt, ConfigRules
  <2> QED BY <1>2, <2>1, <2>2, <2>3 DEF HandAt, AskRules, h
<1>6. PICK p : /\ IsSeq(p) /\ Handled(p) /\ \A k : k # "dev" => No(p, k)
               /\ sm'.state \notin Waits \cup {"checkSerNum"}
               /\ Turns(dl, dl', sm'.state, Tail(jobs))
  BY DEF SmLeaves
<1>7. HandAt(Tail(jobs) \o p, dl', sm'.state, al)
  BY <1>2, <1>3, <1>4, <1>5, <1>6, HandLeave DEF t
<1> QED BY <1>6, <1>7 DEF Handled, HandInv

\* SM stays, when the job is none that it waits for.
LEMMA HandStays ==
  ASSUME HandInv, IsSeq(jobs), jobs # <<>>, UNCHANGED al, SmStays,
         \A k : Wants(sm.state, k) => ~Kind(Head(jobs), k)
  PROVE HandInv'
<1>1. PICK p : Aside(p) /\ Handled(p) /\ sm'.state = sm.state /\ UNCHANGED dl  BY DEF SmStays
<1>2. HandAt(Tail(jobs), dl, sm.state, al) /\ IsSeq(Tail(jobs))
  BY HandDrop, KindTail DEF HandInv
<1>3. HandAt(Tail(jobs) \o p, dl, sm.state, al)  BY <1>1, <1>2, HandPost
<1> QED BY <1>1, <1>3 DEF Handled, HandInv

\* The rows of an event, by where they lead and what they ask.
LEMMA SmRowsOf ==
  /\ \A q : \A t \in SmRows(q, "CFG_COM") : t[3] = "PortInactive" /\ t[4] = "start"
  /\ \A q : \A t \in SmRows(q, "CFG_DIDO") : t[3] = "DIDO" /\ t[4] = "dido"
  /\ \A q : \A t \in SmRows(q, "CFG_INACTIVE") :
       t[3] \in {"PortInactive", "waitForFallback"} /\ t[4] \in {"inactive", "fallback"}
  /\ \A q : \A t \in SmRows(q, "DL_COMLOST") :
       t[3] \in {"PortInactive", "CheckComp"} /\ t[4] \in {"comlost", "none"}
  /\ \A q : \A t \in SmRows(q, "CNF_COMLOST") :
       t[3] \in {"PortInactive", "RestartDevice"} /\ t[4] = "comlost"
  /\ \A q : \A t \in SmRows(q, "OPERATE_V10") :
       /\ t[3] = "SMOperate" /\ t[4] = "operate_ind"
       /\ q \in {"wait", "wait_devmode_cnf"}
  /\ \A q : \A t \in SmRows(q, "SerNumOK") : t[3] = "wait" /\ t[4] = "comready"
  /\ \A q : \A t \in SmRows(q, "SerNumFault") : t[3] = "InspectionFault" /\ t[4] = "fault"
  /\ \A q : \A t \in SmRows(q, "CYCL_DONE") : t[3] = "wait_devmode_cnf" /\ t[4] = "devmode"
  /\ \A q \in {"PortInactive", "checkSerNum", "write_master_cycl", "waitonDLPreop"} :
       SmRows(q, "DL_COMLOST") = {}
  /\ \A q \in Waits : SmRows(q, "CNF_COMLOST") # {}
<1>1. \A q \in Waits : <<q, "CNF_COMLOST", "PortInactive", "comlost">> \in SmTable
  BY DEF SmTable, Waits
<1>2. ASSUME NEW q \in Waits PROVE SmRows(q, "CNF_COMLOST") # {}
  <2> DEFINE t == <<q, "CNF_COMLOST", "PortInactive", "comlost">>
  <2>1. t \in SmTable /\ t[1] = q /\ t[2] = "CNF_COMLOST"  BY <1>1
  <2> HIDE DEF t
  <2>2. t \in SmRows(q, "CNF_COMLOST")  BY <2>1 DEF SmRows
  <2> QED BY <2>2
<1>3. \A t \in SmTable : t[2] = "CFG_COM" => t[3] = "PortInactive" /\ t[4] = "start"  BY DEF SmTable
<1>4. \A t \in SmTable : t[2] = "CFG_DIDO" => t[3] = "DIDO" /\ t[4] = "dido"  BY DEF SmTable
<1>5. \A t \in SmTable : t[2] = "CFG_INACTIVE" =>
        t[3] \in {"PortInactive", "waitForFallback"} /\ t[4] \in {"inactive", "fallback"}
  BY DEF SmTable
<1>6. \A t \in SmTable : t[2] = "DL_COMLOST" =>
        /\ t[3] \in {"PortInactive", "CheckComp"} /\ t[4] \in {"comlost", "none"}
        /\ t[1] \notin {"PortInactive", "checkSerNum", "write_master_cycl", "waitonDLPreop"}
  BY DEF SmTable
<1>7. \A t \in SmTable : t[2] = "CNF_COMLOST" =>
        t[3] \in {"PortInactive", "RestartDevice"} /\ t[4] = "comlost"
  BY DEF SmTable
<1>8. \A t \in SmTable : t[2] = "OPERATE_V10" =>
        t[3] = "SMOperate" /\ t[4] = "operate_ind" /\ t[1] \in {"wait", "wait_devmode_cnf"}
  BY DEF SmTable
<1>9. \A t \in SmTable : t[2] = "SerNumOK" => t[3] = "wait" /\ t[4] = "comready"  BY DEF SmTable
<1>10. \A t \in SmTable : t[2] = "SerNumFault" => t[3] = "InspectionFault" /\ t[4] = "fault"
  BY DEF SmTable
<1>11. \A t \in SmTable : t[2] = "CYCL_DONE" => t[3] = "wait_devmode_cnf" /\ t[4] = "devmode"
  BY DEF SmTable
<1> QED BY <1>2, <1>3, <1>4, <1>5, <1>6, <1>7, <1>8, <1>9, <1>10, <1>11 DEF SmRows

\* The events of a lost session, and of its end.
LEMMA SmEventAway ==
  ASSUME LinkTyped, NEW s, NEW event, SmEvent(s, event), Context(s), s.state = sm.state,
         event \in {"CFG_DIDO", "CFG_INACTIVE", "DL_COMLOST", "CNF_COMLOST", "OPERATE_V10",
                    "SerNumOK", "SerNumFault", "CYCL_DONE"}
  PROVE SmLeaves \/ (SmStays /\ SmRows(s.state, event) = {})
<1>1. \A t \in SmRows(s.state, event) :
        t[3] \notin Waits \cup {"checkSerNum"} /\ t[4] \notin Asking /\ t[4] # "start"
  BY SmRowsOf DEF Waits, Asking
<1> QED BY <1>1, SmEventLeaves

\* A configuration.
LEMMA HandConfig == ASSUME HandInv, TypeInv, UNCHANGED al, SM_SetPortConfig PROVE HandInv'
<1>1. jobs # <<>> /\ Head(jobs).type = "SM_CONFIG" /\ IsSeq(jobs)
  BY DEF SM_SetPortConfig, Due, TypeInv, Sound
<1>2. Kind(Head(jobs), "cfg") /\ \A k : Kind(Head(jobs), k) => k = "cfg"  BY <1>1 DEF Kind
<1>3. No(Tail(jobs), "cfg") /\ sm.state \notin Waits
  BY <1>1, <1>2, KindTail DEF HandInv, HandAt, ConfigRules
<1>4. LinkTyped /\ Context(sm)  BY DEF TypeInv, SmTyped, Context
<1>5. ASSUME SmStays PROVE HandInv'
  <2>1. \A k : Wants(sm.state, k) => ~Kind(Head(jobs), k)  BY <1>2 DEF Wants
  <2> QED BY <1>1, <1>5, <2>1, HandStays
<1>6. CASE sm.state \notin TakesConfig
  <2>1. SmStays  BY <1>6, SmTells DEF SM_SetPortConfig, Calls, SmStays
  <2> QED BY <1>5, <2>1
<1>7. CASE sm.state \in TakesConfig
  <2> DEFINE s == [sm EXCEPT !.cfg = DueArg("SM_CONFIG")]
  <2>1. Context(s) /\ s.state = sm.state  BY <1>4 DEF Context, SmInit
  <2> HIDE DEF s
  <2>2. \E event \in {"CFG_COM", "CFG_DIDO", "CFG_INACTIVE"} : SmEvent(s, event)
    BY <1>7 DEF SM_SetPortConfig, s
  <2>3. ASSUME SmEvent(s, "CFG_COM") PROVE SmLeaves \/ SmStays
    <3>1. \A t \in SmRows(s.state, "CFG_COM") :
            /\ t[3] \notin Waits \cup {"checkSerNum"} /\ t[4] \notin Asking
            /\ t[4] = "start" => t[3] = "PortInactive" /\ No(Tail(jobs), "cfg")
      BY <1>3, SmRowsOf DEF Waits, Asking
    <3> QED BY <1>4, <2>1, <2>3, <3>1, SmEventLeaves
  <2>4. SmLeaves \/ SmStays  BY <1>4, <2>1, <2>2, <2>3, SmEventAway
  <2>5. sm.state # "write_master_cycl"  BY <1>7 DEF TakesConfig
  <2> QED BY <1>1, <1>2, <1>5, <2>4, <2>5, HandLeaves
<1> QED BY <1>6, <1>7

\* SM is told to operate.
LEMMA HandOperate == ASSUME HandInv, TypeInv, UNCHANGED al, SM_Operate PROVE HandInv'
<1>1. jobs # <<>> /\ Head(jobs).type = "SM_OPERATE" /\ IsSeq(jobs)
  BY DEF SM_Operate, Due, TypeInv, Sound
<1>2. \A k : ~Kind(Head(jobs), k)  BY <1>1 DEF Kind
<1>3. LinkTyped /\ Context(sm)  BY DEF TypeInv, SmTyped, Context
<1>4. CASE SmEvent(sm, "OPERATE_V10")
  <2>1. SmLeaves \/ (SmStays /\ SmRows(sm.state, "OPERATE_V10") = {})
    BY <1>3, <1>4, SmEventAway
  <2>2. SmRows(sm.state, "OPERATE_V10") # {} => sm.state \in {"wait", "wait_devmode_cnf"}
    BY SmRowsOf
  <2>3. CASE sm.state \in {"wait", "wait_devmode_cnf"}
    BY <1>1, <1>2, <2>1, <2>3, HandLeaves, HandStays, ExpectingStates
  <2>4. CASE SmRows(sm.state, "OPERATE_V10") = {}
    <3>1. Calls(sm, dl, <<>>)  BY <1>4, <2>4 DEF SmEvent
    <3>2. SmStays  BY <3>1, SmTells DEF SmStays, Calls
    <3> QED BY <1>1, <1>2, <3>2, HandStays
  <2> QED BY <2>2, <2>3, <2>4
<1>5. CASE SmEvent(sm, "CYCL_REQ")
  <2>1. \A t \in SmTable : t[2] = "CYCL_REQ" =>
          t[1] = "wait" /\ t[3] = "write_master_cycl" /\ t[4] = "write_cycl"
    BY DEF SmTable
  <2>2. CASE \E t \in SmRows(sm.state, "CYCL_REQ") : SmDo(t[4], [sm EXCEPT !.state = t[3]], "CYCL_REQ")
    <3>1. sm.state = "wait" /\ SmDo("write_cycl", [sm EXCEPT !.state = "write_master_cycl"], "CYCL_REQ")
      BY <2>1, <2>2 DEF SmRows
    <3>2. /\ sm' = [sm EXCEPT !.state = "write_master_cycl"] /\ dl' = dl
          /\ Handled(<<AlReq("SM", Op("write", "cycl", 0))>>)
      BY <3>1 DEF SmDo, Calls
    <3>3. sm'.state = "write_master_cycl"  BY <1>3, <3>2 DEF Context, SmInit
    <3> QED BY <1>1, <3>1, <3>2, <3>3, HandAsk DEF HandInv, Handled
  <2>3. CASE Calls(sm, dl, <<>>)
    <3>1. SmStays  BY <2>3, SmTells DEF SmStays, Calls
    <3> QED BY <1>1, <1>2, <3>1, HandStays
  <2> QED BY <1>5, <2>2, <2>3 DEF SmEvent
<1> QED BY <1>4, <1>5 DEF SM_Operate

\* An event that finds no row, or a callback that does nothing.
LEMMA SmIdle == ASSUME NEW p, Aside(p), Calls(sm, dl, p) PROVE SmStays
BY DEF SmStays, Calls

\* A device mode has been confirmed.
LEMMA HandDevmode == ASSUME HandInv, TypeInv, UNCHANGED al, SM_DevmodeCnf PROVE HandInv'
<1>1. jobs # <<>> /\ Head(jobs).type = "DEVMODE_CNF" /\ IsSeq(jobs)
  BY DEF SM_DevmodeCnf, Due, TypeInv, Sound
<1>2. Kind(Head(jobs), "dev") /\ \A k : Wants(sm.state, k) => ~Kind(Head(jobs), k)
  BY <1>1 DEF Kind, Wants
<1>3. LinkTyped /\ Context(sm)  BY DEF TypeInv, SmTyped, Context
<1>4. ASSUME SmStays PROVE HandInv'  BY <1>1, <1>2, <1>4, HandStays
<1>5. ASSUME SmLeaves, sm.state \notin {"PortInactive", "checkSerNum", "write_master_cycl"}
      PROVE HandInv'
  BY <1>1, <1>2, <1>5, HandLeaves
<1>6. CASE DueArg("DEVMODE_CNF") /\ sm.state = "wait_devmode_cnf"
  <2> DEFINE p == IF sm.rev = "V10" THEN <<PortMode("OPERATE")>> ELSE <<>>
  <2>1. IsSeq(p) /\ \A k : No(p, k)  BY SmTells DEF Aside
  <2>2. sm'.state = "SMOperate" /\ dl' = SetMode(dl, "OPERATE") /\ Handled(p)
    BY <1>3, <1>6 DEF SM_DevmodeCnf, Context, SmInit
  <2> HIDE DEF p
  <2>3. Turns(dl, dl', "SMOperate", Tail(jobs))
    BY <1>3, <2>2 DEF Turns, SetMode, LinkTyped, DlInit
  <2>4. SmLeaves  BY <2>1, <2>2, <2>3 DEF SmLeaves, Waits
  <2> QED BY <1>5, <1>6, <2>4
<1>7. CASE DueArg("DEVMODE_CNF") /\ sm.state = "waitForFallback"
  BY <1>3, <1>4, <1>5, <1>7, SmEventAway DEF SM_DevmodeCnf
<1>8. CASE ~DueArg("DEVMODE_CNF") /\ sm.state = "wait_devmode_cnf"
  BY <1>3, <1>4, <1>5, <1>8, SmEventAway DEF SM_DevmodeCnf
<1>9. CASE sm.state # "wait_devmode_cnf" /\ ~(DueArg("DEVMODE_CNF") /\ sm.state = "waitForFallback")
  <2>1. SmEvent(sm, "DL_COMLOST")  BY <1>9 DEF SM_DevmodeCnf
  <2>2. CASE sm.state \in {"PortInactive", "checkSerNum", "write_master_cycl"}
    <3>1. SmRows(sm.state, "DL_COMLOST") = {}  BY <2>2, SmRowsOf
    <3> QED BY <1>4, <2>1, <3>1, SmTells, SmIdle DEF SmEvent
  <2> QED BY <1>3, <1>4, <1>5, <2>1, <2>2, SmEventAway
<1> QED BY <1>6, <1>7, <1>8, <1>9

\* AL has answered SM.
LEMMA HandAnswer == ASSUME HandInv, TypeInv, UNCHANGED al, SM_ALCnf PROVE HandInv'
<1> DEFINE c == Head(jobs)
<1>1. jobs # <<>> /\ c.type = "AL_CNF" /\ c.who = "SM" /\ IsSeq(jobs)
  BY DEF SM_ALCnf, Due, TypeInv, Sound
<1>2. Kind(c, "al") /\ \A k : Wants(sm.state, k) => ~Kind(c, k)  BY <1>1 DEF Kind, Wants
<1>3. LinkTyped /\ Context(sm)  BY DEF TypeInv, SmTyped, Context
<1>4. sm.state \in {"checkSerNum", "write_master_cycl"}
  <2>1. ~No(jobs, "al")  BY <1>1, <1>2, KindTail
  <2> QED BY <2>1 DEF HandInv, HandAt, AskRules, Asked
<1>5. SmLeaves \/ SmStays => HandInv'
  BY <1>1, <1>2, <1>4, HandStays, HandLeaves, ExpectingStates
<1> DEFINE s == [sm EXCEPT !.error = "SerNumFault"]
<1>6. Context(s) /\ s.state = sm.state  BY <1>3 DEF Context, SmInit
<1> HIDE DEF s
<1>7. SmEvent(s, "SerNumFault") \/ \E event \in {"SerNumOK", "CNF_COMLOST", "DL_COMLOST", "CYCL_DONE"} :
                                     SmEvent(sm, event)
  BY DEF SM_ALCnf, SM_SerialCnf, SM_CyclCnf, s
<1> QED BY <1>3, <1>5, <1>6, <1>7, SmEventAway

\* The data link indicates a mode.
LEMMA HandMode == ASSUME HandInv, TypeInv, UNCHANGED al, SM_Mode PROVE HandInv'
<1> DEFINE h == Head(jobs)
           t == Tail(jobs)
           mode == DueArg("MODE")
<1>1. jobs # <<>> /\ h.type = "MODE" /\ IsSeq(jobs)
  BY DEF SM_Mode, Due, TypeInv, Sound
<1>2. /\ Kind(h, "mode") /\ ~Kind(h, "cnf")
      /\ Kind(h, "start") <=> mode = "STARTUP"
      /\ Kind(h, "preop") <=> mode = "PREOPERATE"
      /\ Kind(h, "oper") <=> mode = "OPERATE"
  BY <1>1 DEF Kind, DueArg
<1>3. LinkTyped /\ Context(sm)  BY DEF TypeInv, SmTyped, Context
<1>4. ASSUME SmStays, sm.state = "waitonDLPreop" => mode # "PREOPERATE",
             sm.state = "waitonDLOperate" => mode # "OPERATE"
      PROVE HandInv'
  BY <1>1, <1>2, <1>4, HandStays DEF Wants
<1>5. ASSUME SmLeaves, sm.state \notin {"PortInactive", "checkSerNum", "write_master_cycl"}
      PROVE HandInv'
  BY <1>1, <1>2, <1>5, HandLeaves
<1>6. ASSUME SmEvent(sm, "DL_COMLOST"), sm.state = "waitonDLPreop" => mode # "PREOPERATE",
             sm.state = "waitonDLOperate" => mode # "OPERATE"
      PROVE HandInv'
  <2>1. CASE sm.state \in {"PortInactive", "checkSerNum", "write_master_cycl"}
    <3>1. SmRows(sm.state, "DL_COMLOST") = {}  BY <2>1, SmRowsOf
    <3> QED BY <1>4, <1>6, <3>1, SmTells, SmIdle DEF SmEvent
  <2> QED BY <1>3, <1>4, <1>5, <1>6, <2>1, SmEventAway
<1>7. CASE mode = "COMLOST"
  BY <1>4, <1>6, <1>7, SmTells, SmIdle DEF SM_Mode
<1>8. CASE mode # "COMLOST" /\ sm.state = "PortInactive" /\ mode # "STARTUP"
  BY <1>4, <1>8, SmTells, SmIdle DEF SM_Mode
<1>9. CASE sm.state = "PortInactive" /\ mode = "STARTUP"
  <2>1. SmEvent(sm, "DL_STARTUP")  BY <1>9 DEF SM_Mode
  <2>2. \A r \in SmTable : r[2] = "DL_STARTUP" => r[3] = "ReadCom" /\ r[4] = "read_com"
    BY DEF SmTable
  <2>3. SmRows(sm.state, "DL_STARTUP") # {}
    <3> DEFINE r == <<"PortInactive", "DL_STARTUP", "ReadCom", "read_com">>
    <3>1. r \in SmTable /\ r[1] = "PortInactive" /\ r[2] = "DL_STARTUP"  BY DEF SmTable
    <3> HIDE DEF r
    <3>2. r \in SmRows(sm.state, "DL_STARTUP")  BY <1>9, <3>1 DEF SmRows
    <3> QED BY <3>2
  <2>4. SmDo("read_com", [sm EXCEPT !.state = "ReadCom"], "DL_STARTUP")
    BY <2>1, <2>2, <2>3 DEF SmEvent, SmRows
  <2>5. /\ sm' = [[sm EXCEPT !.state = "ReadCom"] EXCEPT !.retry = 0]
        /\ dl' = Access(dl, "com") /\ Handled(AccessCnf(dl, "com"))
    BY <2>4 DEF SmDo, SmAccess, Calls
  <2>6. sm'.state = "ReadCom"  BY <1>3, <2>5 DEF Context, SmInit
  <2>7. /\ \A k : No(jobs, k) <=> ~Kind(h, k) /\ No(t, k)
        /\ \A k, l : Apart(jobs, k, l) <=> Apart(t, k, l) /\ (Kind(h, k) => No(t, l))
        /\ IsSeq(t)
    BY <1>1, KindTail
  <2>8. HandAt(jobs, dl, sm.state, al)  BY DEF HandInv
  <2> HIDE DEF h, t
  <2>9. Kind(h, "start")  BY <1>2, <1>9 DEF mode
  <2>10. /\ dl.link = "Startup" /\ dl.mode = "STARTUP" /\ dl.mdh = "no"
         /\ No(t, "mode") /\ No(t, "dev") /\ No(t, "cfg")
         /\ ~Token(t, dl) /\ LinkRules(dl)
    BY <2>7, <2>8, <2>9 DEF HandAt, StartRules, Starting, Token
  <2>11. ~Asked(t, al)
    BY <1>9, <2>7, <2>8 DEF HandAt, AskRules, Asked
  <2>12. HandAt(t \o AccessCnf(dl, "com"), Access(dl, "com"), "ReadCom", al)
    BY <1>3, <2>7, <2>10, <2>11, HandAccess, ExpectingStates DEF LinkTyped
  <2> QED BY <2>5, <2>6, <2>12 DEF HandInv, Handled, t
<1>10. CASE sm.state = "waitonDLPreop" /\ mode = "PREOPERATE"
  <2>1. SmEvent(sm, "DL_PREOPERATE")  BY <1>10 DEF SM_Mode
  <2>2. \A r \in SmTable : r[2] = "DL_PREOPERATE" => r[3] = "checkSerNum" /\ r[4] = "serial"
    BY DEF SmTable
  <2>3. SmRows(sm.state, "DL_PREOPERATE") # {}
    <3> DEFINE r == <<"waitonDLPreop", "DL_PREOPERATE", "checkSerNum", "serial">>
    <3>1. r \in SmTable /\ r[1] = "waitonDLPreop" /\ r[2] = "DL_PREOPERATE"  BY DEF SmTable
    <3> HIDE DEF r
    <3>2. r \in SmRows(sm.state, "DL_PREOPERATE")  BY <1>10, <3>1 DEF SmRows
    <3> QED BY <3>2
  <2>4. SmDo("serial", [sm EXCEPT !.state = "checkSerNum"], "DL_PREOPERATE")
    BY <2>1, <2>2, <2>3 DEF SmEvent, SmRows
  <2>5. /\ sm' = [sm EXCEPT !.state = "checkSerNum"]
        /\ dl' = dl /\ Handled(<<AlReq("SM", Op("read", "serial", 0))>>)
    BY <2>4 DEF SmDo, Calls
  <2>6. sm'.state = "checkSerNum"  BY <1>3, <2>5 DEF Context, SmInit
  <2>7. HandAt(Tail(jobs) \o <<AlReq("SM", Op("read", "serial", 0))>>, dl, "checkSerNum", al)
    BY <1>1, <1>2, <1>10, HandAsk DEF HandInv
  <2> QED BY <2>5, <2>6, <2>7 DEF HandInv, Handled
<1>11. CASE sm.state = "waitonDLOperate" /\ mode = "OPERATE"
  <2>1. SmEvent(sm, "DL_OPERATE")  BY <1>11 DEF SM_Mode
  <2>2. \A r \in SmTable : r[1] = "waitonDLOperate" /\ r[2] = "DL_OPERATE"
                             => r[3] = "checkSerNum" /\ r[4] = "serial"
    BY DEF SmTable
  <2>3. SmRows(sm.state, "DL_OPERATE") # {}
    <3> DEFINE r == <<"waitonDLOperate", "DL_OPERATE", "checkSerNum", "serial">>
    <3>1. r \in SmTable /\ r[1] = "waitonDLOperate" /\ r[2] = "DL_OPERATE"  BY DEF SmTable
    <3> HIDE DEF r
    <3>2. r \in SmRows(sm.state, "DL_OPERATE")  BY <1>11, <3>1 DEF SmRows
    <3> QED BY <3>2
  <2>4. SmDo("serial", [sm EXCEPT !.state = "checkSerNum"], "DL_OPERATE")
    BY <1>11, <2>1, <2>2, <2>3 DEF SmEvent, SmRows
  <2>5. /\ sm' = [sm EXCEPT !.state = "checkSerNum"]
        /\ dl' = dl /\ Handled(<<AlReq("SM", Op("read", "serial", 0))>>)
    BY <2>4 DEF SmDo, Calls
  <2>6. sm'.state = "checkSerNum"  BY <1>3, <2>5 DEF Context, SmInit
  <2>7. HandAt(Tail(jobs) \o <<AlReq("SM", Op("read", "serial", 0))>>, dl, "checkSerNum", al)
    BY <1>1, <1>2, <1>11, HandAsk DEF HandInv
  <2> QED BY <2>5, <2>6, <2>7 DEF HandInv, Handled
<1>12. CASE sm.state = "SMOperate" /\ mode = "OPERATE"
  <2>1. SmEvent(sm, "DL_OPERATE")  BY <1>12 DEF SM_Mode
  <2>2. \A r \in SmTable : r[1] = "SMOperate" /\ r[2] = "DL_OPERATE"
                             => r[3] = "SMOperate" /\ r[4] = "operate_ind"
    BY DEF SmTable
  <2>3. \A r \in SmRows(sm.state, "DL_OPERATE") :
          r[3] \notin Waits \cup {"checkSerNum"} /\ r[4] \notin Asking /\ r[4] # "start"
    BY <1>12, <2>2 DEF SmRows, Waits, Asking
  <2>4. SmLeaves \/ SmStays  BY <1>3, <2>1, <2>3, SmEventLeaves
  <2> QED BY <1>4, <1>5, <1>12, <2>4
<1>13. CASE /\ mode # "COMLOST" /\ sm.state \in Waits \cup {"SMOperate", "InspectionFault"}
            /\ ~(sm.state = "waitonDLPreop" /\ mode = "PREOPERATE")
            /\ ~(sm.state \in {"waitonDLOperate", "SMOperate"} /\ mode = "OPERATE")
  <2>1. Calls(sm, dl, <<>>)  BY <1>13 DEF SM_Mode, Waits
  <2>2. SmStays  BY <2>1, SmTells, SmIdle
  <2> QED BY <1>4, <1>13, <2>2
<1>14. CASE /\ mode # "COMLOST"
            /\ sm.state \notin Waits \cup {"PortInactive", "SMOperate", "InspectionFault"}
  <2>1. SmEvent(sm, "DL_COMLOST")  BY <1>14 DEF SM_Mode, Waits
  <2> QED BY <1>6, <1>14, <2>1 DEF Waits
<1> QED BY <1>7, <1>8, <1>9, <1>10, <1>11, <1>12, <1>13, <1>14 DEF Waits

-----------------------------------------------------------------------------
\* The faults that an inspection ends with.
Errors   == {"none", "CycTimeFault", "CycTimeFault_V10", "CompFault", "CompFault_V10",
             "RevisionFault", "SerNumFault"}
ErrorInv == sm.error \in Errors

\* The table's actions keep the error or clear it.
LEMMA SmDoError == ASSUME NEW do, NEW s, NEW event, SmDo(do, s, event), Context(s), s.error \in Errors
  PROVE ErrorInv'
<1>1. ASSUME NEW x, NEW e, NEW p, Calls(x, e, p), x.error \in Errors PROVE ErrorInv'
  BY <1>1 DEF Calls, ErrorInv
<1>2. /\ [s EXCEPT !.retry = 0].error = s.error
      /\ [s EXCEPT !.retry = @ + 1].error = s.error
      /\ [s EXCEPT !.error = "none"].error = "none"
  BY DEF Context, SmInit
<1>3. "none" \in Errors  BY DEF Errors
<1>4. CASE do \in {"read_com", "read_id", "ident", "preop_cmd", "operate_cmd", "restart"}
  BY <1>1, <1>2, <1>4 DEF SmDo, SmAccess
<1>5. CASE do = "fault"  BY <1>1, <1>5 DEF SmDo, SmFault
<1>6. CASE do \in {"serial", "write_cycl", "comready", "comlost", "inactive", "start", "dido",
                   "operate_ind", "fallback", "devmode"}
  BY <1>1, <1>2, <1>3, <1>6 DEF SmDo
<1>7. CASE do \notin {"read_com", "read_id", "ident", "preop_cmd", "operate_cmd", "restart",
                      "fault", "serial", "write_cycl", "comready", "comlost", "inactive",
                      "start", "dido", "operate_ind", "fallback", "devmode"}
  BY <1>1, <1>7 DEF SmDo
<1> QED BY <1>4, <1>5, <1>6, <1>7

\* An event given to SM with an error noted keeps the error between the two states it is read in.
LEMMA SmEventError == ASSUME NEW s, NEW event, SmEvent(s, event), Context(s), s.error \in Errors
  PROVE ErrorInv'
<1>1. ASSUME NEW t \in SmRows(s.state, event), SmDo(t[4], [s EXCEPT !.state = t[3]], event)
      PROVE ErrorInv'
  <2>1. t \in SmTable  BY DEF SmRows
  <2>2. Context([s EXCEPT !.state = t[3]]) /\ [s EXCEPT !.state = t[3]].error = s.error
    BY <2>1, RowsTyped DEF Context, SmInit
  <2> QED BY <1>1, <2>2, SmDoError
<1>2. ASSUME Calls(s, dl, <<>>) PROVE ErrorInv'  BY <1>2 DEF Calls, ErrorInv
<1> QED BY <1>1, <1>2 DEF SmEvent

\* SM's error is one of an inspection.
LEMMA ErrorSm == ASSUME ErrorInv, TypeInv, SM_Handler PROVE ErrorInv'
<1>1. Context(sm) /\ sm.error \in Errors  BY DEF TypeInv, SmTyped, Context, ErrorInv
<1>2. ASSUME NEW e, NEW p, Calls(sm, e, p) PROVE ErrorInv'  BY <1>1, <1>2 DEF Calls, ErrorInv
<1>3. ASSUME NEW event, SmEvent(sm, event) PROVE ErrorInv'  BY <1>1, <1>3, SmEventError
<1>4. dev.id \in Names  BY DEF TypeInv, CableTyped, Names
<1>5. \A s, event : Context(s) /\ s.error \in Errors
                      => Context(WithError(s, event)) /\ WithError(s, event).error \in Errors
  BY DEF Context, SmInit, WithError, Errors
<1>6. ASSUME SM_SetPortConfig PROVE ErrorInv'
  <2> DEFINE s == [sm EXCEPT !.cfg = DueArg("SM_CONFIG")]
  <2>1. Context(s) /\ s.error = sm.error  BY <1>1 DEF Context, SmInit
  <2> HIDE DEF s
  <2>2. Calls(sm, dl, <<>>) \/ \E event : SmEvent(s, event)  BY <1>6 DEF SM_SetPortConfig, s
  <2> QED BY <1>1, <1>2, <2>1, <2>2, SmEventError
<1>7. ASSUME SM_Operate PROVE ErrorInv'  BY <1>3, <1>7 DEF SM_Operate
<1>8. ASSUME SM_Mode PROVE ErrorInv'  BY <1>2, <1>3, <1>8 DEF SM_Mode
<1>9. ASSUME SM_DLCnf PROVE ErrorInv'
  <2>1. CASE ~DueArg("DL_CNF").ok  BY <1>3, <1>9, <2>1 DEF SM_DLCnf
  <2>2. CASE DueArg("DL_CNF").ok /\ sm.state = "ReadCom"
    <3>1. \A v : Context([sm EXCEPT !.rev = v]) /\ [sm EXCEPT !.rev = v].error = sm.error
      BY <1>1 DEF Context, SmInit
    <3>2. \E v, event : SmEvent([sm EXCEPT !.rev = v], event)  BY <1>9, <2>2 DEF SM_DLCnf
    <3> QED BY <1>1, <3>1, <3>2, SmEventError
  <2>3. CASE DueArg("DL_CNF").ok /\ sm.state \in {"CheckComp", "CheckCompV10"}
    <3> DEFINE s == [sm EXCEPT !.id = dev.id]
    <3>1. Context(s) /\ s.error = sm.error  BY <1>1, <1>4 DEF Context, SmInit
    <3> HIDE DEF s
    <3>2. SmEvent(WithError(s, CompEvent(s)), CompEvent(s))  BY <1>9, <2>3 DEF SM_DLCnf, s
    <3> QED BY <1>1, <1>5, <3>1, <3>2, SmEventError
  <2>4. CASE DueArg("DL_CNF").ok /\ sm.state = "CheckVxy"
    BY <1>1, <1>5, <1>9, <2>4, SmEventError DEF SM_DLCnf
  <2>5. CASE DueArg("DL_CNF").ok /\ sm.state \in Waits
    BY <1>2, <1>9, <2>5 DEF SM_DLCnf, Waits
  <2>6. CASE /\ DueArg("DL_CNF").ok
             /\ sm.state \notin Waits \cup {"ReadCom", "CheckComp", "CheckCompV10", "CheckVxy"}
    <3>1. \E event : SmEvent(sm, event)  BY <1>9, <2>6 DEF SM_DLCnf, Waits
    <3> QED BY <1>3, <3>1
  <2> QED BY <2>1, <2>2, <2>3, <2>4, <2>5, <2>6
<1>10. ASSUME SM_ALCnf PROVE ErrorInv'
  <2> DEFINE s == [sm EXCEPT !.error = "SerNumFault"]
  <2>1. Context(s) /\ s.error \in Errors  BY <1>1 DEF Context, SmInit, Errors
  <2> HIDE DEF s
  <2>2. SmEvent(s, "SerNumFault") \/ \E event : SmEvent(sm, event)
    BY <1>10 DEF SM_ALCnf, SM_SerialCnf, SM_CyclCnf, s
  <2> QED BY <1>3, <2>1, <2>2, SmEventError
<1>11. ASSUME SM_DevmodeCnf PROVE ErrorInv'
  <2>1. [sm EXCEPT !.state = "SMOperate"].error = sm.error  BY <1>1 DEF Context, SmInit
  <2> QED BY <1>1, <1>2, <1>3, <1>11, <2>1 DEF SM_DevmodeCnf, ErrorInv
<1> QED BY <1>6, <1>7, <1>8, <1>9, <1>10, <1>11 DEF SM_Handler

\* The actions that give the data link an access.
Accessing == {"read_com", "read_id", "ident", "preop_cmd", "operate_cmd", "restart"}

\* Each of those actions asks for one, from the state it has moved to.
LEMMA SmDoAccess == ASSUME NEW do \in Accessing, NEW s, NEW event, SmDo(do, s, event), Context(s)
  PROVE \E x, what : SmAccess(x, what) /\ what # "none" /\ x.state = s.state
<1>1. /\ [s EXCEPT !.retry = 0].state = s.state
      /\ [s EXCEPT !.retry = @ + 1].state = s.state
  BY DEF Context, SmInit
<1>2. \E x \in {s, [s EXCEPT !.retry = 0], [s EXCEPT !.retry = @ + 1]} :
      \E what \in {"com", "id", "ident", "preop", "operate", "restart"} : SmAccess(x, what)
  <2>1. CASE do = "read_com"
    BY <2>1 DEF SmDo
  <2>2. CASE do \in {"read_id", "ident", "preop_cmd"}
    BY <2>2 DEF SmDo
  <2>3. CASE do \in {"operate_cmd", "restart"}
    BY <2>3 DEF SmDo
  <2> QED BY <2>1, <2>2, <2>3 DEF Accessing
<1> QED BY <1>1, <1>2

\* What a good confirmation leads to: the next access, or a fault.
LEMMA HandGood ==
  ASSUME HandInv, TypeInv, UNCHANGED al, jobs # <<>>, Kind(Head(jobs), "good"),
         NEW s, NEW event, SmEvent(s, event), Context(s), s.state = sm.state, sm.state \notin Waits,
         \A t \in SmRows(s.state, event) : \/ t[4] \in Accessing /\ t[3] \in Expecting
                                           \/ t[4] = "fault" /\ t[3] = "InspectionFault"
  PROVE HandInv'
<1> DEFINE h == Head(jobs)
           t == Tail(jobs)
<1>1. /\ IsSeq(jobs)
      /\ IsSeq(t)
      /\ \A k : No(jobs, k) <=> ~Kind(h, k) /\ No(t, k)
      /\ \A k, l : Apart(jobs, k, l) <=> Apart(t, k, l) /\ (Kind(h, k) => No(t, l))
  BY KindTail DEF TypeInv, Sound
<1>2. Kind(h, "good") /\ Kind(h, "cnf")  BY DEF Kind
<1>3. LinkTyped  BY DEF TypeInv
<1> HIDE DEF h, t
<1>4. HandAt(jobs, dl, sm.state, al)  BY DEF HandInv
<1>5. /\ ~No(jobs, "good") /\ ~No(jobs, "cnf") /\ No(t, "cnf")
      /\ Token(jobs, dl)
  BY <1>1, <1>2, <1>4 DEF HandAt, TokenRules, Token
<1>6. /\ dl.link = "Startup" /\ dl.mode = "STARTUP" /\ dl.mdh = "no" /\ dl.acc = "none"
      /\ No(jobs, "mode") /\ No(jobs, "dev") /\ No(jobs, "cfg") /\ sm.state \in Expecting
      /\ LinkRules(dl)
  BY <1>4, <1>5 DEF HandAt, TokenRules
<1>7. No(t, "mode") /\ No(t, "dev") /\ No(t, "cfg") /\ ~Token(t, dl)
  BY <1>1, <1>5, <1>6 DEF Token
<1>8. ~Asked(t, al)
  <2>1. Asked(t, al) => Asked(jobs, al)  BY <1>1 DEF Asked
  <2> QED BY <1>4, <1>6, <2>1, ExpectingStates DEF HandAt, AskRules
<1>9. ASSUME NEW row \in SmRows(s.state, event),
             SmDo(row[4], [s EXCEPT !.state = row[3]], event)
      PROVE HandInv'
  <2> DEFINE x == [s EXCEPT !.state = row[3]]
  <2>1. row \in SmTable  BY DEF SmRows
  <2>2. Context(x) /\ x.state = row[3]
    BY <2>1, RowsTyped DEF Context, SmInit
  <2> HIDE DEF x
  <2>3. CASE row[4] \in Accessing /\ row[3] \in Expecting
    <3>1. PICK y, what : SmAccess(y, what) /\ what # "none" /\ y.state = row[3]
      BY <1>9, <2>2, <2>3, SmDoAccess DEF x
    <3>2. sm' = y /\ dl' = Access(dl, what) /\ Handled(AccessCnf(dl, what))
      BY <3>1 DEF SmAccess, Calls
    <3>3. DOMAIN dl = DOMAIN DlInit  BY <1>3 DEF LinkTyped
    <3>4. HandAt(t \o AccessCnf(dl, what), Access(dl, what), row[3], al)
      BY <1>1, <1>6, <1>7, <1>8, <2>3, <3>1, <3>3, HandAccess
    <3> QED BY <3>1, <3>2, <3>4 DEF HandInv, Handled, t
  <2>4. CASE row[4] = "fault" /\ row[3] = "InspectionFault"
    <3>1. SmLeaves
      BY <1>3, <1>9, <2>2, <2>4, SmDoLeaves DEF x, Asking, Waits
    <3> QED BY <1>1, <1>2, <1>6, <3>1, HandLeaves, ExpectingStates DEF h
  <2> QED BY <1>9, <2>3, <2>4
<1>10. ASSUME Calls(s, dl, <<>>) PROVE HandInv'
  <2>1. SmStays  BY <1>10, SmTells DEF Calls, SmStays
  <2>2. \A k : ~Wants(sm.state, k)  BY DEF Wants, Waits
  <2> QED BY <1>1, <2>1, <2>2, HandStays
<1> QED BY <1>9, <1>10 DEF SmEvent

\* An access is confirmed.
LEMMA HandDLCnf == ASSUME HandInv, TypeInv, ErrorInv, UNCHANGED al, SM_DLCnf PROVE HandInv'
<1> DEFINE h == Head(jobs)
<1>1. jobs # <<>> /\ h.type = "DL_CNF" /\ IsSeq(jobs) /\ DueArg("DL_CNF") = h.arg
  BY DEF SM_DLCnf, Due, DueArg, TypeInv, Sound
<1>2. /\ Kind(h, "cnf") /\ ~No(jobs, "cnf")
      /\ h.arg.ok => Kind(h, "good")
  <2>1. Kind(h, "cnf") /\ (h.arg.ok => Kind(h, "good"))  BY <1>1 DEF Kind
  <2> QED BY <1>1, <2>1, KindTail
<1>3. LinkTyped /\ Context(sm)  BY DEF TypeInv, SmTyped, Context
<1>4. sm.state \in Expecting  BY <1>2 DEF HandInv, HandAt, TokenRules, Token
<1>5. dev.id \in Names  BY DEF TypeInv, CableTyped, Names
<1>6. CASE ~h.arg.ok
  <2>1. SmEvent(sm, "CNF_COMLOST")  BY <1>1, <1>6 DEF SM_DLCnf
  <2>2. SmLeaves \/ (SmStays /\ SmRows(sm.state, "CNF_COMLOST") = {})
    BY <1>3, <2>1, SmEventAway
  <2>3. CASE SmLeaves
    BY <1>1, <1>2, <1>4, <2>3, HandLeaves, ExpectingStates
  <2>4. CASE SmStays /\ SmRows(sm.state, "CNF_COMLOST") = {}
    <3>1. sm.state \notin Waits  BY <2>4, SmRowsOf
    <3>2. \A k : ~Wants(sm.state, k)  BY <3>1 DEF Wants, Waits
    <3> QED BY <1>1, <2>4, <3>2, HandStays
  <2> QED BY <2>2, <2>3, <2>4
<1>7. ASSUME h.arg.ok, sm.state \notin Waits,
             NEW s, NEW event, SmEvent(s, event), Context(s), s.state = sm.state,
             \A row \in SmTable : row[1] = sm.state /\ row[2] = event
                                    => \/ row[4] \in Accessing /\ row[3] \in Expecting
                                       \/ row[4] = "fault" /\ row[3] = "InspectionFault"
      PROVE HandInv'
  <2>1. \A t \in SmRows(s.state, event) : \/ t[4] \in Accessing /\ t[3] \in Expecting
                                          \/ t[4] = "fault" /\ t[3] = "InspectionFault"
    BY <1>7 DEF SmRows
  <2> QED BY <1>1, <1>2, <1>7, <2>1, HandGood
<1>8. CASE h.arg.ok /\ sm.state = "ReadCom"
  <2>1. PICK v, event : event \in {"V10", "NOT_V10"} /\ SmEvent([sm EXCEPT !.rev = v], event)
    BY <1>1, <1>8 DEF SM_DLCnf
  <2> DEFINE s == [sm EXCEPT !.rev = v]
  <2>2. Context(s) /\ s.state = sm.state  BY <1>3 DEF Context, SmInit
  <2> HIDE DEF s
  <2>3. \A row \in SmTable : row[2] \in {"V10", "NOT_V10"} =>
          row[3] \in {"CheckVxy", "CheckCompV10"} /\ row[4] \in {"ident", "read_id"}
    BY DEF SmTable
  <2>4. \A row \in SmTable : row[1] = sm.state /\ row[2] = event
                              => row[3] \in Expecting /\ row[4] \in Accessing
    BY <2>1, <2>3, ExpectingStates DEF Accessing
  <2>5. SmEvent(s, event)  BY <2>1 DEF s
  <2>6. s.state \notin Waits  BY <1>8, <2>2 DEF Waits
  <2> HIDE DEF s
  <2> QED BY <1>7, <1>8, <2>2, <2>4, <2>5, <2>6
<1>9. CASE h.arg.ok /\ sm.state \in {"CheckComp", "CheckCompV10"}
  <2> DEFINE r == [sm EXCEPT !.id = dev.id]
             event == CompEvent(r)
             s == WithError(r, event)
  <2>1. SmEvent(s, event)  BY <1>1, <1>9 DEF SM_DLCnf
  <2>2. Context(r) /\ r.state = sm.state  BY <1>3, <1>5 DEF Context, SmInit
  <2>3. event \in {"CycTimeFault", "CycTimeFault_V10", "CompOK", "CompFault_V10", "RETRY", "CompFault"}
    BY DEF CompEvent
  <2> HIDE DEF r, event
  <2>4. Context(s) /\ s.state = sm.state  BY <2>2 DEF WithError, Context, SmInit
  <2> HIDE DEF s
  <2>5. \A row \in SmTable :
          /\ row[1] \in {"CheckComp", "CheckCompV10"}
          /\ row[2] \in {"CycTimeFault", "CycTimeFault_V10", "CompOK", "CompFault_V10", "RETRY",
                         "CompFault"}
          => \/ row[4] \in Accessing /\ row[3] \in Expecting
             \/ row[4] = "fault" /\ row[3] = "InspectionFault"
    BY ExpectingStates DEF SmTable, Accessing
  <2> QED BY <1>7, <1>9, <2>1, <2>3, <2>4, <2>5 DEF Waits
<1>10. CASE h.arg.ok /\ sm.state = "CheckVxy"
  <2> DEFINE event == RevisionEvent(sm)
             s == WithError(sm, event)
  <2>1. SmEvent(s, event)  BY <1>1, <1>10 DEF SM_DLCnf
  <2>2. event \in {"REVISION_OK", "RETRY", "RevisionFault"}  BY DEF RevisionEvent
  <2> HIDE DEF event
  <2>3. Context(s) /\ s.state = sm.state  BY <1>3 DEF WithError, Context, SmInit
  <2> HIDE DEF s
  <2>4. \A row \in SmTable :
          row[1] = "CheckVxy" /\ row[2] \in {"REVISION_OK", "RETRY", "RevisionFault"}
          => row[4] \in Accessing /\ row[3] \in Expecting
    BY ExpectingStates DEF SmTable, Accessing
  <2> QED BY <1>7, <1>10, <2>1, <2>2, <2>3, <2>4 DEF Waits
<1>11. CASE h.arg.ok /\ sm.state = "RestartDevice"
  <2>1. SmEvent(sm, "WriteDone")  BY <1>1, <1>11 DEF SM_DLCnf
  <2>2. \A row \in SmTable : row[2] = "WriteDone" => row[3] = "ReadCom" /\ row[4] = "read_com"
    BY DEF SmTable
  <2> QED BY <1>3, <1>7, <1>11, <2>1, <2>2, ExpectingStates DEF Accessing, Waits
<1>12. CASE h.arg.ok /\ sm.state = "InspectionFault"
  <2>1. SmEvent(sm, sm.error)  BY <1>1, <1>12 DEF SM_DLCnf, Waits
  <2>2. \A row \in SmTable : row[1] = "InspectionFault" /\ row[2] \in Errors
          => row[4] = "fault" /\ row[3] = "InspectionFault"
    BY DEF SmTable, Errors
  <2> QED BY <1>3, <1>7, <1>12, <2>1, <2>2 DEF ErrorInv, Waits
<1>13. CASE h.arg.ok /\ sm.state \in Waits
  <2> DEFINE mode == IF sm.state = "waitonDLPreop" THEN "PREOPERATE" ELSE "OPERATE"
  <2>1. Calls(sm, SetMode(dl, mode), <<>>)  BY <1>1, <1>13 DEF SM_DLCnf, Waits
  <2>2. /\ sm.state = "waitonDLPreop" => mode = "PREOPERATE"
        /\ sm.state = "waitonDLOperate" => mode = "OPERATE"
    OBVIOUS
  <2> HIDE DEF mode
  <2>3. HandAt(Tail(jobs), SetMode(dl, mode), sm.state, al)
    BY <1>1, <1>2, <1>3, <1>13, <2>2, HandSet DEF HandInv, LinkTyped, Waits
  <2>4. Tail(jobs) \o <<>> = Tail(jobs)  BY <1>1, TailSeq, ConcatNone
  <2>5. sm' = sm /\ dl' = SetMode(dl, mode) /\ jobs' = Tail(jobs)
    BY <2>1, <2>4 DEF Calls, Handled
  <2> QED BY <2>3, <2>5 DEF HandInv
<1> QED BY <1>4, <1>6, <1>8, <1>9, <1>10, <1>11, <1>12, <1>13, ExpectingStates DEF Waits

\* All of SM's.
LEMMA HandSm == ASSUME HandInv, TypeInv, ErrorInv, SM_Handler PROVE HandInv'
BY HandConfig, HandOperate, HandDevmode, HandAnswer, HandMode, HandDLCnf DEF SM_Handler

-----------------------------------------------------------------------------
\* AL takes a request or a confirmation: what it owes SM stays what it was owed.
LEMMA HandService ==
  ASSUME NEW s, NEW d, NEW q, NEW a, NEW b, NEW p, IsSeq(s), s # <<>>, HandAt(s, d, q, a),
         IsSeq(p), \A k : k # "al" => No(p, k), Apart(p, "al", "al"),
         \A k : Wants(q, k) => ~Kind(Head(s), k),
         b.owner = "SM" \/ ~No(p, "al") => Kind(Head(s), "al") \/ a.owner = "SM",
         b.owner = "SM" => No(p, "al") /\ (q = "checkSerNum" => b.od = "Isdu")
  PROVE HandAt(Tail(s) \o p, d, q, b)
<1> DEFINE t == Tail(s)
           h == Head(s)
           c == t \o p
<1>1. /\ IsSeq(t)
      /\ \A k : No(s, k) <=> ~Kind(h, k) /\ No(t, k)
      /\ \A k, l : Apart(s, k, l) <=> Apart(t, k, l) /\ (Kind(h, k) => No(t, l))
  BY KindTail
<1>2. HandAt(t, d, q, a)  BY HandDrop
<1> HIDE DEF t, h
<1>3. /\ \A k : k # "al" => (No(c, k) <=> No(t, k))
      /\ \A k : No(c, k) <=> No(t, k) /\ No(p, k)
      /\ \A k, l : k # "al" /\ l # "al" => (Apart(c, k, l) <=> Apart(t, k, l))
      /\ Apart(c, "al", "al") <=> Apart(t, "al", "al") /\ (No(t, "al") \/ No(p, "al"))
  <2>1. \A k, l : k # "al" => Apart(p, k, l)  BY NoApart
  <2> QED BY <1>1, <2>1, KindBoth, NoApart
<1> HIDE DEF c
<1>4. StartRules(c, d, q) /\ TokenRules(c, d, q)
  BY <1>2, <1>3 DEF HandAt, StartRules, TokenRules, Starting, Token
<1>5. WaitRules(c, d, q)  BY <1>2, <1>3 DEF HandAt, WaitRules, Reaches, Token
<1>6. b.owner = "SM" \/ ~No(p, "al") => No(t, "al") /\ Asked(s, a)
  BY <1>1 DEF HandAt, AskRules, Asked, h
<1>7. Asked(c, b) => Asked(s, a)  BY <1>1, <1>3, <1>6 DEF Asked
<1>8. AskRules(c, q, b)
  <2>1. b.owner = "SM" => No(c, "al")  BY <1>3, <1>6
  <2>2. Apart(c, "al", "al")  BY <1>2, <1>3, <1>6 DEF HandAt, AskRules
  <2>3. q = "checkSerNum" => No(c, "odd")  BY <1>2, <1>3 DEF HandAt, AskRules
  <2> QED BY <1>7, <2>1, <2>2, <2>3 DEF HandAt, AskRules
<1>9. ConfigRules(c, q, b)
  BY <1>1, <1>2, <1>3, <1>7 DEF HandAt, ConfigRules
<1> QED BY <1>2, <1>4, <1>5, <1>8, <1>9 DEF HandAt, c, t

\* An answer to a user of AL, and what else AL posts.
LEMMA AlKinds ==
  /\ \A who, rw, err, len : LET p == <<AlCnf(who, rw, err, len)>> IN
       /\ IsSeq(p) /\ Apart(p, "al", "al") /\ \A k : k # "al" => No(p, k)
       /\ ~No(p, "al") => who = "SM"
  /\ \A op, refused : Aside(ParamCnf(op, refused))
  /\ \A d : Aside(TransportCnf(d))
  /\ Aside(<<Job("EVENT_RSP")>>)
  /\ Aside(<<Job("EVENT_RSP"), Job("DS_UPLOAD")>>)
<1>1. ASSUME NEW who, NEW rw, NEW err, NEW len
      PROVE LET p == <<AlCnf(who, rw, err, len)>> IN
              /\ IsSeq(p) /\ Apart(p, "al", "al") /\ \A k : k # "al" => No(p, k)
              /\ ~No(p, "al") => who = "SM"
  <2> DEFINE j == AlCnf(who, rw, err, len)
  <2>1. \A k : Kind(j, k) <=> who = "SM" /\ k = "al"  BY KindNames
  <2> HIDE DEF j
  <2>2. /\ IsSeq(<<j>>) /\ Apart(<<j>>, "al", "al")
        /\ \A k : No(<<j>>, k) <=> ~Kind(j, k)
    BY KindOne
  <2> QED BY <2>1, <2>2 DEF j
<1>2. \A type \in {"PARAM_CNF", "ISDU_CNF", "EVENT_RSP", "DS_UPLOAD"} :
        Aside(<<Job(type)>>) /\ \A arg : Aside(<<JobArg(type, arg)>>)
  BY KindNames, KindOne DEF Aside
<1>3. Aside(<<>>)  BY KindNone DEF Aside
<1>4. ASSUME NEW op, NEW refused PROVE Aside(ParamCnf(op, refused))
  <2>1. Aside(<<ParamRes(op, "ERR", FALSE)>>)  BY <1>2 DEF ParamRes
  <2> QED BY <1>3, <2>1 DEF ParamCnf
<1>5. ASSUME NEW d PROVE Aside(TransportCnf(d))
  <2>1. Aside(<<JobArg("ISDU_CNF", "ERR")>>)  BY <1>2
  <2> QED BY <1>3, <2>1 DEF TransportCnf
<1>6. Aside(<<Job("EVENT_RSP"), Job("DS_UPLOAD")>>)
  <2>1. <<Job("EVENT_RSP"), Job("DS_UPLOAD")>> = <<Job("EVENT_RSP")>> \o <<Job("DS_UPLOAD")>>
    OBVIOUS
  <2>2. Aside(<<Job("EVENT_RSP")>>) /\ Aside(<<Job("DS_UPLOAD")>>)  BY <1>2
  <2>3. Aside(<<Job("EVENT_RSP")>> \o <<Job("DS_UPLOAD")>>)  BY <2>2, AsideBoth
  <2> QED BY <2>1, <2>3
<1> QED BY <1>1, <1>2, <1>4, <1>5, <1>6

\* A request to AL.
LEMMA HandRequest == ASSUME HandInv, TypeInv, AL_Request PROVE HandInv'
<1> DEFINE j == Head(jobs)
           op == Resolved(j)
<1>1. jobs # <<>> /\ j.type = "AL_REQ" /\ IsSeq(jobs)
  BY DEF AL_Request, Due, TypeInv, Sound
<1>2. /\ \A k : Wants(sm.state, k) => ~Kind(j, k)
      /\ j.who = "SM" => Kind(j, "al")
  BY <1>1 DEF Kind, Wants
<1>3. AlTyped /\ LinkTyped  BY DEF TypeInv
<1>4. j.who = "SM" /\ sm.state = "checkSerNum" => ~IsParam(op)
  <2>1. SUFFICES ASSUME j.who = "SM", sm.state = "checkSerNum" PROVE ~IsParam(op)
    OBVIOUS
  <2>2. No(jobs, "odd")  BY <2>1 DEF HandInv, HandAt, AskRules
  <2>3. ~Kind(j, "odd")  BY <1>1, <2>2, KindTail
  <2>4. j.op = Op("read", "serial", 0)  BY <1>1, <2>1, <2>3 DEF Kind
  <2>5. op = j.op /\ j.op.what = "serial"  BY <2>4 DEF Resolved, Op
  <2> QED BY <2>5 DEF IsParam
<1>5. AL_ReadWrite(op) /\ UNCHANGED sm  BY DEF AL_Request
<1> HIDE DEF op
<1>6. ASSUME NEW p, NEW e, Handled(p), IsSeq(p), \A k : k # "al" => No(p, k), Apart(p, "al", "al"),
             dl' = e, Ticks(dl, e),
             al'.owner = "SM" \/ ~No(p, "al") => Kind(j, "al") \/ al.owner = "SM",
             al'.owner = "SM" => No(p, "al") /\ (sm.state = "checkSerNum" => al'.od = "Isdu")
      PROVE HandInv'
  <2>1. HandAt(Tail(jobs) \o p, dl, sm.state, al')
    BY <1>1, <1>2, <1>6, HandService DEF HandInv
  <2>2. HandAt(Tail(jobs) \o p, e, sm.state, al')  BY <1>6, <2>1, HandTick
  <2> QED BY <1>5, <1>6, <2>2 DEF HandInv, Handled
<1>7. ASSUME NEW p, Aside(p)
      PROVE IsSeq(p) /\ (\A k : No(p, k)) /\ Apart(p, "al", "al")
  BY <1>7, NoApart DEF Aside
<1>8. CASE al.od # "Idle"
  <2>1. Handled(<<AlCnf(j.who, j.op.rw, "BUSY", "none")>>) /\ UNCHANGED <<al, dl>>
    BY <1>5, <1>8 DEF AL_ReadWrite
  <2>2. Ticks(dl, dl)  BY DEF Ticks
  <2> DEFINE p == <<AlCnf(j.who, j.op.rw, "BUSY", "none")>>
  <2>3. /\ IsSeq(p) /\ Apart(p, "al", "al") /\ \A k : k # "al" => No(p, k)
        /\ ~No(p, "al") => j.who = "SM"
    BY AlKinds
  <2>4. al.owner = "SM" => No(p, "al") /\ (sm.state = "checkSerNum" => al.od = "Isdu")
    <3>1. SUFFICES ASSUME al.owner = "SM"
                   PROVE No(p, "al") /\ (sm.state = "checkSerNum" => al.od = "Isdu")
      OBVIOUS
    <3>2. No(jobs, "al")  BY <3>1 DEF HandInv, HandAt, AskRules
    <3>3. ~Kind(j, "al")  BY <1>1, <3>2, KindTail
    <3> QED BY <1>2, <2>3, <3>1, <3>3 DEF HandInv, HandAt, AskRules
  <2> HIDE DEF p
  <2>5. Handled(p)  BY <2>1 DEF p
  <2> QED BY <1>2, <1>6, <2>1, <2>2, <2>3, <2>4, <2>5
<1>9. CASE al.od = "Idle" /\ IsParam(op)
  <2>1. PICK refused : dl' = Param(dl, op) /\ Handled(ParamCnf(op, refused))
    BY <1>5, <1>9 DEF AL_ReadWrite
  <2>2. al'.owner = j.who
    BY <1>3, <1>5, <1>9 DEF AL_ReadWrite, AlTyped, AlInit
  <2>3. Ticks(dl, Param(dl, op))
    BY <1>3 DEF Ticks, Param, LinkTyped, DlInit
  <2> QED BY <1>2, <1>4, <1>6, <1>7, <1>9, <2>1, <2>2, <2>3, AlKinds
<1>10. CASE al.od = "Idle" /\ ~IsParam(op)
  <2>1. dl' = Transport(dl, op) /\ Handled(TransportCnf(dl))
    BY <1>5, <1>10 DEF AL_ReadWrite
  <2>2. al'.owner = j.who /\ al'.od = "Isdu"
    BY <1>3, <1>5, <1>10 DEF AL_ReadWrite, AlTyped, AlInit
  <2>3. Ticks(dl, Transport(dl, op))
    BY <1>3 DEF Ticks, Transport, LinkTyped, DlInit
  <2> QED BY <1>2, <1>6, <1>7, <2>1, <2>2, <2>3, AlKinds
<1> QED BY <1>8, <1>9, <1>10

\* What the data link tells AL.
LEMMA HandAl == ASSUME HandInv, TypeInv, AL_Handler, UNCHANGED sm PROVE HandInv'
<1> DEFINE j == Head(jobs)
<1>1. /\ jobs # <<>> /\ j.type \in {"PARAM_CNF", "ISDU_CNF", "EVENT", "EVENT_RSP"}
      /\ IsSeq(jobs) /\ UNCHANGED dl
  BY DEF AL_Handler, AL_ParamCnf, AL_IsduCnf, AL_EventInd, AL_EventRsp, Due, TypeInv, Sound
<1>2. \A k : ~Kind(j, k)  BY <1>1 DEF Kind
<1>3. AlTyped  BY DEF TypeInv
<1>4. al.owner = "SM" /\ sm.state = "checkSerNum" => al.od = "Isdu"
  BY DEF HandInv, HandAt, AskRules
<1>5. ASSUME NEW p, Handled(p), Aside(p), al'.owner = al.owner, al'.od = al.od PROVE HandInv'
  <2>1. IsSeq(p) /\ (\A k : No(p, k)) /\ Apart(p, "al", "al")  BY <1>5, NoApart DEF Aside
  <2>2. HandAt(Tail(jobs) \o p, dl, sm.state, al')
    BY <1>1, <1>2, <1>4, <1>5, <2>1, HandService DEF HandInv
  <2> QED BY <1>1, <1>5, <2>2 DEF HandInv, Handled
<1>6. ASSUME NEW awaited, NEW err, NEW len, AL_Confirm(awaited, err, len) PROVE HandInv'
  <2>1. CASE al.od # awaited
    <3>1. Handled(<<>>) /\ UNCHANGED al  BY <1>6, <2>1 DEF AL_Confirm
    <3> QED BY <1>5, <3>1, SmTells
  <2>2. CASE al.od = awaited
    <3> DEFINE p == <<AlCnf(al.owner, al.op.rw, err, len)>>
    <3>1. Handled(p) /\ al'.owner = "none"
      BY <1>3, <1>6, <2>2 DEF AL_Confirm, AlTyped, AlInit
    <3>2. /\ IsSeq(p) /\ Apart(p, "al", "al") /\ \A k : k # "al" => No(p, k)
          /\ ~No(p, "al") => al.owner = "SM"
      BY AlKinds
    <3> HIDE DEF p
    <3>3. HandAt(Tail(jobs) \o p, dl, sm.state, al')
      BY <1>1, <1>2, <3>1, <3>2, HandService DEF HandInv
    <3> QED BY <1>1, <3>1, <3>3 DEF HandInv, Handled
  <2> QED BY <2>1, <2>2
<1>7. CASE AL_ParamCnf \/ AL_IsduCnf  BY <1>6, <1>7 DEF AL_ParamCnf, AL_IsduCnf
<1>8. CASE AL_EventInd
  <2>1. al'.owner = al.owner /\ al'.od = al.od  BY <1>3, <1>8 DEF AL_EventInd, AlTyped, AlInit
  <2>2. \E p : Handled(p) /\ Aside(p)
    BY <1>8, AlKinds, SmTells DEF AL_EventInd
  <2> QED BY <1>5, <2>1, <2>2
<1>9. CASE AL_EventRsp
  <2>1. al'.owner = al.owner /\ al'.od = al.od  BY <1>3, <1>9 DEF AL_EventRsp, AlTyped, AlInit
  <2> QED BY <1>5, <1>9, <2>1, SmTells DEF AL_EventRsp
<1> QED BY <1>7, <1>8, <1>9 DEF AL_Handler

-----------------------------------------------------------------------------
\* The jobs that matter to the services: a request of the exchange, that or its confirmation, a confirmation
\* of the serial number with which SM goes on, SM's word of it to CM, a configuration, the
\* start of a session, and what starts and stops the exchange.
Sort(j, k) ==
  \/ k = "req"   /\ j.type = "AL_REQ" /\ j.who = "ODE"
  \/ k = "ode"   /\ j.type \in {"AL_REQ", "AL_CNF"} /\ j.who = "ODE"
  \/ k = "good"  /\ j.type = "AL_CNF" /\ j.who = "SM" /\ j.rw = "read" /\ j.err \in {"NONE", "NOTAVAIL"}
  \/ k = "ready" /\ j.type = "PORT_MODE" /\ j.arg = "COMREADY"
  \/ k = "cfg"   /\ j.type \in {"SMI_PORTCFG", "SM_CONFIG"}
  \/ k = "start" /\ j.type = "MODE" /\ j.arg = "STARTUP"
  \/ k = "begin" /\ j.type = "OD_START"
  \/ k = "stop"  /\ j.type = "OD_STOP"

\* No job of that sort is in the mailbox; none of sort l is behind one of sort k.
Without(s, k)   == \A i \in DOMAIN s : ~Sort(s[i], k)
Behind(s, k, l) == \A i, j \in DOMAIN s : i < j /\ Sort(s[i], k) => ~Sort(s[j], l)
\* Where the jobs of two parts of the mailbox are.
LEMMA Places == ASSUME NEW s, NEW p, IsSeq(s), IsSeq(p)
  PROVE /\ Len(s) \in Nat
        /\ \A i \in DOMAIN s : i \in DOMAIN (s \o p) /\ (s \o p)[i] = s[i] /\ i \in Nat /\ i <= Len(s)
        /\ \A i \in DOMAIN p : /\ Len(s) + i \in DOMAIN (s \o p) /\ (s \o p)[Len(s) + i] = p[i]
                               /\ i \in Nat \ {0}
        /\ \A i \in DOMAIN (s \o p) :
             i \in DOMAIN s \/ (i - Len(s) \in DOMAIN p /\ (s \o p)[i] = p[i - Len(s)] /\ i \in Nat /\ i > Len(s))
<1> DEFINE n == Len(s)  m == Len(p)  c == s \o p
<1>1. /\ n \in Nat /\ m \in Nat /\ DOMAIN s = 1..n /\ DOMAIN p = 1..m /\ DOMAIN c = 1..(n + m)
      /\ \A i \in 1..n : c[i] = s[i]
      /\ \A i \in 1..m : c[n + i] = p[i]
  BY ConcatSeq
<1> HIDE DEF n, m, c
<1>2. \A i \in DOMAIN s : i \in DOMAIN c /\ c[i] = s[i] /\ i \in Nat /\ i <= n  BY <1>1
<1>3. \A i \in DOMAIN p : n + i \in DOMAIN c /\ c[n + i] = p[i] /\ i \in Nat \ {0}  BY <1>1
<1>4. ASSUME NEW i \in DOMAIN c
      PROVE i \in DOMAIN s \/ (i - n \in DOMAIN p /\ c[i] = p[i - n] /\ i \in Nat /\ i > n)
  <2>1. i \in 1..(n + m)  BY <1>1
  <2>2. CASE i <= n  BY <1>1, <2>1, <2>2
  <2>3. CASE i > n
    <3>1. i - n \in 1..m /\ n + (i - n) = i  BY <1>1, <2>1, <2>3
    <3>2. c[i] = p[i - n]  BY <1>1, <3>1
    <3> QED BY <1>1, <2>1, <2>3, <3>1, <3>2
  <2> QED BY <1>1, <2>1, <2>2, <2>3
<1> QED BY <1>1, <1>2, <1>3, <1>4 DEF n, c

\* The sorts of two parts of the mailbox, one behind the other.
LEMMA SortBoth == ASSUME NEW s, NEW p, IsSeq(s), IsSeq(p)
  PROVE /\ \A k : Without(s \o p, k) <=> Without(s, k) /\ Without(p, k)
        /\ \A k, l : Behind(s \o p, k, l)
                       <=> Behind(s, k, l) /\ Behind(p, k, l) /\ (Without(s, k) \/ Without(p, l))
<1> DEFINE n == Len(s)  c == s \o p
<1>1. /\ n \in Nat
      /\ \A i \in DOMAIN s : i \in DOMAIN c /\ c[i] = s[i] /\ i \in Nat /\ i <= n
      /\ \A i \in DOMAIN p : n + i \in DOMAIN c /\ c[n + i] = p[i] /\ i \in Nat \ {0}
      /\ \A i \in DOMAIN c : i \in DOMAIN s \/ (i - n \in DOMAIN p /\ c[i] = p[i - n] /\ i \in Nat /\ i > n)
  BY Places
<1> HIDE DEF n, c
<1>2. ASSUME NEW k PROVE Without(c, k) <=> Without(s, k) /\ Without(p, k)
  <2>1. Without(c, k) => Without(s, k) /\ Without(p, k)  BY <1>1 DEF Without
  <2>2. Without(s, k) /\ Without(p, k) => Without(c, k)  BY <1>1 DEF Without
  <2> QED BY <2>1, <2>2
<1>3. ASSUME NEW k, NEW l, Behind(c, k, l)
      PROVE Behind(s, k, l) /\ Behind(p, k, l) /\ (Without(s, k) \/ Without(p, l))
  <2>1. Behind(s, k, l)  BY <1>1, <1>3 DEF Behind
  <2>2. ASSUME NEW i \in DOMAIN p, NEW j \in DOMAIN p, i < j, Sort(p[i], k) PROVE ~Sort(p[j], l)
    <3>1. n + i \in DOMAIN c /\ n + j \in DOMAIN c /\ n + i < n + j  BY <1>1, <2>2
    <3> QED BY <1>1, <1>3, <2>2, <3>1 DEF Behind
  <2>3. ASSUME NEW i \in DOMAIN s, Sort(s[i], k), NEW j \in DOMAIN p PROVE ~Sort(p[j], l)
    <3>1. i \in DOMAIN c /\ n + j \in DOMAIN c /\ i < n + j  BY <1>1, <2>3
    <3> QED BY <1>1, <1>3, <2>3, <3>1 DEF Behind
  <2> QED BY <2>1, <2>2, <2>3 DEF Behind, Without
<1>4. ASSUME NEW k, NEW l, Behind(s, k, l), Behind(p, k, l), Without(s, k) \/ Without(p, l)
      PROVE Behind(c, k, l)
  <2> SUFFICES ASSUME NEW i \in DOMAIN c, NEW j \in DOMAIN c, i < j, Sort(c[i], k), Sort(c[j], l)
               PROVE FALSE
    BY DEF Behind
  <2>1. CASE i \in DOMAIN s /\ j \in DOMAIN s  BY <1>1, <1>4, <2>1 DEF Behind
  <2>2. CASE i \in DOMAIN s /\ j \notin DOMAIN s  BY <1>1, <1>4, <2>2 DEF Without
  <2>3. CASE i \notin DOMAIN s /\ j \notin DOMAIN s
    <3>1. i - n \in DOMAIN p /\ j - n \in DOMAIN p /\ i - n < j - n  BY <1>1, <2>3
    <3>2. c[i] = p[i - n] /\ c[j] = p[j - n]  BY <1>1, <2>3
    <3> QED BY <1>4, <3>1, <3>2 DEF Behind
  <2>4. CASE i \notin DOMAIN s /\ j \in DOMAIN s  BY <1>1, <2>4
  <2> QED BY <2>1, <2>2, <2>3, <2>4
<1> QED BY <1>2, <1>3, <1>4 DEF c

\* Nothing, and one job.
LEMMA SortOne ==
  /\ (\A k : Without(<<>>, k)) /\ \A k, l : Behind(<<>>, k, l)
  /\ \A a, k : Without(<<a>>, k) <=> ~Sort(a, k)
  /\ \A a, k, l : Behind(<<a>>, k, l)
<1>1. ASSUME NEW a PROVE /\ \A k : Without(<<a>>, k) <=> ~Sort(a, k)
                         /\ \A k, l : Behind(<<a>>, k, l)
  <2> DEFINE s == <<a>>
  <2>1. 1 \in DOMAIN s /\ s[1] = a /\ \A i \in DOMAIN s : i = 1  OBVIOUS
  <2> HIDE DEF s
  <2>2. \A k : Without(s, k) <=> ~Sort(a, k)  BY <2>1 DEF Without
  <2>3. \A i, j \in DOMAIN s : ~(i < j)  BY <2>1
  <2> QED BY <2>2, <2>3 DEF Behind, s
<1>2. (\A k : Without(<<>>, k)) /\ \A k, l : Behind(<<>>, k, l)  BY DEF Without, Behind
<1> QED BY <1>1, <1>2

\* The head and the rest.
LEMMA SortTail == ASSUME NEW s, IsSeq(s), s # <<>>
  PROVE /\ \A k : Without(s, k) <=> ~Sort(Head(s), k) /\ Without(Tail(s), k)
        /\ \A k, l : Behind(s, k, l)
                       <=> Behind(Tail(s), k, l) /\ (Sort(Head(s), k) => Without(Tail(s), l))
<1> DEFINE h == <<Head(s)>>  t == Tail(s)
<1>1. s = h \o t
  <2>1. PICK S : s \in Seq(S)  BY DEF IsSeq
  <2> QED BY <2>1
<1>2. IsSeq(h) /\ IsSeq(t)  BY KindOne, KindTail
<1>3. /\ \A k : Without(h, k) <=> ~Sort(Head(s), k)
      /\ \A k, l : Behind(h, k, l)
  BY SortOne
<1> HIDE DEF h, t
<1>4. /\ \A k : Without(h \o t, k) <=> Without(h, k) /\ Without(t, k)
      /\ \A k, l : Behind(h \o t, k, l)
                     <=> Behind(h, k, l) /\ Behind(t, k, l) /\ (Without(h, k) \/ Without(t, l))
  BY <1>2, SortBoth
<1>5. \A k : Without(s, k) <=> ~Sort(Head(s), k) /\ Without(t, k)  BY <1>1, <1>3, <1>4
<1>6. ASSUME NEW k, NEW l
      PROVE Behind(s, k, l) <=> Behind(t, k, l) /\ (Sort(Head(s), k) => Without(t, l))
  <2>1. Behind(h, k, l) /\ (Without(h, k) <=> ~Sort(Head(s), k))  BY <1>3
  <2>2. Behind(h \o t, k, l) <=> Behind(h, k, l) /\ Behind(t, k, l) /\ (Without(h, k) \/ Without(t, l))
    BY <1>4
  <2> QED BY <1>1, <2>1, <2>2
<1> QED BY <1>5, <1>6 DEF t

\* What is absent is behind nothing, and the sorts within a sort and a kind.
LEMMA SortsWithin == ASSUME NEW s
  PROVE /\ \A k, l : Without(s, k) \/ Without(s, l) => Behind(s, k, l)
        /\ Without(s, "cfg") <=> No(s, "cfg")
        /\ Without(s, "start") <=> No(s, "start")
        /\ No(s, "al") => Without(s, "good")
        /\ Without(s, "ode") => Without(s, "req")
BY DEF Without, Behind, No, Sort, Kind

\* The sorts of the jobs, by their constructors.
LEMMA SortNames ==
  /\ \A type, k, arg :
       type \notin {"AL_REQ", "AL_CNF", "PORT_MODE", "SMI_PORTCFG", "SM_CONFIG", "MODE", "OD_START", "OD_STOP"}
         => ~Sort(JobArg(type, arg), k) /\ ~Sort(Job(type), k)
  /\ \A type \in {"SMI_PORTCFG", "SM_CONFIG"} : \A k, arg : Sort(JobArg(type, arg), k) <=> k = "cfg"
  /\ \A k : Sort(Job("OD_START"), k) <=> k = "begin"
  /\ \A k : Sort(Job("OD_STOP"), k) <=> k = "stop"
  /\ \A k, mode : Sort(ModeInd(mode), k) <=> k = "start" /\ mode = "STARTUP"
  /\ \A k, mode : Sort(PortMode(mode), k) <=> k = "ready" /\ mode = "COMREADY"
  /\ \A k, who, op : Sort(AlReq(who, op), k) <=> who = "ODE" /\ k \in {"req", "ode"}
  /\ \A k, who, rw, err, len : Sort(AlCnf(who, rw, err, len), k) <=>
       \/ who = "ODE" /\ k = "ode"
       \/ who = "SM" /\ k = "good" /\ rw = "read" /\ err \in {"NONE", "NOTAVAIL"}
BY DEF Sort, JobArg, Job, ModeInd, PortMode, AlReq, AlCnf

-----------------------------------------------------------------------------
\* The jobs that matter to CM while a device runs, by their marks: CM's word to SM to
\* operate; SM's word of a device that is ready, operates or is gone; what the data link says
\* of the last two; a configuration, on its way to CM and to SM.  Every job that SM or CM
\* handles is a "job".
Mark(j, k) ==
  \/ k = "job"     /\ \/ j.type \in {"SMI_PORTCFG", "SM_CONFIG", "SM_OPERATE", "PORT_MODE", "MODE",
                                     "DL_CNF", "DEVMODE_CNF", "DS_READY", "DS_FAULT"}
                      \/ j.type = "AL_CNF" /\ j.who = "SM"
  \/ k = "go"      /\ j.type = "SM_OPERATE"
  \/ k = "ready"   /\ j.type = "PORT_MODE" /\ j.arg = "COMREADY"
  \/ k = "operate" /\ j.type = "PORT_MODE" /\ j.arg = "OPERATE"
  \/ k = "gone"    /\ j.type = "PORT_MODE" /\ j.arg = "COMLOST"
  \/ k = "lost"    /\ j.type = "MODE" /\ j.arg = "COMLOST"
  \/ k = "oper"    /\ j.type = "MODE" /\ j.arg = "OPERATE"
  \/ k = "port"    /\ j.type = "SMI_PORTCFG"
  \/ k = "smcfg"   /\ j.type = "SM_CONFIG"

\* No job of that mark is in the mailbox; none of mark l comes after one of mark k.
Off(s, k)      == \A i \in DOMAIN s : ~Mark(s[i], k)
After(s, k, l) == \A i, j \in DOMAIN s : i < j /\ Mark(s[i], k) => ~Mark(s[j], l)
Unmarked(p)    == IsSeq(p) /\ \A k : k # "job" => Off(p, k)

\* The marks of two parts of the mailbox, one behind the other.
LEMMA MarkBoth == ASSUME NEW s, NEW p, IsSeq(s), IsSeq(p)
  PROVE /\ \A k : Off(s \o p, k) <=> Off(s, k) /\ Off(p, k)
        /\ \A k, l : After(s \o p, k, l)
                       <=> After(s, k, l) /\ After(p, k, l) /\ (Off(s, k) \/ Off(p, l))
<1> DEFINE n == Len(s)  c == s \o p
<1>1. /\ n \in Nat
      /\ \A i \in DOMAIN s : i \in DOMAIN c /\ c[i] = s[i] /\ i \in Nat /\ i <= n
      /\ \A i \in DOMAIN p : n + i \in DOMAIN c /\ c[n + i] = p[i] /\ i \in Nat \ {0}
      /\ \A i \in DOMAIN c : i \in DOMAIN s \/ (i - n \in DOMAIN p /\ c[i] = p[i - n] /\ i \in Nat /\ i > n)
  BY Places
<1> HIDE DEF n, c
<1>2. ASSUME NEW k PROVE Off(c, k) <=> Off(s, k) /\ Off(p, k)
  <2>1. Off(c, k) => Off(s, k) /\ Off(p, k)  BY <1>1 DEF Off
  <2>2. Off(s, k) /\ Off(p, k) => Off(c, k)  BY <1>1 DEF Off
  <2> QED BY <2>1, <2>2
<1>3. ASSUME NEW k, NEW l, After(c, k, l)
      PROVE After(s, k, l) /\ After(p, k, l) /\ (Off(s, k) \/ Off(p, l))
  <2>1. After(s, k, l)  BY <1>1, <1>3 DEF After
  <2>2. ASSUME NEW i \in DOMAIN p, NEW j \in DOMAIN p, i < j, Mark(p[i], k) PROVE ~Mark(p[j], l)
    <3>1. n + i \in DOMAIN c /\ n + j \in DOMAIN c /\ n + i < n + j  BY <1>1, <2>2
    <3> QED BY <1>1, <1>3, <2>2, <3>1 DEF After
  <2>3. ASSUME NEW i \in DOMAIN s, Mark(s[i], k), NEW j \in DOMAIN p PROVE ~Mark(p[j], l)
    <3>1. i \in DOMAIN c /\ n + j \in DOMAIN c /\ i < n + j  BY <1>1, <2>3
    <3> QED BY <1>1, <1>3, <2>3, <3>1 DEF After
  <2> QED BY <2>1, <2>2, <2>3 DEF After, Off
<1>4. ASSUME NEW k, NEW l, After(s, k, l), After(p, k, l), Off(s, k) \/ Off(p, l)
      PROVE After(c, k, l)
  <2> SUFFICES ASSUME NEW i \in DOMAIN c, NEW j \in DOMAIN c, i < j, Mark(c[i], k), Mark(c[j], l)
               PROVE FALSE
    BY DEF After
  <2>1. CASE i \in DOMAIN s /\ j \in DOMAIN s  BY <1>1, <1>4, <2>1 DEF After
  <2>2. CASE i \in DOMAIN s /\ j \notin DOMAIN s  BY <1>1, <1>4, <2>2 DEF Off
  <2>3. CASE i \notin DOMAIN s /\ j \notin DOMAIN s
    <3>1. i - n \in DOMAIN p /\ j - n \in DOMAIN p /\ i - n < j - n  BY <1>1, <2>3
    <3>2. c[i] = p[i - n] /\ c[j] = p[j - n]  BY <1>1, <2>3
    <3> QED BY <1>4, <3>1, <3>2 DEF After
  <2>4. CASE i \notin DOMAIN s /\ j \in DOMAIN s  BY <1>1, <2>4
  <2> QED BY <2>1, <2>2, <2>3, <2>4
<1> QED BY <1>2, <1>3, <1>4 DEF c

\* Nothing, and one job.
LEMMA MarkOne ==
  /\ (\A k : Off(<<>>, k)) /\ \A k, l : After(<<>>, k, l)
  /\ \A a, k : Off(<<a>>, k) <=> ~Mark(a, k)
  /\ \A a, k, l : After(<<a>>, k, l)
<1>1. ASSUME NEW a PROVE /\ \A k : Off(<<a>>, k) <=> ~Mark(a, k)
                         /\ \A k, l : After(<<a>>, k, l)
  <2> DEFINE s == <<a>>
  <2>1. 1 \in DOMAIN s /\ s[1] = a /\ \A i \in DOMAIN s : i = 1  OBVIOUS
  <2> HIDE DEF s
  <2>2. \A k : Off(s, k) <=> ~Mark(a, k)  BY <2>1 DEF Off
  <2>3. \A i, j \in DOMAIN s : ~(i < j)  BY <2>1
  <2> QED BY <2>2, <2>3 DEF After, s
<1>2. (\A k : Off(<<>>, k)) /\ \A k, l : After(<<>>, k, l)  BY DEF Off, After
<1> QED BY <1>1, <1>2

\* The head and the rest.
LEMMA MarkTail == ASSUME NEW s, IsSeq(s), s # <<>>
  PROVE /\ \A k : Off(s, k) <=> ~Mark(Head(s), k) /\ Off(Tail(s), k)
        /\ \A k, l : After(s, k, l)
                       <=> After(Tail(s), k, l) /\ (Mark(Head(s), k) => Off(Tail(s), l))
<1> DEFINE h == <<Head(s)>>  t == Tail(s)
<1>1. s = h \o t
  <2>1. PICK S : s \in Seq(S)  BY DEF IsSeq
  <2> QED BY <2>1
<1>2. IsSeq(h) /\ IsSeq(t)  BY KindOne, KindTail
<1>3. /\ \A k : Off(h, k) <=> ~Mark(Head(s), k)
      /\ \A k, l : After(h, k, l)
  BY MarkOne
<1> HIDE DEF h, t
<1>4. /\ \A k : Off(h \o t, k) <=> Off(h, k) /\ Off(t, k)
      /\ \A k, l : After(h \o t, k, l)
                     <=> After(h, k, l) /\ After(t, k, l) /\ (Off(h, k) \/ Off(t, l))
  BY <1>2, MarkBoth
<1>5. \A k : Off(s, k) <=> ~Mark(Head(s), k) /\ Off(t, k)  BY <1>1, <1>3, <1>4
<1>6. ASSUME NEW k, NEW l
      PROVE After(s, k, l) <=> After(t, k, l) /\ (Mark(Head(s), k) => Off(t, l))
  <2>1. After(h, k, l) /\ (Off(h, k) <=> ~Mark(Head(s), k))  BY <1>3
  <2>2. After(h \o t, k, l) <=> After(h, k, l) /\ After(t, k, l) /\ (Off(h, k) \/ Off(t, l))
    BY <1>4
  <2> QED BY <1>1, <2>1, <2>2
<1> QED BY <1>5, <1>6 DEF t

\* The marks of the jobs, by their constructors.
LEMMA MarkNames ==
  /\ \A type, k, arg :
       type \notin {"SM_OPERATE", "PORT_MODE", "MODE", "SMI_PORTCFG", "SM_CONFIG"} /\ k # "job"
         => ~Mark(JobArg(type, arg), k) /\ ~Mark(Job(type), k)
  /\ \A k : k # "job" => (Mark(Job("SM_OPERATE"), k) <=> k = "go")
  /\ \A k, arg : k # "job" => (Mark(JobArg("SMI_PORTCFG", arg), k) <=> k = "port")
  /\ \A k, arg : k # "job" => (Mark(JobArg("SM_CONFIG", arg), k) <=> k = "smcfg")
  /\ \A k, mode : k # "job" => (Mark(ModeInd(mode), k) <=> \/ k = "lost" /\ mode = "COMLOST"
                                                           \/ k = "oper" /\ mode = "OPERATE")
  /\ \A k, mode : k # "job" => (Mark(PortMode(mode), k) <=> \/ k = "ready" /\ mode = "COMREADY"
                                                            \/ k = "operate" /\ mode = "OPERATE"
                                                            \/ k = "gone" /\ mode = "COMLOST")
  /\ \A k, who, op : k # "job" => ~Mark(AlReq(who, op), k)
  /\ \A k, who, rw, err, len : k # "job" => ~Mark(AlCnf(who, rw, err, len), k)
BY DEF Mark, JobArg, Job, ModeInd, PortMode, AlReq, AlCnf

\* What has none of these marks.
LEMMA MarkFree ==
  /\ Unmarked(<<>>)
  /\ \A j : (\A k : k # "job" => ~Mark(j, k)) => Unmarked(<<j>>)
  /\ \A p, r : Unmarked(p) /\ Unmarked(r) => Unmarked(p \o r)
<1>1. Unmarked(<<>>)  BY KindNone, MarkOne DEF Unmarked
<1>2. ASSUME NEW j, \A k : k # "job" => ~Mark(j, k) PROVE Unmarked(<<j>>)
  BY <1>2, KindOne, MarkOne DEF Unmarked
<1>3. ASSUME NEW p, NEW r, Unmarked(p), Unmarked(r) PROVE Unmarked(p \o r)
  BY <1>3, KindBoth, MarkBoth DEF Unmarked
<1> QED BY <1>1, <1>2, <1>3

\* Jobs of no sort, nor of a kind of the start-up; and of no mark either.
Indifferent(p) == Aside(p) /\ \A k : Without(p, k)
Neutral(p)     == Indifferent(p) /\ Unmarked(p)

\* What is neutral.
LEMMA NeutralNames ==
  /\ Neutral(<<>>)
  /\ \A type :
       type \notin {"AL_REQ", "AL_CNF", "PORT_MODE", "SMI_PORTCFG", "SM_CONFIG", "MODE", "OD_START", "OD_STOP",
                    "DL_CNF", "DEVMODE_CNF", "SM_OPERATE"}
         => Neutral(<<Job(type)>>) /\ \A arg : Neutral(<<JobArg(type, arg)>>)
  /\ \A op : Neutral(<<AlReq("DS", op)>>)
  /\ \A rw, err, len : Neutral(<<AlCnf("DS", rw, err, len)>>)
  /\ \A p, r : Neutral(p) /\ Neutral(r) => Neutral(p \o r)
  /\ Indifferent(<<Job("SM_OPERATE")>>)
<1>1. Neutral(<<>>)  BY SortOne, SmTells, MarkFree DEF Neutral, Indifferent
<1>2. ASSUME NEW j, \A k : ~Kind(j, k) /\ ~Sort(j, k), \A k : k # "job" => ~Mark(j, k)
      PROVE Neutral(<<j>>)
  BY <1>2, KindOne, SortOne, MarkFree DEF Neutral, Indifferent, Aside
<1>3. ASSUME NEW type,
             type \notin {"AL_REQ", "AL_CNF", "PORT_MODE", "SMI_PORTCFG", "SM_CONFIG", "MODE",
                          "OD_START", "OD_STOP", "DL_CNF", "DEVMODE_CNF", "SM_OPERATE"}
      PROVE Neutral(<<Job(type)>>) /\ \A arg : Neutral(<<JobArg(type, arg)>>)
  BY <1>2, <1>3, KindNames, SortNames, MarkNames
<1>4. \A op : Neutral(<<AlReq("DS", op)>>)  BY <1>2, KindNames, SortNames, MarkNames
<1>5. \A rw, err, len : Neutral(<<AlCnf("DS", rw, err, len)>>)  BY <1>2, KindNames, SortNames, MarkNames
<1>6. ASSUME NEW p, NEW r, Neutral(p), Neutral(r) PROVE Neutral(p \o r)
  BY <1>6, AsideBoth, SortBoth, MarkFree DEF Neutral, Indifferent, Aside
<1>7. Indifferent(<<Job("SM_OPERATE")>>)
  BY KindNames, SortNames, KindOne, SortOne DEF Indifferent, Aside
<1> QED BY <1>1, <1>3, <1>4, <1>5, <1>6, <1>7

-----------------------------------------------------------------------------
\* What DS, the on-request exchange and CM post is none of it, but for a configuration that
\* CM passes on.
AsideHandled   == \E p : Aside(p) /\ Handled(p)
NeutralHandled == \E p : Neutral(p) /\ Handled(p)

\* The steps of DS: none of its jobs matters.
LEMMA DsNeutral ==
  /\ \A d, p : DsStep(d, p) /\ Neutral(p) => NeutralHandled
  /\ \A d, state, what, arg : DsRead(d, state, what, arg) => NeutralHandled
  /\ \A d, state, cmd : DsCommand(d, state, cmd) => NeutralHandled
  /\ \A d : DsReady(d) => NeutralHandled
  /\ \A d, fault : DsFault(d, fault) => NeutralHandled
  /\ \A d, fault : DsBreak(d, fault) => NeutralHandled
  /\ \A op : Neutral(<<AlReq("DS", op)>>)
<1>1. \A op : Neutral(<<AlReq("DS", op)>>)  BY NeutralNames
<1>2. \A type \in {"DS_READY", "DS_FAULT"} :
        Neutral(<<Job(type)>>) /\ \A arg : Neutral(<<JobArg(type, arg)>>)
  BY NeutralNames
<1>3. ASSUME NEW d, NEW p, DsStep(d, p), Neutral(p) PROVE NeutralHandled
  BY <1>3 DEF DsStep, NeutralHandled
<1>4. ASSUME NEW d, NEW state, NEW what, NEW arg, DsRead(d, state, what, arg) PROVE NeutralHandled
  BY <1>1, <1>3, <1>4 DEF DsRead
<1>5. ASSUME NEW d, NEW state, NEW cmd, DsCommand(d, state, cmd) PROVE NeutralHandled
  BY <1>1, <1>3, <1>5 DEF DsCommand
<1>6. ASSUME NEW d, DsReady(d) PROVE NeutralHandled  BY <1>2, <1>3, <1>6 DEF DsReady
<1>7. ASSUME NEW d, NEW fault, DsFault(d, fault) PROVE NeutralHandled
  <2>1. Neutral(<<JobArg("DS_FAULT", fault)>>)  BY <1>2
  <2> QED BY <1>3, <1>7, <2>1 DEF DsFault
<1>8. ASSUME NEW d, NEW fault, DsBreak(d, fault) PROVE NeutralHandled  BY <1>5, <1>8 DEF DsBreak
<1> QED BY <1>1, <1>3, <1>4, <1>5, <1>6, <1>7, <1>8

\* DS's check of the device.
LEMMA DsChainNeutral ==
  /\ \A d : CheckIdentity(d) => NeutralHandled
  /\ \A d, flag, locked : CheckUpload(d, flag, locked) => NeutralHandled
  /\ \A d : CheckValidity(d) => NeutralHandled
  /\ \A d : StartUpload(d) => NeutralHandled
  /\ \A d : NextUpload(d) => NeutralHandled
  /\ \A d : NextDownload(d) => NeutralHandled
  /\ \A d : DsComErr(d) => NeutralHandled
<1>1. ASSUME NEW d, CheckIdentity(d) PROVE NeutralHandled  BY <1>1, DsNeutral DEF CheckIdentity
<1>2. ASSUME NEW d, NEW flag, NEW locked, CheckUpload(d, flag, locked) PROVE NeutralHandled
  BY <1>2, DsNeutral DEF CheckUpload
<1>3. ASSUME NEW d, CheckValidity(d) PROVE NeutralHandled  BY <1>3, DsNeutral DEF CheckValidity
<1>4. ASSUME NEW d, StartUpload(d) PROVE NeutralHandled  BY <1>4, DsNeutral DEF StartUpload
<1>5. ASSUME NEW d, NextUpload(d) PROVE NeutralHandled  BY <1>5, DsNeutral DEF NextUpload
<1>6. ASSUME NEW d, NextDownload(d) PROVE NeutralHandled  BY <1>6, DsNeutral DEF NextDownload
<1>7. ASSUME NEW d, DsComErr(d) PROVE NeutralHandled  BY <1>7, DsNeutral, NeutralNames DEF DsComErr
<1> QED BY <1>1, <1>2, <1>3, <1>4, <1>5, <1>6, <1>7

\* Every handler of DS,
LEMMA DsHandlerNeutral == ASSUME DS_Handler PROVE NeutralHandled
<1>1. ASSUME NEW c, ReadCnf(c) PROVE NeutralHandled
  <2>1. ASSUME StoreChecksum(c) PROVE NeutralHandled
    <3>1. ASSUME NEW a, NEW b PROVE Neutral(<<AlReq("DS", a), AlReq("DS", b)>>)
      <4>1. <<AlReq("DS", a), AlReq("DS", b)>> = <<AlReq("DS", a)>> \o <<AlReq("DS", b)>>
        OBVIOUS
      <4>2. Neutral(<<AlReq("DS", a)>>) /\ Neutral(<<AlReq("DS", b)>>)  BY DsNeutral
      <4>3. Neutral(<<AlReq("DS", a)>> \o <<AlReq("DS", b)>>)  BY <4>2, NeutralNames
      <4> QED BY <4>1, <4>3
    <3> QED BY <2>1, <3>1, DsNeutral DEF StoreChecksum
  <2>2. ASSUME FinalChecksum(c) PROVE NeutralHandled  BY <2>2, DsNeutral DEF FinalChecksum
  <2>3. ASSUME NEW d, DsListed(d) PROVE NeutralHandled  BY <2>3, DsChainNeutral DEF DsListed
  <2>4. ASSUME NEW d, DsValue(d) PROVE NeutralHandled  BY <2>4, DsChainNeutral DEF DsValue
  <2> QED BY <1>1, <2>1, <2>2, <2>3, <2>4, DsNeutral, DsChainNeutral, NeutralNames DEF ReadCnf
<1>2. ASSUME NEW c, WriteCnf(c) PROVE NeutralHandled
  BY <1>2, DsNeutral, DsChainNeutral, NeutralNames DEF WriteCnf
<1>3. CASE DS_ALCnf  BY <1>1, <1>2, <1>3 DEF DS_ALCnf
<1>4. CASE DS_Startup
  <2>1. Neutral(<<Job("DS_READY")>>)  BY NeutralNames
  <2> QED BY <1>4, <2>1, DsNeutral, DsChainNeutral, NeutralNames DEF DS_Startup
<1>5. CASE DS_Upload  BY <1>5, DsNeutral, DsChainNeutral, NeutralNames DEF DS_Upload
<1>6. CASE DS_Delete  BY <1>6, DsNeutral, NeutralNames DEF DS_Delete
<1>7. CASE DS_Init  BY <1>7, DsNeutral, NeutralNames DEF DS_Init
<1> QED BY <1>3, <1>4, <1>5, <1>6, <1>7 DEF DS_Handler

\* which post nothing of the start-up,
LEMMA DsHandlerAside == ASSUME DS_Handler PROVE AsideHandled
BY DsHandlerNeutral DEF NeutralHandled, AsideHandled, Neutral, Indifferent

\* and every handler of ODE.
LEMMA OdeAside == ASSUME ODE_Handler PROVE AsideHandled
<1>1. \A op : Aside(<<AlReq("ODE", op)>>)  BY KindNames, KindOne DEF Aside
<1>2. CASE ODE_Request  BY <1>1, <1>2, SmTells DEF ODE_Request, AsideHandled
<1>3. CASE ODE_ALCnf \/ ODE_Start \/ ODE_Stop
  BY <1>3, SmTells DEF ODE_ALCnf, ODE_Start, ODE_Stop, AsideHandled
<1> QED BY <1>2, <1>3 DEF ODE_Handler

\* What CM posts: one configuration for one.
Relays(p) == /\ IsSeq(p) /\ Apart(p, "cfg", "cfg") /\ \A k : k # "cfg" => No(p, k)
             /\ No(p, "cfg") \/ Kind(Head(jobs), "cfg")

\* CM passes a configuration on, and no job of any other kind.
LEMMA CmRelays == ASSUME CM_Handler
  PROVE /\ \E p : Relays(p) /\ Handled(p)
        /\ jobs # <<>>
        /\ Head(jobs).type \in {"SMI_PORTCFG", "PORT_MODE", "DS_READY", "DS_FAULT"}
<1>1. /\ jobs # <<>>
      /\ Head(jobs).type \in {"SMI_PORTCFG", "PORT_MODE", "DS_READY", "DS_FAULT"}
  BY DEF CM_Handler, CM_Configure, CM_PortMode, CM_DsReady, CM_DsFault, Due
<1>2. \A p : Aside(p) => Relays(p)  BY NoApart DEF Aside, Relays
<1>3. \A type \in {"OD_STOP", "OD_START", "DS_DELETE", "DS_INIT", "DS_STARTUP", "SM_OPERATE"} :
        Aside(<<Job(type)>>) /\ \A arg : Aside(<<JobArg(type, arg)>>)
  BY KindNames, KindOne DEF Aside
<1>4. Aside(<<>>)  BY SmTells
<1>5. ASSUME NEW p, NEW r, Aside(p), Aside(r) PROVE Aside(p \o r)  BY <1>5, AsideBoth
<1>6. CASE CM_Configure
  <2>1. Kind(Head(jobs), "cfg")  BY <1>6 DEF CM_Configure, Due, Kind
  <2>2. ASSUME NEW p, NEW params, Aside(p) PROVE Relays(p \o <<SmConfig(params)>>)
    <3> DEFINE j == SmConfig(params)
               r == <<j>>
    <3>1. \A k : Kind(j, k) <=> k = "cfg"  BY KindNames DEF SmConfig
    <3> HIDE DEF j
    <3>2. IsSeq(r) /\ (\A k, l : Apart(r, k, l)) /\ \A k : No(r, k) <=> k # "cfg"
      BY <3>1, KindOne
    <3> HIDE DEF r
    <3>3. Apart(p, "cfg", "cfg")  BY <2>2, NoApart DEF Aside
    <3>4. Relays(p \o r)  BY <2>1, <2>2, <3>2, <3>3, KindBoth DEF Aside, Relays
    <3> QED BY <3>4 DEF r, j
  <2>3. ASSUME NEW cfg, CM_Startup(cfg) PROVE \E p : Relays(p) /\ Handled(p)
    <3> DEFINE a == IF cfg.mode = "AUTO" \/ ~DS_ChkCfg(cfg) THEN <<Job("DS_DELETE")>> ELSE <<>>
               b == <<JobArg("DS_INIT", cfg)>>
               e == <<SmConfig(ParamList(cfg))>>
               o == <<Job("OD_STOP")>>
    <3>1. Aside(o) /\ Aside(a) /\ Aside(b)  BY <1>3, <1>4
    <3>2. Handled(o \o a \o (b \o e))
      <4>1. <<JobArg("DS_INIT", cfg), SmConfig(ParamList(cfg))>> = b \o e  OBVIOUS
      <4> QED BY <2>3, <4>1 DEF CM_Startup, CM_Calls
    <3>3. IsSeq(e)  BY KindOne
    <3> HIDE DEF a, b, e, o
    <3>4. Aside(o \o a) /\ IsSeq(o \o a) /\ IsSeq(b)  BY <1>5, <3>1 DEF Aside
    <3>5. (o \o a) \o (b \o e) = ((o \o a) \o b) \o e  BY <3>3, <3>4, ConcatAssoc
    <3>6. Aside((o \o a) \o b)  BY <1>5, <3>1, <3>4
    <3>7. Relays(((o \o a) \o b) \o e)  BY <2>2, <3>6 DEF e
    <3> QED BY <3>2, <3>5, <3>7
  <2>4. ASSUME NEW cfg, CM_DIDO(cfg) PROVE \E p : Relays(p) /\ Handled(p)
    <3> DEFINE o == <<Job("OD_STOP")>>  a == <<Job("DS_DELETE")>>  b == <<JobArg("DS_INIT", cfg)>>
               e == <<SmConfig(ParamList(cfg))>>
    <3>1. <<Job("OD_STOP"), Job("DS_DELETE"), JobArg("DS_INIT", cfg), SmConfig(ParamList(cfg))>>
          = ((o \o a) \o b) \o e
      OBVIOUS
    <3>2. Handled(((o \o a) \o b) \o e)  BY <2>4, <3>1 DEF CM_DIDO, CM_Calls
    <3>3. Aside(o) /\ Aside(a) /\ Aside(b)  BY <1>3
    <3> HIDE DEF o, a, b
    <3>4. Aside((o \o a) \o b)  BY <1>5, <3>3
    <3> QED BY <2>2, <3>2, <3>4
  <2>5. ASSUME NEW cfg, NEW refused, CM_Deactivate(cfg, refused)
        PROVE \E p : Relays(p) /\ Handled(p)
    <3> DEFINE o == <<Job("OD_STOP")>>
               a == IF refused THEN <<Job("DS_DELETE")>> ELSE <<>>
    <3>1. \E params : Handled((o \o a) \o <<SmConfig(params)>>)
      BY <2>5 DEF CM_Deactivate, CM_Calls
    <3>2. Aside(o) /\ Aside(a)  BY <1>3, <1>4
    <3> HIDE DEF o, a
    <3>3. Aside(o \o a)  BY <1>5, <3>2
    <3> QED BY <2>2, <3>1, <3>3
  <2>6. CM_Ignores => \E p : Relays(p) /\ Handled(p)  BY <1>2, <1>4 DEF CM_Ignores
  <2>7. \E cfg : CM_Ignores \/ CM_Startup(cfg) \/ CM_DIDO(cfg) \/ CM_Deactivate(cfg, FALSE)
                 \/ CM_Deactivate(cfg, TRUE)
    BY <1>6 DEF CM_Configure
  <2> QED BY <1>1, <2>3, <2>4, <2>5, <2>6, <2>7
<1>7. CASE CM_PortMode
  <2>1. PICK p \in {<<Job("DS_STARTUP")>>, <<Job("OD_START")>>, <<>>} : Handled(p)
    BY <1>7 DEF CM_PortMode, CM_ComReady, CM_Operate, CM_PortFault, CM_Comlost, CM_Moves,
                CM_Calls, CM_Ignores
  <2>2. Aside(<<Job("DS_STARTUP")>>) /\ Aside(<<Job("OD_START")>>)  BY <1>3
  <2>3. Aside(p)  BY <1>4, <2>1, <2>2
  <2> QED BY <1>1, <1>2, <2>1, <2>3
<1>8. CASE CM_DsReady \/ CM_DsFault
  <2>1. PICK p \in {<<Job("SM_OPERATE")>>, <<>>} : Handled(p)
    BY <1>8 DEF CM_DsReady, CM_DsFault, CM_PortFault, CM_Moves, CM_Calls, CM_Ignores
  <2>2. Aside(<<Job("SM_OPERATE")>>)  BY <1>3
  <2>3. Aside(p)  BY <1>4, <2>1, <2>2
  <2> QED BY <1>1, <1>2, <2>1, <2>3
<1> QED BY <1>1, <1>6, <1>7, <1>8 DEF CM_Handler

\* A configuration takes the place of one.
LEMMA HandRelay ==
  ASSUME NEW s, NEW d, NEW q, NEW a, NEW p, IsSeq(s), s # <<>>, HandAt(s, d, q, a),
         \A k : Wants(q, k) => ~Kind(Head(s), k),
         IsSeq(p), Apart(p, "cfg", "cfg"), \A k : k # "cfg" => No(p, k), Kind(Head(s), "cfg")
  PROVE HandAt(Tail(s) \o p, d, q, a)
<1> DEFINE t == Tail(s)
           h == Head(s)
           c == t \o p
<1>1. /\ IsSeq(t)
      /\ \A k : No(s, k) <=> ~Kind(h, k) /\ No(t, k)
      /\ \A k, l : Apart(s, k, l) <=> Apart(t, k, l) /\ (Kind(h, k) => No(t, l))
  BY KindTail
<1>2. HandAt(t, d, q, a)  BY HandDrop
<1> HIDE DEF t, h
<1>3. /\ \A k : k # "cfg" => (No(c, k) <=> No(t, k))
      /\ \A k, l : k # "cfg" /\ l # "cfg" => (Apart(c, k, l) <=> Apart(t, k, l))
      /\ No(t, "cfg") => Apart(c, "cfg", "cfg")
  <2>1. \A k, l : k # "cfg" => Apart(p, k, l)  BY NoApart
  <2>2. \A k : k # "cfg" => (No(c, k) <=> No(t, k))  BY <1>1, KindBoth
  <2>3. \A k, l : k # "cfg" /\ l # "cfg" => (Apart(c, k, l) <=> Apart(t, k, l))
    BY <1>1, <2>1, KindBoth
  <2>4. No(t, "cfg") => Apart(t, "cfg", "cfg")  BY NoApart
  <2> QED BY <1>1, <2>2, <2>3, <2>4, KindBoth
<1> HIDE DEF c
<1>4. ~No(s, "cfg") /\ Apart(s, "cfg", "cfg")  BY <1>1 DEF HandAt, ConfigRules, h
<1>5. No(t, "cfg")  BY <1>1, <1>4 DEF h
<1>6. ~Starting(s, d) /\ ~Token(s, d) /\ q \notin Waits /\ (q = "checkSerNum" => ~Asked(s, a))
  BY <1>4 DEF HandAt, StartRules, TokenRules, ConfigRules
<1>7. /\ ~Starting(c, d) /\ ~Token(c, d)
      /\ Asked(c, a) => Asked(s, a)
  BY <1>1, <1>3, <1>6 DEF Starting, Token, Asked
<1>8. StartRules(c, d, q)
  BY <1>2, <1>3, <1>7 DEF HandAt, StartRules
<1>9. TokenRules(c, d, q)  BY <1>2, <1>3, <1>7 DEF HandAt, TokenRules
<1>10. AskRules(c, q, a)
  BY <1>2, <1>3 DEF HandAt, AskRules, Asked
<1>11. ConfigRules(c, q, a)  BY <1>3, <1>5, <1>6, <1>7 DEF ConfigRules
<1>12. WaitRules(c, d, q)  BY <1>2, <1>6 DEF HandAt, WaitRules, Waits
<1> QED BY <1>2, <1>8, <1>9, <1>10, <1>11, <1>12 DEF HandAt, c, t

\* The handlers of DS, the exchange and CM.
LEMMA HandOthers ==
  ASSUME HandInv, TypeInv, DS_Handler \/ ODE_Handler \/ CM_Handler PROVE HandInv'
<1>1. IsSeq(jobs)  BY DEF TypeInv, Sound
<1>2. /\ UNCHANGED <<dl, al, sm>> /\ jobs # <<>>
      /\ \A k : Wants(sm.state, k) => ~Kind(Head(jobs), k)
  <2>1. UNCHANGED <<dl, al, sm>>  BY DEF DS_Handler, ODE_Handler, CM_Handler
  <2>2. jobs # <<>> /\ Head(jobs).type \notin {"DL_CNF", "MODE"}
    <3>1. CASE DS_Handler
      BY <3>1 DEF DS_Handler, DS_ALCnf, DS_Startup, DS_Upload, DS_Delete, DS_Init, Due
    <3>2. CASE ODE_Handler
      BY <3>2 DEF ODE_Handler, ODE_Request, ODE_ALCnf, ODE_Start, ODE_Stop, Due
    <3>3. CASE CM_Handler  BY <3>3, CmRelays
    <3> QED BY <3>1, <3>2, <3>3
  <2> QED BY <2>1, <2>2 DEF Wants, Kind
<1>3. ASSUME AsideHandled PROVE HandInv'
  <2>1. PICK p : Aside(p) /\ Handled(p)  BY <1>3 DEF AsideHandled
  <2>2. HandAt(Tail(jobs), dl, sm.state, al) /\ IsSeq(Tail(jobs))
    BY <1>1, <1>2, HandDrop, KindTail DEF HandInv
  <2>3. HandAt(Tail(jobs) \o p, dl, sm.state, al)  BY <2>1, <2>2, HandPost
  <2> QED BY <1>2, <2>1, <2>3 DEF HandInv, Handled
<1>4. CASE CM_Handler
  <2>1. PICK p : Relays(p) /\ Handled(p)  BY <1>4, CmRelays
  <2>2. CASE No(p, "cfg")
    <3>1. Aside(p)  BY <2>1, <2>2 DEF Relays, Aside
    <3> QED BY <1>3, <2>1, <3>1 DEF AsideHandled
  <2>3. CASE Kind(Head(jobs), "cfg")
    <3>1. HandAt(Tail(jobs) \o p, dl, sm.state, al)
      BY <1>1, <1>2, <2>1, <2>3, HandRelay DEF HandInv, Relays
    <3> QED BY <1>2, <2>1, <3>1 DEF HandInv, Handled
  <2> QED BY <2>1, <2>2, <2>3 DEF Relays
<1> QED BY <1>3, <1>4, DsHandlerAside, OdeAside

\* Where the application configures the port, no job is of the start-up's kinds, of the
\* services' but the exchange's, or of CM's.
LEMMA AtRest == ASSUME Configure
  PROVE /\ \A k : No(jobs, k)
        /\ \A k \in {"good", "ready", "cfg", "start", "stop"} : Without(jobs, k)
        /\ \A k : Off(jobs, k)
<1>1. CASE Quiet
  <2>1. jobs = <<>>  BY <1>1 DEF Quiet
  <2> QED BY <2>1, KindNone, SortOne, MarkOne
<1>2. CASE OnlyExchange
  <2>1. \A i \in DOMAIN jobs : \/ jobs[i].type \in ExchangeTypes
                               \/ jobs[i].type \in {"AL_REQ", "AL_CNF"} /\ jobs[i].who = "ODE"
    BY <1>2 DEF OnlyExchange
  <2>2. \A k : No(jobs, k)  BY <2>1 DEF ExchangeTypes, No, Kind
  <2>3. \A k \in {"good", "ready", "cfg", "start", "stop"} : Without(jobs, k)
    BY <2>1 DEF ExchangeTypes, Without, Sort
  <2>4. \A k : Off(jobs, k)  BY <2>1 DEF ExchangeTypes, Off, Mark
  <2> QED BY <2>2, <2>3, <2>4
<1> QED BY <1>1, <1>2 DEF Configure

\* The application.
LEMMA HandApplication == ASSUME HandInv, TypeInv, IsduInv, Application PROVE HandInv'
<1>1. UNCHANGED <<dl, al, sm>> /\ IsSeq(jobs)
  BY DEF Application, link, TypeInv, Sound
<1>2. CASE Request
  <2>1. PICK op : Posted(<<JobArg("SMI_RW", op)>>)  BY <1>2 DEF Request
  <2>2. Aside(<<JobArg("SMI_RW", op)>>)  BY KindNames, KindOne DEF Aside
  <2>3. HandAt(jobs \o <<JobArg("SMI_RW", op)>>, dl, sm.state, al)
    BY <1>1, <2>2, HandPost DEF HandInv
  <2> QED BY <1>1, <2>1, <2>3 DEF HandInv, Posted
<1>3. CASE GiveUp  BY <1>1, <1>3 DEF GiveUp, HandInv
<1>4. CASE Configure
  <2>1. Settled /\ (Quiet \/ OnlyExchange)  BY <1>4 DEF Configure, Quiet, OnlyExchange
  <2>2. PICK cfg : Posted(<<JobArg("SMI_PORTCFG", cfg)>>)  BY <1>4 DEF Configure
  <2> DEFINE j == JobArg("SMI_PORTCFG", cfg)
             r == <<j>>
             c == jobs \o r
  <2>3. \A k : Kind(j, k) <=> k = "cfg"  BY KindNames
  <2>4. jobs' = c  BY <2>2 DEF Posted
  <2> HIDE DEF j
  <2>5. IsSeq(r) /\ (\A k, l : Apart(r, k, l)) /\ \A k : No(r, k) <=> k # "cfg"
    BY <2>3, KindOne
  <2>6. HandAt(jobs, dl, sm.state, al)  BY DEF HandInv
  <2>7. \A k : No(jobs, k)  BY <1>4, AtRest
  <2> HIDE DEF r
  <2>8. (\A k, l : Apart(c, k, l)) /\ \A k : No(c, k) <=> k # "cfg"
    <3>1. \A k, l : Apart(jobs, k, l)  BY <2>7, NoApart
    <3> QED BY <1>1, <2>5, <2>7, <3>1, KindBoth
  <2> HIDE DEF c
  <2>9. ~Starting(c, dl) /\ ~Token(c, dl)  BY <2>1, <2>8 DEF Settled, Starting, Token
  <2>10. Asked(c, al) => al.owner = "SM"  BY <2>8 DEF Asked
  <2>11. sm.state = "checkSerNum" => al.owner # "SM"
    <3>1. SUFFICES ASSUME sm.state = "checkSerNum", al.owner = "SM" PROVE FALSE  OBVIOUS
    <3>2. Quiet  BY <2>1, <3>1 DEF OnlyExchange
    <3>3. ~Has(jobs, "ISDU")  BY <3>2 DEF Quiet, Has
    <3>4. dl.isdu # NoOp
      BY <2>6, <3>1, <3>3 DEF HandAt, AskRules, IsduInv
    <3>5. Up(dl)  BY <2>6, <3>1 DEF HandAt, WaitRules
    <3>6. dl.link \in {"Preop", "Operate"} /\ dl.mh  BY <2>1, <3>4, <3>5 DEF Up, Settled
    <3> QED BY <3>2, <3>4, <3>6 DEF Quiet, Linked
  <2>12. sm.state \notin Waits
    BY <2>1, <2>6, <2>7 DEF HandAt, WaitRules, Reaches, Token, Settled, Waits
  <2>13. StartRules(c, dl, sm.state)  BY <2>8, <2>9 DEF StartRules
  <2>14. TokenRules(c, dl, sm.state)  BY <2>1, <2>8, <2>9 DEF TokenRules, Settled
  <2>15. AskRules(c, sm.state, al)
    BY <2>6, <2>8, <2>10 DEF HandAt, AskRules, Asked
  <2>16. ConfigRules(c, sm.state, al)  BY <2>8, <2>10, <2>11, <2>12 DEF ConfigRules
  <2>17. WaitRules(c, dl, sm.state)  BY <2>6, <2>12 DEF HandAt, WaitRules, Waits
  <2>18. HandAt(c, dl, sm.state, al)
    BY <2>6, <2>13, <2>14, <2>15, <2>16, <2>17 DEF HandAt
  <2> QED BY <1>1, <2>4, <2>18 DEF HandInv
<1> QED BY <1>2, <1>3, <1>4 DEF Application

-----------------------------------------------------------------------------
\* What the thread posts when the mode of the link changes: the indication, after the
\* confirmation of a request given up.
Indicates(p, mode) == /\ IsSeq(p) /\ (\A k, l : Apart(p, k, l))
                      /\ \A k : No(p, k) <=> ~Kind(ModeInd(mode), k)

\* An indication of a mode, alone or behind the confirmation of what the link has dropped.
LEMMA IndicatedModes ==
  /\ \A mode : Indicates(<<ModeInd(mode)>>, mode)
  /\ \A d, mode : Indicates(IsduDownCnf(d) \o <<ModeInd(mode)>>, mode)
<1>1. ASSUME NEW mode PROVE Indicates(<<ModeInd(mode)>>, mode)
  <2>1. PICK j : j = ModeInd(mode)  OBVIOUS
  <2>2. /\ IsSeq(<<j>>) /\ (\A k, l : Apart(<<j>>, k, l))
        /\ \A k : No(<<j>>, k) <=> ~Kind(j, k)
    BY KindOne
  <2> QED BY <2>1, <2>2 DEF Indicates
<1>2. \A arg : Aside(<<JobArg("ISDU_CNF", arg)>>)  BY KindNames, KindOne DEF Aside
<1>3. \A d : Aside(IsduDownCnf(d))  BY <1>2, SmTells DEF IsduDownCnf
<1>4. ASSUME NEW d, NEW mode PROVE Indicates(IsduDownCnf(d) \o <<ModeInd(mode)>>, mode)
  <2> DEFINE a == IsduDownCnf(d)
             b == <<ModeInd(mode)>>
  <2>1. Aside(a) /\ Indicates(b, mode)  BY <1>1, <1>3
  <2> HIDE DEF a, b
  <2>2. \A k, l : Apart(a, k, l)  BY <2>1, NoApart DEF Aside
  <2>3. Indicates(a \o b, mode)  BY <2>1, <2>2, KindBoth DEF Aside, Indicates
  <2> QED BY <2>3 DEF a, b
<1> QED BY <1>1, <1>4

\* Which modes are of which kinds.
LEMMA IndicatedKinds ==
  /\ \A mode, k : Kind(ModeInd(mode), k) <=> \/ k = "mode"
                                             \/ mode = "STARTUP" /\ k = "start"
                                             \/ mode = "PREOPERATE" /\ k = "preop"
                                             \/ mode = "OPERATE" /\ k = "oper"
BY KindNames

\* A session has started.
LEMMA HandStart ==
  ASSUME NEW s, NEW d, NEW e, NEW q, NEW a, NEW p, IsSeq(s), HandAt(s, d, q, a),
         Starting(s, d), No(s, "start"), Indicates(p, "STARTUP"),
         e.link = "Startup" /\ e.mode = "STARTUP" /\ e.mdh = "no" /\ e.acc = d.acc,
         e.lost => ~e.mh
  PROVE HandAt(s \o p, e, q, a)
<1> DEFINE c == s \o p
<1>1. /\ \A k : No(c, k) <=> No(s, k) /\ k \notin {"mode", "start"}
      /\ \A k, l : Apart(c, k, l) <=> Apart(s, k, l) /\ (No(s, k) \/ l \notin {"mode", "start"})
  BY KindBoth, IndicatedKinds DEF Indicates
<1> HIDE DEF c
<1>2. q = "PortInactive" /\ ~Token(s, d) /\ No(s, "cfg")  BY DEF HandAt, StartRules
<1>3. No(s, "cnf") /\ No(s, "good") /\ No(s, "bad") /\ d.acc = "none"
  BY <1>2, KindsWithin DEF Token
<1>4. ~Token(c, e)  BY <1>1, <1>3 DEF Token
<1>5. LinkRules(e)  BY DEF LinkRules
<1>6. StartRules(c, e, q)
  <2>1. Apart(c, "start", "mode") /\ Apart(c, "start", "dev")  BY <1>1, NoApart
  <2> QED BY <1>1, <1>2, <1>4, <2>1 DEF StartRules
<1>7. TokenRules(c, e, q)
  <2>1. Apart(c, "cnf", "cnf") /\ Apart(c, "mode", "cnf")  BY <1>1, <1>3, NoApart
  <2> QED BY <1>1, <1>3, <1>4, <2>1 DEF TokenRules
<1>8. AskRules(c, q, a) /\ ConfigRules(c, q, a)
  BY <1>1 DEF HandAt, AskRules, ConfigRules, Asked
<1>9. WaitRules(c, e, q)  BY <1>2 DEF WaitRules
<1> QED BY <1>5, <1>6, <1>7, <1>8, <1>9 DEF HandAt, c

\* Another mode is indicated.
LEMMA HandIndicate ==
  ASSUME NEW s, NEW d, NEW e, NEW q, NEW a, NEW p, NEW mode, IsSeq(s), HandAt(s, d, q, a),
         No(s, "start"), Indicates(p, mode), mode # "STARTUP",
         LinkRules(e), d.acc = "none" /\ e.acc = "none", No(s, "good"), e.link # "WakeUp",
         ~(e.mode = "STARTUP" /\ e.mdh # "no"),
         ~No(s, "bad") => /\ ~e.mh /\ e.mode = "STARTUP" /\ e.link \in {"Startup", "Idle"}
                          /\ e.mdh = "no",
         WaitRules(s \o p, e, q)
  PROVE HandAt(s \o p, e, q, a)
<1> DEFINE c == s \o p
<1>1. /\ \A k : k \notin {"mode", "preop", "oper"} => (No(c, k) <=> No(s, k))
      /\ \A k, l : l \notin {"mode", "preop", "oper"} => (Apart(c, k, l) <=> Apart(s, k, l))
  <2>1. \A k : No(p, k) <=> ~Kind(ModeInd(mode), k)  BY DEF Indicates
  <2>2. \A k : k \notin {"mode", "preop", "oper"} => No(p, k)  BY <2>1, IndicatedKinds
  <2> QED BY <2>2, KindBoth DEF Indicates
<1>2. WaitRules(c, e, q)  OBVIOUS
<1> HIDE DEF c
<1>3. Token(c, e) <=> Token(s, d)  BY <1>1 DEF Token
<1>4. ~Starting(c, e)  BY <1>1 DEF Starting
<1>5. StartRules(c, e, q)  BY <1>1, <1>4, NoApart DEF StartRules
<1>6. TokenRules(c, e, q)  BY <1>1, <1>3 DEF HandAt, TokenRules
<1>7. AskRules(c, q, a) /\ ConfigRules(c, q, a)
  BY <1>1 DEF HandAt, AskRules, ConfigRules, Asked
<1> QED BY <1>2, <1>5, <1>6, <1>7 DEF HandAt, c

\* The mode handler's step.
LEMMA HandModeStep == ASSUME HandInv, TypeInv, ModeStep, UNCHANGED <<sm, al>> PROVE HandInv'
<1> DEFINE d == [dl EXCEPT !.mdh = "no"]
           q == sm.state
<1>1. HandAt(jobs, dl, q, al) /\ IsSeq(jobs) /\ LinkTyped  BY DEF HandInv, TypeInv, Sound
<1>2. /\ d.link = dl.link /\ d.mode = dl.mode /\ d.mdh = "no" /\ d.lost = dl.lost /\ d.mh = dl.mh
      /\ d.acc = dl.acc /\ d.isdu = dl.isdu /\ DOMAIN d = DOMAIN DlInit
  BY <1>1 DEF LinkTyped, DlInit
<1>3. dl.mdh # "no"  BY DEF ModeStep
<1>4. /\ dl.acc = "none" /\ No(jobs, "good") /\ No(jobs, "start") /\ dl.link # "WakeUp"
      /\ ~No(jobs, "bad") => ~dl.mh /\ dl.mode = "STARTUP" /\ dl.link = "Startup"
  BY <1>1, <1>3 DEF HandAt, TokenRules, StartRules, LinkRules
<1>5. Token(jobs, dl) <=> ~No(jobs, "bad")  BY <1>4, KindsWithin DEF Token
<1> HIDE DEF d, q
<1>6. ASSUME NEW e, NEW p, dl' = e, jobs' = jobs \o p, HandAt(jobs \o p, e, q, al) PROVE HandInv'
  BY <1>6 DEF HandInv, q
<1>7. ASSUME NEW c, NEW e, e.acc = "none", \A k : No(c, k) => No(jobs, k)
      PROVE Token(jobs, dl) => Token(c, e)
  BY <1>4, <1>7 DEF Token
<1>8. LinkRules(dl) /\ WaitRules(jobs, dl, q)  BY <1>1 DEF HandAt
<1>9. ASSUME NEW mode, NEW p, Indicates(p, mode), NEW e, e.acc = "none",
             Reaches(jobs, dl, "PREOPERATE", "preop") /\ ~Token(jobs, dl)
               => Up(e) /\ (~No(jobs, "preop") \/ mode = "PREOPERATE"),
             Reaches(jobs, dl, "OPERATE", "oper") /\ ~Token(jobs, dl)
               => Up(e) /\ (~No(jobs, "oper") \/ mode = "OPERATE"),
             Up(dl) => Up(e)
      PROVE WaitRules(jobs \o p, e, q)
  <2> DEFINE c == jobs \o p
  <2>1. /\ \A k : No(c, k) <=> No(jobs, k) /\ ~Kind(ModeInd(mode), k)
    BY <1>1, <1>9, KindBoth DEF Indicates
  <2>2. /\ mode = "PREOPERATE" => ~No(c, "preop")
        /\ mode = "OPERATE" => ~No(c, "oper")
    BY <2>1, IndicatedKinds
  <2> HIDE DEF c
  <2>3. Token(jobs, dl) => Token(c, e)  BY <1>7, <1>9, <2>1
  <2>4. q = "waitonDLPreop" => Reaches(c, e, "PREOPERATE", "preop")
    <3>1. ASSUME q = "waitonDLPreop", ~Token(jobs, dl) PROVE Up(e) /\ ~No(c, "preop")
      <4>1. Reaches(jobs, dl, "PREOPERATE", "preop")  BY <1>8, <3>1 DEF WaitRules
      <4>2. Up(e) /\ (~No(jobs, "preop") \/ mode = "PREOPERATE")  BY <1>9, <3>1, <4>1
      <4> QED BY <2>1, <2>2, <4>2
    <3> QED BY <2>3, <3>1 DEF Reaches
  <2>5. q = "waitonDLOperate" => Reaches(c, e, "OPERATE", "oper")
    <3>1. ASSUME q = "waitonDLOperate", ~Token(jobs, dl) PROVE Up(e) /\ ~No(c, "oper")
      <4>1. Reaches(jobs, dl, "OPERATE", "oper")  BY <1>8, <3>1 DEF WaitRules
      <4>2. Up(e) /\ (~No(jobs, "oper") \/ mode = "OPERATE")  BY <1>9, <3>1, <4>1
      <4> QED BY <2>1, <2>2, <4>2
    <3> QED BY <2>3, <3>1 DEF Reaches
  <2>6. q = "checkSerNum" => Up(e)  BY <1>8, <1>9 DEF WaitRules
  <2> QED BY <2>4, <2>5, <2>6 DEF WaitRules, c
<1>10. CASE dl.link = "Idle" /\ dl.mode = "STARTUP"
  <2> DEFINE e == [d EXCEPT !.link = "WakeUp", !.wurq = TRUE]
  <2>1. dl' = e /\ UNCHANGED jobs
    BY <1>2, <1>10 DEF ModeStep, d
  <2>2. /\ e.link = "WakeUp" /\ e.mode = "STARTUP" /\ e.mdh = "no" /\ e.acc = "none"
        /\ e.lost = dl.lost /\ e.mh = dl.mh
    BY <1>2, <1>4, <1>10 DEF DlInit
  <2> HIDE DEF e
  <2>3. Starting(jobs, dl)  BY <1>3, <1>10 DEF Starting
  <2>4. q = "PortInactive" /\ ~Token(jobs, dl) /\ No(jobs, "cfg")
    BY <1>1, <2>3 DEF HandAt, StartRules
  <2>5. No(jobs, "bad") /\ No(jobs, "cnf")  BY <2>4, KindsWithin DEF Token
  <2>6. ~Token(jobs, e)  BY <2>2, <2>5 DEF Token
  <2>7. LinkRules(e)  BY <1>8, <1>10, <2>2 DEF LinkRules
  <2>8. StartRules(jobs, e, q)  BY <1>4, <2>4, <2>6, NoApart DEF StartRules
  <2>9. TokenRules(jobs, e, q)  BY <1>4, <2>2, <2>5, <2>6, NoApart DEF TokenRules
  <2>10. WaitRules(jobs, e, q)  BY <2>4 DEF WaitRules
  <2>11. HandAt(jobs, e, q, al)  BY <1>1, <2>7, <2>8, <2>9, <2>10 DEF HandAt
  <2> QED BY <2>1, <2>11 DEF HandInv, q
<1>11. CASE \/ dl.link = "Idle" /\ dl.mode # "STARTUP"
            \/ dl.link = "Startup" /\ dl.mode = "STARTUP" /\ ~dl.lost
            \/ dl.link = "Preop" /\ dl.mode = "INACTIVE"
            \/ dl.link = "Preop" /\ dl.mode = "PREOPERATE" /\ ~dl.lost
            \/ dl.link = "Operate" /\ dl.mode \in {"PREOPERATE", "OPERATE"} /\ ~dl.lost
  <2>1. dl' = d /\ UNCHANGED jobs
    BY <1>2, <1>11 DEF ModeStep, d
  <2>2. Token(jobs, d) <=> Token(jobs, dl)  BY <1>2 DEF Token
  <2>3. ~Starting(jobs, d)  BY <1>2, <1>4, <1>11 DEF Starting
  <2>4. Up(dl) => Up(d)  BY <1>2, <1>11 DEF Up
  <2>5. LinkRules(d)  BY <1>2, <1>8, <1>11 DEF LinkRules
  <2>6. StartRules(jobs, d, q)  BY <1>4, <2>3, NoApart DEF StartRules
  <2>7. TokenRules(jobs, d, q)  BY <1>1, <1>2, <1>4, <2>2 DEF HandAt, TokenRules
  <2>8. WaitRules(jobs, d, q)  BY <1>8, <1>11, <2>2, <2>4 DEF WaitRules, Reaches
  <2>9. HandAt(jobs, d, q, al)  BY <1>1, <2>5, <2>6, <2>7, <2>8 DEF HandAt
  <2> QED BY <2>1, <2>9 DEF HandInv, q
<1>12. CASE \/ dl.link = "Startup" /\ dl.mode = "PREOPERATE"
            \/ dl.link = "Startup" /\ dl.mode = "OPERATE"
            \/ dl.link = "Preop" /\ dl.mode = "OPERATE" /\ ~dl.lost
  <2> DEFINE to == IF dl.mode = "PREOPERATE" THEN "Preop" ELSE "Operate"
             e  == [d EXCEPT !.link = to]
             p  == <<ModeInd(dl.mode)>>
  <2>1. dl' = e /\ jobs' = jobs \o p
    BY <1>2, <1>12 DEF ModeStep, Goto, Posted, d
  <2>2. /\ e.link = to /\ to \in {"Preop", "Operate"} /\ e.mode = dl.mode /\ e.mdh = "no"
        /\ e.acc = "none" /\ e.lost = dl.lost /\ e.mh = dl.mh
    BY <1>2, <1>4, <1>12 DEF DlInit
  <2>3. Indicates(p, dl.mode)  BY IndicatedModes
  <2> HIDE DEF e, p, to
  <2>4. LinkRules(e)  BY <1>8, <1>12, <2>2 DEF LinkRules
  <2>5. No(jobs, "bad")  BY <1>4, <1>12
  <2>6. Up(dl) => Up(e)  BY <1>12, <2>2 DEF Up
  <2>7. WaitRules(jobs \o p, e, q)
    <3>1. Reaches(jobs, dl, "PREOPERATE", "preop") /\ ~Token(jobs, dl)
            => Up(e) /\ (~No(jobs, "preop") \/ dl.mode = "PREOPERATE")
      BY <1>12, <2>2, <2>6 DEF Reaches, Up
    <3>2. Reaches(jobs, dl, "OPERATE", "oper") /\ ~Token(jobs, dl)
            => Up(e) /\ (~No(jobs, "oper") \/ dl.mode = "OPERATE")
      BY <1>12, <2>2, <2>6 DEF Reaches, Up
    <3> QED BY <1>9, <2>2, <2>3, <2>6, <3>1, <3>2
  <2>8. HandAt(jobs \o p, e, q, al)
    BY <1>1, <1>4, <1>12, <2>2, <2>3, <2>4, <2>5, <2>7, HandIndicate
  <2> QED BY <1>6, <2>1, <2>8
<1>13. CASE dl.link \in {"Preop", "Operate"} /\ dl.mode = "STARTUP"
  <2> DEFINE p == IsduDownCnf(d) \o <<ModeInd("STARTUP")>>
  <2> DEFINE f(code) == [IsduDown(d) EXCEPT !.link = "Startup", !.code = code]
  <2>0. PICK code : dl' = f(code) /\ jobs' = jobs \o p
    BY <1>2, <1>13 DEF ModeStep, GotoStartup, Posted, d
  <2> DEFINE e == f(code)
  <2>1. dl' = e /\ jobs' = jobs \o p
    BY <2>0
  <2>2. /\ e.link = "Startup" /\ e.mode = "STARTUP" /\ e.mdh = "no" /\ e.acc = dl.acc
        /\ e.lost = dl.lost /\ e.mh = dl.mh
    BY <1>2, <1>13 DEF IsduDown, DlInit
  <2>3. Indicates(p, "STARTUP")  BY IndicatedModes
  <2> HIDE DEF e, p
  <2>4. Starting(jobs, dl)  BY <1>3, <1>13 DEF Starting
  <2>5. HandAt(jobs \o p, e, q, al)
    BY <1>1, <1>4, <1>8, <2>2, <2>3, <2>4, HandStart DEF LinkRules
  <2> QED BY <1>6, <2>1, <2>5
<1>14. CASE \/ dl.link \in {"Startup", "Operate"} /\ dl.mode = "INACTIVE"
            \/ dl.link = "Startup" /\ dl.mode = "STARTUP" /\ dl.lost
            \/ dl.link \in {"Preop", "Operate"} /\ dl.mode \in {"PREOPERATE", "OPERATE"} /\ dl.lost
  <2> DEFINE ind == IF dl.mode = "INACTIVE" THEN "INACTIVE" ELSE "COMLOST"
             p == IsduDownCnf(d) \o <<ModeInd(ind)>>
  <2> DEFINE f(code) == [IsduDown(d) EXCEPT !.link = "Idle", !.lost = FALSE, !.code = code,
                                            !.mh = d.mh /\ d.link = "Startup"]
  <2>0. PICK code : dl' = f(code) /\ jobs' = jobs \o p
    BY <1>2, <1>14 DEF ModeStep, GotoIdle, Posted, d
  <2> DEFINE e == f(code)
  <2>1. dl' = e /\ jobs' = jobs \o p
    BY <2>0
  <2>2. /\ e.link = "Idle" /\ e.mode = dl.mode /\ e.mdh = "no" /\ e.acc = "none"
        /\ ~e.lost /\ e.mh = (dl.mh /\ dl.link = "Startup")
        /\ dl.lost => e.isdu = NoOp
    BY <1>2, <1>4, <1>14 DEF IsduDown, Abandons, DlInit
  <2>3. Indicates(p, ind) /\ ind # "STARTUP"  BY IndicatedModes
  <2> HIDE DEF e, p, ind
  <2>4. LinkRules(e)  BY <2>2 DEF LinkRules
  <2>5. Up(dl) => Up(e)  BY <1>14, <2>2 DEF Up
  <2>6. WaitRules(jobs \o p, e, q)
    <3>1. Reaches(jobs, dl, "PREOPERATE", "preop") /\ ~Token(jobs, dl)
            => Up(e) /\ (~No(jobs, "preop") \/ ind = "PREOPERATE")
      BY <1>14, <2>5 DEF Reaches
    <3>2. Reaches(jobs, dl, "OPERATE", "oper") /\ ~Token(jobs, dl)
            => Up(e) /\ (~No(jobs, "oper") \/ ind = "OPERATE")
      BY <1>14, <2>5 DEF Reaches
    <3> QED BY <1>9, <2>2, <2>3, <2>5, <3>1, <3>2
  <2>7. HandAt(jobs \o p, e, q, al)
    BY <1>1, <1>4, <2>2, <2>3, <2>4, <2>6, HandIndicate
  <2> QED BY <1>6, <2>1, <2>7
<1>15. /\ dl.link \in {"Idle", "Startup", "Preop", "Operate"}
       /\ dl.mode \in {"INACTIVE", "STARTUP", "PREOPERATE", "OPERATE"} /\ dl.lost \in BOOLEAN
  BY <1>1, <1>4 DEF LinkTyped
<1> QED BY <1>10, <1>11, <1>12, <1>13, <1>14, <1>15

\* The chip answers the wake-up.
LEMMA HandWakeUp == ASSUME HandInv, TypeInv, WakeUp, UNCHANGED <<sm, al>> PROVE HandInv'
<1>1. HandAt(jobs, dl, sm.state, al) /\ IsSeq(jobs) /\ LinkTyped  BY DEF HandInv, TypeInv, Sound
<1>2. dl.link = "WakeUp"  BY DEF WakeUp
<1>3. dl.mode = "STARTUP" /\ dl.mdh = "no" /\ ~dl.lost /\ Starting(jobs, dl)
  BY <1>1, <1>2 DEF HandAt, LinkRules, Starting
<1>4. sm.state = "PortInactive" /\ ~Token(jobs, dl) /\ No(jobs, "start")
  BY <1>1, <1>2, <1>3 DEF HandAt, StartRules
<1>5. No(jobs, "good") /\ No(jobs, "bad") /\ dl.acc = "none"  BY <1>4, KindsWithin DEF Token
<1>6. CASE /\ dl' = [Served(dl) EXCEPT !.link = "Startup", !.wurq = FALSE, !.mh = TRUE]
           /\ Posted(<<ModeInd("STARTUP")>>)
  <2>1. /\ dl'.link = "Startup" /\ dl'.mode = "STARTUP" /\ dl'.mdh = "no" /\ dl'.acc = dl.acc
        /\ ~dl'.lost
    BY <1>1, <1>3, <1>6 DEF Served, LinkTyped, DlInit
  <2>2. HandAt(jobs \o <<ModeInd("STARTUP")>>, dl', sm.state, al)
    BY <1>1, <1>3, <1>4, <2>1, HandStart, IndicatedModes
  <2> QED BY <1>6, <2>2 DEF HandInv, Posted
<1>7. CASE /\ dl' = [Served(dl) EXCEPT !.link = "Idle", !.wurq = FALSE, !.mh = FALSE]
           /\ Posted(<<ModeInd("INACTIVE")>>)
  <2>1. /\ dl'.link = "Idle" /\ dl'.mode = "STARTUP" /\ dl'.mdh = "no" /\ dl'.acc = "none"
        /\ ~dl'.lost /\ ~dl'.mh
    BY <1>1, <1>3, <1>5, <1>7 DEF Served, LinkTyped, DlInit
  <2>2. LinkRules(dl')  BY <2>1 DEF LinkRules
  <2>3. WaitRules(jobs \o <<ModeInd("INACTIVE")>>, dl', sm.state)  BY <1>4 DEF WaitRules
  <2>4. HandAt(jobs \o <<ModeInd("INACTIVE")>>, dl', sm.state, al)
    BY <1>1, <1>4, <1>5, <2>1, <2>2, <2>3, HandIndicate, IndicatedModes
  <2> QED BY <1>7, <2>4 DEF HandInv, Posted
<1> QED BY <1>6, <1>7 DEF WakeUp

\* An access ends, answered or lost.
LEMMA HandEnd ==
  ASSUME NEW s, NEW d, NEW e, NEW q, NEW a, NEW what, NEW ok \in BOOLEAN,
         IsSeq(s), HandAt(s, d, q, a),
         d.acc # "none", e.acc = "none", e.link = "Startup", e.mode = d.mode,
         IF ok THEN e.mh /\ e.mdh = "no" /\ ~e.lost ELSE ~e.mh
  PROVE HandAt(s \o <<JobArg("DL_CNF", [what |-> what, ok |-> ok])>>, e, q, a)
<1> DEFINE j == JobArg("DL_CNF", [what |-> what, ok |-> ok])
           p == <<j>>
           c == s \o p
<1>1. \A k : Kind(j, k) <=> k = "cnf" \/ (ok /\ k = "good") \/ (~ok /\ k = "bad")
  <2>1. CASE ok = TRUE  BY <2>1, KindNames
  <2>2. CASE ok = FALSE  BY <2>2, KindNames
  <2> QED BY <2>1, <2>2
<1> HIDE DEF j
<1>2. IsSeq(p) /\ (\A k, l : Apart(p, k, l)) /\ \A k : No(p, k) <=> ~Kind(j, k)  BY KindOne
<1> HIDE DEF p
<1>3. /\ \A k : No(c, k) <=> No(s, k) /\ ~Kind(j, k)
      /\ \A k, l : Apart(c, k, l) <=> Apart(s, k, l) /\ (No(s, k) \/ ~Kind(j, l))
  BY <1>2, KindBoth
<1> HIDE DEF c
<1>4. /\ d.link = "Startup" /\ d.mode = "STARTUP" /\ d.mdh = "no" /\ d.mh
      /\ No(s, "mode") /\ No(s, "cnf") /\ Token(s, d)
  BY DEF HandAt, TokenRules, Token
<1>5. /\ q \in Expecting /\ No(s, "dev") /\ No(s, "cfg") /\ No(s, "start")
      /\ No(s, "good") /\ No(s, "bad")
  BY <1>4, KindsWithin DEF HandAt, TokenRules
<1>6. Token(c, e)  BY <1>1, <1>3 DEF Token
<1>7. ~Starting(c, e)  BY <1>1, <1>3, <1>4, <1>5 DEF Starting
<1>8. LinkRules(e)  BY DEF LinkRules
<1>9. StartRules(c, e, q)  BY <1>1, <1>3, <1>5, <1>7, NoApart DEF StartRules
<1>10. TokenRules(c, e, q)
  <2>1. /\ No(c, "mode") /\ No(c, "dev") /\ No(c, "cfg")
        /\ No(c, "good") <=> ~ok
        /\ No(c, "bad") <=> ok
    BY <1>1, <1>3, <1>4, <1>5
  <2>2. Apart(c, "cnf", "cnf") /\ Apart(c, "mode", "cnf")
    BY <1>3, <1>4, NoApart
  <2> QED BY <1>4, <1>5, <2>1, <2>2 DEF TokenRules
<1>11. AskRules(c, q, a) /\ ConfigRules(c, q, a)
  BY <1>1, <1>3 DEF HandAt, AskRules, ConfigRules, Asked
<1>12. WaitRules(c, e, q)
  <2>1. q # "checkSerNum"  BY <1>5, ExpectingStates
  <2> QED BY <1>6, <2>1 DEF WaitRules, Reaches
<1> QED BY <1>8, <1>9, <1>10, <1>11, <1>12 DEF HandAt, c, p, j

\* The steps of the thread that only go on with what they were asked.
LEMMA HandServed ==
  ASSUME HandInv, TypeInv, UNCHANGED <<sm, al>>, NEW p, Aside(p), jobs' = jobs \o p, Ticks(dl, dl')
  PROVE HandInv'
<1>1. HandAt(jobs, dl', sm.state, al) /\ IsSeq(jobs)
  BY HandTick DEF HandInv, TypeInv, Sound
<1>2. HandAt(jobs \o p, dl', sm.state, al)  BY <1>1, HandPost
<1> QED BY <1>2 DEF HandInv

\* A run of the message handler that has been served.
LEMMA ServedTicks == ASSUME LinkTyped
  PROVE /\ Ticks(dl, Served(dl))
        /\ \A isdu, run : isdu \in {dl.isdu, NoOp} =>
             Ticks(dl, [Served(dl) EXCEPT !.isdu = isdu, !.run = run])
        /\ Ticks(dl, [Served(dl) EXCEPT !.isdu = NoOp, !.run = FALSE])
        /\ Ticks(dl, [Served(dl) EXCEPT !.run = TRUE])
        /\ Ticks(dl, [Served(dl) EXCEPT !.par = NoOp])
        /\ Ticks(dl, [Served(dl) EXCEPT !.mcmd = "none", !.code = "none"])
BY DEF LinkTyped, Served, Ticks, DlInit

\* The thread goes on.
LEMMA HandProgress == ASSUME HandInv, TypeInv, LinkProgress, UNCHANGED <<sm, al>> PROVE HandInv'
<1>1. HandAt(jobs, dl, sm.state, al) /\ IsSeq(jobs) /\ LinkTyped  BY DEF HandInv, TypeInv, Sound
<1>2. \A arg : Aside(<<JobArg("ISDU_CNF", arg)>>) /\ Aside(<<JobArg("PARAM_CNF", arg)>>)
  BY KindNames, KindOne DEF Aside
<1>3. CASE AccessDone
  <2>1. /\ dl.acc # "none" /\ dl' = [Served(dl) EXCEPT !.acc = "none"]
        /\ jobs' = jobs \o <<JobArg("DL_CNF", [what |-> dl.acc, ok |-> TRUE])>>
    BY <1>3 DEF AccessDone, Posted
  <2>2. /\ dl.link = "Startup" /\ dl.mode = "STARTUP" /\ dl.mdh = "no" /\ dl.mh /\ ~dl.lost
    BY <1>1, <2>1 DEF HandAt, TokenRules, LinkRules
  <2>3. /\ dl'.acc = "none" /\ dl'.link = "Startup" /\ dl'.mode = dl.mode /\ dl'.mh
        /\ dl'.mdh = "no" /\ ~dl'.lost
    BY <1>1, <2>1, <2>2 DEF Served, LinkTyped, DlInit
  <2>4. HandAt(jobs \o <<JobArg("DL_CNF", [what |-> dl.acc, ok |-> TRUE])>>, dl', sm.state, al)
    BY <1>1, <2>1, <2>3, HandEnd
  <2> QED BY <2>1, <2>4 DEF HandInv
<1>4. CASE IsduStart
  <2>1. dl' = [Served(dl) EXCEPT !.run = TRUE] /\ jobs' = jobs  BY <1>4 DEF IsduStart
  <2>2. jobs \o <<>> = jobs  BY <1>1, ConcatNone
  <2> QED BY <1>1, <2>1, <2>2, ServedTicks, SmTells, HandServed
<1>5. CASE IsduDone
  <2>1. PICK arg : /\ dl' = [Served(dl) EXCEPT !.isdu = NoOp, !.run = FALSE]
                   /\ jobs' = jobs \o <<JobArg("ISDU_CNF", arg)>>
    BY <1>5 DEF IsduDone, Posted
  <2>2. Ticks(dl, dl')  BY <1>1, <2>1, ServedTicks
  <2> QED BY <1>2, <2>1, <2>2, HandServed
<1>6. CASE ParamDone
  <2>1. PICK arg : /\ dl' = [Served(dl) EXCEPT !.par = NoOp]
                   /\ jobs' = jobs \o <<JobArg("PARAM_CNF", arg)>>
    BY <1>6 DEF ParamDone, ParamRes, Posted
  <2>2. Ticks(dl, dl')  BY <1>1, <2>1, ServedTicks
  <2> QED BY <1>2, <2>1, <2>2, HandServed
<1>7. CASE ModeDone
  <2> DEFINE e == [Served(dl) EXCEPT !.mcmd = "none", !.code = "none"]
             p == <<JobArg("DEVMODE_CNF", TRUE)>>
  <2>1. dl' = e /\ jobs' = jobs \o p /\ dl.mh /\ dl.link \in {"Preop", "Operate"}
    BY <1>7 DEF ModeDone, Posted, Talking, Linked
  <2>2. HandAt(jobs, e, sm.state, al) /\ Ticks(dl, e)  BY <1>1, ServedTicks, HandTick
  <2>3. IsSeq(p) /\ \A k : k # "dev" => No(p, k)
    <3>1. PICK j : j = JobArg("DEVMODE_CNF", TRUE)  OBVIOUS
    <3>2. \A k : Kind(j, k) <=> k = "dev"  BY <3>1, KindNames
    <3> QED BY <3>1, <3>2, KindOne
  <2> HIDE DEF e, p
  <2>4. e.mh /\ e.link \in {"Preop", "Operate"}  BY <2>1, <2>2 DEF Ticks
  <2>5. No(jobs, "start") /\ ~Token(jobs, e)
    BY <2>2, <2>4, KindsWithin DEF HandAt, StartRules, TokenRules, Token
  <2>6. HandAt(jobs \o p, e, sm.state, al)  BY <1>1, <2>2, <2>3, <2>5, HandDevice
  <2> QED BY <2>1, <2>6 DEF HandInv
<1> QED BY <1>3, <1>4, <1>5, <1>6, <1>7, HandModeStep, HandWakeUp DEF LinkProgress

\* The communication is lost.
LEMMA HandLose == ASSUME HandInv, TypeInv, Lose, UNCHANGED <<sm, al>> PROVE HandInv'
<1>0. PICK by10 : Posted(LoseCnf(by10)) /\
        \E mcmd, code : dl' = [dl EXCEPT !.mh = FALSE, !.lost = TRUE, !.mdh = "due", !.acc = "none",
                                         !.par = NoOp, !.mcmd = mcmd, !.code = code]
  BY DEF Lose
<1> DEFINE e == dl'
           q == sm.state
           lose == LoseCnf(by10)
<1>1. HandAt(jobs, dl, q, al) /\ IsSeq(jobs) /\ LinkTyped  BY DEF HandInv, TypeInv, Sound
<1>2. /\ dl.mh /\ dl.mdh # "due" /\ dl' = e /\ jobs' = jobs \o lose
      /\ \/ dl.link = "Startup" /\ dl.acc # "none"
         \/ dl.link \in {"Preop", "Operate"}
  BY <1>0 DEF Lose, FellBack, Exchanging, Serving, Posted
<1>3. /\ ~e.mh /\ e.lost /\ e.mdh = "due" /\ e.acc = "none" /\ e.link = dl.link
      /\ e.mode = dl.mode /\ e.isdu = dl.isdu
  BY <1>0, <1>1 DEF LinkTyped, DlInit
<1> HIDE DEF e, q
<1>4. CASE dl.link = "Startup"
  <2>1. lose = <<JobArg("DL_CNF", [what |-> dl.acc, ok |-> FALSE])>>  BY <1>4 DEF LoseCnf
  <2>2. HandAt(jobs \o lose, e, q, al)
    BY <1>1, <1>2, <1>3, <1>4, <2>1, HandEnd
  <2> QED BY <1>2, <2>2 DEF HandInv, q
<1>5. CASE dl.link \in {"Preop", "Operate"}
  <2>1. /\ No(jobs, "start") /\ No(jobs, "good") /\ No(jobs, "bad") /\ No(jobs, "cnf")
        /\ dl.acc = "none" /\ (dl.mode = "STARTUP" => dl.mdh # "no")
    BY <1>1, <1>2, <1>5, KindsWithin DEF HandAt, StartRules, TokenRules, LinkRules
  <2>2. ~Token(jobs, e) /\ ~Token(jobs, dl)  BY <1>3, <2>1 DEF Token
  <2>3. Starting(jobs, e) => Starting(jobs, dl)  BY <1>3, <1>5, <2>1 DEF Starting
  <2>4. Up(dl) => Up(e)  BY <1>3, <1>5 DEF Up
  <2>5. LinkRules(e)  BY <1>3, <1>5 DEF LinkRules
  <2>6. StartRules(jobs, e, q)  BY <1>1, <2>1, <2>2, <2>3, NoApart DEF HandAt, StartRules
  <2>7. TokenRules(jobs, e, q)  BY <1>3, <2>1, <2>2, NoApart DEF TokenRules
  <2>8. WaitRules(jobs, e, q)  BY <1>1, <1>5, <2>2, <2>4 DEF HandAt, WaitRules, Reaches
  <2>9. HandAt(jobs, e, q, al)  BY <1>1, <2>5, <2>6, <2>7, <2>8 DEF HandAt
  <2>10. IsSeq(lose) /\ \A k : k # "dev" => No(lose, k)
    <3> DEFINE a == IF by10 /\ dl.mcmd # "none"
                    THEN <<JobArg("DEVMODE_CNF", FALSE)>> ELSE <<>>
               b == IF dl.par # NoOp /\ (by10 \/ dl.par.rw = "write")
                    THEN <<ParamRes(dl.par, "ERR", FALSE)>> ELSE <<>>
    <3>1. lose = a \o b  BY <1>5 DEF LoseCnf
    <3>2. \A op, err, own : Aside(<<ParamRes(op, err, own)>>)
      BY KindNames, KindOne DEF Aside, ParamRes
    <3>3. Aside(b)  BY <3>2, SmTells
    <3>4. IsSeq(a) /\ \A k : k # "dev" => No(a, k)
      <4>1. PICK j : j = JobArg("DEVMODE_CNF", FALSE)  OBVIOUS
      <4>2. \A k : Kind(j, k) <=> k = "dev"  BY <4>1, KindNames
      <4> QED BY <4>1, <4>2, KindOne, KindNone
    <3> HIDE DEF a, b
    <3> QED BY <3>1, <3>3, <3>4, KindBoth DEF Aside
  <2>11. HandAt(jobs \o lose, e, q, al)
    BY <1>1, <2>1, <2>2, <2>9, <2>10, HandDevice
  <2> QED BY <1>2, <2>11 DEF HandInv, q
<1> QED BY <1>2, <1>4, <1>5

\* Events are none of it.
LEMMA EventsAside == ASSUME NEW codes, IsSeq(codes) PROVE Aside(Events(codes))
<1>1. Calm(Events(codes)) /\ IsSeq(Events(codes))  BY EventsCalm DEF Calm, Proper
<1> DEFINE ev(i) == JobArg("EVENT", [code |-> codes[i], left |-> i < Len(codes)])
<1>2. \A i, k : ~Kind(ev(i), k)  BY KindNames
<1>3. Events(codes) = [i \in DOMAIN codes |-> ev(i)]  BY DEF Events
<1> HIDE DEF ev
<1>4. \A k : \A i \in DOMAIN Events(codes) : ~Kind(Events(codes)[i], k)  BY <1>2, <1>3
<1> QED BY <1>1, <1>4 DEF Aside, No

\* A link in trouble (an answer that fails, a loss, events) keeps the handshake.
LEMMA HandTrouble == ASSUME HandInv, TypeInv, LinkTrouble, UNCHANGED <<sm, al>> PROVE HandInv'
<1>1. LinkTyped /\ IsSeq(jobs)  BY DEF TypeInv, Sound
<1>2. CASE IsduFails
  <2>1. PICK arg : /\ dl' = [Served(dl) EXCEPT !.isdu = NoOp, !.run = FALSE]
                   /\ jobs' = jobs \o <<JobArg("ISDU_CNF", arg)>>
    BY <1>2 DEF IsduFails, Posted
  <2>2. Aside(<<JobArg("ISDU_CNF", arg)>>)  BY KindNames, KindOne DEF Aside
  <2>3. Ticks(dl, dl')  BY <1>1, <2>1, ServedTicks
  <2> QED BY <2>1, <2>2, <2>3, HandServed
<1>3. CASE DeviceEvent
  <2>1. dl' = Served(dl)  BY <1>3 DEF DeviceEvent
  <2>2. \E codes \in {<<"other">>, <<"UPLOAD">>, <<"other", "UPLOAD">>} :
          jobs' = jobs \o Events(codes)
    BY <1>3 DEF DeviceEvent, Posted
  <2>3. <<"other">> \in Seq({"other", "UPLOAD"}) /\ <<"UPLOAD">> \in Seq({"other", "UPLOAD"})
        /\ <<"other", "UPLOAD">> \in Seq({"other", "UPLOAD"})
    OBVIOUS
  <2>4. \A codes \in {<<"other">>, <<"UPLOAD">>, <<"other", "UPLOAD">>} : IsSeq(codes)
    BY <2>3 DEF IsSeq
  <2> QED BY <1>1, <2>1, <2>2, <2>4, EventsAside, ServedTicks, HandServed
<1>4. CASE Swap
  BY <1>4 DEF Swap, HandInv
<1> QED BY <1>2, <1>3, <1>4, HandLose DEF LinkTrouble

-----------------------------------------------------------------------------
\* A port at rest.
LEMMA HandInit == ASSUME Init PROVE HandInv /\ ErrorInv
<1>1. /\ jobs = <<>> /\ dl = DlInit /\ al = AlInit /\ sm = SmInit  BY DEF Init
<1>2. ErrorInv  BY <1>1 DEF ErrorInv, Errors, SmInit
<1>3. /\ dl.link = "Idle" /\ dl.mode = "INACTIVE" /\ dl.mdh = "no" /\ ~dl.lost /\ dl.acc = "none"
      /\ al.owner = "none" /\ sm.state = "PortInactive"
  BY <1>1 DEF DlInit, AlInit, SmInit
<1>4. (\A k : No(jobs, k)) /\ \A k, l : Apart(jobs, k, l)  BY <1>1, KindNone
<1>5. LinkRules(dl)  BY <1>3 DEF LinkRules
<1>6. ~Starting(jobs, dl) /\ ~Token(jobs, dl) /\ ~Asked(jobs, al)
  BY <1>3, <1>4 DEF Starting, Token, Asked
<1>7. StartRules(jobs, dl, sm.state)  BY <1>4, <1>6 DEF StartRules
<1>8. TokenRules(jobs, dl, sm.state)  BY <1>3, <1>4, <1>6 DEF TokenRules
<1>9. AskRules(jobs, sm.state, al) /\ ConfigRules(jobs, sm.state, al)
  BY <1>3, <1>4, <1>6 DEF AskRules, ConfigRules
<1>10. WaitRules(jobs, dl, sm.state)  BY <1>3 DEF WaitRules
<1> QED BY <1>2, <1>5, <1>7, <1>8, <1>9, <1>10 DEF HandInv, HandAt

\* Every step of the port keeps the agreement.
LEMMA HandNext == ASSUME HandInv, ErrorInv, TypeInv, IsduInv, [Next]_vars PROVE HandInv' /\ ErrorInv'
<1>1. UNCHANGED sm => ErrorInv'  BY DEF ErrorInv
<1>2. CASE Application
  BY <1>1, <1>2, HandApplication DEF Application
<1>3. CASE LinkRuns \/ LinkFails
  BY <1>1, <1>3, HandProgress, HandTrouble DEF LinkRuns, LinkFails, above
<1>4. CASE AL_Request  BY <1>1, <1>4, HandRequest DEF AL_Request
<1>5. CASE AL_Handler /\ UNCHANGED sm  BY <1>1, <1>5, HandAl
<1>6. CASE SM_Handler  BY <1>6, HandSm, ErrorSm
<1>7. CASE DS_Handler \/ ODE_Handler \/ CM_Handler
  BY <1>1, <1>7, HandOthers DEF DS_Handler, ODE_Handler, CM_Handler
<1>8. CASE UNCHANGED vars  BY <1>8 DEF vars, link, above, HandInv, ErrorInv
<1> QED BY <1>2, <1>3, <1>4, <1>5, <1>6, <1>7, <1>8 DEF Next, Master

-----------------------------------------------------------------------------
(***************************************************************************)
(* What the confirmations are of: an access that is under way, and a good   *)
(* confirmation, are what SM's state asked for.                             *)
(***************************************************************************)
Awaited(q, what) == q \in Expecting /\ what \in Expected[q]
Fits(s, d, q) == /\ d.acc # "none" => Awaited(q, d.acc)
                 /\ \A i \in DOMAIN s : Kind(s[i], "good") => Awaited(q, s[i].arg.what)
FitInv == Fits(jobs, dl, sm.state)

\* The access an action of the table asks for.
AccessOf == [read_com |-> "com", read_id |-> "id", ident |-> "ident", preop_cmd |-> "preop",
             operate_cmd |-> "operate", restart |-> "restart"]

\* Every row that asks for an access leads to a state that awaits it.
LEMMA RowsAwait == \A t \in SmTable : t[4] \in Accessing => Awaited(t[3], AccessOf[t[4]])
BY ExpectingStates DEF SmTable, Accessing, Awaited, Expected, AccessOf

\* SM's step posts no good confirmation, and the access it asks for is its new state's.
SmAsksOnly == /\ \E p : IsSeq(p) /\ No(p, "good") /\ Handled(p)
              /\ dl'.acc = dl.acc \/ Awaited(sm'.state, dl'.acc)

\* An action of SM's table,
LEMMA SmDoAsks ==
  ASSUME LinkTyped, NEW do, NEW s, NEW event, SmDo(do, s, event), Context(s),
         do \in Accessing => Awaited(s.state, AccessOf[do])
  PROVE SmAsksOnly
<1>1. ASSUME NEW x, NEW e, NEW p, Calls(x, e, p), e.acc = dl.acc, IsSeq(p), No(p, "good")
      PROVE SmAsksOnly
  BY <1>1 DEF Calls, SmAsksOnly
<1>2. /\ \A mode : IsSeq(<<PortMode(mode)>>) /\ No(<<PortMode(mode)>>, "good")
      /\ \A mode : IsSeq(DevicemodeCnf(dl, mode)) /\ No(DevicemodeCnf(dl, mode), "good")
      /\ IsSeq(<<>>) /\ No(<<>>, "good")
  BY SmTells DEF Aside
<1>3. \A op : IsSeq(<<AlReq("SM", op)>>) /\ No(<<AlReq("SM", op)>>, "good")
  BY KindNames, KindOne
<1>4. \A mode : /\ SetMode(dl, mode).acc = dl.acc /\ SetMode(SetSDCI(dl), mode).acc = dl.acc
                /\ Devicemode(dl, mode).acc = dl.acc
  BY DEF SetMode, SetSDCI, Devicemode, LinkTyped, DlInit
<1>5. ASSUME NEW x, NEW what, SmAccess(x, what), Awaited(x.state, what) PROVE SmAsksOnly
  <2>1. sm' = x /\ dl' = Access(dl, what) /\ Handled(AccessCnf(dl, what))
    BY <1>5 DEF SmAccess, Calls
  <2>2. dl'.acc \in {dl.acc, what}  BY <2>1 DEF Access, LinkTyped, DlInit
  <2>3. IsSeq(AccessCnf(dl, what)) /\ No(AccessCnf(dl, what), "good")
    <3> DEFINE j == JobArg("DL_CNF", [what |-> what, ok |-> FALSE])
    <3>1. ~Kind(j, "good")  BY KindNames
    <3>2. AccessCnf(dl, what) \in {<<>>, <<j>>}  BY DEF AccessCnf
    <3> HIDE DEF j
    <3> QED BY <1>2, <3>1, <3>2, KindOne
  <2> QED BY <1>5, <2>1, <2>2, <2>3 DEF SmAsksOnly
<1>6. CASE do = "read_com"
  <2>1. /\ [s EXCEPT !.retry = 0].state = s.state
    BY DEF Context, SmInit
  <2>2. AccessOf[do] = "com" /\ do \in Accessing  BY <1>6 DEF AccessOf, Accessing
  <2> QED BY <1>5, <1>6, <2>1, <2>2 DEF SmDo
<1>7. CASE do \in {"read_id", "ident", "preop_cmd", "operate_cmd"}
  <2>1. SmAccess(s, AccessOf[do]) /\ do \in Accessing
    BY <1>7 DEF SmDo, AccessOf, Accessing
  <2> QED BY <1>5, <2>1
<1>8. CASE do = "restart"
  <2>1. [s EXCEPT !.retry = @ + 1].state = s.state
    BY DEF Context, SmInit
  <2>2. AccessOf[do] = "restart" /\ do \in Accessing  BY <1>8 DEF AccessOf, Accessing
  <2> QED BY <1>5, <1>8, <2>1, <2>2 DEF SmDo
<1>9. CASE do = "fault"  BY <1>1, <1>2, <1>4, <1>9 DEF SmDo, SmFault
<1>10. CASE do \in {"serial", "write_cycl", "comready", "comlost", "inactive"}
  BY <1>1, <1>2, <1>3, <1>4, <1>10 DEF SmDo
<1>11. CASE do \in {"start", "dido", "operate_ind", "fallback", "devmode"}
  BY <1>1, <1>2, <1>4, <1>11 DEF SmDo
<1>12. CASE do \notin Accessing \cup {"fault", "serial", "write_cycl", "comready", "comlost",
                                      "inactive", "start", "dido", "operate_ind", "fallback",
                                      "devmode"}
  BY <1>1, <1>2, <1>12 DEF SmDo, Accessing
<1> QED BY <1>6, <1>7, <1>8, <1>9, <1>10, <1>11, <1>12 DEF Accessing

\* an event that SM processes,
LEMMA SmEventAsks == ASSUME LinkTyped, NEW s, NEW event, SmEvent(s, event), Context(s) PROVE SmAsksOnly
<1>1. ASSUME NEW t \in SmRows(s.state, event), SmDo(t[4], [s EXCEPT !.state = t[3]], event)
      PROVE SmAsksOnly
  <2>1. t \in SmTable  BY DEF SmRows
  <2>2. Context([s EXCEPT !.state = t[3]]) /\ [s EXCEPT !.state = t[3]].state = t[3]
    BY <2>1, RowsTyped DEF Context, SmInit
  <2> QED BY <1>1, <2>1, <2>2, SmDoAsks, RowsAwait
<1>2. ASSUME Calls(s, dl, <<>>) PROVE SmAsksOnly  BY <1>2, SmTells DEF Calls, SmAsksOnly, Aside
<1> QED BY <1>1, <1>2 DEF SmEvent

\* and a job of SM.
LEMMA SmAsks == ASSUME TypeInv, SM_Handler PROVE SmAsksOnly
<1>1. Context(sm) /\ LinkTyped  BY DEF TypeInv, SmTyped, Context
<1>2. ASSUME NEW e, NEW x, NEW p, e.acc = dl.acc, Aside(p), Calls(x, e, p) PROVE SmAsksOnly
  BY <1>2 DEF Calls, SmAsksOnly, Aside
<1>3. ASSUME NEW event, SmEvent(sm, event) PROVE SmAsksOnly  BY <1>1, <1>3, SmEventAsks
<1>4. dev.id \in Names  BY DEF TypeInv, CableTyped, Names
<1>5. \A s, event : Context(s) => Context(WithError(s, event))
  BY DEF Context, SmInit, WithError
<1>6. \A mode : SetMode(dl, mode).acc = dl.acc  BY <1>1 DEF SetMode, LinkTyped, DlInit
<1>7. Aside(<<>>) /\ \A mode : Aside(<<PortMode(mode)>>)  BY SmTells
<1>8. ASSUME SM_SetPortConfig PROVE SmAsksOnly
  <2> DEFINE s == [sm EXCEPT !.cfg = DueArg("SM_CONFIG")]
  <2>1. Context(s)  BY <1>1 DEF Context, SmInit
  <2> HIDE DEF s
  <2>2. Calls(sm, dl, <<>>) \/ \E event : SmEvent(s, event)  BY <1>8 DEF SM_SetPortConfig, s
  <2> QED BY <1>1, <1>2, <1>7, <2>1, <2>2, SmEventAsks
<1>9. ASSUME SM_Operate PROVE SmAsksOnly  BY <1>3, <1>9 DEF SM_Operate
<1>10. ASSUME SM_Mode PROVE SmAsksOnly  BY <1>2, <1>3, <1>7, <1>10 DEF SM_Mode
<1>11. ASSUME SM_DLCnf PROVE SmAsksOnly
  <2>1. CASE ~DueArg("DL_CNF").ok  BY <1>3, <1>11, <2>1 DEF SM_DLCnf
  <2>2. CASE DueArg("DL_CNF").ok /\ sm.state = "ReadCom"
    <3>1. \A v : Context([sm EXCEPT !.rev = v])  BY <1>1 DEF Context, SmInit
    <3>2. \E v, event : SmEvent([sm EXCEPT !.rev = v], event)  BY <1>11, <2>2 DEF SM_DLCnf
    <3> QED BY <1>1, <3>1, <3>2, SmEventAsks
  <2>3. CASE DueArg("DL_CNF").ok /\ sm.state \in {"CheckComp", "CheckCompV10"}
    <3> DEFINE s == [sm EXCEPT !.id = dev.id]
    <3>1. Context(s)  BY <1>1, <1>4 DEF Context, SmInit
    <3> HIDE DEF s
    <3>2. SmEvent(WithError(s, CompEvent(s)), CompEvent(s))  BY <1>11, <2>3 DEF SM_DLCnf, s
    <3> QED BY <1>1, <1>5, <3>1, <3>2, SmEventAsks
  <2>4. CASE DueArg("DL_CNF").ok /\ sm.state = "CheckVxy"
    BY <1>1, <1>5, <1>11, <2>4, SmEventAsks DEF SM_DLCnf
  <2>5. CASE DueArg("DL_CNF").ok /\ sm.state \in Waits
    BY <1>2, <1>6, <1>7, <1>11, <2>5 DEF SM_DLCnf, Waits
  <2>6. CASE /\ DueArg("DL_CNF").ok
             /\ sm.state \notin Waits \cup {"ReadCom", "CheckComp", "CheckCompV10", "CheckVxy"}
    <3>1. \E event : SmEvent(sm, event)  BY <1>11, <2>6 DEF SM_DLCnf, Waits
    <3> QED BY <1>3, <3>1
  <2> QED BY <2>1, <2>2, <2>3, <2>4, <2>5, <2>6
<1>12. ASSUME SM_ALCnf PROVE SmAsksOnly
  <2> DEFINE s == [sm EXCEPT !.error = "SerNumFault"]
  <2>1. Context(s)  BY <1>1 DEF Context, SmInit
  <2> HIDE DEF s
  <2>2. SmEvent(s, "SerNumFault") \/ \E event : SmEvent(sm, event)
    BY <1>12 DEF SM_ALCnf, SM_SerialCnf, SM_CyclCnf, s
  <2> QED BY <1>1, <1>3, <2>1, <2>2, SmEventAsks
<1>13. ASSUME SM_DevmodeCnf PROVE SmAsksOnly
  <2>1. CASE DueArg("DEVMODE_CNF") /\ sm.state = "wait_devmode_cnf"
    <3>1. \E x : \E p \in {<<>>, <<PortMode("OPERATE")>>} : Calls(x, SetMode(dl, "OPERATE"), p)
      BY <1>13, <2>1 DEF SM_DevmodeCnf, Calls
    <3> QED BY <1>2, <1>6, <1>7, <3>1
  <2>2. CASE ~(DueArg("DEVMODE_CNF") /\ sm.state = "wait_devmode_cnf")
    BY <1>2, <1>3, <1>7, <1>13, <2>2 DEF SM_DevmodeCnf
  <2> QED BY <2>1, <2>2
<1> QED BY <1>8, <1>9, <1>10, <1>11, <1>12, <1>13 DEF SM_Handler

-----------------------------------------------------------------------------
\* Every job of two parts is one of theirs.
LEMMA BothAt == ASSUME NEW s, NEW p, IsSeq(s), IsSeq(p), NEW i \in DOMAIN (s \o p)
  PROVE \/ \E n \in DOMAIN s : (s \o p)[i] = s[n]
        \/ \E n \in DOMAIN p : (s \o p)[i] = p[n]
<1>1. CASE i <= Len(s)  BY <1>1, ConcatSeq
<1>2. CASE i > Len(s)
  <2>1. i - Len(s) \in 1..Len(p) /\ i = Len(s) + (i - Len(s))  BY <1>2, ConcatSeq
  <2> QED BY <2>1, ConcatSeq
<1> QED BY <1>1, <1>2, ConcatSeq

\* The good confirmations of a mailbox that has lost its head, or is the same, and got jobs
\* that are none.
LEMMA GoodKept ==
  ASSUME NEW s, IsSeq(s), NEW p, IsSeq(p), No(p, "good"), NEW d, NEW e, NEW q, Fits(s, d, q),
         e.acc \in {d.acc, "none"}
  PROVE Fits(s \o p, e, q) /\ (s # <<>> => Fits(Tail(s) \o p, e, q))
<1>1. ASSUME NEW r, IsSeq(r), \A i \in DOMAIN r : \E n \in DOMAIN s : r[i] = s[n]
      PROVE Fits(r \o p, e, q)
  <2>1. ASSUME NEW i \in DOMAIN (r \o p), Kind((r \o p)[i], "good")
        PROVE Awaited(q, (r \o p)[i].arg.what)
    <3>1. \E n \in DOMAIN r : (r \o p)[i] = r[n]  BY <1>1, <2>1, BothAt DEF No
    <3> QED BY <1>1, <2>1, <3>1 DEF Fits
  <2> QED BY <2>1 DEF Fits
<1>2. s # <<>> => IsSeq(Tail(s)) /\ \A i \in DOMAIN Tail(s) : \E n \in DOMAIN s : Tail(s)[i] = s[n]
  <2>1. SUFFICES ASSUME s # <<>>
                 PROVE IsSeq(Tail(s)) /\ \A i \in DOMAIN Tail(s) : \E n \in DOMAIN s : Tail(s)[i] = s[n]
    OBVIOUS
  <2>2. /\ IsSeq(Tail(s)) /\ Len(s) \in Nat \ {0} /\ DOMAIN s = 1..Len(s)
        /\ Len(Tail(s)) = Len(s) - 1
        /\ \A i \in 1..(Len(s) - 1) : Tail(s)[i] = s[i + 1]
    BY <2>1, TailSeq
  <2>3. DOMAIN Tail(s) = 1..Len(Tail(s))  BY <2>2 DEF IsSeq
  <2> QED BY <2>2, <2>3
<1> QED BY <1>1, <1>2

\* A state awaits only what it asked for, and SM keeps its state until it comes.
LEMMA FitSm == ASSUME HandInv, FitInv, TypeInv, SM_Handler PROVE FitInv'
<1> DEFINE h == Head(jobs)
           t == Tail(jobs)
<1>1. /\ IsSeq(jobs) /\ jobs # <<>>
      /\ h.type \in {"SM_CONFIG", "SM_OPERATE", "MODE", "DL_CNF", "AL_CNF", "DEVMODE_CNF"}
      /\ h.type = "AL_CNF" => h.who = "SM"
  BY DEF SM_Handler, SM_SetPortConfig, SM_Operate, SM_Mode, SM_DLCnf, SM_ALCnf, SM_DevmodeCnf, Due,
         TypeInv, Sound
<1>2. /\ IsSeq(t)
      /\ \A k : No(jobs, k) <=> ~Kind(h, k) /\ No(t, k)
      /\ \A k, l : Apart(jobs, k, l) <=> Apart(t, k, l) /\ (Kind(h, k) => No(t, l))
  BY <1>1, KindTail
<1>3. HandAt(jobs, dl, sm.state, al)  BY DEF HandInv
<1>9. SmAsksOnly  BY SmAsks
<1>4. PICK p : IsSeq(p) /\ No(p, "good") /\ Handled(p)  BY <1>9 DEF SmAsksOnly
<1>5. dl'.acc = dl.acc \/ Awaited(sm'.state, dl'.acc)  BY <1>9 DEF SmAsksOnly
<1>6. \A i \in DOMAIN (t \o p) : Kind((t \o p)[i], "good") => ~No(t, "good")
  BY <1>2, <1>4, BothAt DEF No
<1>0. jobs' = t \o p  BY <1>4 DEF Handled
<1> HIDE DEF h, t
<1>7. CASE dl.acc = "none" /\ No(t, "good")
  BY <1>0, <1>5, <1>6, <1>7 DEF FitInv, Fits
<1>8. CASE dl.acc # "none" \/ ~No(t, "good")
  <2>1. Token(jobs, dl) /\ sm.state \in Expecting
    <3>1. Token(jobs, dl)  BY <1>2, <1>8, KindsWithin DEF Token
    <3> QED BY <1>3, <3>1 DEF HandAt, TokenRules
  <2>2. h.type = "SM_OPERATE"
    <3>1. No(jobs, "cfg") /\ No(jobs, "dev")  BY <1>3, <2>1 DEF HandAt, TokenRules
    <3>2. No(jobs, "mode")  BY <1>2, <1>3, <1>8 DEF HandAt, TokenRules
    <3>3. No(jobs, "al")  BY <1>3, <2>1, ExpectingStates DEF HandAt, AskRules, Asked
    <3>4. ~Kind(h, "cnf")
      BY <1>2, <1>3, <1>8, KindsWithin DEF HandAt, TokenRules
    <3> QED BY <1>1, <1>2, <3>1, <3>2, <3>3, <3>4 DEF Kind
  <2>3. SM_Operate
    BY <2>2 DEF SM_Handler, SM_SetPortConfig, SM_Mode, SM_DLCnf, SM_ALCnf, SM_DevmodeCnf, Due, h
  <2>4. \A event \in {"OPERATE_V10", "CYCL_REQ"} : SmRows(sm.state, event) = {}
    BY <2>1, ExpectingStates DEF SmRows, SmTable
  <2>5. Calls(sm, dl, <<>>)  BY <2>3, <2>4 DEF SM_Operate, SmEvent
  <2>6. Fits(t \o p, dl, sm.state)  BY <1>1, <1>4, GoodKept DEF FitInv, t
  <2> QED BY <1>0, <2>5, <2>6 DEF Calls, FitInv
<1> QED BY <1>7, <1>8

\* The other steps add no good confirmation but of the access that is under way.
LEMMA FitsOn ==
  ASSUME FitInv, IsSeq(jobs), UNCHANGED sm, dl'.acc \in {dl.acc, "none"},
         NEW p, IsSeq(p), No(p, "good"), Posted(p) \/ (jobs # <<>> /\ Handled(p))
  PROVE FitInv'
BY GoodKept DEF FitInv, Posted, Handled

\* The master's,
LEMMA FitMaster ==
  ASSUME FitInv, TypeInv, UNCHANGED sm,
         \/ AL_Request \/ AL_Handler \/ DS_Handler \/ ODE_Handler \/ CM_Handler
  PROVE FitInv'
<1>1. IsSeq(jobs) /\ LinkTyped  BY DEF TypeInv, Sound
<1>2. \A p : Aside(p) => IsSeq(p) /\ No(p, "good")  BY DEF Aside
<1>3. \A who, rw, err, len : LET p == <<AlCnf(who, rw, err, len)>> IN IsSeq(p) /\ No(p, "good")
  BY AlKinds
<1>4. CASE AL_Request
  <2> DEFINE op == Resolved(Head(jobs))
  <2>1. jobs # <<>> /\ AL_ReadWrite(op)  BY <1>4 DEF AL_Request, Due
  <2> HIDE DEF op
  <2>2. \/ \E who, rw, err, len : Handled(<<AlCnf(who, rw, err, len)>>) /\ UNCHANGED dl
        \/ \E refused : dl' = Param(dl, op) /\ Handled(ParamCnf(op, refused))
        \/ dl' = Transport(dl, op) /\ Handled(TransportCnf(dl))
    BY <2>1 DEF AL_ReadWrite
  <2>3. Param(dl, op).acc = dl.acc /\ Transport(dl, op).acc = dl.acc
    BY <1>1 DEF Param, Transport, LinkTyped, DlInit
  <2> QED BY <1>1, <1>2, <1>3, <2>1, <2>2, <2>3, AlKinds, FitsOn
<1>5. CASE AL_Handler
  <2>1. UNCHANGED dl /\ jobs # <<>>
    BY <1>5 DEF AL_Handler, AL_ParamCnf, AL_IsduCnf, AL_EventInd, AL_EventRsp, Due
  <2>2. Aside(<<>>)  BY SmTells
  <2>3. ASSUME NEW awaited, NEW err, NEW len, AL_Confirm(awaited, err, len) PROVE FitInv'
    BY <1>1, <1>2, <1>3, <2>1, <2>2, <2>3, FitsOn DEF AL_Confirm
  <2>4. CASE AL_ParamCnf \/ AL_IsduCnf  BY <2>3, <2>4 DEF AL_ParamCnf, AL_IsduCnf
  <2>5. CASE AL_EventInd \/ AL_EventRsp
    <3>1. \E p : Handled(p) /\ Aside(p)
      BY <2>2, <2>5, AlKinds DEF AL_EventInd, AL_EventRsp
    <3> QED BY <1>1, <1>2, <2>1, <3>1, FitsOn
  <2> QED BY <1>5, <2>4, <2>5 DEF AL_Handler
<1>6. CASE DS_Handler \/ ODE_Handler
  <2>1. UNCHANGED dl /\ jobs # <<>>
    <3>1. CASE DS_Handler
      BY <3>1 DEF DS_Handler, DS_ALCnf, DS_Startup, DS_Upload, DS_Delete, DS_Init, Due
    <3>2. CASE ODE_Handler
      BY <3>2 DEF ODE_Handler, ODE_Request, ODE_ALCnf, ODE_Start, ODE_Stop, Due
    <3> QED BY <1>6, <3>1, <3>2
  <2>2. AsideHandled  BY <1>6, DsHandlerAside, OdeAside
  <2> QED BY <1>1, <1>2, <2>1, <2>2, FitsOn DEF AsideHandled
<1>7. CASE CM_Handler
  <2>1. UNCHANGED dl /\ jobs # <<>>  BY <1>7, CmRelays DEF CM_Handler
  <2>2. \E p : IsSeq(p) /\ No(p, "good") /\ Handled(p)  BY <1>7, CmRelays DEF Relays
  <2> QED BY <1>1, <2>1, <2>2, FitsOn
<1> QED BY <1>4, <1>5, <1>6, <1>7

\* the application's,
LEMMA FitApplication == ASSUME FitInv, TypeInv, Application PROVE FitInv'
<1>1. IsSeq(jobs) /\ UNCHANGED <<dl, sm>>  BY DEF TypeInv, Sound, Application, link
<1>2. \A type \in {"SMI_RW", "SMI_PORTCFG"} : \A arg :
        IsSeq(<<JobArg(type, arg)>>) /\ No(<<JobArg(type, arg)>>, "good")
  BY KindNames, KindOne
<1>3. CASE Configure  BY <1>1, <1>2, <1>3, FitsOn DEF Configure
<1>4. CASE Request  BY <1>1, <1>2, <1>4, FitsOn DEF Request
<1>5. CASE GiveUp  BY <1>1, <1>5 DEF GiveUp, FitInv
<1> QED BY <1>3, <1>4, <1>5 DEF Application

\* and the thread's.
LEMMA FitLink == ASSUME FitInv, TypeInv, LinkProgress \/ LinkTrouble, UNCHANGED sm PROVE FitInv'
<1>1. IsSeq(jobs) /\ LinkTyped  BY DEF TypeInv, Sound
<1>2. \A d : d.acc = dl.acc /\ DOMAIN d = DOMAIN DlInit => IsduDown(d).acc = dl.acc /\ DOMAIN IsduDown(d) = DOMAIN DlInit
  BY DEF IsduDown, DlInit
<1>3. CASE ModeStep
  <2> DEFINE d == [dl EXCEPT !.mdh = "no"]
  <2>1. d.acc = dl.acc /\ DOMAIN d = DOMAIN DlInit  BY <1>1 DEF LinkTyped, DlInit
  <2> HIDE DEF d
  <2>2. \A mode : /\ IsSeq(<<ModeInd(mode)>>) /\ No(<<ModeInd(mode)>>, "good")
                  /\ IsSeq(IsduDownCnf(d) \o <<ModeInd(mode)>>)
                  /\ No(IsduDownCnf(d) \o <<ModeInd(mode)>>, "good")
    BY IndicatedModes, IndicatedKinds DEF Indicates
  <2>3. \/ dl' = d /\ UNCHANGED jobs
        \/ dl' = [d EXCEPT !.link = "WakeUp", !.wurq = TRUE] /\ UNCHANGED jobs
        \/ \E to, mode : Goto(d, to, mode)
        \/ \E mode : GotoIdle(d, mode)
        \/ GotoStartup(d)
    BY <1>3 DEF ModeStep, d
  <2>4. [d EXCEPT !.link = "WakeUp", !.wurq = TRUE].acc = dl.acc  BY <2>1 DEF DlInit
  <2>5. UNCHANGED jobs /\ dl'.acc = dl.acc => FitInv'  BY DEF FitInv, Fits
  <2>6. \A to, mode : Goto(d, to, mode) => FitInv'
    <3>1. \A to : [d EXCEPT !.link = to].acc = dl.acc  BY <2>1 DEF DlInit
    <3> QED BY <1>1, <2>2, <3>1, FitsOn DEF Goto
  <2>7. \A mode : GotoIdle(d, mode) => FitInv'
    <3>1. \A code : [IsduDown(d) EXCEPT !.link = "Idle", !.lost = FALSE, !.code = code,
                                        !.mh = d.mh /\ d.link = "Startup"].acc = dl.acc
      BY <1>2, <2>1 DEF DlInit
    <3> QED BY <1>1, <2>2, <3>1, FitsOn DEF GotoIdle
  <2>8. GotoStartup(d) => FitInv'
    <3>1. \A code : [IsduDown(d) EXCEPT !.link = "Startup", !.code = code].acc = dl.acc
      BY <1>2, <2>1 DEF DlInit
    <3> QED BY <1>1, <2>2, <3>1, FitsOn DEF GotoStartup
  <2> QED BY <2>1, <2>3, <2>4, <2>5, <2>6, <2>7, <2>8
<1>4. CASE WakeUp
  <2>1. \A mode : IsSeq(<<ModeInd(mode)>>) /\ No(<<ModeInd(mode)>>, "good")
    BY IndicatedModes, IndicatedKinds DEF Indicates
  <2>2. dl'.acc = dl.acc /\ \E mode : Posted(<<ModeInd(mode)>>)
    BY <1>1, <1>4 DEF WakeUp, Served, LinkTyped, DlInit
  <2> QED BY <1>1, <2>1, <2>2, FitsOn
<1>5. CASE AccessDone
  <2> DEFINE j == JobArg("DL_CNF", [what |-> dl.acc, ok |-> TRUE])
  <2>1. dl.acc # "none" /\ jobs' = jobs \o <<j>>  BY <1>5 DEF AccessDone, Posted
  <2>2. dl'.acc = "none"  BY <1>1, <1>5 DEF AccessDone, Served, LinkTyped, DlInit
  <2>3. Awaited(sm.state, dl.acc)  BY <2>1 DEF FitInv, Fits
  <2>4. j.arg.what = dl.acc  BY DEF JobArg
  <2> HIDE DEF j
  <2>5. IsSeq(<<j>>) /\ \A n \in DOMAIN <<j>> : <<j>>[n] = j
    <3>1. <<j>> \in Seq({j}) /\ Len(<<j>>) = 1 /\ <<j>>[1] = j  OBVIOUS
    <3>2. DOMAIN <<j>> = 1..1  BY <3>1
    <3>3. \A n \in DOMAIN <<j>> : n = 1  BY <3>2
    <3> QED BY <3>1, <3>3 DEF IsSeq
  <2>6. \A i \in DOMAIN (jobs \o <<j>>) :
          \/ \E n \in DOMAIN jobs : (jobs \o <<j>>)[i] = jobs[n]
          \/ (jobs \o <<j>>)[i] = j
    BY <1>1, <2>5, BothAt
  <2> QED BY <2>1, <2>2, <2>3, <2>4, <2>6 DEF FitInv, Fits
<1>6. \A e : Ticks(dl, e) => e.acc = dl.acc  BY DEF Ticks
<1>7. \A arg : /\ IsSeq(<<JobArg("ISDU_CNF", arg)>>) /\ No(<<JobArg("ISDU_CNF", arg)>>, "good")
               /\ IsSeq(<<JobArg("PARAM_CNF", arg)>>) /\ No(<<JobArg("PARAM_CNF", arg)>>, "good")
               /\ IsSeq(<<JobArg("DEVMODE_CNF", arg)>>) /\ No(<<JobArg("DEVMODE_CNF", arg)>>, "good")
  BY KindNames, KindOne
<1>8. CASE IsduStart  BY <1>1, <1>6, <1>8, ServedTicks DEF IsduStart, FitInv, Fits
<1>9. CASE IsduDone \/ IsduFails
  <2>1. dl' = [Served(dl) EXCEPT !.isdu = NoOp, !.run = FALSE]  BY <1>9 DEF IsduDone, IsduFails
  <2>2. dl'.acc = dl.acc  BY <1>1, <2>1 DEF Served, LinkTyped, DlInit
  <2>3. \E arg : Posted(<<JobArg("ISDU_CNF", arg)>>)  BY <1>9 DEF IsduDone, IsduFails
  <2> QED BY <1>1, <1>7, <2>2, <2>3, FitsOn
<1>10. CASE ParamDone
  <2>1. dl'.acc = dl.acc /\ \E arg : Posted(<<JobArg("PARAM_CNF", arg)>>)
    BY <1>1, <1>6, <1>10, ServedTicks DEF ParamDone, ParamRes
  <2> QED BY <1>1, <1>7, <2>1, FitsOn
<1>11. CASE ModeDone
  <2>1. dl'.acc = dl.acc /\ Posted(<<JobArg("DEVMODE_CNF", TRUE)>>)
    BY <1>1, <1>6, <1>11, ServedTicks DEF ModeDone
  <2> QED BY <1>1, <1>7, <2>1, FitsOn
<1>12. CASE Lose
  <2>1. dl'.acc = "none"  BY <1>1, <1>12 DEF Lose, LinkTyped, DlInit
  <2>2. ASSUME NEW by10 PROVE IsSeq(LoseCnf(by10)) /\ No(LoseCnf(by10), "good")
    <3> DEFINE a == IF by10 /\ dl.mcmd # "none"
                    THEN <<JobArg("DEVMODE_CNF", FALSE)>> ELSE <<>>
               b == IF dl.par # NoOp /\ (by10 \/ dl.par.rw = "write")
                    THEN <<ParamRes(dl.par, "ERR", FALSE)>> ELSE <<>>
               j == JobArg("DL_CNF", [what |-> dl.acc, ok |-> FALSE])
    <3>1. LoseCnf(by10) \in {<<j>>, a \o b}  BY DEF LoseCnf
    <3>2. IsSeq(<<>>) /\ No(<<>>, "good")  BY KindNone
    <3>3. IsSeq(a) /\ No(a, "good") /\ IsSeq(b) /\ No(b, "good")  BY <1>7, <3>2 DEF ParamRes
    <3>4. ~Kind(j, "good")  BY KindNames
    <3> HIDE DEF a, b, j
    <3>5. IsSeq(<<j>>) /\ No(<<j>>, "good")  BY <3>4, KindOne
    <3>6. IsSeq(a \o b) /\ No(a \o b, "good")  BY <3>3, KindBoth
    <3> QED BY <3>1, <3>5, <3>6
  <2>3. \E by10 : Posted(LoseCnf(by10))  BY <1>12 DEF Lose
  <2> QED BY <1>1, <2>1, <2>2, <2>3, FitsOn
<1>13. CASE DeviceEvent
  <2>1. dl'.acc = dl.acc  BY <1>1, <1>6, <1>13, ServedTicks DEF DeviceEvent
  <2>2. \E codes \in {<<"other">>, <<"UPLOAD">>, <<"other", "UPLOAD">>} : Posted(Events(codes))
    BY <1>13 DEF DeviceEvent
  <2>3. <<"other">> \in Seq({"other", "UPLOAD"}) /\ <<"UPLOAD">> \in Seq({"other", "UPLOAD"})
        /\ <<"other", "UPLOAD">> \in Seq({"other", "UPLOAD"})
    OBVIOUS
  <2>4. \A codes \in {<<"other">>, <<"UPLOAD">>, <<"other", "UPLOAD">>} : Aside(Events(codes))
    BY <2>3, EventsAside DEF IsSeq
  <2> QED BY <1>1, <2>1, <2>2, <2>4, FitsOn DEF Aside
<1>14. CASE Swap  BY <1>14 DEF Swap, FitInv
<1> QED BY <1>3, <1>4, <1>5, <1>8, <1>9, <1>10, <1>11, <1>12, <1>13, <1>14 DEF LinkProgress, LinkTrouble

\* Every step.
LEMMA FitNext == ASSUME FitInv, HandInv, TypeInv, [Next]_vars PROVE FitInv'
<1>1. CASE Application  BY <1>1, FitApplication
<1>2. CASE LinkRuns \/ LinkFails  BY <1>2, FitLink DEF LinkRuns, LinkFails, above
<1>3. CASE SM_Handler  BY <1>3, FitSm
<1>4. CASE \/ AL_Request \/ (AL_Handler /\ UNCHANGED sm) \/ DS_Handler \/ ODE_Handler \/ CM_Handler
  <2>1. UNCHANGED sm  BY <1>4 DEF AL_Request, DS_Handler, ODE_Handler, CM_Handler
  <2> QED BY <1>4, <2>1, FitMaster
<1>5. CASE UNCHANGED vars  BY <1>5 DEF vars, link, above, FitInv
<1> QED BY <1>1, <1>2, <1>3, <1>4, <1>5 DEF Next, Master

\* A port at rest awaits nothing.
LEMMA FitInit == ASSUME Init PROVE FitInv
<1>1. jobs = <<>> /\ dl.acc = "none"  BY DEF Init, DlInit
<1>2. No(jobs, "good")  BY <1>1, KindNone
<1> QED BY <1>1, <1>2 DEF FitInv, Fits, No

\* The start-up's invariants, all of them.
LEMMA StartsHold == Spec => [](HandInv /\ ErrorInv /\ FitInv)
<1>1. Init => HandInv /\ ErrorInv /\ FitInv  BY HandInit, FitInit
<1>2. HandInv /\ ErrorInv /\ FitInv /\ TypeInv /\ IsduInv /\ [Next]_vars
      => (HandInv /\ ErrorInv /\ FitInv)'
  BY HandNext, FitNext
<1>3. Spec => []IsduInv  BY JobsProper, IsduInit, IsduNext, PTL DEF Spec
<1> QED BY <1>1, <1>2, <1>3, TypesHold, PTL DEF Spec

\* SM is told of no access but the one it waits for, whatever is refused, lost or unplugged
\* while the device starts (iolink_sm.c, sm_DL_Read_cnf_cb and sm_DL_Write_cnf_cb), and
\* wherever Configure allows a configuration: while SM and DS have nothing under way.
THEOREM PortExpects == Spec => []SmExpects
<1>1. TypeInv /\ FitInv => SmExpects
  <2> SUFFICES ASSUME TypeInv, FitInv, Due("DL_CNF"), DueArg("DL_CNF").ok
               PROVE sm.state \in DOMAIN Expected /\ DueArg("DL_CNF").what \in Expected[sm.state]
    BY DEF SmExpects
  <2>1. IsSeq(jobs) /\ jobs # <<>>  BY DEF TypeInv, Sound, Due
  <2>2. 1 \in DOMAIN jobs /\ jobs[1] = Head(jobs)  BY <2>1, TailSeq
  <2>3. Kind(jobs[1], "good")  BY <2>2 DEF Due, DueArg, Kind
  <2> QED BY <2>2, <2>3 DEF FitInv, Fits, Awaited, Expecting, DueArg
<1> QED BY <1>1, StartsHold, TypesHold, PTL

-----------------------------------------------------------------------------
(***************************************************************************)
(* The services of AL, from the request in the mailbox to its confirmation: *)
(* SM's one at a time is the agreement above (AskRules).  The on-request     *)
(* exchange is stopped and started again by jobs that overtake nothing, so  *)
(* what it must not meet is a request of its own from before the stop: the  *)
(* start-up in between has read a serial number behind it.                  *)
(***************************************************************************)
\* The exchange has no service with AL, nor one on its way there or back.
Free(s, a) == a.owner # "ODE" /\ Without(s, "ode")

\* The exchange has one service at most, and none while it is active.
OneRules(s, a, o) ==
  /\ a.owner = "ODE" => Without(s, "ode")
  /\ Behind(s, "ode", "ode")
  /\ o = "Active" => Free(s, a)
\* It is started when it is stopped, and then has none.
BeginRules(s, a, o) ==
  /\ ~Without(s, "begin") => o = "Inactive" /\ Free(s, a)
  /\ Behind(s, "begin", "begin")
\* A stop comes before the configuration it belongs to, and SM's word of a device has come
\* before the next configuration.
StopRules(s) ==
  /\ Behind(s, "cfg", "stop")
  /\ ~Without(s, "stop") => ~Without(s, "cfg")
  /\ ~Without(s, "cfg") => Without(s, "ready")
\* While a device starts: a request left from before has come to AL when the session starts,
\* and its answer has gone when the serial number is confirmed.
SessionRules(s, d, q, a) ==
  /\ Behind(s, "start", "req")
  /\ ~Without(s, "req") => /\ q \notin Waits \cup {"wait"} /\ ~Token(s, d)
                           /\ q = "checkSerNum" => ~Asked(s, a)
  /\ q = "checkSerNum" => Behind(s, "good", "ode") /\ (~Without(s, "good") => a.owner # "ODE")
  /\ ~Without(s, "ready") => Free(s, a)

\* The services, of the jobs s, the data link d, the states q of SM, o of the exchange and c
\* of CM, and AL's service a.
ServiceAt(s, d, q, a, o, c) ==
  /\ OneRules(s, a, o) /\ BeginRules(s, a, o) /\ StopRules(s)
  /\ c = "SM_Startup" /\ Without(s, "cfg")
       => o = "Inactive" /\ Without(s, "begin") /\ SessionRules(s, d, q, a)
  /\ c \in {"DS_ParamManager", "WaitingOnOperate"}
       => o = "Inactive" /\ Without(s, "begin") /\ Free(s, a)
ServiceInv == ServiceAt(jobs, dl, sm.state, al, ode.state, cm.state)

\* The data link posts.
LEMMA ServicePost ==
  ASSUME NEW s, NEW d, NEW q, NEW a, NEW o, NEW c, NEW e, NEW p, IsSeq(s), IsSeq(p),
         ServiceAt(s, d, q, a, o, c), \A k : k # "start" => Without(p, k),
         No(p, "al"), Token(s \o p, e) => Token(s, d)
  PROVE ServiceAt(s \o p, e, q, a, o, c)
<1> DEFINE r == s \o p
<1>1. /\ \A k : k # "start" => (Without(r, k) <=> Without(s, k))
      /\ \A k, l : k # "start" /\ l # "start" => (Behind(r, k, l) <=> Behind(s, k, l))
      /\ Behind(s, "start", "req") => Behind(r, "start", "req")
      /\ No(r, "al") <=> No(s, "al")
  <2>1. \A k, l : k # "start" \/ l # "start" => Behind(p, k, l)  BY SortsWithin
  <2> QED BY <2>1, SortBoth, KindBoth
<1>2. Token(r, e) => Token(s, d)  OBVIOUS
<1> HIDE DEF r
<1>3. OneRules(r, a, o) /\ BeginRules(r, a, o) /\ StopRules(r)
  BY <1>1 DEF ServiceAt, OneRules, BeginRules, StopRules, Free
<1>4. SessionRules(s, d, q, a) => SessionRules(r, e, q, a)
  BY <1>1, <1>2 DEF SessionRules, Asked, Free
<1> QED BY <1>1, <1>3, <1>4 DEF ServiceAt, Free, r

\* The head leaves, and nothing that matters joins.
LEMMA ServiceTake ==
  ASSUME NEW s, NEW d, NEW q, NEW a, NEW o, NEW c, NEW p, IsSeq(s), s # <<>>, Indifferent(p),
         ServiceAt(s, d, q, a, o, c), Sort(Head(s), "cfg") => c # "SM_Startup"
  PROVE ServiceAt(Tail(s) \o p, d, q, a, o, c)
<1> DEFINE t == Tail(s)
           h == Head(s)
<1>1. /\ IsSeq(t)
      /\ \A k : Without(s, k) <=> ~Sort(h, k) /\ Without(t, k)
      /\ \A k, l : Behind(s, k, l) <=> Behind(t, k, l) /\ (Sort(h, k) => Without(t, l))
      /\ \A k : No(s, k) <=> ~Kind(h, k) /\ No(t, k)
  BY SortTail, KindTail
<1>2. c = "SM_Startup" => ~Sort(h, "cfg")  OBVIOUS
<1> HIDE DEF t, h
<1>3. OneRules(t, a, o) /\ BeginRules(t, a, o) /\ StopRules(t)
  BY <1>1 DEF ServiceAt, OneRules, BeginRules, StopRules, Free
<1>4. (Token(t, d) => Token(s, d)) /\ (Asked(t, a) => Asked(s, a))  BY <1>1 DEF Token, Asked
<1>5. SessionRules(s, d, q, a) => SessionRules(t, d, q, a)
  BY <1>1, <1>4 DEF SessionRules, Free
<1>6. ServiceAt(t, d, q, a, o, c)  BY <1>1, <1>2, <1>3, <1>5 DEF ServiceAt, Free
<1>7. Token(t \o p, d) => Token(t, d)  BY <1>1, KindBoth DEF Token, Indifferent, Aside
<1> QED BY <1>1, <1>6, <1>7, ServicePost DEF t, Indifferent, Aside

-----------------------------------------------------------------------------
\* SM: the jobs it posts, and what it must have been told to access the data link, to wait
\* for it, and to find the serial number confirmed.
SmServes ==
  LET h == Head(jobs) IN
  \E p : /\ IsSeq(p) /\ Handled(p)
         /\ \A k : k # "ready" => Without(p, k)
         /\ ~Without(p, "ready") => sm.state = "checkSerNum" /\ Sort(h, "good")
         /\ dl'.acc # dl.acc \/ ~No(p, "cnf") => Kind(h, "cnf") \/ Kind(h, "start")
         /\ sm'.state \in Waits => sm'.state = sm.state \/ Kind(h, "cnf")
         /\ sm'.state = "wait" => \/ sm.state = "wait" /\ ~Kind(h, "cfg")
                                  \/ sm.state = "checkSerNum" /\ Kind(h, "al")
         /\ sm'.state = "checkSerNum" => \/ sm.state \in Waits
                                         \/ sm.state = "checkSerNum" /\ No(p, "al")

\* What an action of the table posts.
LEMMA SmDoPosts ==
  ASSUME LinkTyped, NEW do, NEW s, NEW event, SmDo(do, s, event), Context(s),
         do = "dido" => s.cfg.mode # "COMREADY"
  PROVE \E p : /\ IsSeq(p) /\ Handled(p) /\ sm'.state = s.state
               /\ \A k : k # "ready" => Without(p, k)
               /\ ~Without(p, "ready") => do = "comready"
               /\ dl'.acc # dl.acc \/ ~No(p, "cnf") => do \in Accessing
               /\ ~No(p, "al") => do \in {"serial", "write_cycl"}
<1> DEFINE Goal == \E p : /\ IsSeq(p) /\ Handled(p) /\ sm'.state = s.state
                          /\ \A k : k # "ready" => Without(p, k)
                          /\ ~Without(p, "ready") => do = "comready"
                          /\ dl'.acc # dl.acc \/ ~No(p, "cnf") => do \in Accessing
                          /\ ~No(p, "al") => do \in {"serial", "write_cycl"}
           Plainly(p) == IsSeq(p) /\ (\A k : Without(p, k)) /\ No(p, "cnf") /\ No(p, "al")
<1>1. ASSUME NEW x, NEW e, NEW p, Calls(x, e, p), e.acc = dl.acc, x.state = s.state, Plainly(p)
      PROVE Goal
  BY <1>1 DEF Calls
<1>2. \A mode : /\ IsSeq(<<PortMode(mode)>>) /\ No(<<PortMode(mode)>>, "cnf")
                /\ No(<<PortMode(mode)>>, "al")
                /\ \A k : Without(<<PortMode(mode)>>, k) <=> ~(k = "ready" /\ mode = "COMREADY")
  BY SmTells, SortOne, SortNames DEF Aside
<1>3. Plainly(<<>>)  BY KindNone, SortOne
<1>4. \A mode : Plainly(DevicemodeCnf(dl, mode))
  <2>1. \A k, arg : ~Sort(JobArg("DEVMODE_CNF", arg), k)  BY SortNames
  <2>2. ASSUME NEW mode PROVE Plainly(DevicemodeCnf(dl, mode))
    <3>1. DevicemodeCnf(dl, mode) = <<>> \/ \E arg : DevicemodeCnf(dl, mode) = <<JobArg("DEVMODE_CNF", arg)>>
      BY DEF DevicemodeCnf
    <3>2. \A k : Without(DevicemodeCnf(dl, mode), k)  BY <2>1, <3>1, SortOne
    <3> QED BY <3>2, SmTells
  <2> QED BY <2>2
<1>5. \A mode : /\ SetMode(dl, mode).acc = dl.acc /\ SetMode(SetSDCI(dl), mode).acc = dl.acc
                /\ Devicemode(dl, mode).acc = dl.acc
  BY DEF SetMode, SetSDCI, Devicemode, LinkTyped, DlInit
<1>6. ASSUME NEW x, NEW what, SmAccess(x, what), x.state = s.state, do \in Accessing PROVE Goal
  <2>1. sm' = x /\ Handled(AccessCnf(dl, what))  BY <1>6 DEF SmAccess, Calls
  <2> DEFINE j == JobArg("DL_CNF", [what |-> what, ok |-> FALSE])
  <2>2. (\A k : ~Sort(j, k)) /\ ~Kind(j, "al")  BY KindNames, SortNames
  <2>3. AccessCnf(dl, what) \in {<<>>, <<j>>}  BY DEF AccessCnf
  <2> HIDE DEF j
  <2>4. IsSeq(AccessCnf(dl, what)) /\ (\A k : Without(AccessCnf(dl, what), k)) /\ No(AccessCnf(dl, what), "al")
    BY <1>3, <2>2, <2>3, KindOne, SortOne
  <2> QED BY <1>6, <2>1, <2>4
<1>7. ASSUME NEW op, Calls(s, dl, <<AlReq("SM", op)>>), do \in {"serial", "write_cycl"} PROVE Goal
  <2> DEFINE j == AlReq("SM", op)
  <2>1. (\A k : ~Sort(j, k)) /\ ~Kind(j, "cnf")  BY KindNames, SortNames
  <2>2. sm' = s /\ dl' = dl /\ Handled(<<j>>)  BY <1>7 DEF Calls
  <2> HIDE DEF j
  <2>3. IsSeq(<<j>>) /\ (\A k : Without(<<j>>, k)) /\ No(<<j>>, "cnf")  BY <2>1, KindOne, SortOne
  <2> QED BY <1>7, <2>2, <2>3
<1>8. ASSUME NEW x, NEW e, NEW mode, Calls(x, e, <<PortMode(mode)>>), e.acc = dl.acc,
             x.state = s.state, mode # "COMREADY" \/ do = "comready"
      PROVE Goal
  <2> DEFINE p == <<PortMode(mode)>>
  <2>1. sm' = x /\ dl' = e /\ Handled(p)  BY <1>8 DEF Calls
  <2>2. /\ IsSeq(p) /\ No(p, "cnf") /\ No(p, "al")
        /\ \A k : Without(p, k) <=> ~(k = "ready" /\ mode = "COMREADY")
    BY <1>2
  <2> HIDE DEF p
  <2> QED BY <1>8, <2>1, <2>2
<1> HIDE DEF Goal, Plainly
<1>9. /\ [s EXCEPT !.retry = 0].state = s.state
      /\ [s EXCEPT !.retry = @ + 1].state = s.state
      /\ [s EXCEPT !.error = "none"].state = s.state
  BY DEF Context, SmInit
<1>10. CASE do \in Accessing
  <2>1. \E x, what : SmAccess(x, what) /\ x.state = s.state  BY <1>10, SmDoAccess
  <2> QED BY <1>6, <1>10, <2>1 DEF Goal
<1>11. CASE do = "fault"
  <2>1. \E e \in {dl, SetMode(dl, FaultMode(event))} : Calls(s, e, <<PortMode("FAULT")>>)
    BY <1>11 DEF SmDo, SmFault
  <2> QED BY <1>5, <1>8, <2>1 DEF Goal
<1>12. CASE do \in {"serial", "write_cycl"}
  <2>1. \E op : Calls(s, dl, <<AlReq("SM", op)>>)  BY <1>12 DEF SmDo
  <2> QED BY <1>7, <1>12, <2>1 DEF Goal
<1>13. CASE do \in {"comready", "comlost", "operate_ind"}  BY <1>5, <1>8, <1>13 DEF SmDo, Goal
<1>14. CASE do = "inactive"
  <2>1. Calls([s EXCEPT !.error = "none"], SetMode(dl, "INACTIVE"), <<PortMode("INACTIVE")>>)
    BY <1>14 DEF SmDo
  <2> QED BY <1>5, <1>8, <1>9, <2>1 DEF Goal
<1>15. CASE do = "dido"
  <2>1. Calls(s, SetMode(SetSDCI(dl), "INACTIVE"), <<PortMode(s.cfg.mode)>>)  BY <1>15 DEF SmDo
  <2> QED BY <1>5, <1>8, <1>15, <2>1 DEF Goal
<1>16. CASE do = "start"
  <2>1. Calls([s EXCEPT !.error = "none"], SetMode(SetSDCI(dl), "STARTUP"), <<>>)  BY <1>16 DEF SmDo
  <2> QED BY <1>1, <1>3, <1>5, <1>9, <2>1 DEF Goal
<1>17. CASE do \in {"fallback", "devmode"}  BY <1>1, <1>4, <1>5, <1>17 DEF SmDo, Goal
<1>18. CASE do \notin Accessing \cup {"fault", "serial", "write_cycl", "comready", "comlost",
                                      "inactive", "start", "dido", "operate_ind", "fallback",
                                      "devmode"}
  BY <1>1, <1>3, <1>18 DEF SmDo, Accessing, Goal
<1> QED BY <1>10, <1>11, <1>12, <1>13, <1>14, <1>15, <1>16, <1>17, <1>18 DEF Goal

\* The events of the accesses' ends.
Confirmed == {"NOT_V10", "V10", "CompOK", "REVISION_OK", "RETRY", "RevisionFault", "CompFault",
              "CycTimeFault", "WriteDone"}

\* The rows that access the data link, and those that lead to the states that wait.
LEMMA RowsServe == \A t \in SmTable :
  /\ t[4] \in Accessing => t[2] \in Confirmed \cup {"DL_STARTUP"}
  /\ t[3] \in Waits => t[2] = "CompOK"
  /\ t[4] = "comready" \/ t[3] = "wait" => t[1] = "checkSerNum" /\ t[2] = "SerNumOK"
  /\ t[3] = "checkSerNum" => t[1] \in Waits
  /\ t[4] = "dido" => t[2] = "CFG_DIDO"
BY DEF SmTable, Accessing, Confirmed, Waits

\* An event that SM processes,
LEMMA SmEventServes ==
  ASSUME LinkTyped, NEW s, NEW event, SmEvent(s, event), Context(s), s.state = sm.state,
         event \in Confirmed \cup {"DL_STARTUP"} => Kind(Head(jobs), "cnf") \/ Kind(Head(jobs), "start"),
         event = "CompOK" => Kind(Head(jobs), "cnf"),
         event = "SerNumOK" => Sort(Head(jobs), "good"),
         event = "CFG_DIDO" => s.cfg.mode \in {"DI", "DO"},
         Kind(Head(jobs), "cfg") => sm.state # "wait" \/ SmRows(sm.state, event) # {}
  PROVE SmServes
<1>1. ASSUME NEW t \in SmRows(s.state, event), SmDo(t[4], [s EXCEPT !.state = t[3]], event)
      PROVE SmServes
  <2> DEFINE x == [s EXCEPT !.state = t[3]]
  <2>1. t \in SmTable /\ t[1] = sm.state /\ t[2] = event  BY DEF SmRows
  <2>2. Context(x) /\ x.state = t[3] /\ x.cfg = s.cfg
    BY <2>1, RowsTyped DEF Context, SmInit
  <2>3. /\ t[4] \in Accessing => event \in Confirmed \cup {"DL_STARTUP"}
        /\ t[3] \in Waits => event = "CompOK"
        /\ t[4] = "comready" \/ t[3] = "wait" => sm.state = "checkSerNum" /\ event = "SerNumOK"
        /\ t[3] = "checkSerNum" => sm.state \in Waits
        /\ t[4] = "dido" => event = "CFG_DIDO"
    BY <2>1, RowsServe
  <2>4. SmDo(t[4], x, event)  BY <1>1
  <2> HIDE DEF x
  <2>5. PICK p : /\ IsSeq(p) /\ Handled(p) /\ sm'.state = x.state
                 /\ \A k : k # "ready" => Without(p, k)
                 /\ ~Without(p, "ready") => t[4] = "comready"
                 /\ dl'.acc # dl.acc \/ ~No(p, "cnf") => t[4] \in Accessing
    BY <2>2, <2>3, <2>4, SmDoPosts
  <2>6. Sort(Head(jobs), "good") => Kind(Head(jobs), "al")  BY DEF Sort, Kind
  <2> QED BY <2>2, <2>3, <2>5, <2>6 DEF SmServes
<1>2. ASSUME Calls(s, dl, <<>>), SmRows(s.state, event) = {} PROVE SmServes
  <2>1. Handled(<<>>) /\ sm'.state = sm.state /\ dl'.acc = dl.acc  BY <1>2 DEF Calls
  <2>2. IsSeq(<<>>) /\ (\A k : Without(<<>>, k)) /\ \A k : No(<<>>, k)  BY KindNone, SortOne
  <2>3. sm.state = "wait" => ~Kind(Head(jobs), "cfg")  BY <1>2
  <2> QED BY <2>1, <2>2, <2>3 DEF SmServes
<1> QED BY <1>1, <1>2 DEF SmEvent

\* and a job of SM.
LEMMA SmServed == ASSUME TypeInv, ErrorInv, SM_Handler PROVE SmServes
<1> DEFINE h == Head(jobs)
<1>1. Context(sm) /\ LinkTyped  BY DEF TypeInv, SmTyped, Context
<1>2. ASSUME NEW e, NEW p, e.acc = dl.acc, IsSeq(p), \A k : Without(p, k), No(p, "cnf"), No(p, "al"),
             dl' = e, Handled(p), sm'.state = sm.state \/ sm'.state = "SMOperate",
             ~Kind(h, "cfg") \/ sm.state # "wait"
      PROVE SmServes
  <2>1. sm'.state \in Waits => sm'.state = sm.state  BY <1>2 DEF Waits
  <2> QED BY <1>2, <2>1 DEF SmServes
<1>3. ASSUME NEW mode, mode # "COMREADY"
      PROVE LET p == <<PortMode(mode)>> IN
            IsSeq(p) /\ (\A k : Without(p, k)) /\ No(p, "cnf") /\ No(p, "al")
  BY <1>3, SmTells, SortOne, SortNames DEF Aside
<1>4. IsSeq(<<>>) /\ (\A k : Without(<<>>, k)) /\ No(<<>>, "cnf") /\ No(<<>>, "al")
  BY KindNone, SortOne
<1>5. ASSUME NEW s, NEW event, SmEvent(s, event), Context(s), s.state = sm.state,
             event \notin Confirmed \cup {"DL_STARTUP", "SerNumOK", "CFG_DIDO"}, ~Kind(h, "cfg")
      PROVE SmServes
  <2>1. event # "CompOK"  BY <1>5 DEF Confirmed
  <2> QED BY <1>1, <1>5, <2>1, SmEventServes
<1>6. dev.id \in Names  BY DEF TypeInv, CableTyped, Names
<1>7. \A s, event : Context(s) => Context(WithError(s, event)) /\ WithError(s, event).state = s.state
  BY DEF Context, SmInit, WithError
<1>8. \A mode : SetMode(dl, mode).acc = dl.acc  BY <1>1 DEF SetMode, LinkTyped, DlInit
<1>9. ASSUME SM_SetPortConfig PROVE SmServes
  <2> DEFINE s == [sm EXCEPT !.cfg = DueArg("SM_CONFIG")]
  <2>1. Context(s) /\ s.state = sm.state /\ s.cfg = DueArg("SM_CONFIG")  BY <1>1 DEF Context, SmInit
  <2> HIDE DEF s
  <2>2. CASE sm.state \notin TakesConfig
    <3>1. sm.state # "wait" /\ Calls(sm, dl, <<>>)  BY <1>9, <2>2 DEF SM_SetPortConfig, TakesConfig
    <3> QED BY <1>2, <1>4, <3>1 DEF Calls
  <2>3. CASE sm.state \in TakesConfig
    <3>1. PICK event \in {"CFG_COM", "CFG_DIDO", "CFG_INACTIVE"} :
            SmEvent(s, event) /\ (event = "CFG_DIDO" => s.cfg.mode \in {"DI", "DO"})
      BY <1>9, <2>1, <2>3 DEF SM_SetPortConfig, s
    <3>2. event \notin Confirmed \cup {"DL_STARTUP", "SerNumOK", "CompOK"}  BY DEF Confirmed
    <3>3. sm.state = "wait" => SmRows(sm.state, event) # {}
      <4>1. \A e \in {"CFG_COM", "CFG_DIDO", "CFG_INACTIVE"} : \E t \in SmTable : t[1] = "wait" /\ t[2] = e
        <5>1. /\ <<"wait", "CFG_COM", "PortInactive", "start">> \in SmTable
              /\ <<"wait", "CFG_DIDO", "DIDO", "dido">> \in SmTable
              /\ <<"wait", "CFG_INACTIVE", "waitForFallback", "fallback">> \in SmTable
          BY DEF SmTable
        <5> QED BY <5>1
      <4> QED BY <4>1 DEF SmRows
    <3> QED BY <1>1, <2>1, <3>1, <3>2, <3>3, SmEventServes
  <2> QED BY <2>2, <2>3
<1>10. ASSUME SM_Operate PROVE SmServes
  <2>1. \E event \in {"OPERATE_V10", "CYCL_REQ"} : SmEvent(sm, event)  BY <1>10 DEF SM_Operate
  <2>2. ~Kind(h, "cfg")  BY <1>10 DEF SM_Operate, Due, Kind
  <2> QED BY <1>1, <1>5, <2>1, <2>2 DEF Confirmed
<1>11. ASSUME SM_Mode PROVE SmServes
  <2>1. ~Kind(h, "cfg")  BY <1>11 DEF SM_Mode, Due, Kind
  <2>2. \/ Calls(sm, dl, <<>>)
        \/ \E mode \in {"INACTIVE", "COMLOST"} : Calls(sm, dl, <<PortMode(mode)>>)
        \/ \E event \in {"DL_PREOPERATE", "DL_OPERATE", "DL_COMLOST"} : SmEvent(sm, event)
        \/ DueArg("MODE") = "STARTUP" /\ SmEvent(sm, "DL_STARTUP")
    BY <1>11 DEF SM_Mode
  <2>3. DueArg("MODE") = "STARTUP" => Kind(h, "start")  BY <1>11 DEF SM_Mode, Due, DueArg, Kind
  <2>4. CASE Calls(sm, dl, <<>>)  BY <1>2, <1>4, <2>1, <2>4 DEF Calls
  <2>5. ASSUME NEW mode \in {"INACTIVE", "COMLOST"}, Calls(sm, dl, <<PortMode(mode)>>) PROVE SmServes
    BY <1>2, <1>3, <2>1, <2>5 DEF Calls
  <2>6. ASSUME NEW event \in {"DL_PREOPERATE", "DL_OPERATE", "DL_COMLOST"}, SmEvent(sm, event)
        PROVE SmServes
    BY <1>1, <1>5, <2>1, <2>6 DEF Confirmed
  <2>7. CASE DueArg("MODE") = "STARTUP" /\ SmEvent(sm, "DL_STARTUP")
    BY <1>1, <2>1, <2>3, <2>7, SmEventServes
  <2> QED BY <2>2, <2>4, <2>5, <2>6, <2>7
<1>12. ASSUME SM_DLCnf PROVE SmServes
  <2>1. Kind(h, "cnf") /\ ~Kind(h, "cfg")  BY <1>12 DEF SM_DLCnf, Due, Kind
  <2>2. ASSUME NEW s, NEW event, SmEvent(s, event), Context(s), s.state = sm.state,
               event \notin {"SerNumOK", "CFG_DIDO"}
        PROVE SmServes
    BY <1>1, <2>1, <2>2, SmEventServes
  <2>3. CASE ~DueArg("DL_CNF").ok  BY <1>1, <1>12, <2>2, <2>3 DEF SM_DLCnf
  <2>4. CASE DueArg("DL_CNF").ok /\ sm.state = "ReadCom"
    <3>1. \A v : Context([sm EXCEPT !.rev = v]) /\ [sm EXCEPT !.rev = v].state = sm.state
      BY <1>1 DEF Context, SmInit
    <3>2. \E v : \E event \in {"V10", "NOT_V10"} : SmEvent([sm EXCEPT !.rev = v], event)
      BY <1>12, <2>4 DEF SM_DLCnf
    <3> QED BY <2>2, <3>1, <3>2
  <2>5. CASE DueArg("DL_CNF").ok /\ sm.state \in {"CheckComp", "CheckCompV10"}
    <3> DEFINE s == [sm EXCEPT !.id = dev.id]
    <3>1. Context(s) /\ s.state = sm.state  BY <1>1, <1>6 DEF Context, SmInit
    <3>2. CompEvent(s) \notin {"SerNumOK", "CFG_DIDO"}  BY DEF CompEvent
    <3> HIDE DEF s
    <3>3. SmEvent(WithError(s, CompEvent(s)), CompEvent(s))  BY <1>12, <2>5 DEF SM_DLCnf, s
    <3> QED BY <1>7, <2>2, <3>1, <3>2, <3>3
  <2>6. CASE DueArg("DL_CNF").ok /\ sm.state = "CheckVxy"
    <3>1. RevisionEvent(sm) \notin {"SerNumOK", "CFG_DIDO"}  BY DEF RevisionEvent
    <3> QED BY <1>1, <1>7, <1>12, <2>2, <2>6, <3>1 DEF SM_DLCnf
  <2>7. CASE DueArg("DL_CNF").ok /\ sm.state \in Waits
    <3>1. \E mode : Calls(sm, SetMode(dl, mode), <<>>)  BY <1>12, <2>7 DEF SM_DLCnf, Waits
    <3> QED BY <1>2, <1>4, <1>8, <2>1, <3>1 DEF Calls
  <2>8. CASE /\ DueArg("DL_CNF").ok
             /\ sm.state \notin Waits \cup {"ReadCom", "CheckComp", "CheckCompV10", "CheckVxy"}
    <3>1. \E event \in {"WriteDone", sm.error} : SmEvent(sm, event)
      BY <1>12, <2>8 DEF SM_DLCnf, Waits
    <3>2. sm.error \notin {"SerNumOK", "CFG_DIDO"}  BY DEF ErrorInv, Errors
    <3> QED BY <1>1, <2>2, <3>1, <3>2
  <2> QED BY <2>3, <2>4, <2>5, <2>6, <2>7, <2>8
<1>13. ASSUME SM_ALCnf PROVE SmServes
  <2> DEFINE s == [sm EXCEPT !.error = "SerNumFault"]
  <2>1. Context(s) /\ s.state = sm.state  BY <1>1 DEF Context, SmInit
  <2>2. ~Kind(h, "cfg")  BY <1>13 DEF SM_ALCnf, Due, Kind
  <2> HIDE DEF s
  <2>3. \/ SmEvent(s, "SerNumFault")
        \/ \E event \in {"CNF_COMLOST", "DL_COMLOST", "CYCL_DONE"} : SmEvent(sm, event)
        \/ SmEvent(sm, "SerNumOK") /\ h.rw = "read" /\ h.err \in {"NONE", "NOTAVAIL"}
    BY <1>13 DEF SM_ALCnf, SM_SerialCnf, SM_CyclCnf, s
  <2>4. CASE SmEvent(s, "SerNumFault")  BY <1>5, <2>1, <2>2, <2>4 DEF Confirmed
  <2>5. ASSUME NEW event \in {"CNF_COMLOST", "DL_COMLOST", "CYCL_DONE"}, SmEvent(sm, event)
        PROVE SmServes
    BY <1>1, <1>5, <2>2, <2>5 DEF Confirmed
  <2>6. CASE SmEvent(sm, "SerNumOK") /\ h.rw = "read" /\ h.err \in {"NONE", "NOTAVAIL"}
    <3>1. Sort(h, "good")  BY <1>13, <2>6 DEF SM_ALCnf, Due, Sort
    <3>2. "SerNumOK" \notin Confirmed  BY DEF Confirmed
    <3> QED BY <1>1, <2>2, <2>6, <3>1, <3>2, SmEventServes
  <2> QED BY <2>3, <2>4, <2>5, <2>6
<1>14. ASSUME SM_DevmodeCnf PROVE SmServes
  <2>1. ~Kind(h, "cfg")  BY <1>14 DEF SM_DevmodeCnf, Due, Kind
  <2>2. CASE DueArg("DEVMODE_CNF") /\ sm.state = "wait_devmode_cnf"
    <3>1. \E p \in {<<>>, <<PortMode("OPERATE")>>} :
            sm'.state = "SMOperate" /\ dl' = SetMode(dl, "OPERATE") /\ Handled(p)
      BY <1>1, <1>14, <2>2 DEF SM_DevmodeCnf, Context, SmInit
    <3> QED BY <1>2, <1>3, <1>4, <1>8, <2>1, <3>1
  <2>3. CASE ~(DueArg("DEVMODE_CNF") /\ sm.state = "wait_devmode_cnf")
    <3>1. \E event \in {"CFG_INACTIVE", "CNF_COMLOST", "DL_COMLOST"} : SmEvent(sm, event)
      BY <1>14, <2>3 DEF SM_DevmodeCnf
    <3>2. \A event \in {"CFG_INACTIVE", "CNF_COMLOST", "DL_COMLOST"} :
            event \notin Confirmed \cup {"DL_STARTUP", "SerNumOK", "CFG_DIDO"}
      BY DEF Confirmed
    <3> QED BY <1>1, <1>2, <1>4, <1>5, <2>1, <3>1, <3>2
  <2> QED BY <2>2, <2>3
<1> QED BY <1>9, <1>10, <1>11, <1>12, <1>13, <1>14 DEF SM_Handler

-----------------------------------------------------------------------------
\* SM keeps the services' rules: while a device starts no request of the exchange's is left
\* where SM goes on, and SM says that the device is ready behind the last of them.
LEMMA ServiceSm ==
  ASSUME ServiceInv, HandInv, ErrorInv, ExchangeInv, TypeInv, SM_Handler, UNCHANGED <<ode, cm>>
  PROVE ServiceInv'
<1> DEFINE s == jobs
           t == Tail(jobs)
           h == Head(jobs)
           q == sm.state
           r == sm'.state
           o == ode.state
           c == cm.state
<1>1. /\ IsSeq(s) /\ s # <<>> /\ h.type # "OD_STOP" /\ UNCHANGED al
  BY DEF SM_Handler, SM_SetPortConfig, SM_Operate, SM_Mode, SM_DLCnf, SM_ALCnf, SM_DevmodeCnf, Due,
         TypeInv, Sound
<1>2. PICK p : /\ IsSeq(p) /\ Handled(p)
               /\ \A k : k # "ready" => Without(p, k)
               /\ ~Without(p, "ready") => q = "checkSerNum" /\ Sort(h, "good")
               /\ dl'.acc # dl.acc \/ ~No(p, "cnf") => Kind(h, "cnf") \/ Kind(h, "start")
               /\ r \in Waits => r = q \/ Kind(h, "cnf")
               /\ r = "wait" => \/ q = "wait" /\ ~Kind(h, "cfg")
                                \/ q = "checkSerNum" /\ Kind(h, "al")
               /\ r = "checkSerNum" => \/ q \in Waits
                                       \/ q = "checkSerNum" /\ No(p, "al")
  BY SmServed DEF SmServes
<1> DEFINE u == t \o p
<1>3. jobs' = u  BY <1>2 DEF Handled
<1>4. /\ IsSeq(t)
      /\ \A k : No(s, k) <=> ~Kind(h, k) /\ No(t, k)
      /\ \A k : Without(s, k) <=> ~Sort(h, k) /\ Without(t, k)
      /\ \A k, l : Behind(s, k, l) <=> Behind(t, k, l) /\ (Sort(h, k) => Without(t, l))
  BY <1>1, KindTail, SortTail
<1> HIDE DEF t
<1>5. /\ \A k : k # "ready" => (Without(u, k) <=> Without(t, k))
      /\ \A k, l : k # "ready" /\ l # "ready" => (Behind(u, k, l) <=> Behind(t, k, l))
      /\ Without(u, "ready") <=> Without(t, "ready") /\ Without(p, "ready")
      /\ \A k : No(u, k) <=> No(t, k) /\ No(p, k)
  <2>1. \A k, l : k # "ready" => Behind(p, k, l)  BY <1>2, SortsWithin
  <2>2. \A k : k # "ready" => Without(p, k)  BY <1>2
  <2> QED BY <1>2, <1>4, <2>1, <2>2, SortBoth, KindBoth
<1> HIDE DEF u
<1>6. ServiceAt(s, dl, q, al, o, c) /\ HandAt(s, dl, q, al)  BY DEF ServiceInv, HandInv
<1> HIDE DEF s, h, q, r, o, c
<1>7. Kind(h, "cfg") <=> Sort(h, "cfg")  BY DEF Kind, Sort
<1>8. /\ Kind(h, "start") <=> Sort(h, "start")
      /\ Sort(h, "good") => Kind(h, "al")
  BY DEF Kind, Sort
<1>9. Free(s, al) => Free(u, al)  BY <1>4, <1>5 DEF Free
<1>10. OneRules(u, al, o)  BY <1>4, <1>5, <1>6, <1>9 DEF ServiceAt, OneRules
<1>11. BeginRules(u, al, o)  BY <1>4, <1>5, <1>6, <1>9 DEF ServiceAt, BeginRules
<1>12. StopRules(u)
  <2>1. ~Without(p, "ready") => No(s, "cfg")
    BY <1>2, <1>4, <1>6, <1>8 DEF HandAt, ConfigRules, Asked
  <2>2. Without(s, "cfg") <=> No(s, "cfg")  BY SortsWithin
  <2> QED BY <1>4, <1>5, <1>6, <2>1, <2>2 DEF ServiceAt, StopRules
<1>13. ASSUME c \in {"DS_ParamManager", "WaitingOnOperate"}
       PROVE o = "Inactive" /\ Without(u, "begin") /\ Free(u, al)
  BY <1>4, <1>5, <1>6, <1>9, <1>13 DEF ServiceAt
<1>14. ASSUME c = "SM_Startup", Without(u, "cfg"), ~Kind(h, "cfg")
       PROVE o = "Inactive" /\ Without(u, "begin") /\ SessionRules(u, dl', r, al)
  <2>1. Without(s, "cfg")  BY <1>4, <1>5, <1>7, <1>14
  <2>2. o = "Inactive" /\ Without(s, "begin") /\ SessionRules(s, dl, q, al)
    BY <1>6, <1>14, <2>1 DEF ServiceAt
  <2>3. Behind(u, "start", "req")  BY <1>4, <1>5, <2>2 DEF SessionRules
  <2>4. ASSUME ~Without(u, "req")
        PROVE /\ r \notin Waits \cup {"wait"} /\ ~Token(u, dl')
              /\ r = "checkSerNum" => ~Asked(u, al)
    <3>1. ~Without(t, "req") /\ ~Without(s, "req")  BY <1>4, <1>5, <2>4
    <3>2. q \notin Waits \cup {"wait"} /\ ~Token(s, dl) /\ (q = "checkSerNum" => ~Asked(s, al))
      BY <2>2, <3>1 DEF SessionRules
    <3>3. ~Kind(h, "cnf")  BY <1>4, <3>2 DEF Token
    <3>4. ~Kind(h, "start")  BY <1>4, <1>8, <2>2, <3>1 DEF SessionRules
    <3>5. ~Token(u, dl')  BY <1>2, <1>4, <1>5, <3>2, <3>3, <3>4 DEF Token
    <3>6. q = "checkSerNum" => ~Kind(h, "al")  BY <1>4, <3>2 DEF Asked
    <3>7. r \notin Waits \cup {"wait"}  BY <1>2, <3>2, <3>3, <3>6
    <3>8. r = "checkSerNum" => ~Asked(u, al)  BY <1>2, <1>4, <1>5, <3>2 DEF Asked
    <3> QED BY <3>5, <3>7, <3>8
  <2>5. ASSUME r = "checkSerNum"
        PROVE Behind(u, "good", "ode") /\ (~Without(u, "good") => al.owner # "ODE")
    <3>1. CASE q \in Waits
      <4>1. No(s, "al")  BY <1>6, <3>1 DEF HandAt, AskRules, Asked, Waits
      <4>2. Without(s, "good")  BY <4>1, SortsWithin
      <4>3. Without(u, "good")  BY <1>4, <1>5, <4>2
      <4> QED BY <4>3, SortsWithin
    <3>2. CASE q = "checkSerNum"  BY <1>4, <1>5, <2>2, <3>2 DEF SessionRules
    <3> QED BY <1>2, <2>5, <3>1, <3>2
  <2>6. ASSUME ~Without(u, "ready") PROVE Free(u, al)
    <3>1. CASE ~Without(t, "ready")  BY <1>4, <1>9, <2>2, <3>1 DEF SessionRules
    <3>2. CASE ~Without(p, "ready")
      BY <1>2, <1>4, <1>5, <2>2, <3>2 DEF SessionRules, Free
    <3> QED BY <1>5, <2>6, <3>1, <3>2
  <2> QED BY <1>4, <1>5, <2>2, <2>3, <2>4, <2>5, <2>6 DEF SessionRules
<1>15. ASSUME c = "SM_Startup", Without(u, "cfg"), Kind(h, "cfg")
       PROVE o = "Inactive" /\ Without(u, "begin") /\ SessionRules(u, dl', r, al)
  <2>1. ~No(s, "cfg") /\ ~Without(s, "cfg")  BY <1>4, <1>7, <1>15
  <2>2. Quelled(s, ode)  BY <1>15 DEF ExchangeInv, Exempt, c, s
  <2>3. \A i \in DOMAIN s : s[i].type # "OD_STOP"
    <3>1. Without(t, "stop") /\ ~Sort(h, "stop")
      BY <1>1, <1>4, <1>6, <1>7, <1>15 DEF ServiceAt, StopRules, Sort, h
    <3>2. Without(s, "stop")  BY <1>4, <3>1
    <3> QED BY <3>2 DEF Without, Sort
  <2>4. o = "Inactive" /\ NoStart(s)  BY <2>2, <2>3 DEF Quelled, StopAt, o
  <2>5. Without(s, "begin")  BY <2>4 DEF NoStart, Without, Sort
  <2>6. ~Token(s, dl) /\ No(s, "start") /\ q \notin Waits /\ (q = "checkSerNum" => ~Asked(s, al))
    BY <1>6, <2>1 DEF HandAt, StartRules, TokenRules, ConfigRules, Starting
  <2>7. Without(s, "ready")  BY <1>6, <2>1 DEF ServiceAt, StopRules
  <2>8. ~Kind(h, "cnf") /\ ~Kind(h, "start") /\ ~Kind(h, "al") /\ ~Sort(h, "good")
    BY <1>15 DEF Kind, Sort
  <2>9. Behind(u, "start", "req")
    <3>1. Without(s, "start")  BY <2>6, SortsWithin
    <3>2. Without(u, "start")  BY <1>4, <1>5, <3>1
    <3> QED BY <3>2, SortsWithin
  <2>10. r \notin Waits \cup {"wait"} /\ ~Token(u, dl')
    BY <1>2, <1>4, <1>5, <1>15, <2>6, <2>8 DEF Token
  <2>11. ASSUME r = "checkSerNum" PROVE ~Asked(u, al) /\ Without(u, "good")
    <3>1. q = "checkSerNum" /\ No(p, "al")  BY <1>2, <2>6, <2>11
    <3>2. ~Asked(s, al)  BY <2>6, <3>1
    <3>3. ~Asked(u, al)  BY <1>4, <1>5, <3>1, <3>2 DEF Asked
    <3>4. No(u, "al")  BY <3>3 DEF Asked
    <3> QED BY <3>3, <3>4, SortsWithin
  <2>12. Without(u, "good") => Behind(u, "good", "ode")  BY SortsWithin
  <2>13. Without(u, "ready")  BY <1>2, <1>4, <1>5, <2>7, <2>8
  <2>14. SessionRules(u, dl', r, al)  BY <2>9, <2>10, <2>11, <2>12, <2>13 DEF SessionRules
  <2> QED BY <1>4, <1>5, <2>4, <2>5, <2>14
<1>16. ServiceAt(u, dl', r, al, o, c)
  BY <1>10, <1>11, <1>12, <1>13, <1>14, <1>15 DEF ServiceAt
<1> QED BY <1>1, <1>3, <1>16 DEF ServiceInv, r, o, c

-----------------------------------------------------------------------------
\* AL takes a request on, refuses it, or answers the one it has.
LEMMA ServiceAnswer ==
  ASSUME NEW s, NEW d, NEW e, NEW q, NEW a, NEW b, NEW o, NEW c, NEW p,
         IsSeq(s), s # <<>>, IsSeq(p), ServiceAt(s, d, q, a, o, c),
         \A k : Sort(Head(s), k) => k \in {"ode", "req"} /\ Sort(Head(s), "req"),
         \A k : k \notin {"ode", "good"} => Without(p, k),
         Behind(p, "ode", "ode"),
         ~Without(p, "ode") \/ b.owner = "ODE" => Sort(Head(s), "ode") \/ a.owner = "ODE",
         b.owner = "ODE" => Without(p, "ode"),
         ~Without(p, "good") => a.owner = "SM" /\ Without(p, "ode") /\ b.owner # "ODE",
         Token(Tail(s) \o p, e) => Token(s, d), Asked(Tail(s) \o p, b) => Asked(s, a)
  PROVE ServiceAt(Tail(s) \o p, e, q, b, o, c)
<1> DEFINE t == Tail(s)
           h == Head(s)
           u == t \o p
<1>1. /\ IsSeq(t)
      /\ \A k : Without(s, k) <=> ~Sort(h, k) /\ Without(t, k)
      /\ \A k, l : Behind(s, k, l) <=> Behind(t, k, l) /\ (Sort(h, k) => Without(t, l))
  BY KindTail, SortTail
<1>2. /\ \A k : Sort(h, k) => k \in {"ode", "req"} /\ Sort(h, "req")
      /\ ~Without(p, "ode") \/ b.owner = "ODE" => Sort(h, "ode") \/ a.owner = "ODE"
      /\ Token(u, e) => Token(s, d)
      /\ Asked(u, b) => Asked(s, a)
  OBVIOUS
<1> HIDE DEF t, h
<1>3. /\ \A k : k \notin {"ode", "good"} => (Without(u, k) <=> Without(t, k))
      /\ \A k, l : k \notin {"ode", "good"} /\ l \notin {"ode", "good"}
                     => (Behind(u, k, l) <=> Behind(t, k, l))
      /\ Without(u, "ode") <=> Without(t, "ode") /\ Without(p, "ode")
      /\ Without(u, "good") <=> Without(t, "good") /\ Without(p, "good")
      /\ Behind(u, "ode", "ode") <=> Behind(t, "ode", "ode") /\ (Without(t, "ode") \/ Without(p, "ode"))
      /\ Behind(u, "good", "ode")
           <=> Behind(t, "good", "ode") /\ (Without(t, "good") \/ Without(p, "ode"))
  <2>1. \A k, l : k \notin {"ode", "good"} => Behind(p, k, l)  BY SortsWithin
  <2>2. Behind(p, "good", "ode")  BY SortsWithin
  <2> QED BY <1>1, <2>1, <2>2, SortBoth
<1> HIDE DEF u
<1>4. Free(s, a) => Free(u, b)  BY <1>1, <1>2, <1>3 DEF Free
<1>5. OneRules(u, b, o)
  <2>1. Sort(h, "ode") \/ a.owner = "ODE" => Without(t, "ode")
    BY <1>1 DEF ServiceAt, OneRules
  <2>2. b.owner = "ODE" => Without(u, "ode")  BY <1>2, <1>3, <2>1
  <2>3. Behind(u, "ode", "ode")  BY <1>1, <1>2, <1>3, <2>1 DEF ServiceAt, OneRules
  <2>4. o = "Active" => Free(u, b)  BY <1>4 DEF ServiceAt, OneRules
  <2> QED BY <2>2, <2>3, <2>4 DEF OneRules
<1>6. BeginRules(u, b, o)  BY <1>1, <1>2, <1>3, <1>4 DEF ServiceAt, BeginRules
<1>7. StopRules(u)  BY <1>1, <1>2, <1>3 DEF ServiceAt, StopRules
<1>8. ASSUME SessionRules(s, d, q, a) PROVE SessionRules(u, e, q, b)
  <2>1. Behind(u, "start", "req")  BY <1>1, <1>3, <1>8 DEF SessionRules
  <2>2. ~Without(u, "req") => /\ q \notin Waits \cup {"wait"} /\ ~Token(u, e)
                              /\ q = "checkSerNum" => ~Asked(u, b)
    BY <1>1, <1>2, <1>3, <1>8 DEF SessionRules
  <2>3. q = "checkSerNum" /\ ~Without(t, "good") => Without(p, "ode") /\ b.owner # "ODE"
    <3>1. SUFFICES ASSUME q = "checkSerNum", ~Without(t, "good") PROVE ~Sort(h, "ode") /\ a.owner # "ODE"
      BY <1>2
    <3>2. ~Without(s, "good")  BY <1>1, <3>1
    <3>3. a.owner # "ODE"  BY <1>8, <3>1, <3>2 DEF SessionRules
    <3>4. ~No(s, "al")  BY <3>2, SortsWithin
    <3>5. Without(s, "req")  BY <1>8, <3>1, <3>4 DEF SessionRules, Asked
    <3>6. ~Sort(h, "ode")  BY <1>1, <1>2, <3>5
    <3> QED BY <3>3, <3>6
  <2>4. q = "checkSerNum" => Behind(u, "good", "ode") /\ (~Without(u, "good") => b.owner # "ODE")
    BY <1>1, <1>3, <1>8, <2>3 DEF SessionRules
  <2>5. ~Without(u, "ready") => Free(u, b)  BY <1>1, <1>3, <1>4, <1>8 DEF SessionRules
  <2> QED BY <2>1, <2>2, <2>4, <2>5 DEF SessionRules
<1>9. /\ Without(u, "cfg") => Without(s, "cfg")
      /\ Without(s, "begin") => Without(u, "begin")
  BY <1>1, <1>2, <1>3
<1>10. ServiceAt(u, e, q, b, o, c)
  BY <1>4, <1>5, <1>6, <1>7, <1>8, <1>9 DEF ServiceAt
<1> QED BY <1>10 DEF u, t

\* A request comes to AL.
LEMMA ServiceRequest == ASSUME ServiceInv, TypeInv, AL_Request, UNCHANGED <<ode, cm>> PROVE ServiceInv'
<1> DEFINE j == Head(jobs)
           op == Resolved(j)
<1>1. jobs # <<>> /\ j.type = "AL_REQ" /\ IsSeq(jobs)
  BY DEF AL_Request, Due, TypeInv, Sound
<1>2. /\ Sort(j, "ode") <=> j.who = "ODE"
      /\ \A k : Sort(j, k) => k \in {"ode", "req"} /\ Sort(j, "req")
      /\ Kind(j, "al") <=> j.who = "SM"
  BY <1>1 DEF Sort, Kind
<1>3. AlTyped /\ LinkTyped  BY DEF TypeInv
<1>4. AL_ReadWrite(op) /\ UNCHANGED sm  BY DEF AL_Request
<1>5. /\ IsSeq(Tail(jobs))
      /\ \A k : No(jobs, k) <=> ~Kind(j, k) /\ No(Tail(jobs), k)
      /\ \A k : Without(jobs, k) <=> ~Sort(j, k) /\ Without(Tail(jobs), k)
  BY <1>1, KindTail, SortTail
<1>6. ServiceAt(jobs, dl, sm.state, al, ode.state, cm.state)  BY DEF ServiceInv
<1> HIDE DEF op
<1>7. ASSUME NEW p, Neutral(p), Handled(p), dl'.acc = dl.acc, al'.owner = j.who PROVE ServiceInv'
  <2>1. IsSeq(p) /\ (\A k : Without(p, k)) /\ \A k : No(p, k)  BY <1>7 DEF Neutral, Indifferent, Aside
  <2>2. \A k : No(Tail(jobs) \o p, k) <=> No(Tail(jobs), k)  BY <1>5, <2>1, KindBoth
  <2>3. Token(Tail(jobs) \o p, dl') => Token(jobs, dl)  BY <1>5, <1>7, <2>2 DEF Token
  <2>4. Asked(Tail(jobs) \o p, al') => Asked(jobs, al)  BY <1>2, <1>5, <1>7, <2>2 DEF Asked
  <2>5. Behind(p, "ode", "ode")  BY <2>1, SortsWithin
  <2>6. ServiceAt(Tail(jobs) \o p, dl', sm.state, al', ode.state, cm.state)
    BY <1>1, <1>2, <1>6, <1>7, <2>1, <2>3, <2>4, <2>5, ServiceAnswer
  <2> QED BY <1>4, <1>7, <2>6 DEF ServiceInv, Handled
<1>8. \A arg : Neutral(<<JobArg("ISDU_CNF", arg)>>) /\ Neutral(<<JobArg("PARAM_CNF", arg)>>)
  BY NeutralNames
<1>9. CASE al.od # "Idle"
  <2> DEFINE n == AlCnf(j.who, j.op.rw, "BUSY", "none")
             p == <<n>>
  <2>1. Handled(p) /\ UNCHANGED <<al, dl>>  BY <1>4, <1>9 DEF AL_ReadWrite
  <2>2. /\ \A k : Sort(n, k) <=> j.who = "ODE" /\ k = "ode"
        /\ \A k : Kind(n, k) <=> j.who = "SM" /\ k = "al"
    BY SortNames, KindNames
  <2> HIDE DEF n
  <2>3. /\ IsSeq(p) /\ \A k : No(p, k) <=> ~(j.who = "SM" /\ k = "al")
        /\ \A k : Without(p, k) <=> ~(j.who = "ODE" /\ k = "ode")
        /\ Behind(p, "ode", "ode")
    BY <2>2, KindOne, SortOne
  <2> HIDE DEF p
  <2>4. \A k : No(Tail(jobs) \o p, k) <=> No(Tail(jobs), k) /\ No(p, k)  BY <1>5, <2>3, KindBoth
  <2>5. Token(Tail(jobs) \o p, dl) => Token(jobs, dl)  BY <1>5, <2>3, <2>4 DEF Token
  <2>6. Asked(Tail(jobs) \o p, al) => Asked(jobs, al)  BY <1>2, <1>5, <2>3, <2>4 DEF Asked
  <2>7. al.owner = "ODE" => Without(p, "ode")
    BY <1>2, <1>5, <1>6, <2>3 DEF ServiceAt, OneRules
  <2>8. ServiceAt(Tail(jobs) \o p, dl, sm.state, al, ode.state, cm.state)
    BY <1>1, <1>2, <1>6, <2>3, <2>5, <2>6, <2>7, ServiceAnswer
  <2> QED BY <1>4, <2>1, <2>8 DEF ServiceInv, Handled
<1>10. CASE al.od = "Idle" /\ IsParam(op)
  <2>1. PICK refused : dl' = Param(dl, op) /\ Handled(ParamCnf(op, refused))
    BY <1>4, <1>10 DEF AL_ReadWrite
  <2>2. al'.owner = j.who  BY <1>3, <1>4, <1>10 DEF AL_ReadWrite, AlTyped, AlInit
  <2>3. dl'.acc = dl.acc  BY <1>3, <2>1 DEF Param, LinkTyped, DlInit
  <2>4. Neutral(ParamCnf(op, refused))  BY <1>8, NeutralNames DEF ParamCnf, ParamRes
  <2> QED BY <1>7, <2>1, <2>2, <2>3, <2>4
<1>11. CASE al.od = "Idle" /\ ~IsParam(op)
  <2>1. dl' = Transport(dl, op) /\ Handled(TransportCnf(dl))  BY <1>4, <1>11 DEF AL_ReadWrite
  <2>2. al'.owner = j.who  BY <1>3, <1>4, <1>11 DEF AL_ReadWrite, AlTyped, AlInit
  <2>3. dl'.acc = dl.acc  BY <1>3, <2>1 DEF Transport, LinkTyped, DlInit
  <2>4. Neutral(TransportCnf(dl))  BY <1>8, NeutralNames DEF TransportCnf
  <2> QED BY <1>7, <2>1, <2>2, <2>3, <2>4
<1> QED BY <1>9, <1>10, <1>11

\* The confirmation of an event, alone or with the upload it asks for.
LEMMA EventNeutral == Neutral(<<Job("EVENT_RSP")>>) /\ Neutral(<<Job("EVENT_RSP"), Job("DS_UPLOAD")>>)
<1>1. <<Job("EVENT_RSP"), Job("DS_UPLOAD")>> = <<Job("EVENT_RSP")>> \o <<Job("DS_UPLOAD")>>
  OBVIOUS
<1>2. Neutral(<<Job("EVENT_RSP")>>) /\ Neutral(<<Job("DS_UPLOAD")>>)  BY NeutralNames
<1>3. Neutral(<<Job("EVENT_RSP")>> \o <<Job("DS_UPLOAD")>>)  BY <1>2, NeutralNames
<1> QED BY <1>1, <1>2, <1>3

\* What the data link tells AL.
LEMMA ServiceAl ==
  ASSUME ServiceInv, TypeInv, AL_Handler, UNCHANGED <<sm, ode, cm>> PROVE ServiceInv'
<1> DEFINE j == Head(jobs)
<1>1. /\ jobs # <<>> /\ j.type \in {"PARAM_CNF", "ISDU_CNF", "EVENT", "EVENT_RSP"}
      /\ IsSeq(jobs) /\ UNCHANGED dl
  BY DEF AL_Handler, AL_ParamCnf, AL_IsduCnf, AL_EventInd, AL_EventRsp, Due, TypeInv, Sound
<1>2. \A k : ~Kind(j, k) /\ ~Sort(j, k)  BY <1>1 DEF Kind, Sort
<1>3. AlTyped  BY DEF TypeInv
<1>4. /\ IsSeq(Tail(jobs))
      /\ \A k : No(jobs, k) <=> ~Kind(j, k) /\ No(Tail(jobs), k)
  BY <1>1, KindTail
<1>5. ServiceAt(jobs, dl, sm.state, al, ode.state, cm.state)  BY DEF ServiceInv
<1>6. ASSUME NEW p, Handled(p), Neutral(p), al'.owner = al.owner PROVE ServiceInv'
  <2>1. IsSeq(p) /\ (\A k : Without(p, k)) /\ \A k : No(p, k)  BY <1>6 DEF Neutral, Indifferent, Aside
  <2>2. \A k : No(Tail(jobs) \o p, k) <=> No(jobs, k)  BY <1>2, <1>4, <2>1, KindBoth
  <2>3. Token(Tail(jobs) \o p, dl) => Token(jobs, dl)  BY <2>2 DEF Token
  <2>4. Asked(Tail(jobs) \o p, al') => Asked(jobs, al)  BY <1>6, <2>2 DEF Asked
  <2>5. Behind(p, "ode", "ode")  BY <2>1, SortsWithin
  <2>6. ServiceAt(Tail(jobs) \o p, dl, sm.state, al', ode.state, cm.state)
    BY <1>1, <1>2, <1>5, <1>6, <2>1, <2>3, <2>4, <2>5, ServiceAnswer
  <2> QED BY <1>1, <1>6, <2>6 DEF ServiceInv, Handled
<1>7. Neutral(<<>>)  BY NeutralNames
<1>8. ASSUME NEW awaited, NEW err, NEW len, AL_Confirm(awaited, err, len) PROVE ServiceInv'
  <2>1. CASE al.od # awaited
    <3>1. Handled(<<>>) /\ UNCHANGED al  BY <1>8, <2>1 DEF AL_Confirm
    <3> QED BY <1>6, <1>7, <3>1
  <2>2. CASE al.od = awaited
    <3> DEFINE n == AlCnf(al.owner, al.op.rw, err, len)
               p == <<n>>
    <3>1. Handled(p) /\ al'.owner = "none"
      BY <1>3, <1>8, <2>2 DEF AL_Confirm, AlTyped, AlInit
    <3>2. /\ \A k : Sort(n, k) => (k = "ode" /\ al.owner = "ODE") \/ (k = "good" /\ al.owner = "SM")
          /\ \A k : Kind(n, k) <=> al.owner = "SM" /\ k = "al"
      BY SortNames, KindNames
    <3> HIDE DEF n
    <3>3. /\ IsSeq(p) /\ \A k : No(p, k) <=> ~(al.owner = "SM" /\ k = "al")
          /\ \A k : ~Without(p, k) => (k = "ode" /\ al.owner = "ODE") \/ (k = "good" /\ al.owner = "SM")
          /\ Behind(p, "ode", "ode")
      BY <3>2, KindOne, SortOne
    <3> HIDE DEF p
    <3>4. \A k : No(Tail(jobs) \o p, k) <=> No(jobs, k) /\ No(p, k)  BY <1>2, <1>4, <3>3, KindBoth
    <3>5. Token(Tail(jobs) \o p, dl) => Token(jobs, dl)  BY <3>3, <3>4 DEF Token
    <3>6. Asked(Tail(jobs) \o p, al') => Asked(jobs, al)  BY <3>1, <3>3, <3>4 DEF Asked
    <3>7. ServiceAt(Tail(jobs) \o p, dl, sm.state, al', ode.state, cm.state)
      BY <1>1, <1>2, <1>5, <3>1, <3>3, <3>5, <3>6, ServiceAnswer
    <3> QED BY <1>1, <3>1, <3>7 DEF ServiceInv, Handled
  <2> QED BY <2>1, <2>2
<1>9. CASE AL_ParamCnf \/ AL_IsduCnf  BY <1>8, <1>9 DEF AL_ParamCnf, AL_IsduCnf
<1>10. CASE AL_EventInd
  <2>1. al'.owner = al.owner  BY <1>3, <1>10 DEF AL_EventInd, AlTyped, AlInit
  <2>2. Neutral(<<Job("EVENT_RSP")>>) /\ Neutral(<<Job("EVENT_RSP"), Job("DS_UPLOAD")>>)
    BY EventNeutral
  <2>3. \E p : Handled(p) /\ Neutral(p)  BY <1>7, <1>10, <2>2 DEF AL_EventInd
  <2> QED BY <1>6, <2>1, <2>3
<1>11. CASE AL_EventRsp
  <2>1. al'.owner = al.owner  BY <1>3, <1>11 DEF AL_EventRsp, AlTyped, AlInit
  <2> QED BY <1>6, <1>7, <1>11, <2>1 DEF AL_EventRsp
<1> QED BY <1>9, <1>10, <1>11 DEF AL_Handler
-----------------------------------------------------------------------------
\* DS takes a job and posts none that matters.
LEMMA ServiceDs ==
  ASSUME ServiceInv, TypeInv, DS_Handler, UNCHANGED <<ode, cm>> PROVE ServiceInv'
<1>1. UNCHANGED <<dl, al, sm>> /\ jobs # <<>> /\ IsSeq(jobs) /\ ~Sort(Head(jobs), "cfg")
  BY DEF DS_Handler, DS_ALCnf, DS_Startup, DS_Upload, DS_Delete, DS_Init, Due, TypeInv, Sound, Sort
<1>2. PICK p : Neutral(p) /\ Handled(p)  BY DsHandlerNeutral DEF NeutralHandled
<1>3. ServiceAt(Tail(jobs) \o p, dl, sm.state, al, ode.state, cm.state)
  BY <1>1, <1>2, ServiceTake DEF ServiceInv, Neutral
<1> QED BY <1>1, <1>2, <1>3 DEF ServiceInv, Handled
-----------------------------------------------------------------------------
\* The exchange changes its state.
LEMMA ServiceMove ==
  ASSUME NEW s, NEW d, NEW q, NEW a, NEW o, NEW c, NEW n, ServiceAt(s, d, q, a, o, c),
         n = "Active" => Free(s, a),
         n # "Inactive" => /\ Without(s, "begin") /\ c \notin {"DS_ParamManager", "WaitingOnOperate"}
                           /\ ~(c = "SM_Startup" /\ Without(s, "cfg"))
  PROVE ServiceAt(s, d, q, a, n, c)
BY DEF ServiceAt, OneRules, BeginRules

\* The exchange asks AL, when it may; it is active when its service is confirmed, or when
\* it is started; the rules give it no service then.
LEMMA ServiceOde ==
  ASSUME ServiceInv, TypeInv, ODE_Handler, UNCHANGED cm PROVE ServiceInv'
<1> DEFINE s == jobs
           t == Tail(jobs)
           h == Head(jobs)
           o == ode.state
           c == cm.state
           At(r, n) == ServiceAt(r, dl, sm.state, al, n, c)
<1>1. /\ UNCHANGED <<dl, al, sm>> /\ s # <<>> /\ IsSeq(s)
      /\ h.type \in {"SMI_RW", "AL_CNF", "OD_START", "OD_STOP"}
  BY DEF ODE_Handler, ODE_Request, ODE_ALCnf, ODE_Start, ODE_Stop, Due, TypeInv, Sound
<1>2. ~Sort(h, "cfg")  BY <1>1 DEF Sort
<1>3. /\ IsSeq(t)
      /\ \A k : Without(s, k) <=> ~Sort(h, k) /\ Without(t, k)
      /\ \A k, l : Behind(s, k, l) <=> Behind(t, k, l) /\ (Sort(h, k) => Without(t, l))
  BY <1>1, KindTail, SortTail
<1>4. Indifferent(<<>>)  BY NeutralNames DEF Neutral
<1>5. At(s, o) /\ At(t \o <<>>, o)
  BY <1>1, <1>2, <1>4, ServiceTake DEF ServiceInv
<1>6. t \o <<>> = t  BY <1>3, ConcatNone
<1>7. ASSUME NEW p, Handled(p), At(t \o p, ode'.state) PROVE ServiceInv'
  BY <1>1, <1>7 DEF ServiceInv, Handled
<1>8. ode.state \in {"Inactive", "Active", "Blocked"}  BY DEF TypeInv, ExchangeTyped
<1> HIDE DEF t, h
<1>9. ASSUME o # "Inactive"
      PROVE /\ Without(s, "begin") /\ Without(t, "begin")
            /\ c \notin {"DS_ParamManager", "WaitingOnOperate"}
            /\ ~(c = "SM_Startup" /\ Without(t, "cfg"))
  BY <1>2, <1>3, <1>5, <1>9 DEF ServiceAt, BeginRules
<1>10. CASE ODE_Request
  <2>1. CASE o # "Active"
    <3>1. Handled(<<>>) /\ ode' = ode  BY <1>10, <2>1 DEF ODE_Request
    <3> QED BY <1>5, <1>7, <3>1
  <2>2. CASE o = "Active"
    <3> DEFINE j == AlReq("ODE", DueArg("SMI_RW"))
               p == <<j>>
    <3>1. Handled(p) /\ ode'.state = "Blocked"  BY <1>10, <2>2 DEF ODE_Request
    <3>2. \A k : Sort(j, k) <=> k \in {"req", "ode"}  BY SortNames
    <3> HIDE DEF j
    <3>3. /\ IsSeq(p) /\ \A k : Without(p, k) <=> k \notin {"req", "ode"}
          /\ \A k, l : Behind(p, k, l)
      BY <3>2, KindOne, SortOne
    <3> HIDE DEF p
    <3>4. Free(s, al) /\ Without(t, "ode") /\ al.owner # "ODE"
      BY <1>3, <1>5, <2>2 DEF ServiceAt, OneRules, Free
    <3> DEFINE u == t \o p
    <3>5. /\ \A k : Without(u, k) <=> Without(t, k) /\ k \notin {"req", "ode"}
          /\ \A k, l : l \notin {"req", "ode"} => (Behind(u, k, l) <=> Behind(t, k, l))
          /\ Behind(u, "ode", "ode")
      <4>1. Behind(t, "ode", "ode")  BY <3>4, SortsWithin
      <4> QED BY <1>3, <3>3, <3>4, <4>1, SortBoth
    <3> HIDE DEF u
    <3>6. OneRules(u, al, "Blocked")  BY <3>4, <3>5 DEF OneRules
    <3>7. Without(u, "begin") /\ Behind(u, "begin", "begin")
      <4>1. Without(u, "begin")  BY <1>9, <2>2, <3>5
      <4> QED BY <4>1, SortsWithin
    <3>8. StopRules(t)  BY <1>5, <1>6 DEF ServiceAt
    <3>9. StopRules(u)  BY <3>5, <3>8 DEF StopRules
    <3>10. c \notin {"DS_ParamManager", "WaitingOnOperate"} /\ ~(c = "SM_Startup" /\ Without(u, "cfg"))
      BY <1>9, <2>2, <3>5
    <3>11. At(u, "Blocked")  BY <3>6, <3>7, <3>9, <3>10 DEF ServiceAt, BeginRules
    <3> QED BY <1>7, <3>1, <3>11 DEF u
  <2> QED BY <2>1, <2>2
<1>11. CASE ODE_ALCnf
  <2>1. Handled(<<>>)  BY <1>11 DEF ODE_ALCnf
  <2>2. ode'.state = IF o = "Blocked" THEN "Active" ELSE o
    BY <1>11 DEF ODE_ALCnf, TypeInv, ExchangeTyped, OdeInit
  <2>3. CASE o # "Blocked"  BY <1>5, <1>7, <2>1, <2>2, <2>3
  <2>4. CASE o = "Blocked"
    <3>1. Sort(h, "ode")  BY <1>11 DEF ODE_ALCnf, Due, Sort, h
    <3>2. Free(t, al)  BY <1>3, <1>5, <3>1 DEF ServiceAt, OneRules, Free
    <3>3. At(t, "Active")  BY <1>5, <1>6, <1>9, <2>4, <3>2, ServiceMove
    <3> QED BY <1>6, <1>7, <2>1, <2>2, <2>4, <3>3
  <2> QED BY <2>3, <2>4
<1>12. CASE ODE_Start
  <2>1. Sort(h, "begin") /\ Handled(<<>>)  BY <1>12 DEF ODE_Start, Due, Sort, h
  <2>2. o = "Inactive" /\ Free(s, al) /\ Without(t, "begin")
    BY <1>3, <1>5, <2>1 DEF ServiceAt, BeginRules
  <2>3. ode'.state = "Active"  BY <1>12, <2>2 DEF ODE_Start, TypeInv, ExchangeTyped, OdeInit
  <2>4. /\ c \notin {"DS_ParamManager", "WaitingOnOperate"} /\ ~(c = "SM_Startup" /\ Without(t, "cfg"))
        /\ Free(t, al)
    BY <1>2, <1>3, <1>5, <2>1, <2>2 DEF ServiceAt, Free
  <2>5. At(t, "Active")  BY <1>5, <1>6, <2>2, <2>4, ServiceMove
  <2> QED BY <1>6, <1>7, <2>1, <2>3, <2>5
<1>13. CASE ODE_Stop
  <2>1. Handled(<<>>) /\ ode'.state = "Inactive"
    BY <1>13 DEF ODE_Stop, TypeInv, ExchangeTyped, OdeInit
  <2>2. At(t, "Inactive")  BY <1>5, <1>6, ServiceMove
  <2> QED BY <1>6, <1>7, <2>1, <2>2
<1> QED BY <1>10, <1>11, <1>12, <1>13 DEF ODE_Handler
-----------------------------------------------------------------------------
\* What CM posts when it takes a configuration: the stop of the exchange, and last SM's.
Stopping(p)    == IsSeq(p) /\ (\A k : k # "stop" => Without(p, k)) /\ Unmarked(p)
Configuring(p) == /\ IsSeq(p) /\ ~Without(p, "cfg") /\ Behind(p, "cfg", "stop")
                  /\ \A k : k \notin {"stop", "cfg"} => Without(p, k)
                  /\ \A k : k \notin {"job", "smcfg"} => Off(p, k)
CmConfigures   == \E p : Configuring(p) /\ Handled(p)

\* Each configuration CM takes posts these jobs, and leaves CM in a state of its own.
LEMMA CmConfigured ==
  /\ \A cfg : CM_Startup(cfg) => CmConfigures /\ cm'.state = "SM_Startup"
  /\ \A cfg : CM_DIDO(cfg) => CmConfigures /\ cm'.state = "Port_DIDO"
  /\ \A cfg, refused : CM_Deactivate(cfg, refused) => CmConfigures /\ cm'.state = "Port_Deactivated"
<1>1. \A type \in {"OD_STOP", "DS_DELETE", "DS_INIT"} :
        Stopping(<<Job(type)>>) /\ \A arg : Stopping(<<JobArg(type, arg)>>)
  <2>1. /\ \A k : Sort(Job("OD_STOP"), k) <=> k = "stop"
        /\ \A k, arg : Sort(JobArg("OD_STOP", arg), k) <=> k = "stop"
    BY DEF Sort, Job, JobArg
  <2>2. \A type \in {"DS_DELETE", "DS_INIT"} : \A k, arg :
          ~Sort(Job(type), k) /\ ~Sort(JobArg(type, arg), k)
    BY SortNames
  <2>3. \A type \in {"OD_STOP", "DS_DELETE", "DS_INIT"} :
          Unmarked(<<Job(type)>>) /\ \A arg : Unmarked(<<JobArg(type, arg)>>)
    BY MarkFree, MarkNames
  <2>4. ASSUME NEW j, \A k : Sort(j, k) => k = "stop", Unmarked(<<j>>) PROVE Stopping(<<j>>)
    BY <2>4, KindOne, SortOne DEF Stopping
  <2> QED BY <2>1, <2>2, <2>3, <2>4
<1>2. Stopping(<<>>)  BY KindNone, SortOne, MarkFree DEF Stopping
<1>3. ASSUME NEW p, NEW r, Stopping(p), Stopping(r) PROVE Stopping(p \o r)
  BY <1>3, KindBoth, SortBoth, MarkFree DEF Stopping
<1>4. ASSUME NEW p, NEW params, Stopping(p) PROVE Configuring(p \o <<SmConfig(params)>>)
  <2> DEFINE j == SmConfig(params)
             r == <<j>>
  <2>1. /\ \A k : Sort(j, k) <=> k = "cfg"
        /\ \A k : k # "job" => (Mark(j, k) <=> k = "smcfg")
    BY SortNames, MarkNames DEF SmConfig
  <2> HIDE DEF j
  <2>2. \A k : k \notin {"job", "smcfg"} => Off(r, k)  BY <2>1, MarkOne
  <2>3. IsSeq(r) /\ (\A k, l : Behind(r, k, l)) /\ \A k : Without(r, k) <=> k # "cfg"
    BY <2>1, KindOne, SortOne
  <2> HIDE DEF r
  <2>4. Behind(p, "cfg", "stop")  BY <1>4, SortsWithin DEF Stopping
  <2>5. IsSeq(p) /\ \A k : k # "stop" => Without(p, k)  BY <1>4 DEF Stopping
  <2>6. IsSeq(p \o r)  BY <2>3, <2>5, KindBoth
  <2>7. /\ \A k : Without(p \o r, k) <=> Without(p, k) /\ Without(r, k)
        /\ Behind(p \o r, "cfg", "stop")
    BY <2>3, <2>4, <2>5, SortBoth
  <2>8. \A k : k \notin {"job", "smcfg"} => Off(p \o r, k)
    BY <1>4, <2>3, <2>5, <2>2, MarkBoth DEF Stopping, Unmarked
  <2>9. Configuring(p \o r)  BY <2>3, <2>5, <2>6, <2>7, <2>8 DEF Configuring
  <2> QED BY <2>9 DEF r, j
<1>5. ASSUME NEW cfg, CM_Startup(cfg) PROVE CmConfigures /\ cm'.state = "SM_Startup"
  <2> DEFINE a == IF cfg.mode = "AUTO" \/ ~DS_ChkCfg(cfg) THEN <<Job("DS_DELETE")>> ELSE <<>>
             b == <<JobArg("DS_INIT", cfg)>>
             e == <<SmConfig(ParamList(cfg))>>
             o == <<Job("OD_STOP")>>
  <2>1. Stopping(o) /\ Stopping(a) /\ Stopping(b)  BY <1>1, <1>2
  <2>2. Handled(o \o a \o (b \o e)) /\ cm'.state = "SM_Startup"
    <3>1. <<JobArg("DS_INIT", cfg), SmConfig(ParamList(cfg))>> = b \o e  OBVIOUS
    <3> QED BY <1>5, <3>1 DEF CM_Startup, CM_Calls
  <2>3. IsSeq(e)  BY KindOne
  <2> HIDE DEF a, b, e, o
  <2>4. Stopping(o \o a) /\ IsSeq(o \o a) /\ IsSeq(b)  BY <1>3, <2>1 DEF Stopping
  <2>5. (o \o a) \o (b \o e) = ((o \o a) \o b) \o e  BY <2>3, <2>4, ConcatAssoc
  <2>6. Stopping((o \o a) \o b)  BY <1>3, <2>1, <2>4
  <2>7. Configuring(((o \o a) \o b) \o e)  BY <1>4, <2>6 DEF e
  <2> QED BY <2>2, <2>5, <2>7 DEF CmConfigures
<1>6. ASSUME NEW cfg, CM_DIDO(cfg) PROVE CmConfigures /\ cm'.state = "Port_DIDO"
  <2> DEFINE o == <<Job("OD_STOP")>>  a == <<Job("DS_DELETE")>>  b == <<JobArg("DS_INIT", cfg)>>
             e == <<SmConfig(ParamList(cfg))>>
  <2>1. <<Job("OD_STOP"), Job("DS_DELETE"), JobArg("DS_INIT", cfg), SmConfig(ParamList(cfg))>>
        = ((o \o a) \o b) \o e
    OBVIOUS
  <2>2. Handled(((o \o a) \o b) \o e) /\ cm'.state = "Port_DIDO"
    BY <1>6, <2>1 DEF CM_DIDO, CM_Calls
  <2>3. Stopping(o) /\ Stopping(a) /\ Stopping(b)  BY <1>1
  <2> HIDE DEF o, a, b
  <2>4. Stopping((o \o a) \o b)  BY <1>3, <2>3
  <2>5. Configuring(((o \o a) \o b) \o e)  BY <1>4, <2>4 DEF e
  <2> QED BY <2>2, <2>5 DEF CmConfigures
<1>7. ASSUME NEW cfg, NEW refused, CM_Deactivate(cfg, refused)
      PROVE CmConfigures /\ cm'.state = "Port_Deactivated"
  <2> DEFINE o == <<Job("OD_STOP")>>
             a == IF refused THEN <<Job("DS_DELETE")>> ELSE <<>>
  <2>1. PICK params : Handled((o \o a) \o <<SmConfig(params)>>)
    BY <1>7 DEF CM_Deactivate, CM_Calls
  <2>2. cm'.state = "Port_Deactivated"  BY <1>7 DEF CM_Deactivate, CM_Calls
  <2>3. Stopping(o) /\ Stopping(a)  BY <1>1, <1>2
  <2> HIDE DEF o, a
  <2>4. Stopping(o \o a)  BY <1>3, <2>3
  <2> QED BY <1>4, <2>1, <2>2, <2>4 DEF CmConfigures
<1> QED BY <1>5, <1>6, <1>7

\* CM takes a configuration, and goes on when SM, DS and the device are ready.
LEMMA ServiceCm ==
  ASSUME ServiceInv, HandInv, TypeInv, CM_Handler, UNCHANGED ode PROVE ServiceInv'
<1> DEFINE s == jobs
           t == Tail(jobs)
           h == Head(jobs)
           o == ode.state
           c == cm.state
           At(r, n) == ServiceAt(r, dl, sm.state, al, o, n)
<1>1. UNCHANGED <<dl, al, sm>> /\ s # <<>> /\ IsSeq(s)
  BY CmRelays DEF CM_Handler, TypeInv, Sound
<1>2. /\ IsSeq(t)
      /\ \A k : Without(s, k) <=> ~Sort(h, k) /\ Without(t, k)
      /\ \A k, l : Behind(s, k, l) <=> Behind(t, k, l) /\ (Sort(h, k) => Without(t, l))
  BY <1>1, KindTail, SortTail
<1>3. At(s, c)  BY DEF ServiceInv
<1>4. ASSUME NEW p, Indifferent(p), Sort(h, "cfg") => c # "SM_Startup" PROVE At(t \o p, c)
  BY <1>1, <1>3, <1>4, ServiceTake
<1>5. ASSUME NEW p, Handled(p), At(t \o p, cm'.state) PROVE ServiceInv'
  BY <1>1, <1>5 DEF ServiceInv, Handled
<1>6. /\ Indifferent(<<>>) /\ Indifferent(<<Job("DS_STARTUP")>>)
      /\ Indifferent(<<Job("SM_OPERATE")>>)
  BY NeutralNames DEF Neutral
<1>7. HandAt(s, dl, sm.state, al)  BY DEF HandInv
<1>8. cm' = cm => cm'.state = c  OBVIOUS
<1>9. CM_Configure => Sort(h, "cfg")  BY DEF CM_Configure, Due, Sort
<1>10. CM_PortMode \/ CM_DsReady \/ CM_DsFault => ~Sort(h, "cfg")
  BY DEF CM_PortMode, CM_DsReady, CM_DsFault, Due, Sort
<1>11. CM_PortMode /\ DueArg("PORT_MODE") = "COMREADY" => Sort(h, "ready")
  BY DEF CM_PortMode, Due, DueArg, Sort
<1>12. \A n, r, b : At(r, b) /\ n \notin {"SM_Startup", "DS_ParamManager", "WaitingOnOperate"} => At(r, n)
  BY DEF ServiceAt
<1> HIDE DEF t, h
<1>13. ASSUME CM_Configure PROVE ServiceInv'
  <2>1. ASSUME CmConfigures, cm'.state \in {"SM_Startup", "Port_DIDO", "Port_Deactivated"}
        PROVE ServiceInv'
    <3>1. PICK p : Configuring(p) /\ Handled(p)  BY <2>1 DEF CmConfigures
    <3> DEFINE u == t \o p
    <3>2. Sort(h, "cfg") /\ ~Without(s, "cfg")  BY <1>2, <1>9, <1>13
    <3>3. /\ Without(t, "stop") /\ Without(t, "ready")
          /\ Without(t, "cfg")
      <4>1. Without(t, "stop") /\ Without(t, "ready")
        BY <1>2, <1>3, <3>2 DEF ServiceAt, StopRules
      <4>2. Kind(h, "cfg") /\ ~No(s, "cfg")  BY <3>2, SortsWithin DEF Sort, Kind
      <4>3. Apart(s, "cfg", "cfg")  BY <1>7, <4>2 DEF HandAt, ConfigRules
      <4>4. No(t, "cfg")  BY <1>1, <4>2, <4>3, KindTail DEF t, h
      <4> QED BY <4>1, <4>4, SortsWithin
    <3>4. /\ IsSeq(p) /\ ~Without(p, "cfg") /\ Behind(p, "cfg", "stop")
          /\ \A k : k \notin {"stop", "cfg"} => Without(p, k)
      BY <3>1 DEF Configuring
    <3>5. /\ \A k : Without(u, k) <=> Without(t, k) /\ Without(p, k)
          /\ \A k, l : k \notin {"stop", "cfg"} /\ l \notin {"stop", "cfg"}
                         => (Behind(u, k, l) <=> Behind(t, k, l))
          /\ Behind(u, "cfg", "stop")
      <4>1. \A k, l : k \notin {"stop", "cfg"} => Behind(p, k, l)  BY <3>4, SortsWithin
      <4>2. Behind(t, "cfg", "stop")  BY <3>3, SortsWithin
      <4> QED BY <1>2, <3>3, <3>4, <4>1, <4>2, SortBoth
    <3> HIDE DEF u
    <3>6. OneRules(u, al, o) /\ BeginRules(u, al, o)
      BY <1>2, <1>3, <3>4, <3>5 DEF ServiceAt, OneRules, BeginRules, Free
    <3>7. StopRules(u)  BY <3>3, <3>4, <3>5 DEF StopRules
    <3>8. At(u, cm'.state)  BY <2>1, <3>4, <3>5, <3>6, <3>7 DEF ServiceAt
    <3> QED BY <1>5, <3>1, <3>8 DEF u
  <2>2. CASE c = "DS_ParamManager"
    <3>1. Handled(<<>>) /\ cm'.state = c  BY <1>8, <1>13, <2>2 DEF CM_Configure, CM_Ignores
    <3> QED BY <1>4, <1>5, <1>6, <2>2, <3>1
  <2>3. CASE c # "DS_ParamManager"
    <3>1. \E cfg : CM_Startup(cfg) \/ CM_DIDO(cfg) \/ CM_Deactivate(cfg, FALSE) \/ CM_Deactivate(cfg, TRUE)
      BY <1>13, <2>3 DEF CM_Configure
    <3>2. CmConfigures /\ cm'.state \in {"SM_Startup", "Port_DIDO", "Port_Deactivated"}
      BY <3>1, CmConfigured
    <3> QED BY <2>1, <3>2
  <2> QED BY <2>2, <2>3
<1>14. ASSUME Handled(<<>>), ~Sort(h, "cfg"), cm'.state \in {c, "PortFault", "CheckPortMode"}
       PROVE ServiceInv'
  <2>1. At(t \o <<>>, c)  BY <1>4, <1>6, <1>14
  <2>2. At(t \o <<>>, cm'.state)  BY <1>12, <1>14, <2>1
  <2> QED BY <1>5, <1>14, <2>2
<1>15. ASSUME CM_PortMode PROVE ServiceInv'
  <2>1. ~Sort(h, "cfg")  BY <1>10, <1>15
  <2>2. CASE DueArg("PORT_MODE") = "COMREADY" /\ CM_ComReady
    <3> DEFINE u == t \o <<Job("DS_STARTUP")>>
    <3>1. Handled(<<Job("DS_STARTUP")>>) /\ c = "SM_Startup" /\ cm'.state = "DS_ParamManager"
      BY <2>2 DEF CM_ComReady, CM_Moves, CM_Calls
    <3>2. At(u, c)  BY <1>4, <1>6, <2>1
    <3> DEFINE p == <<Job("DS_STARTUP")>>
    <3>3. \A k : Without(t \o p, k) <=> Without(t, k)
      <4>1. IsSeq(p) /\ \A k : Without(p, k)  BY <1>6 DEF Indifferent, Aside
      <4> HIDE DEF p
      <4> QED BY <1>2, <4>1, SortBoth
    <3>4. ~Without(s, "ready")  BY <1>2, <1>11, <1>15, <2>2
    <3>5. Without(s, "cfg") /\ SessionRules(s, dl, sm.state, al) /\ o = "Inactive" /\ Without(s, "begin")
      BY <1>3, <3>1, <3>4 DEF ServiceAt, StopRules
    <3>6. Free(s, al)  BY <3>4, <3>5 DEF SessionRules
    <3>7. Free(u, al) /\ Without(u, "begin")  BY <1>2, <3>3, <3>5, <3>6 DEF Free
    <3> HIDE DEF u, p
    <3>8. At(u, "DS_ParamManager")  BY <3>2, <3>5, <3>7 DEF ServiceAt
    <3> QED BY <1>5, <3>1, <3>8 DEF u
  <2>3. CASE CM_Operate
    <3> DEFINE j == Job("OD_START")
               p == <<j>>
               u == t \o p
    <3>1. Handled(p) /\ c = "WaitingOnOperate" /\ cm'.state = "Port_Active"
      BY <2>3 DEF CM_Operate, CM_Moves, CM_Calls
    <3>2. \A k : Sort(j, k) <=> k = "begin"  BY SortNames
    <3> HIDE DEF j
    <3>3. IsSeq(p) /\ (\A k, l : Behind(p, k, l)) /\ \A k : Without(p, k) <=> k # "begin"
      BY <3>2, KindOne, SortOne
    <3> HIDE DEF p
    <3>4. o = "Inactive" /\ Free(s, al) /\ Without(t, "begin")
      BY <1>2, <1>3, <3>1 DEF ServiceAt
    <3>5. /\ \A k : Without(u, k) <=> Without(t, k) /\ k # "begin"
          /\ \A k, l : l # "begin" => (Behind(u, k, l) <=> Behind(t, k, l))
          /\ Behind(u, "begin", "begin")
      <4>1. Behind(t, "begin", "begin")  BY <3>4, SortsWithin
      <4> QED BY <1>2, <3>3, <3>4, <4>1, SortBoth
    <3> HIDE DEF u
    <3>6. Free(u, al)  BY <1>2, <3>4, <3>5 DEF Free
    <3>7. OneRules(u, al, o)  BY <1>2, <1>3, <3>4, <3>5, <3>6 DEF ServiceAt, OneRules, Free
    <3>8. BeginRules(u, al, o)  BY <3>4, <3>5, <3>6 DEF BeginRules
    <3>9. StopRules(u)  BY <1>2, <1>3, <3>5, <2>1 DEF ServiceAt, StopRules
    <3>10. At(u, "Port_Active")  BY <3>7, <3>8, <3>9 DEF ServiceAt
    <3> QED BY <1>5, <3>1, <3>10 DEF u
  <2>4. CASE CM_PortFault({"SM_Startup"}) \/ CM_Comlost \/ CM_Ignores \/ CM_Moves(c, <<>>)
    <3>1. Handled(<<>>) /\ cm'.state \in {c, "PortFault", "CheckPortMode"}
      BY <1>8, <2>4 DEF CM_PortFault, CM_Comlost, CM_Ignores, CM_Moves, CM_Calls
    <3> QED BY <1>14, <2>1, <3>1
  <2> QED BY <1>15, <2>2, <2>3, <2>4 DEF CM_PortMode
<1>16. ASSUME CM_DsReady \/ CM_DsFault PROVE ServiceInv'
  <2>1. ~Sort(h, "cfg")  BY <1>10, <1>16
  <2>2. CASE CM_DsReady /\ c = "DS_ParamManager"
    <3> DEFINE p == <<Job("SM_OPERATE")>>
    <3>1. Handled(p) /\ cm'.state = "WaitingOnOperate"
      BY <2>2 DEF CM_DsReady, CM_Moves, CM_Calls
    <3>2. At(t \o p, c)  BY <1>4, <1>6, <2>1
    <3> HIDE DEF p
    <3>3. At(t \o p, "WaitingOnOperate")  BY <2>2, <3>2 DEF ServiceAt
    <3> QED BY <1>5, <3>1, <3>3
  <2>3. CASE ~(CM_DsReady /\ c = "DS_ParamManager")
    <3>1. Handled(<<>>) /\ cm'.state \in {c, "PortFault", "CheckPortMode"}
      BY <1>8, <1>16, <2>3 DEF CM_DsReady, CM_DsFault, CM_PortFault, CM_Ignores, CM_Moves, CM_Calls
    <3> QED BY <1>14, <2>1, <3>1
  <2> QED BY <2>2, <2>3
<1> QED BY <1>13, <1>15, <1>16 DEF CM_Handler
-----------------------------------------------------------------------------
\* What the data link posts: no job of a service.
Reports(p) == IsSeq(p) /\ No(p, "al") /\ \A k : k # "start" => Without(p, k)

\* A report of the data link keeps the invariant of AL's services.
LEMMA ServiceReport ==
  ASSUME ServiceInv, TypeInv, NEW p, Reports(p), jobs' = jobs \o p, UNCHANGED <<sm, al, ode, cm>>,
         dl'.acc = dl.acc \/ dl'.acc = "none", No(p, "cnf") \/ dl.acc # "none"
  PROVE ServiceInv'
<1>1. IsSeq(jobs) /\ IsSeq(p)  BY DEF TypeInv, Sound, Reports
<1>2. No(jobs \o p, "cnf") <=> No(jobs, "cnf") /\ No(p, "cnf")  BY <1>1, KindBoth
<1>3. Token(jobs \o p, dl') => Token(jobs, dl)  BY <1>2 DEF Token
<1>4. ServiceAt(jobs \o p, dl', sm.state, al, ode.state, cm.state)
  BY <1>1, <1>3, ServicePost DEF ServiceInv, Reports
<1> QED BY <1>4 DEF ServiceInv

\* The jobs it posts.
LEMMA ReportNames ==
  /\ Reports(<<>>) /\ No(<<>>, "cnf")
  /\ \A p, r : Reports(p) /\ Reports(r) => Reports(p \o r)
  /\ \A mode : LET p == <<ModeInd(mode)>> IN Reports(p) /\ No(p, "cnf")
  /\ \A type \in {"ISDU_CNF", "PARAM_CNF", "DEVMODE_CNF"} : \A arg :
       LET p == <<JobArg(type, arg)>> IN Reports(p) /\ No(p, "cnf")
  /\ \A what, ok : ok \in BOOLEAN => Reports(<<JobArg("DL_CNF", [what |-> what, ok |-> ok])>>)
  /\ \A d : Reports(IsduDownCnf(d)) /\ No(IsduDownCnf(d), "cnf")
<1>1. Reports(<<>>) /\ No(<<>>, "cnf")  BY KindNone, SortOne DEF Reports
<1>2. ASSUME NEW p, NEW r, Reports(p), Reports(r) PROVE Reports(p \o r)
  BY <1>2, KindBoth, SortBoth DEF Reports
<1>3. ASSUME NEW j, \A k : k # "start" => ~Sort(j, k), ~Kind(j, "al")
      PROVE Reports(<<j>>) /\ (~Kind(j, "cnf") => No(<<j>>, "cnf"))
  BY <1>3, KindOne, SortOne DEF Reports
<1>4. ASSUME NEW mode PROVE LET p == <<ModeInd(mode)>> IN Reports(p) /\ No(p, "cnf")
  BY <1>3, KindNames, SortNames
<1>5. ASSUME NEW type \in {"ISDU_CNF", "PARAM_CNF", "DEVMODE_CNF"}, NEW arg
      PROVE LET p == <<JobArg(type, arg)>> IN Reports(p) /\ No(p, "cnf")
  <2> DEFINE j == JobArg(type, arg)
  <2>1. ~Kind(j, "al") /\ ~Kind(j, "cnf")  BY KindNames
  <2>2. \A k : ~Sort(j, k)  BY SortNames
  <2> HIDE DEF j
  <2>3. Reports(<<j>>) /\ No(<<j>>, "cnf")  BY <1>3, <2>1, <2>2
  <2> QED BY <2>3 DEF j
<1>6. ASSUME NEW what, NEW ok \in BOOLEAN
      PROVE Reports(<<JobArg("DL_CNF", [what |-> what, ok |-> ok])>>)
  <2> DEFINE j == JobArg("DL_CNF", [what |-> what, ok |-> ok])
  <2>1. ~Kind(j, "al")  BY DEF Kind, JobArg
  <2>2. \A k : ~Sort(j, k)  BY SortNames
  <2> HIDE DEF j
  <2>3. Reports(<<j>>)  BY <1>3, <2>1, <2>2
  <2> QED BY <2>3 DEF j
<1>7. \A d : Reports(IsduDownCnf(d)) /\ No(IsduDownCnf(d), "cnf")  BY <1>1, <1>5 DEF IsduDownCnf
<1> QED BY <1>1, <1>2, <1>4, <1>5, <1>6, <1>7

\* Events are reports.
LEMMA EventsReport == ASSUME NEW codes, IsSeq(codes) PROVE Reports(Events(codes)) /\ No(Events(codes), "cnf")
<1>1. Aside(Events(codes))  BY EventsAside
<1> DEFINE ev(i) == JobArg("EVENT", [code |-> codes[i], left |-> i < Len(codes)])
<1>2. \A i, k : ~Sort(ev(i), k)  BY SortNames
<1>3. Events(codes) = [i \in DOMAIN codes |-> ev(i)]  BY DEF Events
<1> HIDE DEF ev
<1>4. \A k : Without(Events(codes), k)  BY <1>2, <1>3 DEF Without
<1> QED BY <1>1, <1>4 DEF Aside, Reports

\* The data link has no part in the services but the accesses of SM, which it ends.
LEMMA ServiceLink ==
  ASSUME ServiceInv, TypeInv, LinkProgress \/ LinkTrouble, UNCHANGED <<sm, al, ode, cm>>
  PROVE ServiceInv'
<1>1. IsSeq(jobs) /\ LinkTyped  BY DEF TypeInv, Sound
<1>2. jobs \o <<>> = jobs  BY <1>1, ConcatNone
<1>3. UNCHANGED jobs /\ dl'.acc = dl.acc => ServiceInv'  BY <1>2, ReportNames, ServiceReport
<1>4. ASSUME NEW p, Posted(p), Reports(p), No(p, "cnf"), dl'.acc = dl.acc \/ dl'.acc = "none"
      PROVE ServiceInv'
  BY <1>4, ServiceReport DEF Posted
<1>5. ASSUME NEW p, Posted(p), Reports(p), dl'.acc = "none", dl.acc # "none" PROVE ServiceInv'
  BY <1>5, ServiceReport DEF Posted
<1>6. \A d : d.acc = dl.acc /\ DOMAIN d = DOMAIN DlInit
             => IsduDown(d).acc = dl.acc /\ DOMAIN IsduDown(d) = DOMAIN DlInit
  BY DEF IsduDown, DlInit
<1>7. CASE ModeStep
  <2> DEFINE d == [dl EXCEPT !.mdh = "no"]
  <2>1. d.acc = dl.acc /\ DOMAIN d = DOMAIN DlInit  BY <1>1 DEF LinkTyped, DlInit
  <2>2. \/ dl' = d /\ UNCHANGED jobs
        \/ dl' = [d EXCEPT !.link = "WakeUp", !.wurq = TRUE] /\ UNCHANGED jobs
        \/ \E to, mode : Goto(d, to, mode)
        \/ \E mode : GotoIdle(d, mode)
        \/ GotoStartup(d)
    BY <1>7 DEF ModeStep
  <2> HIDE DEF d
  <2>3. \A mode : LET p == IsduDownCnf(d) \o <<ModeInd(mode)>> IN Reports(p) /\ No(p, "cnf")
    <3>1. ASSUME NEW mode PROVE LET p == IsduDownCnf(d) \o <<ModeInd(mode)>> IN Reports(p) /\ No(p, "cnf")
      <4> DEFINE a == IsduDownCnf(d)  b == <<ModeInd(mode)>>
      <4>1. Reports(a) /\ No(a, "cnf") /\ Reports(b) /\ No(b, "cnf")  BY ReportNames
      <4> HIDE DEF a, b
      <4>2. Reports(a \o b) /\ No(a \o b, "cnf")  BY <4>1, ReportNames, KindBoth DEF Reports
      <4> QED BY <4>2 DEF a, b
    <3> QED BY <3>1
  <2>4. [d EXCEPT !.link = "WakeUp", !.wurq = TRUE].acc = dl.acc  BY <2>1 DEF DlInit
  <2>5. ASSUME NEW to, NEW mode, Goto(d, to, mode) PROVE ServiceInv'
    <3>1. Posted(<<ModeInd(mode)>>) /\ dl'.acc = dl.acc  BY <2>1, <2>5 DEF Goto, DlInit
    <3> QED BY <1>4, <3>1, ReportNames
  <2>6. ASSUME NEW mode, GotoIdle(d, mode) PROVE ServiceInv'
    <3>1. Posted(IsduDownCnf(d) \o <<ModeInd(mode)>>) /\ dl'.acc = dl.acc
      BY <1>6, <2>1, <2>6 DEF GotoIdle, DlInit
    <3> QED BY <1>4, <2>3, <3>1
  <2>7. ASSUME GotoStartup(d) PROVE ServiceInv'
    <3>1. Posted(IsduDownCnf(d) \o <<ModeInd("STARTUP")>>) /\ dl'.acc = dl.acc
      BY <1>6, <2>1, <2>7 DEF GotoStartup, DlInit
    <3> QED BY <1>4, <2>3, <3>1
  <2> QED BY <1>3, <2>1, <2>2, <2>4, <2>5, <2>6, <2>7
<1>8. CASE WakeUp
  <2>1. PICK mode : dl'.acc = dl.acc /\ Posted(<<ModeInd(mode)>>)
    BY <1>1, <1>8 DEF WakeUp, Served, LinkTyped, DlInit
  <2> QED BY <1>4, <2>1, ReportNames
<1>9. CASE AccessDone
  <2>1. dl.acc # "none" /\ Posted(<<JobArg("DL_CNF", [what |-> dl.acc, ok |-> TRUE])>>)
    BY <1>9 DEF AccessDone
  <2>2. dl'.acc = "none"  BY <1>1, <1>9 DEF AccessDone, Served, LinkTyped, DlInit
  <2> QED BY <1>5, <2>1, <2>2, ReportNames
<1>10. \A e : Ticks(dl, e) => e.acc = dl.acc  BY DEF Ticks
<1>11. ASSUME NEW type \in {"ISDU_CNF", "PARAM_CNF", "DEVMODE_CNF"}, NEW arg,
              Posted(<<JobArg(type, arg)>>), dl'.acc = dl.acc
       PROVE ServiceInv'
  BY <1>4, <1>11, ReportNames
<1>12. CASE IsduStart  BY <1>1, <1>3, <1>10, <1>12, ServedTicks DEF IsduStart
<1>13. CASE IsduDone \/ IsduFails
  <2>1. dl' = [Served(dl) EXCEPT !.isdu = NoOp, !.run = FALSE]  BY <1>13 DEF IsduDone, IsduFails
  <2>2. dl'.acc = dl.acc  BY <1>1, <2>1 DEF Served, LinkTyped, DlInit
  <2>3. PICK arg : Posted(<<JobArg("ISDU_CNF", arg)>>)  BY <1>13 DEF IsduDone, IsduFails
  <2> QED BY <1>11, <2>2, <2>3
<1>14. CASE ParamDone
  <2>1. PICK arg : dl'.acc = dl.acc /\ Posted(<<JobArg("PARAM_CNF", arg)>>)
    BY <1>1, <1>10, <1>14, ServedTicks DEF ParamDone, ParamRes
  <2> QED BY <1>11, <2>1
<1>15. CASE ModeDone
  <2>1. dl'.acc = dl.acc /\ Posted(<<JobArg("DEVMODE_CNF", TRUE)>>)
    BY <1>1, <1>10, <1>15, ServedTicks DEF ModeDone
  <2> QED BY <1>11, <2>1
<1>16. CASE Lose
  <2>1. PICK by10 : dl'.acc = "none" /\ Posted(LoseCnf(by10))
    BY <1>1, <1>16 DEF Lose, LinkTyped, DlInit
  <2>2. CASE dl.link = "Startup"
    <3>1. dl.acc # "none"  BY <1>16, <2>2 DEF Lose, FellBack, Exchanging
    <3>2. LoseCnf(by10) = <<JobArg("DL_CNF", [what |-> dl.acc, ok |-> FALSE])>>  BY <2>2 DEF LoseCnf
    <3>3. Reports(LoseCnf(by10))  BY <3>2, ReportNames
    <3> QED BY <1>5, <2>1, <3>1, <3>3
  <2>3. CASE dl.link # "Startup"
    <3> DEFINE a == IF by10 /\ dl.mcmd # "none"
                    THEN <<JobArg("DEVMODE_CNF", FALSE)>> ELSE <<>>
               b == IF dl.par # NoOp /\ (by10 \/ dl.par.rw = "write")
                    THEN <<ParamRes(dl.par, "ERR", FALSE)>> ELSE <<>>
    <3>1. LoseCnf(by10) = a \o b  BY <2>3 DEF LoseCnf
    <3>2. Reports(a) /\ No(a, "cnf") /\ Reports(b) /\ No(b, "cnf")  BY ReportNames DEF ParamRes
    <3> HIDE DEF a, b
    <3>3. Reports(a \o b) /\ No(a \o b, "cnf")  BY <3>2, ReportNames, KindBoth DEF Reports
    <3> QED BY <1>4, <2>1, <3>1, <3>3
  <2> QED BY <2>2, <2>3
<1>17. CASE DeviceEvent
  <2>1. dl'.acc = dl.acc  BY <1>1, <1>10, <1>17, ServedTicks DEF DeviceEvent
  <2>2. PICK codes \in {<<"other">>, <<"UPLOAD">>, <<"other", "UPLOAD">>} : Posted(Events(codes))
    BY <1>17 DEF DeviceEvent
  <2>3. <<"other">> \in Seq({"other", "UPLOAD"}) /\ <<"UPLOAD">> \in Seq({"other", "UPLOAD"})
        /\ <<"other", "UPLOAD">> \in Seq({"other", "UPLOAD"})
    OBVIOUS
  <2>4. IsSeq(codes)  BY <2>3 DEF IsSeq
  <2> QED BY <1>4, <2>1, <2>2, <2>4, EventsReport
<1>18. CASE Swap  BY <1>18 DEF Swap, ServiceInv
<1> QED BY <1>7, <1>8, <1>9, <1>12, <1>13, <1>14, <1>15, <1>16, <1>17, <1>18 DEF LinkProgress, LinkTrouble

-----------------------------------------------------------------------------
\* The application configures a port while SM, DS and CM rest.
LEMMA ServiceApplication == ASSUME ServiceInv, TypeInv, Application PROVE ServiceInv'
<1>1. UNCHANGED <<dl, al, sm, ode, cm>> /\ IsSeq(jobs)
  BY DEF Application, link, TypeInv, Sound
<1>2. CASE Request
  <2>1. PICK op : Posted(<<JobArg("SMI_RW", op)>>)  BY <1>2 DEF Request
  <2> DEFINE p == <<JobArg("SMI_RW", op)>>
  <2>2. Neutral(p)  BY NeutralNames
  <2> HIDE DEF p
  <2>3. Reports(p) /\ No(p, "cnf")  BY <2>2 DEF Neutral, Indifferent, Aside, Reports
  <2> QED BY <1>1, <2>1, <2>3, ServiceReport DEF Posted, p
<1>3. CASE GiveUp  BY <1>1, <1>3 DEF GiveUp, ServiceInv
<1>4. CASE Configure
  <2>1. \A k \in {"good", "ready", "cfg", "start", "stop"} : Without(jobs, k)  BY <1>4, AtRest
  <2>2. PICK cfg : Posted(<<JobArg("SMI_PORTCFG", cfg)>>)  BY <1>4 DEF Configure
  <2> DEFINE j == JobArg("SMI_PORTCFG", cfg)
             r == <<j>>
             u == jobs \o r
  <2>3. jobs' = u  BY <2>2 DEF Posted
  <2>4. (\A k : Sort(j, k) <=> k = "cfg") /\ \A k : Kind(j, k) <=> k = "cfg"
    BY SortNames, KindNames
  <2> HIDE DEF j
  <2>5. IsSeq(r) /\ (\A k, l : Behind(r, k, l)) /\ \A k : Without(r, k) <=> k # "cfg"
    BY <2>4, SortOne, KindOne
  <2> HIDE DEF r
  <2>6. /\ \A k : k # "cfg" => (Without(u, k) <=> Without(jobs, k))
        /\ \A k, l : Behind(u, k, l)
                       <=> Behind(jobs, k, l) /\ (Without(jobs, k) \/ l # "cfg")
        /\ ~Without(u, "cfg")
    BY <1>1, <2>5, SortBoth
  <2> HIDE DEF u
  <2>7. ServiceAt(jobs, dl, sm.state, al, ode.state, cm.state)  BY DEF ServiceInv
  <2>8. OneRules(u, al, ode.state) /\ BeginRules(u, al, ode.state)
    BY <2>6, <2>7 DEF ServiceAt, OneRules, BeginRules, Free
  <2>9. StopRules(u)  BY <2>1, <2>6, <2>7 DEF ServiceAt, StopRules
  <2>10. ServiceAt(u, dl, sm.state, al, ode.state, cm.state)
    BY <2>6, <2>7, <2>8, <2>9 DEF ServiceAt, Free
  <2> QED BY <1>1, <2>3, <2>10 DEF ServiceInv
<1> QED BY <1>2, <1>3, <1>4 DEF Application

\* At the start there is no service.
LEMMA ServiceInit == ASSUME Init PROVE ServiceInv
<1>1. jobs = <<>> /\ al.owner = "none" /\ ode.state = "Inactive" /\ cm.state = "Port_Deactivated"
  BY DEF Init, AlInit, OdeInit, CmInit
<1>2. (\A k : Without(jobs, k)) /\ \A k, l : Behind(jobs, k, l)  BY <1>1, SortOne
<1> QED BY <1>1, <1>2 DEF ServiceInv, ServiceAt, OneRules, BeginRules, StopRules

\* Every step keeps the rules of the services.
LEMMA ServiceNext ==
  ASSUME ServiceInv, HandInv, ErrorInv, ExchangeInv, TypeInv, [Next]_vars PROVE ServiceInv'
<1>1. CASE Application  BY <1>1, ServiceApplication
<1>2. CASE LinkRuns \/ LinkFails  BY <1>2, ServiceLink DEF LinkRuns, LinkFails, above
<1>3. CASE AL_Request /\ UNCHANGED <<ode, pde, app, cm>>  BY <1>3, ServiceRequest
<1>4. CASE AL_Handler /\ UNCHANGED <<sm, ds, info, ode, pde, app, cm>>  BY <1>4, ServiceAl
<1>5. CASE SM_Handler /\ UNCHANGED <<ds, info, ode, pde, app, cm>>  BY <1>5, ServiceSm
<1>6. CASE DS_Handler /\ UNCHANGED <<ode, pde, app, cm>>  BY <1>6, ServiceDs
<1>7. CASE ODE_Handler /\ UNCHANGED cm  BY <1>7, ServiceOde
<1>8. CASE CM_Handler
  <2>1. UNCHANGED ode
    BY <1>8 DEF CM_Handler, CM_Configure, CM_PortMode, CM_DsReady, CM_DsFault, CM_Ignores,
                CM_ComReady, CM_Operate, CM_PortFault, CM_Comlost
  <2> QED BY <1>8, <2>1, ServiceCm
<1>9. CASE UNCHANGED vars  BY <1>9 DEF vars, link, above, ServiceInv
<1> QED BY <1>1, <1>2, <1>3, <1>4, <1>5, <1>6, <1>7, <1>8, <1>9 DEF Next, Master

\* Positions none of which is behind another are one at most.
LEMMA OnePlace == ASSUME NEW s, IsSeq(s), NEW P \in SUBSET DOMAIN s, \A i, j \in P : ~(i < j)
  PROVE Cardinality(P) \in {0, 1} /\ (P = {} => Cardinality(P) = 0)
<1>1. DOMAIN s = 1..Len(s) /\ Len(s) \in Nat
  <2>1. PICK S : s \in Seq(S)  BY DEF IsSeq
  <2> QED BY <2>1
<1>2. CASE P = {}  BY <1>2, FS_EmptySet
<1>3. CASE P # {}
  <2>1. PICK i : i \in P  BY <1>3
  <2>2. P = {i}  BY <1>1, <2>1
  <2> QED BY <2>2, FS_Singleton
<1> QED BY <1>2, <1>3

\* A service is with AL, or on its way there or back, once.
LEMMA OnesEnough == ASSUME TypeInv, HandInv, ServiceInv PROVE OneEach
<1> DEFINE P(who) == {i \in Pending("AL_REQ") \cup Pending("AL_CNF") : jobs[i].who = who}
<1>1. IsSeq(jobs)  BY DEF TypeInv, Sound
<1>2. \A who : P(who) \in SUBSET DOMAIN jobs  BY DEF Pending
<1>3. /\ al.owner = "SM" => P("SM") = {}
      /\ \A i, j \in P("SM") : ~(i < j)
  <2>1. \A i \in P("SM") : i \in DOMAIN jobs /\ Kind(jobs[i], "al")  BY DEF Pending, Kind
  <2>2. /\ al.owner = "SM" => No(jobs, "al")
        /\ Apart(jobs, "al", "al")
    BY DEF HandInv, HandAt, AskRules
  <2> HIDE DEF P
  <2> QED BY <2>1, <2>2 DEF No, Apart
<1>4. /\ al.owner = "ODE" => P("ODE") = {}
      /\ \A i, j \in P("ODE") : ~(i < j)
  <2>1. \A i \in P("ODE") : i \in DOMAIN jobs /\ Sort(jobs[i], "ode")  BY DEF Pending, Sort
  <2>2. /\ al.owner = "ODE" => Without(jobs, "ode")
        /\ Behind(jobs, "ode", "ode")
    BY DEF ServiceInv, ServiceAt, OneRules
  <2> HIDE DEF P
  <2> QED BY <2>1, <2>2 DEF Without, Behind
<1>5. ASSUME NEW who \in {"SM", "ODE"} PROVE InFlight(who) <= 1
  <2>1. InFlight(who) = (IF al.owner = who THEN 1 ELSE 0) + Cardinality(P(who))  BY DEF InFlight
  <2>2. al.owner = who => P(who) = {}  BY <1>3, <1>4
  <2>3. \A i, j \in P(who) : ~(i < j)  BY <1>3, <1>4
  <2>4. P(who) \in SUBSET DOMAIN jobs  BY <1>2
  <2> HIDE DEF P
  <2>5. Cardinality(P(who)) \in {0, 1} /\ (P(who) = {} => Cardinality(P(who)) = 0)
    BY <1>1, <2>3, <2>4, OnePlace
  <2> QED BY <2>1, <2>2, <2>5
<1> QED BY <1>5 DEF OneEach

\* SM and the on-request exchange have one service each at most, over every loss, stop,
\* configuration and new session (iolink_al.c, al_read_write_cb; iolink_ode.c): a request the
\* exchange was stopped with has been answered when the exchange is started again, for the
\* serial number that SM reads in between is queued behind it.
THEOREM ExchangeOne == Spec => []OneEach
<1>1. Spec => []ExchangeInv
  BY JobsProper, ExchangeInit, ExchangeNext, PTL DEF Spec
<1>2. Init => ServiceInv  BY ServiceInit
<1>3. ServiceInv /\ HandInv /\ ErrorInv /\ ExchangeInv /\ TypeInv /\ [Next]_vars => ServiceInv'
  BY ServiceNext
<1>4. TypeInv /\ HandInv /\ ServiceInv => OneEach  BY OnesEnough
<1> QED BY <1>1, <1>2, <1>3, <1>4, StartsHold, TypesHold, PTL DEF Spec

-----------------------------------------------------------------------------
(***************************************************************************)
(* The way to OPERATE, and that CM's idea of it is true.  CM calls the port *)
(* active when SM tells it so, SM when the data link has reached OPERATE;   *)
(* in between the link may be lost, and the news of the loss takes the same *)
(* way, behind the word that it takes back.  Only devices of revision 1.1:  *)
(* SM ignores the loss of one of revision 1.0 in some states.               *)
(***************************************************************************)
\* The states of SM before and behind CM's word to operate.
Met  == {"checkSerNum", "wait", "write_master_cycl", "wait_devmode_cnf"}
Late == {"write_master_cycl", "wait_devmode_cnf", "SMOperate"}

\* The link is in OPERATE, or SM will be told that it is lost.
Holds(s, d) == d.link = "Operate" \/ ~Off(s, "lost")

\* The mode SM has set, by its state, and the indication that is not there yet.
ModeRules(s, d, q) ==
  /\ q \in Met \/ (q = "waitonDLPreop" /\ ~Token(s, d)) => d.mode = "PREOPERATE" /\ Off(s, "oper")
  /\ q = "SMOperate" => d.mode = "OPERATE" /\ (Off(s, "oper") \/ Holds(s, d))
\* A configuration comes when SM and CM have nothing to handle.
PortRules(s) == After(s, "job", "port") /\ (Off(s, "port") \/ Off(s, "go"))
\* What SM has been told by CM, and CM by SM, in the states of CM.
StageRules(s, q, c) ==
  /\ c \in {"SM_Startup", "DS_ParamManager"} => Off(s, "go")
  /\ c = "SM_Startup" => Off(s, "ready") \/ (q \notin Late /\ After(s, "ready", "operate"))
  /\ c = "DS_ParamManager" => q \notin Late /\ Off(s, "operate")
  /\ c \in {"DS_ParamManager", "WaitingOnOperate", "Port_Active"} => Off(s, "smcfg")
\* SM operates, or CM will be told that the device is gone.
Operates(s, d, q) == (q = "SMOperate" /\ Holds(s, d)) \/ ~Off(s, "gone")
ActiveRules(s, d, q, c) ==
  c = "Port_Active" \/ (c = "WaitingOnOperate" /\ ~Off(s, "operate")) => Operates(s, d, q)

RunAt(s, d, q, c) == /\ ModeRules(s, d, q) /\ PortRules(s) /\ StageRules(s, q, c)
                     /\ ActiveRules(s, d, q, c)
Modern(x) == x.rev # "V10" /\ x.state \notin {"CheckCompV10", "waitonDLOperate"}
RunInv    == Modern(sm) /\ RunAt(jobs, dl, sm.state, cm.state)

\* A thread other than the master's posts: the configurations of the application apart.
LEMMA RunPost ==
  ASSUME NEW s, NEW d, NEW e, NEW q, NEW c, NEW p, IsSeq(s), IsSeq(p), RunAt(s, d, q, c),
         \A k : k \notin {"job", "lost", "oper"} => Off(p, k),
         e.mode = d.mode, Token(s, d) => Token(s \o p, e),
         q = "SMOperate" /\ Holds(s, d) => Holds(s \o p, e),
         Off(p, "oper") \/ (d.mode = "OPERATE" /\ e.link = "Operate")
  PROVE RunAt(s \o p, e, q, c)
<1> DEFINE r == s \o p
<1>1. /\ \A k : k \notin {"job", "lost", "oper"} => (Off(r, k) <=> Off(s, k))
      /\ \A k, l : k \notin {"job", "lost", "oper"} /\ l \notin {"job", "lost", "oper"}
                     => (After(r, k, l) <=> After(s, k, l))
      /\ After(r, "job", "port") <=> After(s, "job", "port")
      /\ Off(r, "oper") <=> Off(s, "oper") /\ Off(p, "oper")
  <2>1. \A k, l : Off(p, l) => After(p, k, l)  BY DEF Off, After
  <2>2. \A k, l : Off(p, k) => After(p, k, l)  BY DEF Off, After
  <2> QED BY <2>1, <2>2, MarkBoth
<1>2. /\ Token(s, d) => Token(r, e)
      /\ q = "SMOperate" /\ Holds(s, d) => Holds(r, e)
  OBVIOUS
<1> HIDE DEF r
<1>3. e.link = "Operate" => Holds(r, e)  BY DEF Holds
<1>4. ModeRules(r, e, q)
  <2>1. ModeRules(s, d, q)  BY DEF RunAt
  <2>2. q \in Met => q # "SMOperate" /\ q # "waitonDLPreop"  BY DEF Met
  <2>3. CASE q \in Met \/ (q = "waitonDLPreop" /\ ~Token(r, e))
    <3>1. d.mode = "PREOPERATE" /\ Off(s, "oper")  BY <1>2, <2>1, <2>3 DEF ModeRules
    <3> QED BY <1>1, <2>2, <2>3, <3>1 DEF ModeRules
  <2>4. CASE q = "SMOperate"  BY <1>1, <1>2, <1>3, <2>1, <2>2, <2>4 DEF ModeRules
  <2> QED BY <2>3, <2>4 DEF ModeRules
<1>5. PortRules(r) /\ StageRules(r, q, c)  BY <1>1 DEF RunAt, PortRules, StageRules
<1>6. ActiveRules(r, e, q, c)  BY <1>1, <1>2 DEF RunAt, ActiveRules, Operates
<1> QED BY <1>4, <1>5, <1>6 DEF RunAt, r

\* The master takes a job that has no part in it.
LEMMA RunTake ==
  ASSUME NEW s, NEW d, NEW e, NEW q, NEW c, NEW p, IsSeq(s), s # <<>>, Unmarked(p), RunAt(s, d, q, c),
         e.mode = d.mode, e.link = d.link,
         \A k \in {"lost", "gone"} : ~Mark(Head(s), k),
         Token(s, d) => Token(Tail(s) \o p, e) \/ q # "waitonDLPreop"
  PROVE RunAt(Tail(s) \o p, e, q, c)
<1> DEFINE t == Tail(s)
           h == Head(s)
           u == t \o p
<1>1. /\ IsSeq(t)
      /\ \A k : Off(s, k) <=> ~Mark(h, k) /\ Off(t, k)
      /\ \A k, l : After(s, k, l) <=> After(t, k, l) /\ (Mark(h, k) => Off(t, l))
  BY KindTail, MarkTail
<1>2. /\ \A k \in {"lost", "gone"} : ~Mark(h, k)
      /\ Token(s, d) => Token(u, e) \/ q # "waitonDLPreop"
  OBVIOUS
<1> HIDE DEF t, h
<1>3. /\ \A k : k # "job" => (Off(u, k) <=> Off(t, k))
      /\ \A k, l : k # "job" /\ l # "job" => (After(u, k, l) <=> After(t, k, l))
      /\ After(u, "job", "port") <=> After(t, "job", "port")
  <2>1. \A k, l : Off(p, l) => After(p, k, l)  BY DEF Off, After
  <2> QED BY <1>1, <2>1, MarkBoth DEF Unmarked
<1> HIDE DEF u
<1>4. Holds(s, d) <=> Holds(u, e)  BY <1>1, <1>2, <1>3 DEF Holds
<1>5. ModeRules(u, e, q)  BY <1>1, <1>2, <1>3, <1>4 DEF RunAt, ModeRules
<1>6. PortRules(u)
  <2>1. After(t, "job", "port") /\ (Off(t, "port") \/ Off(t, "go"))  BY <1>1 DEF RunAt, PortRules
  <2> QED BY <1>3, <2>1 DEF PortRules
<1>7. StageRules(u, q, c)  BY <1>1, <1>3 DEF RunAt, StageRules
<1>8. ActiveRules(u, e, q, c)  BY <1>1, <1>2, <1>3, <1>4 DEF RunAt, ActiveRules, Operates
<1> QED BY <1>5, <1>6, <1>7, <1>8 DEF RunAt, u, t

-----------------------------------------------------------------------------
\* A callback posted none of these.
UnmarkedHandled == \E p : Unmarked(p) /\ Handled(p)

\* AL, DS and the on-request exchange post nothing of it.
LEMMA OthersUnmarked ==
  ASSUME TypeInv, AL_Request \/ AL_Handler \/ DS_Handler \/ ODE_Handler
  PROVE UnmarkedHandled
<1>1. \A p : Neutral(p) => Unmarked(p)  BY DEF Neutral
<1>2. /\ \A who, op : Unmarked(<<AlReq(who, op)>>)
      /\ \A who, rw, err, len : Unmarked(<<AlCnf(who, rw, err, len)>>)
  BY MarkFree, MarkNames
<1>3. Unmarked(<<>>)  BY MarkFree
<1>4. \A arg : Unmarked(<<JobArg("ISDU_CNF", arg)>>) /\ Unmarked(<<JobArg("PARAM_CNF", arg)>>)
  BY MarkFree, MarkNames
<1>5. CASE AL_Request
  <2>1. \A op, refused : Unmarked(ParamCnf(op, refused))  BY <1>3, <1>4 DEF ParamCnf, ParamRes
  <2>2. \A d : Unmarked(TransportCnf(d))  BY <1>3, <1>4 DEF TransportCnf
  <2>3. PICK op : AL_ReadWrite(op)  BY <1>5 DEF AL_Request
  <2> QED BY <1>2, <2>1, <2>2, <2>3 DEF AL_ReadWrite, UnmarkedHandled
<1>6. CASE AL_Handler
  <2>1. \A awaited, err, len : AL_Confirm(awaited, err, len) => UnmarkedHandled
    BY <1>2, <1>3 DEF AL_Confirm, UnmarkedHandled
  <2>2. AL_ParamCnf \/ AL_IsduCnf => UnmarkedHandled  BY <2>1 DEF AL_ParamCnf, AL_IsduCnf
  <2>3. AL_EventInd => UnmarkedHandled
    BY <1>1, <1>3, EventNeutral DEF AL_EventInd, UnmarkedHandled
  <2>4. AL_EventRsp => UnmarkedHandled  BY <1>3 DEF AL_EventRsp, UnmarkedHandled
  <2> QED BY <1>6, <2>2, <2>3, <2>4 DEF AL_Handler
<1>7. CASE DS_Handler
  BY <1>1, <1>7, DsHandlerNeutral DEF NeutralHandled, UnmarkedHandled
<1>8. CASE ODE_Handler
  BY <1>2, <1>3, <1>8 DEF ODE_Handler, ODE_Request, ODE_ALCnf, ODE_Start, ODE_Stop, UnmarkedHandled
<1> QED BY <1>5, <1>6, <1>7, <1>8

\* They keep the rules.
LEMMA RunOthers ==
  ASSUME RunInv, TypeInv, AL_Request \/ AL_Handler \/ DS_Handler \/ ODE_Handler, UNCHANGED <<sm, cm>>
  PROVE RunInv'
<1> DEFINE h == Head(jobs)
<1>1. /\ jobs # <<>> /\ IsSeq(jobs)
      /\ h.type \notin {"MODE", "PORT_MODE", "DL_CNF"}
  BY DEF AL_Request, AL_Handler, AL_ParamCnf, AL_IsduCnf, AL_EventInd, AL_EventRsp, DS_Handler, DS_ALCnf,
         DS_Startup, DS_Upload, DS_Delete, DS_Init, ODE_Handler, ODE_Request, ODE_ALCnf, ODE_Start,
         ODE_Stop, Due, TypeInv, Sound
<1>2. dl'.mode = dl.mode /\ dl'.link = dl.link /\ dl'.acc = dl.acc
  <2>1. LinkTyped  BY DEF TypeInv
  <2>2. \A op : LET a == Param(dl, op)  b == Transport(dl, op) IN
          /\ a.mode = dl.mode /\ a.link = dl.link /\ a.acc = dl.acc
          /\ b.mode = dl.mode /\ b.link = dl.link /\ b.acc = dl.acc
    BY <2>1 DEF Param, Transport, LinkTyped, DlInit
  <2>3. CASE AL_Request
    <3>1. PICK op : AL_ReadWrite(op)  BY <2>3 DEF AL_Request
    <3> QED BY <2>2, <3>1 DEF AL_ReadWrite
  <2>4. CASE AL_Handler \/ DS_Handler \/ ODE_Handler
    <3>1. UNCHANGED dl
      BY <2>4 DEF AL_Handler, AL_ParamCnf, AL_IsduCnf, AL_EventInd, AL_EventRsp, DS_Handler, DS_ALCnf,
           DS_Startup, DS_Upload, DS_Delete, DS_Init, ODE_Handler, ODE_Request, ODE_ALCnf, ODE_Start,
           ODE_Stop
    <3> QED BY <3>1
  <2> QED BY <2>3, <2>4
<1>3. PICK p : Unmarked(p) /\ Handled(p)  BY OthersUnmarked DEF UnmarkedHandled
<1>4. \A k \in {"lost", "gone"} : ~Mark(h, k)  BY <1>1 DEF Mark
<1>5. Token(jobs, dl) => Token(Tail(jobs) \o p, dl')
  <2>1. ~Kind(h, "cnf")  BY <1>1 DEF Kind
  <2>2. No(Tail(jobs) \o p, "cnf") => No(jobs, "cnf")
    BY <1>1, <1>3, <2>1, KindTail, KindBoth DEF Unmarked
  <2> QED BY <1>2, <2>2 DEF Token
<1>6. RunAt(jobs, dl, sm.state, cm.state)  BY DEF RunInv
<1>7. RunAt(Tail(jobs) \o p, dl', sm.state, cm.state)
  BY <1>1, <1>2, <1>3, <1>4, <1>5, <1>6, RunTake
<1> QED BY <1>3, <1>7 DEF RunInv, Handled

-----------------------------------------------------------------------------
\* The application configures a port while SM, DS and CM rest.
LEMMA RunApplication == ASSUME RunInv, TypeInv, Application PROVE RunInv'
<1>1. UNCHANGED <<dl, sm, cm>> /\ IsSeq(jobs)  BY DEF Application, link, TypeInv, Sound
<1>2. CASE Request
  <2>1. PICK op : Posted(<<JobArg("SMI_RW", op)>>)  BY <1>2 DEF Request
  <2> DEFINE p == <<JobArg("SMI_RW", op)>>
  <2>2. Unmarked(p) /\ IsSeq(p)  BY MarkFree, MarkNames DEF Unmarked
  <2> HIDE DEF p
  <2>3. (Token(jobs, dl) => Token(jobs \o p, dl)) /\ (Holds(jobs, dl) => Holds(jobs \o p, dl))
    BY <1>1, <2>2, KindBoth, MarkBoth DEF Token, Holds
  <2>4. RunAt(jobs, dl, sm.state, cm.state)  BY DEF RunInv
  <2>5. RunAt(jobs \o p, dl, sm.state, cm.state)  BY <1>1, <2>2, <2>3, <2>4, RunPost DEF Unmarked
  <2> QED BY <1>1, <2>1, <2>5 DEF RunInv, Posted, p
<1>3. CASE GiveUp  BY <1>1, <1>3 DEF GiveUp, RunInv
<1>4. CASE Configure
  <2>1. (\A k : Off(jobs, k)) /\ No(jobs, "cnf")  BY <1>4, AtRest
  <2>2. PICK cfg : Posted(<<JobArg("SMI_PORTCFG", cfg)>>)  BY <1>4 DEF Configure
  <2> DEFINE j == JobArg("SMI_PORTCFG", cfg)
             r == <<j>>
             u == jobs \o r
  <2>3. jobs' = u  BY <2>2 DEF Posted
  <2>4. (\A k : k # "job" => (Mark(j, k) <=> k = "port")) /\ ~Kind(j, "cnf")  BY MarkNames, KindNames
  <2> HIDE DEF j
  <2>5. /\ IsSeq(r) /\ (\A k, l : After(r, k, l))
        /\ \A k : k # "job" => (Off(r, k) <=> k # "port")
        /\ No(r, "cnf")
    BY <2>4, MarkOne, KindOne
  <2> HIDE DEF r
  <2>6. /\ \A k, l : After(u, k, l)
        /\ \A k : k # "job" => (Off(u, k) <=> k # "port")
        /\ No(u, "cnf")
    <3>1. \A k, l : After(jobs, k, l)  BY <2>1 DEF After, Off
    <3> QED BY <1>1, <2>1, <2>5, <3>1, MarkBoth, KindBoth
  <2> HIDE DEF u
  <2>7. RunAt(jobs, dl, sm.state, cm.state)  BY DEF RunInv
  <2>8. (Token(jobs, dl) <=> Token(u, dl)) /\ (Holds(jobs, dl) <=> Holds(u, dl))
    BY <2>1, <2>6 DEF Token, Holds
  <2>9. ModeRules(u, dl, sm.state) /\ PortRules(u) /\ StageRules(u, sm.state, cm.state)
    BY <2>1, <2>6, <2>7, <2>8 DEF RunAt, ModeRules, PortRules, StageRules
  <2>10. ActiveRules(u, dl, sm.state, cm.state)
    BY <2>1, <2>6, <2>7, <2>8 DEF RunAt, ActiveRules, Operates
  <2> QED BY <1>1, <2>3, <2>7, <2>9, <2>10 DEF RunInv, RunAt
<1> QED BY <1>2, <1>3, <1>4 DEF Application

-----------------------------------------------------------------------------
\* What the data link posts: it tells of the link, and answers.
Tells(p) == IsSeq(p) /\ \A k : k \notin {"job", "lost", "oper"} => Off(p, k)

\* What each of its posts tells.
LEMMA TellNames ==
  /\ \A p : Unmarked(p) => Tells(p) /\ Off(p, "oper")
  /\ \A mode : LET p == <<ModeInd(mode)>> IN
       Tells(p) /\ (mode # "OPERATE" => Off(p, "oper")) /\ (mode = "COMLOST" => ~Off(p, "lost"))
  /\ \A d : Unmarked(IsduDownCnf(d))
  /\ \A type \in {"ISDU_CNF", "PARAM_CNF", "DEVMODE_CNF", "DL_CNF"} : \A arg :
       Unmarked(<<JobArg(type, arg)>>)
  /\ \A by10 : Unmarked(LoseCnf(by10))
<1>1. \A p : Unmarked(p) => Tells(p) /\ Off(p, "oper")  BY DEF Unmarked, Tells
<1>2. ASSUME NEW mode
      PROVE LET p == <<ModeInd(mode)>> IN
            Tells(p) /\ (mode # "OPERATE" => Off(p, "oper")) /\ (mode = "COMLOST" => ~Off(p, "lost"))
  BY KindOne, MarkOne, MarkNames DEF Tells
<1>3. ASSUME NEW type \in {"ISDU_CNF", "PARAM_CNF", "DEVMODE_CNF", "DL_CNF"}, NEW arg
      PROVE Unmarked(<<JobArg(type, arg)>>)
  BY MarkFree, MarkNames
<1>4. \A d : Unmarked(IsduDownCnf(d))  BY <1>3, MarkFree DEF IsduDownCnf
<1>5. ASSUME NEW by10 PROVE Unmarked(LoseCnf(by10))
  <2> DEFINE a == IF by10 /\ dl.mcmd # "none"
                  THEN <<JobArg("DEVMODE_CNF", FALSE)>> ELSE <<>>
             b == IF dl.par # NoOp /\ (by10 \/ dl.par.rw = "write")
                  THEN <<ParamRes(dl.par, "ERR", FALSE)>> ELSE <<>>
  <2>1. Unmarked(a) /\ Unmarked(b)  BY <1>3, MarkFree DEF ParamRes
  <2>2. dl.link # "Startup" => LoseCnf(by10) = a \o b  BY DEF LoseCnf
  <2> HIDE DEF a, b
  <2> QED BY <1>3, <2>1, <2>2, MarkFree DEF LoseCnf
<1> QED BY <1>1, <1>2, <1>3, <1>4, <1>5

\* The data link reaches OPERATE only when SM has set it, and what SM has set OPERATE for
\* is lost with an indication.
LEMMA RunLink ==
  ASSUME RunInv, HandInv, TypeInv, LinkProgress \/ LinkTrouble, UNCHANGED <<sm, cm>>
  PROVE RunInv'
<1> DEFINE s == jobs
           q == sm.state
<1>1. IsSeq(jobs) /\ LinkTyped  BY DEF TypeInv, Sound
<1>2. RunAt(s, dl, q, cm.state)  BY DEF RunInv
<1>3. dl.acc # "none" => dl.link = "Startup"  BY DEF HandInv, HandAt, TokenRules
<1>4. q = "SMOperate" => dl.mode = "OPERATE"  BY <1>2 DEF RunAt, ModeRules
<1>5. ASSUME NEW p, Posted(p), Tells(p), dl'.mode = dl.mode,
             dl'.acc = dl.acc \/ (dl'.acc = "none" /\ (dl.acc # "none" => ~No(p, "cnf"))),
             q = "SMOperate" /\ dl.link = "Operate" => dl'.link = "Operate" \/ ~Off(p, "lost"),
             Off(p, "oper") \/ (dl.mode = "OPERATE" /\ dl'.link = "Operate")
      PROVE RunInv'
  <2>1. IsSeq(p)  BY <1>5 DEF Tells
  <2>2. Token(s, dl) => Token(s \o p, dl')  BY <1>1, <1>5, <2>1, KindBoth DEF Token
  <2>3. q = "SMOperate" /\ Holds(s, dl) => Holds(s \o p, dl')
    BY <1>1, <1>5, <2>1, MarkBoth DEF Holds
  <2>4. \A k : k \notin {"job", "lost", "oper"} => Off(p, k)  BY <1>5 DEF Tells
  <2>5. RunAt(s \o p, dl', q, cm.state)
    BY <1>1, <1>2, <1>5, <2>1, <2>2, <2>3, <2>4, RunPost
  <2> QED BY <1>5, <2>5 DEF RunInv, Posted
<1>6. ASSUME NEW p, Posted(p), Unmarked(p), dl'.mode = dl.mode,
             dl'.acc = dl.acc \/ (dl'.acc = "none" /\ (dl.acc # "none" => ~No(p, "cnf"))),
             dl'.link = dl.link
      PROVE RunInv'
  BY <1>5, <1>6, TellNames
<1>7. ASSUME UNCHANGED jobs, dl'.mode = dl.mode, dl'.acc = dl.acc,
             dl.link = "Operate" => dl'.link = "Operate"
      PROVE RunInv'
  <2>1. Posted(<<>>)  BY <1>1, <1>7, ConcatNone DEF Posted
  <2> QED BY <1>5, <1>7, <2>1, MarkFree, TellNames
<1>8. ASSUME NEW type \in {"ISDU_CNF", "PARAM_CNF", "DEVMODE_CNF"}, NEW arg,
             Posted(<<JobArg(type, arg)>>), dl'.mode = dl.mode, dl'.acc = dl.acc, dl'.link = dl.link
      PROVE RunInv'
  <2>1. Unmarked(<<JobArg(type, arg)>>)  BY TellNames
  <2> QED BY <1>6, <1>8, <2>1
<1>9. LET e == Served(dl) IN e.mode = dl.mode /\ e.acc = dl.acc /\ e.link = dl.link /\ DOMAIN e = DOMAIN DlInit
  BY <1>1 DEF Served, LinkTyped, DlInit
<1>10. \A what, ok : ~No(<<JobArg("DL_CNF", [what |-> what, ok |-> ok])>>, "cnf")
  <2>1. \A what, ok : Kind(JobArg("DL_CNF", [what |-> what, ok |-> ok]), "cnf")  BY DEF Kind, JobArg
  <2> QED BY <2>1, KindOne
<1>11. CASE ModeStep
  <2> DEFINE d == [dl EXCEPT !.mdh = "no"]
             Kept(e) == e.mode = dl.mode /\ e.acc = dl.acc /\ DOMAIN e = DOMAIN DlInit
  <2>1. Kept(d) /\ d.link = dl.link  BY <1>1 DEF LinkTyped, DlInit
  <2>2. Kept(IsduDown(d)) /\ IsduDown(d).link = dl.link  BY <2>1 DEF IsduDown, DlInit
  <2>3. \/ dl' = d /\ UNCHANGED jobs
        \/ dl' = [d EXCEPT !.link = "WakeUp", !.wurq = TRUE] /\ UNCHANGED jobs /\ dl.link = "Idle"
        \/ Goto(d, "Preop", "PREOPERATE") /\ dl.link = "Startup"
        \/ Goto(d, "Operate", "OPERATE") /\ dl.mode = "OPERATE"
        \/ GotoIdle(d, "INACTIVE") /\ dl.mode = "INACTIVE"
        \/ GotoIdle(d, "COMLOST")
        \/ GotoStartup(d) /\ dl.mode = "STARTUP"
    BY <1>11, <2>1 DEF ModeStep
  <2> HIDE DEF d
  <2>4. ASSUME NEW mode PROVE LET p == IsduDownCnf(d) \o <<ModeInd(mode)>> IN
          /\ Tells(p) /\ (mode # "OPERATE" => Off(p, "oper"))
          /\ mode = "COMLOST" => ~Off(p, "lost")
    <3> DEFINE a == IsduDownCnf(d)  b == <<ModeInd(mode)>>
    <3>1. Unmarked(a) /\ IsSeq(a) /\ IsSeq(b)  BY TellNames DEF Unmarked, Tells
    <3>2. /\ Tells(b) /\ (mode # "OPERATE" => Off(b, "oper"))
          /\ mode = "COMLOST" => ~Off(b, "lost")
      BY TellNames
    <3> HIDE DEF a, b
    <3>3. \A k : Off(a \o b, k) <=> Off(a, k) /\ Off(b, k)  BY <3>1, MarkBoth
    <3>4. IsSeq(a \o b)  BY <3>1, KindBoth
    <3>5. /\ Tells(a \o b) /\ (mode # "OPERATE" => Off(a \o b, "oper"))
          /\ mode = "COMLOST" => ~Off(a \o b, "lost")
      BY <3>1, <3>2, <3>3, <3>4 DEF Unmarked, Tells
    <3> QED BY <3>5 DEF a, b
  <2>5. CASE dl' = d /\ UNCHANGED jobs  BY <1>7, <2>1, <2>5
  <2>6. CASE dl' = [d EXCEPT !.link = "WakeUp", !.wurq = TRUE] /\ UNCHANGED jobs /\ dl.link = "Idle"
    <3>1. dl'.mode = dl.mode /\ dl'.acc = dl.acc  BY <2>1, <2>6 DEF DlInit
    <3> QED BY <1>7, <2>6, <3>1
  <2>7. ASSUME NEW to, NEW mode, Goto(d, to, mode),
               \/ to = "Preop" /\ mode = "PREOPERATE" /\ dl.link = "Startup"
               \/ to = "Operate" /\ mode = "OPERATE" /\ dl.mode = "OPERATE"
        PROVE RunInv'
    <3>1. Posted(<<ModeInd(mode)>>) /\ dl'.mode = dl.mode /\ dl'.acc = dl.acc /\ dl'.link = to
      BY <2>1, <2>7 DEF Goto, DlInit
    <3> QED BY <1>5, <2>7, <3>1, TellNames
  <2>8. ASSUME NEW mode, GotoIdle(d, mode),
               (mode = "INACTIVE" /\ dl.mode = "INACTIVE") \/ mode = "COMLOST"
        PROVE RunInv'
    <3>1. Posted(IsduDownCnf(d) \o <<ModeInd(mode)>>) /\ dl'.mode = dl.mode /\ dl'.acc = dl.acc
      BY <2>2, <2>8 DEF GotoIdle, DlInit
    <3> QED BY <1>4, <1>5, <2>4, <2>8, <3>1
  <2>9. ASSUME GotoStartup(d), dl.mode = "STARTUP" PROVE RunInv'
    <3>1. Posted(IsduDownCnf(d) \o <<ModeInd("STARTUP")>>) /\ dl'.mode = dl.mode /\ dl'.acc = dl.acc
      BY <2>2, <2>9 DEF GotoStartup, DlInit
    <3> QED BY <1>4, <1>5, <2>4, <2>9, <3>1
  <2> QED BY <2>3, <2>5, <2>6, <2>7, <2>8, <2>9
<1>12. CASE WakeUp
  <2>1. PICK mode \in {"STARTUP", "INACTIVE"} :
          dl'.acc = dl.acc /\ dl'.mode = dl.mode /\ Posted(<<ModeInd(mode)>>)
    BY <1>9, <1>12 DEF WakeUp, DlInit
  <2>2. dl.link # "Operate"  BY <1>12 DEF WakeUp
  <2> QED BY <1>5, <2>1, <2>2, TellNames
<1>13. CASE AccessDone
  <2>1. dl.acc # "none" /\ Posted(<<JobArg("DL_CNF", [what |-> dl.acc, ok |-> TRUE])>>)
    BY <1>13 DEF AccessDone
  <2>2. dl'.acc = "none" /\ dl'.mode = dl.mode /\ dl'.link = dl.link  BY <1>9, <1>13 DEF AccessDone, DlInit
  <2> QED BY <1>6, <1>10, <2>1, <2>2, TellNames
<1>14. CASE IsduStart
  <2>1. dl'.acc = dl.acc /\ dl'.mode = dl.mode /\ dl'.link = dl.link /\ UNCHANGED jobs
    BY <1>9, <1>14 DEF IsduStart, DlInit
  <2> QED BY <1>7, <2>1
<1>15. CASE IsduDone \/ IsduFails
  <2>1. dl' = [Served(dl) EXCEPT !.isdu = NoOp, !.run = FALSE]  BY <1>15 DEF IsduDone, IsduFails
  <2>2. dl'.acc = dl.acc /\ dl'.mode = dl.mode /\ dl'.link = dl.link  BY <1>9, <2>1 DEF DlInit
  <2>3. PICK arg : Posted(<<JobArg("ISDU_CNF", arg)>>)  BY <1>15 DEF IsduDone, IsduFails
  <2> QED BY <1>8, <2>2, <2>3
<1>16. CASE ParamDone
  <2>1. dl' = [Served(dl) EXCEPT !.par = NoOp]  BY <1>16 DEF ParamDone
  <2>2. dl'.acc = dl.acc /\ dl'.mode = dl.mode /\ dl'.link = dl.link  BY <1>9, <2>1 DEF DlInit
  <2>3. PICK arg : Posted(<<JobArg("PARAM_CNF", arg)>>)  BY <1>16 DEF ParamDone, ParamRes
  <2> QED BY <1>8, <2>2, <2>3
<1>17. CASE ModeDone
  <2>1. dl' = [Served(dl) EXCEPT !.mcmd = "none", !.code = "none"] /\ Posted(<<JobArg("DEVMODE_CNF", TRUE)>>)
    BY <1>17 DEF ModeDone
  <2>2. dl'.acc = dl.acc /\ dl'.mode = dl.mode /\ dl'.link = dl.link  BY <1>9, <2>1 DEF DlInit
  <2> QED BY <1>8, <2>1, <2>2
<1>18. CASE Lose
  <2>1. PICK by10 : dl'.acc = "none" /\ dl'.mode = dl.mode /\ dl'.link = dl.link
                     /\ Posted(LoseCnf(by10))
    BY <1>1, <1>18 DEF Lose, LinkTyped, DlInit
  <2>2. dl.acc # "none" => ~No(LoseCnf(by10), "cnf")  BY <1>3, <1>10 DEF LoseCnf
  <2> QED BY <1>6, <2>1, <2>2, TellNames
<1>19. CASE DeviceEvent
  <2>1. dl'.acc = dl.acc /\ dl'.mode = dl.mode /\ dl'.link = dl.link  BY <1>9, <1>19 DEF DeviceEvent
  <2>2. PICK codes \in {<<"other">>, <<"UPLOAD">>, <<"other", "UPLOAD">>} : Posted(Events(codes))
    BY <1>19 DEF DeviceEvent
  <2>3. <<"other">> \in Seq({"other", "UPLOAD"}) /\ <<"UPLOAD">> \in Seq({"other", "UPLOAD"})
        /\ <<"other", "UPLOAD">> \in Seq({"other", "UPLOAD"})
    OBVIOUS
  <2>4. IsSeq(codes)  BY <2>3 DEF IsSeq
  <2>5. IsSeq(Events(codes))  BY <2>4, EventsAside DEF Aside
  <2> DEFINE ev(i) == JobArg("EVENT", [code |-> codes[i], left |-> i < Len(codes)])
  <2>6. \A i, k : k # "job" => ~Mark(ev(i), k)  BY MarkNames
  <2>7. Events(codes) = [i \in DOMAIN codes |-> ev(i)]  BY DEF Events
  <2> HIDE DEF ev
  <2>8. Unmarked(Events(codes))  BY <2>5, <2>6, <2>7 DEF Unmarked, Off
  <2> QED BY <1>6, <2>1, <2>2, <2>8
<1>20. CASE Swap
  <2>1. UNCHANGED <<jobs, dl>>  BY <1>20 DEF Swap
  <2> QED BY <2>1 DEF RunInv
<1> QED BY <1>11, <1>12, <1>13, <1>14, <1>15, <1>16, <1>17, <1>18, <1>19, <1>20 DEF LinkProgress, LinkTrouble

-----------------------------------------------------------------------------
\* CM: it starts anew with a configuration, which it is told of when SM has not been told to
\* operate; the word to operate goes out and comes back once in a start-up.
LEMMA RunCm == ASSUME RunInv, ServiceInv, TypeInv, CM_Handler PROVE RunInv'
<1> DEFINE s == jobs
           t == Tail(jobs)
           h == Head(jobs)
           q == sm.state
           c == cm.state
           Few(p) == IsSeq(p) /\ \A k : k \notin {"job", "smcfg"} => Off(p, k)
<1>1. UNCHANGED <<dl, sm>> /\ s # <<>> /\ IsSeq(s)
  BY CmRelays DEF CM_Handler, TypeInv, Sound
<1>2. /\ IsSeq(t)
      /\ \A k : Off(s, k) <=> ~Mark(h, k) /\ Off(t, k)
      /\ \A k, l : After(s, k, l) <=> After(t, k, l) /\ (Mark(h, k) => Off(t, l))
      /\ \A k : No(s, k) <=> ~Kind(h, k) /\ No(t, k)
  BY <1>1, KindTail, MarkTail
<1>3. RunAt(s, dl, q, c)  BY DEF RunInv
<1>4. Mark(h, "job") /\ ~Mark(h, "lost") /\ ~Mark(h, "oper") /\ ~Kind(h, "cnf") /\ ~Mark(h, "smcfg")
  <2>1. h.type \in {"SMI_PORTCFG", "PORT_MODE", "DS_READY", "DS_FAULT"}
    BY DEF CM_Handler, CM_Configure, CM_PortMode, CM_DsReady, CM_DsFault, Due
  <2> HIDE DEF h
  <2> QED BY <2>1 DEF Mark, Kind
<1>5. /\ CM_Configure => Mark(h, "port") /\ Sort(h, "cfg")
      /\ CM_PortMode => \A k : k # "job" => (Mark(h, k) <=> \/ k = "ready" /\ DueArg("PORT_MODE") = "COMREADY"
                                                            \/ k = "operate" /\ DueArg("PORT_MODE") = "OPERATE"
                                                            \/ k = "gone" /\ DueArg("PORT_MODE") = "COMLOST")
      /\ CM_DsReady \/ CM_DsFault => \A k : k # "job" => ~Mark(h, k)
  BY DEF CM_Configure, CM_PortMode, CM_DsReady, CM_DsFault, Due, DueArg, Mark, Sort
<1>6. /\ Without(s, "ready") <=> Off(s, "ready")
      /\ ~Off(s, "smcfg") => ~Without(s, "cfg")
      /\ Mark(h, "port") => ~Without(s, "cfg")
  <2>1. (Without(s, "ready") <=> Off(s, "ready")) /\ (~Off(s, "smcfg") => ~Without(s, "cfg"))
    BY DEF Without, Off, Sort, Mark
  <2>2. Sort(h, "cfg") => ~Without(s, "cfg")  BY <1>1, SortTail
  <2>3. Mark(h, "port") => Sort(h, "cfg")  BY DEF Mark, Sort
  <2> QED BY <2>1, <2>2, <2>3
<1>7. ~Off(s, "smcfg") \/ Mark(h, "port") => Off(s, "ready")
  BY <1>6 DEF ServiceInv, ServiceAt, StopRules
<1> HIDE DEF s, t, h, q, c
<1>8. Off(t, "port")  BY <1>2, <1>3, <1>4 DEF RunAt, PortRules
<1>9. ASSUME NEW p, Few(p)
      PROVE LET u == t \o p IN
            /\ \A k : k \notin {"job", "smcfg"} => (Off(u, k) <=> Off(t, k))
            /\ After(t, "ready", "operate") => After(u, "ready", "operate")
            /\ Off(p, "smcfg") /\ Off(t, "smcfg") => Off(u, "smcfg")
            /\ ModeRules(u, dl, q) /\ PortRules(u)
            /\ Holds(s, dl) => Holds(u, dl)
  <2> DEFINE u == t \o p
  <2>1. IsSeq(p) /\ \A k : k \notin {"job", "smcfg"} => Off(p, k)  BY <1>9
  <2>2. /\ \A k : Off(u, k) <=> Off(t, k) /\ Off(p, k)
        /\ \A k, l : After(u, k, l) <=> After(t, k, l) /\ After(p, k, l) /\ (Off(t, k) \/ Off(p, l))
        /\ No(u, "cnf") => No(t, "cnf")
    BY <1>2, <2>1, MarkBoth, KindBoth
  <2>3. \A k : After(p, k, "port") /\ After(p, k, "operate")  BY <2>1 DEF Off, After
  <2> HIDE DEF u
  <2>4. \A k : k \notin {"job", "smcfg"} => (Off(u, k) <=> Off(t, k))  BY <2>1, <2>2
  <2>5. Holds(s, dl) => Holds(u, dl)  BY <1>2, <1>4, <2>4 DEF Holds
  <2>6. Token(s, dl) => Token(u, dl)  BY <1>2, <1>4, <2>2 DEF Token
  <2>7. ModeRules(u, dl, q)  BY <1>2, <1>3, <1>4, <2>4, <2>5, <2>6 DEF RunAt, ModeRules
  <2>8. After(u, "job", "port")
    <3>1. After(t, "job", "port")  BY <1>2, <1>3 DEF RunAt, PortRules
    <3> QED BY <2>1, <2>2, <2>3, <3>1
  <2>9. PortRules(u)  BY <1>8, <2>4, <2>8 DEF PortRules
  <2>10. After(t, "ready", "operate") => After(u, "ready", "operate")  BY <2>1, <2>2, <2>3
  <2> QED BY <2>2, <2>4, <2>5, <2>7, <2>9, <2>10 DEF u
<1>10. ASSUME NEW p, Handled(p), Few(p), StageRules(t \o p, q, cm'.state),
              ActiveRules(t \o p, dl, q, cm'.state)
       PROVE RunInv'
  BY <1>1, <1>9, <1>10 DEF RunInv, RunAt, Handled, q, t
<1>11. Few(<<>>) /\ Off(<<>>, "smcfg")  BY MarkFree DEF Unmarked
<1>12. ASSUME Handled(<<>>), cm'.state = c,
              Mark(h, "gone") => c \notin {"WaitingOnOperate", "Port_Active"}
       PROVE RunInv'
  <2> DEFINE u == t \o <<>>
  <2>1. /\ \A k : k \notin {"job", "smcfg"} => (Off(u, k) <=> Off(t, k))
        /\ After(t, "ready", "operate") => After(u, "ready", "operate")
        /\ Off(t, "smcfg") => Off(u, "smcfg")
        /\ Holds(s, dl) => Holds(u, dl)
    BY <1>9, <1>11
  <2> HIDE DEF u
  <2>2. StageRules(u, q, c)  BY <1>2, <1>3, <2>1 DEF RunAt, StageRules
  <2>3. ActiveRules(u, dl, q, c)  BY <1>2, <1>3, <1>12, <2>1 DEF RunAt, ActiveRules, Operates
  <2> QED BY <1>10, <1>11, <1>12, <2>2, <2>3 DEF u
<1>13. ASSUME Handled(<<>>), cm'.state \in {"PortFault", "CheckPortMode"} PROVE RunInv'
  BY <1>10, <1>11, <1>13 DEF StageRules, ActiveRules
<1>14. ASSUME CM_Configure PROVE RunInv'
  <2>1. Mark(h, "port") /\ Off(t, "go") /\ Off(t, "ready")
    BY <1>2, <1>3, <1>5, <1>7, <1>14 DEF RunAt, PortRules
  <2>2. CASE c = "DS_ParamManager"
    <3>1. Handled(<<>>) /\ cm'.state = c  BY <1>14, <2>2 DEF CM_Configure, CM_Ignores, c
    <3> QED BY <1>12, <2>2, <3>1
  <2>3. CASE c # "DS_ParamManager"
    <3>1. \E cfg : CM_Startup(cfg) \/ CM_DIDO(cfg) \/ CM_Deactivate(cfg, FALSE) \/ CM_Deactivate(cfg, TRUE)
      BY <1>14, <2>3 DEF CM_Configure, c
    <3>2. CmConfigures /\ cm'.state \in {"SM_Startup", "Port_DIDO", "Port_Deactivated"}
      BY <3>1, CmConfigured
    <3>3. PICK p : Few(p) /\ Handled(p)  BY <3>2 DEF CmConfigures, Configuring
    <3> DEFINE u == t \o p
    <3>4. Off(u, "go") /\ Off(u, "ready")  BY <1>9, <2>1, <3>3
    <3> HIDE DEF u
    <3>5. StageRules(u, q, cm'.state) /\ ActiveRules(u, dl, q, cm'.state)
      BY <3>2, <3>4 DEF StageRules, ActiveRules
    <3> QED BY <1>10, <3>3, <3>5 DEF u
  <2> QED BY <2>2, <2>3
<1>15. ASSUME NEW type \in {"DS_STARTUP", "OD_START"}
       PROVE Few(<<Job(type)>>) /\ Off(<<Job(type)>>, "smcfg")
  <2>1. Unmarked(<<Job(type)>>)  BY MarkFree, MarkNames
  <2> QED BY <2>1 DEF Unmarked
<1>16. ASSUME CM_PortMode PROVE RunInv'
  <2>1. \A k : k # "job" => (Mark(h, k) <=> \/ k = "ready" /\ DueArg("PORT_MODE") = "COMREADY"
                                            \/ k = "operate" /\ DueArg("PORT_MODE") = "OPERATE"
                                            \/ k = "gone" /\ DueArg("PORT_MODE") = "COMLOST")
    BY <1>5, <1>16
  <2>2. CASE DueArg("PORT_MODE") = "COMREADY" /\ CM_ComReady
    <3> DEFINE p == <<Job("DS_STARTUP")>>
               u == t \o p
    <3>1. Handled(p) /\ c = "SM_Startup" /\ cm'.state = "DS_ParamManager"
      BY <2>2 DEF CM_ComReady, CM_Moves, CM_Calls, c
    <3>2. Few(p) /\ Off(p, "smcfg")  BY <1>15
    <3>3. Mark(h, "ready") /\ ~Off(s, "ready")  BY <1>2, <2>1, <2>2
    <3>4. q \notin Late /\ Off(t, "operate") /\ Off(t, "go") /\ Off(t, "smcfg")
      BY <1>2, <1>3, <1>7, <3>1, <3>3 DEF RunAt, StageRules
    <3> HIDE DEF p
    <3>5. Off(u, "operate") /\ Off(u, "go") /\ Off(u, "smcfg")  BY <1>9, <3>2, <3>4
    <3> HIDE DEF u
    <3>6. StageRules(u, q, cm'.state) /\ ActiveRules(u, dl, q, cm'.state)
      BY <3>1, <3>4, <3>5 DEF StageRules, ActiveRules
    <3> QED BY <1>10, <3>1, <3>2, <3>6 DEF u
  <2>3. CASE DueArg("PORT_MODE") = "OPERATE" /\ CM_Operate
    <3> DEFINE p == <<Job("OD_START")>>
               u == t \o p
    <3>1. Handled(p) /\ c = "WaitingOnOperate" /\ cm'.state = "Port_Active"
      BY <2>3 DEF CM_Operate, CM_Moves, CM_Calls, c
    <3>2. Few(p) /\ Off(p, "smcfg")  BY <1>15
    <3>3. Mark(h, "operate") /\ ~Mark(h, "gone") /\ ~Off(s, "operate")  BY <1>2, <2>1, <2>3
    <3>4. Operates(s, dl, q) /\ Off(t, "smcfg")
      BY <1>2, <1>3, <3>1, <3>3 DEF RunAt, StageRules, ActiveRules
    <3> HIDE DEF p
    <3>5. /\ Off(u, "gone") => Off(s, "gone")
          /\ Off(u, "smcfg")
          /\ Holds(s, dl) => Holds(u, dl)
      BY <1>2, <1>9, <3>2, <3>3, <3>4
    <3> HIDE DEF u
    <3>6. StageRules(u, q, cm'.state)  BY <3>1, <3>5 DEF StageRules
    <3>7. ActiveRules(u, dl, q, cm'.state)  BY <3>4, <3>5 DEF ActiveRules, Operates
    <3> QED BY <1>10, <3>1, <3>2, <3>6, <3>7 DEF u
  <2>4. CASE CM_PortFault({"SM_Startup"}) \/ CM_Comlost
    <3>1. Handled(<<>>) /\ cm'.state \in {"PortFault", "CheckPortMode"}
      BY <2>4 DEF CM_PortFault, CM_Comlost, CM_Moves, CM_Calls
    <3> QED BY <1>13, <3>1
  <2>5. CASE \/ CM_Ignores /\ \/ DueArg("PORT_MODE") # "COMLOST"
                              \/ cm.state \in {"DS_ParamManager", "Port_DIDO", "Port_Deactivated"}
             \/ CM_Moves(cm.state, <<>>) /\ DueArg("PORT_MODE") = "INACTIVE"
    <3>1. Handled(<<>>) /\ cm'.state = c  BY <2>5 DEF CM_Ignores, CM_Moves, CM_Calls, c
    <3>2. Mark(h, "gone") => c \notin {"WaitingOnOperate", "Port_Active"}  BY <2>1, <2>5 DEF c
    <3> QED BY <1>12, <3>1, <3>2
  <2> QED BY <1>16, <2>2, <2>3, <2>4, <2>5 DEF CM_PortMode
<1>17. ASSUME CM_DsReady \/ CM_DsFault PROVE RunInv'
  <2>1. \A k : k # "job" => ~Mark(h, k)  BY <1>5, <1>17
  <2>2. CASE CM_DsReady /\ c = "DS_ParamManager"
    <3> DEFINE j == Job("SM_OPERATE")
               p == <<j>>
               u == t \o p
    <3>1. Handled(p) /\ cm'.state = "WaitingOnOperate"
      BY <2>2 DEF CM_DsReady, CM_Moves, CM_Calls, c
    <3>2. \A k : k # "job" => (Mark(j, k) <=> k = "go")  BY MarkNames
    <3> HIDE DEF j
    <3>3. IsSeq(p) /\ \A k : k # "job" => (Off(p, k) <=> k # "go")  BY <3>2, KindOne, MarkOne
    <3> HIDE DEF p
    <3>4. \A k : k \notin {"job", "go"} => (Off(u, k) <=> Off(t, k))  BY <1>2, <3>3, MarkBoth
    <3>5. Off(t, "operate") /\ Off(t, "smcfg") /\ q \notin Late
      BY <1>2, <1>3, <2>2 DEF RunAt, StageRules
    <3>6. (Token(s, dl) => Token(u, dl)) /\ (Holds(s, dl) => Holds(u, dl))
      BY <1>2, <1>4, <3>3, <3>4, KindBoth DEF Token, Holds
    <3>7. After(u, "job", "port")
      <4>1. After(t, "job", "port")  BY <1>2, <1>3 DEF RunAt, PortRules
      <4>2. After(p, "job", "port") /\ Off(p, "port")  BY <3>3 DEF Off, After
      <4> QED BY <1>2, <3>3, <4>1, <4>2, MarkBoth
    <3> HIDE DEF u
    <3>8. ModeRules(u, dl, q)  BY <1>2, <1>3, <1>4, <3>4, <3>6 DEF RunAt, ModeRules
    <3>9. PortRules(u)  BY <1>8, <3>4, <3>7 DEF PortRules
    <3>10. StageRules(u, q, "WaitingOnOperate") /\ ActiveRules(u, dl, q, "WaitingOnOperate")
      BY <3>4, <3>5 DEF StageRules, ActiveRules
    <3> QED BY <1>1, <3>1, <3>8, <3>9, <3>10 DEF RunInv, RunAt, Handled, u, q, t
  <2>3. CASE CM_DsReady /\ c # "DS_ParamManager"
    <3>1. Handled(<<>>) /\ cm'.state = c  BY <2>3 DEF CM_DsReady, CM_Ignores, c
    <3> QED BY <1>12, <2>1, <3>1
  <2>4. CASE CM_DsFault
    <3>1. Handled(<<>>) /\ cm'.state \in {c, "PortFault"}
      BY <2>4 DEF CM_DsFault, CM_PortFault, CM_Ignores, CM_Moves, CM_Calls, c
    <3> QED BY <1>12, <1>13, <2>1, <3>1
  <2> QED BY <1>17, <2>2, <2>3, <2>4
<1> QED BY <1>14, <1>16, <1>17 DEF CM_Handler

-----------------------------------------------------------------------------
\* SM: what an action of the table posts of it, and does to the data link,
LEMMA SmDoMarks ==
  ASSUME LinkTyped, NEW do, NEW s, NEW event, SmDo(do, s, event), Context(s),
         do = "dido" => s.cfg.mode \in {"DI", "DO"}
  PROVE \E p : /\ IsSeq(p) /\ Handled(p) /\ sm'.state = s.state /\ sm'.rev = s.rev
               /\ \A k : k \notin {"job", "ready", "operate", "gone"} => Off(p, k)
               /\ ~Off(p, "ready") => do = "comready"
               /\ ~Off(p, "operate") => do = "operate_ind"
               /\ do = "comlost" => ~Off(p, "gone")
               /\ do = "preop_cmd" => Token(p, dl')
               /\ do \in {"serial", "write_cycl", "comready", "operate_ind", "devmode"}
                    => dl'.mode = dl.mode /\ dl'.link = dl.link /\ dl'.acc = dl.acc
<1> DEFINE Fit(p) == /\ \A k : k \notin {"job", "ready", "operate", "gone"} => Off(p, k)
                     /\ ~Off(p, "ready") => do = "comready"
                     /\ ~Off(p, "operate") => do = "operate_ind"
                     /\ do = "comlost" => ~Off(p, "gone")
           Kept(e) == e.mode = dl.mode /\ e.link = dl.link /\ e.acc = dl.acc
           Goal == \E p : /\ IsSeq(p) /\ Handled(p) /\ sm'.state = s.state /\ sm'.rev = s.rev /\ Fit(p)
                          /\ do = "preop_cmd" => Token(p, dl')
                          /\ do \in {"serial", "write_cycl", "comready", "operate_ind", "devmode"} => Kept(dl')
           Alike(x) == x.state = s.state /\ x.rev = s.rev
<1>1. ASSUME NEW x, NEW e, NEW p, Calls(x, e, p), Alike(x), IsSeq(p), Fit(p),
             do = "preop_cmd" => Token(p, e),
             do \in {"serial", "write_cycl", "comready", "operate_ind", "devmode"} => Kept(e)
      PROVE Goal
  BY <1>1 DEF Calls
<1>2. \A p : Unmarked(p) => IsSeq(p) /\ (do # "comlost" => Fit(p))  BY DEF Unmarked
<1>3. ASSUME NEW mode,
             mode = "COMREADY" => do = "comready",
             mode = "OPERATE" => do = "operate_ind",
             do = "comlost" => mode = "COMLOST"
      PROVE IsSeq(<<PortMode(mode)>>) /\ Fit(<<PortMode(mode)>>)
  <2> DEFINE j == PortMode(mode)
  <2>1. \A k : k # "job" => (Mark(j, k) <=> \/ k = "ready" /\ mode = "COMREADY"
                                            \/ k = "operate" /\ mode = "OPERATE"
                                            \/ k = "gone" /\ mode = "COMLOST")
    BY MarkNames
  <2> HIDE DEF j
  <2>2. IsSeq(<<j>>) /\ \A k : Off(<<j>>, k) <=> ~Mark(j, k)  BY KindOne, MarkOne
  <2>3. Fit(<<j>>)  BY <1>3, <2>1, <2>2
  <2> QED BY <2>2, <2>3 DEF j
<1>4. /\ Alike([s EXCEPT !.retry = 0]) /\ Alike([s EXCEPT !.retry = @ + 1])
      /\ Alike([s EXCEPT !.error = "none"]) /\ Alike(s)
  BY DEF Context, SmInit
<1>5. Unmarked(<<>>) /\ \A what : Unmarked(AccessCnf(dl, what))
  BY MarkFree, TellNames DEF AccessCnf
<1>6. \A mode : Unmarked(DevicemodeCnf(dl, mode)) /\ Kept(Devicemode(dl, mode))
  <2>1. \A mode : Unmarked(DevicemodeCnf(dl, mode))  BY <1>5, TellNames DEF DevicemodeCnf
  <2>2. \A mode : Kept(Devicemode(dl, mode))  BY DEF Devicemode, LinkTyped, DlInit
  <2> QED BY <2>1, <2>2
<1>7. \A what : what # "none" => Token(AccessCnf(dl, what), Access(dl, what))
  <2> SUFFICES ASSUME NEW what, what # "none" PROVE Token(AccessCnf(dl, what), Access(dl, what))
    OBVIOUS
  <2> DEFINE j == JobArg("DL_CNF", [what |-> what, ok |-> FALSE])
  <2>1. Kind(j, "cnf")  BY KindNames
  <2> HIDE DEF j
  <2>2. ~No(<<j>>, "cnf")  BY <2>1, KindOne
  <2>3. Reachable(dl) => Access(dl, what).acc = what  BY DEF Access, LinkTyped, DlInit
  <2>4. ~Reachable(dl) => AccessCnf(dl, what) = <<j>>  BY DEF AccessCnf, j
  <2> QED BY <2>2, <2>3, <2>4 DEF Token
<1>8. \A op : Unmarked(<<AlReq("SM", op)>>)  BY MarkFree, MarkNames
<1>9. Kept(dl)  OBVIOUS
<1> SUFFICES Goal  OBVIOUS
<1> HIDE DEF Fit, Kept, Goal, Alike
<1>10. ASSUME NEW x, NEW what, SmAccess(x, what), what # "none", Alike(x), do \in Accessing PROVE Goal
  <2>1. do \notin {"serial", "write_cycl", "comready", "operate_ind", "devmode", "comlost"}
    BY <1>10 DEF Accessing
  <2> QED BY <1>1, <1>2, <1>5, <1>7, <1>10, <2>1 DEF SmAccess
<1>11. CASE do \in Accessing
  <2>1. \E x, what : SmAccess(x, what) /\ what # "none" /\ Alike(x)
    <3>1. \E x \in {s, [s EXCEPT !.retry = 0], [s EXCEPT !.retry = @ + 1]} :
          \E what \in {"com", "id", "ident", "preop", "operate", "restart"} : SmAccess(x, what)
      <4>1. CASE do = "read_com"  BY <4>1 DEF SmDo
      <4>2. CASE do \in {"read_id", "ident", "preop_cmd"}  BY <4>2 DEF SmDo
      <4>3. CASE do \in {"operate_cmd", "restart"}  BY <4>3 DEF SmDo
      <4> QED BY <1>11, <4>1, <4>2, <4>3 DEF Accessing
    <3> QED BY <1>4, <3>1
  <2> QED BY <1>10, <1>11, <2>1
<1>12. CASE do = "fault"
  <2>1. \E e \in {dl, SetMode(dl, FaultMode(event))} : Calls(s, e, <<PortMode("FAULT")>>)
    BY <1>12 DEF SmDo, SmFault
  <2> QED BY <1>1, <1>3, <1>4, <1>12, <2>1
<1>13. CASE do \in {"serial", "write_cycl"}
  <2>1. \E op : Calls(s, dl, <<AlReq("SM", op)>>)  BY <1>13 DEF SmDo
  <2> QED BY <1>1, <1>2, <1>4, <1>8, <1>9, <1>13, <2>1
<1>14. CASE do \in {"comready", "operate_ind"}
  <2>1. \E mode \in {"COMREADY", "OPERATE"} :
          Calls(s, dl, <<PortMode(mode)>>) /\ (do = "comready" <=> mode = "COMREADY")
    BY <1>14 DEF SmDo
  <2> QED BY <1>1, <1>3, <1>4, <1>9, <1>14, <2>1
<1>15. CASE do = "comlost"
  <2>1. Calls(s, SetMode(dl, "INACTIVE"), <<PortMode("COMLOST")>>)  BY <1>15 DEF SmDo
  <2> QED BY <1>1, <1>3, <1>4, <1>15, <2>1
<1>16. CASE do = "inactive"
  <2>1. Calls([s EXCEPT !.error = "none"], SetMode(dl, "INACTIVE"), <<PortMode("INACTIVE")>>)
    BY <1>16 DEF SmDo
  <2> QED BY <1>1, <1>3, <1>4, <1>16, <2>1
<1>17. CASE do = "dido"
  <2>1. Calls(s, SetMode(SetSDCI(dl), "INACTIVE"), <<PortMode(s.cfg.mode)>>)  BY <1>17 DEF SmDo
  <2>2. s.cfg.mode \notin {"COMREADY", "OPERATE"}  BY <1>17
  <2> QED BY <1>1, <1>3, <1>4, <1>17, <2>1, <2>2
<1>18. CASE do = "start"
  <2>1. Calls([s EXCEPT !.error = "none"], SetMode(SetSDCI(dl), "STARTUP"), <<>>)  BY <1>18 DEF SmDo
  <2> QED BY <1>1, <1>2, <1>4, <1>5, <1>18, <2>1
<1>19. CASE do \in {"fallback", "devmode"}
  <2>1. \E mode : Calls(s, Devicemode(dl, mode), DevicemodeCnf(dl, mode))  BY <1>19 DEF SmDo
  <2> QED BY <1>1, <1>2, <1>4, <1>6, <1>19, <2>1
<1>20. CASE do \notin Accessing \cup {"fault", "serial", "write_cycl", "comready", "comlost",
                                      "inactive", "start", "dido", "operate_ind", "fallback",
                                      "devmode"}
  <2>1. Calls(s, dl, <<>>) /\ do # "preop_cmd"  BY <1>20 DEF SmDo, Accessing
  <2> QED BY <1>1, <1>2, <1>4, <1>5, <1>20, <2>1
<1> QED BY <1>11, <1>12, <1>13, <1>14, <1>15, <1>16, <1>17, <1>18, <1>19, <1>20

\* the rows of the table that a device of revision 1.1 meets,
LEMMA RowsRun == \A t \in SmTable :
  t[1] \notin {"CheckCompV10", "waitonDLOperate"} /\ t[2] \notin {"V10", "OPERATE_V10", "OPERATE"} =>
    /\ t[3] \notin {"CheckCompV10", "waitonDLOperate"}
    /\ \/ /\ t[3] \notin Met \cup {"waitonDLPreop", "SMOperate"}
          /\ t[4] \notin {"comready", "operate_ind"}
          /\ t[1] = "SMOperate" => t[4] = "comlost" \/ t[2] \in {"CFG_COM", "CFG_DIDO", "CFG_INACTIVE"}
       \/ t = <<"CheckComp", "CompOK", "waitonDLPreop", "preop_cmd">>
       \/ t = <<"waitonDLPreop", "DL_PREOPERATE", "checkSerNum", "serial">>
       \/ t = <<"checkSerNum", "SerNumOK", "wait", "comready">>
       \/ t = <<"wait", "CYCL_REQ", "write_master_cycl", "write_cycl">>
       \/ t = <<"write_master_cycl", "CYCL_DONE", "wait_devmode_cnf", "devmode">>
       \/ t = <<"SMOperate", "DL_OPERATE", "SMOperate", "operate_ind">>
BY DEF SmTable, Met

\* The data link is not set to another mode.
Still == dl'.mode = dl.mode /\ dl'.link = dl.link /\ dl'.acc = dl.acc

\* How SM takes the job h, from the state q to r and posting p: it leaves the way to OPERATE,
\* stays where it is,
SmQuits(h, q, r, p) ==
  /\ r \notin Met \cup {"waitonDLPreop", "SMOperate"} /\ Off(p, "ready") /\ Off(p, "operate")
  /\ q = "SMOperate" => ~Off(p, "gone") \/ Mark(h, "smcfg")
SmRests(h, q, r, p) ==
  /\ r = q /\ Unmarked(p) /\ Still
  /\ (q = "SMOperate" => ~Mark(h, "lost")) /\ (q = "waitonDLPreop" => ~Kind(h, "cnf"))
\* enters it, or goes on with it.
SmEnters(h, q, r, p) == /\ q = "CheckComp" /\ r = "waitonDLPreop" /\ Token(p, dl')
                        /\ Off(p, "ready") /\ Off(p, "operate")
SmWaits(h, q, r, p)  == /\ q = "waitonDLPreop" /\ r = q /\ Kind(h, "good") /\ dl'.mode = "PREOPERATE"
                        /\ Unmarked(p)
SmMeets(h, q, r, p)  ==
  /\ Still /\ Off(p, "operate") /\ (~Off(p, "ready") => r = "wait")
  /\ \/ q = "waitonDLPreop" /\ r = "checkSerNum" /\ Kind(h, "mode")
     \/ q = "checkSerNum" /\ r = "wait"
     \/ q = "wait" /\ r = "write_master_cycl" /\ Mark(h, "go")
     \/ q = "write_master_cycl" /\ r = "wait_devmode_cnf"
SmReaches(h, q, r, p) == /\ q = "wait_devmode_cnf" /\ r = "SMOperate"
                         /\ dl'.mode = "OPERATE" /\ Unmarked(p)
SmReports(h, q, r, p) == /\ q = "SMOperate" /\ r = q /\ Mark(h, "oper") /\ Still /\ Off(p, "ready")

SmMoves(h, q, r, p) ==
  \/ SmQuits(h, q, r, p) \/ SmRests(h, q, r, p) \/ SmEnters(h, q, r, p) \/ SmWaits(h, q, r, p)
  \/ SmMeets(h, q, r, p) \/ SmReaches(h, q, r, p) \/ SmReports(h, q, r, p)
SmRuns ==
  /\ Modern(sm')
  /\ \E p : /\ IsSeq(p) /\ Handled(p)
            /\ \A k : k \notin {"job", "ready", "operate", "gone"} => Off(p, k)
            /\ SmMoves(Head(jobs), sm.state, sm'.state, p)

\* an event,
LEMMA SmEventRuns ==
  ASSUME LinkTyped, NEW s, NEW event, SmEvent(s, event), Context(s), s.state = sm.state, Modern(s),
         event \notin {"V10", "OPERATE_V10", "OPERATE"},
         event \in {"CFG_COM", "CFG_DIDO", "CFG_INACTIVE"} /\ sm.state = "SMOperate"
           => Mark(Head(jobs), "smcfg"),
         event = "CFG_DIDO" => s.cfg.mode \in {"DI", "DO"},
         event = "CYCL_REQ" => Mark(Head(jobs), "go"),
         event = "DL_OPERATE" => Mark(Head(jobs), "oper"),
         event = "DL_PREOPERATE" => Kind(Head(jobs), "mode"),
         sm.state = "SMOperate" /\ Mark(Head(jobs), "lost") => SmRows(sm.state, event) # {},
         sm.state = "waitonDLPreop" /\ Kind(Head(jobs), "cnf") => SmRows(sm.state, event) # {}
  PROVE SmRuns
<1>1. ASSUME NEW t \in SmRows(s.state, event), SmDo(t[4], [s EXCEPT !.state = t[3]], event)
      PROVE SmRuns
  <2> DEFINE x == [s EXCEPT !.state = t[3]]
             do == t[4]
             h == Head(jobs)
             q == sm.state
             r == t[3]
  <2>1. t \in SmTable /\ t[1] = q /\ t[2] = event  BY DEF SmRows
  <2>2. Context(x) /\ x.state = r /\ x.cfg = s.cfg /\ x.rev = s.rev
    BY <2>1, RowsTyped DEF Context, SmInit
  <2>3. do = "dido" => s.cfg.mode \in {"DI", "DO"}  BY <2>1, RowsServe
  <2>4. SmDo(do, x, event)  BY <1>1
  <2> HIDE DEF x, do
  <2>5. PICK p : /\ IsSeq(p) /\ Handled(p) /\ sm'.state = x.state /\ sm'.rev = x.rev
                 /\ \A k : k \notin {"job", "ready", "operate", "gone"} => Off(p, k)
                 /\ ~Off(p, "ready") => do = "comready"
                 /\ ~Off(p, "operate") => do = "operate_ind"
                 /\ do = "comlost" => ~Off(p, "gone")
                 /\ do = "preop_cmd" => Token(p, dl')
                 /\ do \in {"serial", "write_cycl", "comready", "operate_ind", "devmode"}
                      => dl'.mode = dl.mode /\ dl'.link = dl.link /\ dl'.acc = dl.acc
    BY <2>2, <2>3, <2>4, SmDoMarks
  <2>6. /\ r \notin {"CheckCompV10", "waitonDLOperate"}
        /\ \/ /\ r \notin Met \cup {"waitonDLPreop", "SMOperate"}
              /\ do \notin {"comready", "operate_ind"}
              /\ q = "SMOperate" => do = "comlost" \/ event \in {"CFG_COM", "CFG_DIDO", "CFG_INACTIVE"}
           \/ q = "CheckComp" /\ event = "CompOK" /\ r = "waitonDLPreop" /\ do = "preop_cmd"
           \/ q = "waitonDLPreop" /\ event = "DL_PREOPERATE" /\ r = "checkSerNum" /\ do = "serial"
           \/ q = "checkSerNum" /\ event = "SerNumOK" /\ r = "wait" /\ do = "comready"
           \/ q = "wait" /\ event = "CYCL_REQ" /\ r = "write_master_cycl" /\ do = "write_cycl"
           \/ q = "write_master_cycl" /\ event = "CYCL_DONE" /\ r = "wait_devmode_cnf" /\ do = "devmode"
           \/ q = "SMOperate" /\ event = "DL_OPERATE" /\ r = "SMOperate" /\ do = "operate_ind"
    <3>1. q \notin {"CheckCompV10", "waitonDLOperate"}  BY DEF Modern
    <3> QED BY <2>1, <3>1, RowsRun DEF do
  <2>7. Modern(sm')  BY <2>2, <2>5, <2>6 DEF Modern
  <2> HIDE DEF r, q, h
  <2>8. SmMoves(h, q, r, p)
    BY <2>5, <2>6 DEF SmMoves, SmQuits, SmEnters, SmMeets, SmReports, Still, h, q
  <2> QED BY <2>2, <2>5, <2>7, <2>8 DEF SmRuns, h, q, r
<1>2. ASSUME Calls(s, dl, <<>>), SmRows(s.state, event) = {} PROVE SmRuns
  <2>1. /\ Handled(<<>>) /\ sm'.state = sm.state /\ sm'.rev = s.rev /\ Still
        /\ Unmarked(<<>>)
    BY <1>2, MarkFree DEF Calls, Still
  <2>2. SmRests(Head(jobs), sm.state, sm'.state, <<>>)  BY <1>2, <2>1 DEF SmRests
  <2>3. Modern(sm')  BY <2>1 DEF Modern
  <2> QED BY <2>1, <2>2, <2>3 DEF SmRuns, SmMoves, Unmarked
<1> QED BY <1>1, <1>2 DEF SmEvent

\* and a job.
LEMMA SmRan == ASSUME V10 = {}, TypeInv, ErrorInv, Modern(sm), SM_Handler PROVE SmRuns
<1> DEFINE h == Head(jobs)
           q == sm.state
<1>1. Context(sm) /\ LinkTyped  BY DEF TypeInv, SmTyped, Context
<1>2. ASSUME NEW p, Calls(sm, dl, p), Unmarked(p), q = "SMOperate" => ~Mark(h, "lost"),
             q = "waitonDLPreop" => ~Kind(h, "cnf")
      PROVE SmRuns
  <2>1. IsSeq(p) /\ Handled(p) /\ sm' = sm /\ Still  BY <1>2 DEF Calls, Still, Unmarked
  <2>2. SmRests(h, q, sm'.state, p)  BY <1>2, <2>1 DEF SmRests
  <2> QED BY <1>2, <2>1, <2>2 DEF SmRuns, SmMoves, Unmarked
<1>3. Unmarked(<<>>)  BY MarkFree
<1>4. ASSUME NEW s, NEW event, SmEvent(s, event), Context(s), s.state = q, s.rev # "V10",
             event \notin {"V10", "OPERATE_V10", "OPERATE", "CFG_COM", "CFG_DIDO", "CFG_INACTIVE",
                           "CYCL_REQ", "DL_OPERATE", "DL_PREOPERATE"},
             ~Mark(h, "lost"), q = "waitonDLPreop" => ~Kind(h, "cnf")
      PROVE SmRuns
  <2>1. Modern(s)  BY <1>4 DEF Modern
  <2> QED BY <1>1, <1>4, <2>1, SmEventRuns
<1>5. sm.rev # "V10" /\ q \notin {"CheckCompV10", "waitonDLOperate"}  BY DEF Modern
<1>6. dev.id \in Names  BY DEF TypeInv, CableTyped, Names
<1>7. \A s, event : Context(s) => /\ Context(WithError(s, event)) /\ WithError(s, event).state = s.state
                                  /\ WithError(s, event).rev = s.rev
  BY DEF Context, SmInit, WithError
<1>8. \A mode, d : d = dl => /\ SetMode(d, mode).mode = mode /\ SetMode(d, mode).acc = d.acc
                             /\ SetMode(d, mode).link = d.link
  BY <1>1 DEF SetMode, LinkTyped, DlInit
<1>9. ASSUME SM_SetPortConfig PROVE SmRuns
  <2> DEFINE s == [sm EXCEPT !.cfg = DueArg("SM_CONFIG")]
  <2>1. Context(s) /\ s.state = q /\ s.cfg = DueArg("SM_CONFIG") /\ s.rev = sm.rev
    BY <1>1 DEF Context, SmInit
  <2>2. Mark(h, "smcfg") /\ ~Mark(h, "lost") /\ ~Kind(h, "cnf")
    BY <1>9 DEF SM_SetPortConfig, Due, Mark, Kind
  <2>3. CASE q \notin TakesConfig
    <3>1. Calls(sm, dl, <<>>)  BY <1>9, <2>3 DEF SM_SetPortConfig
    <3> QED BY <1>2, <1>3, <2>2, <3>1
  <2>4. CASE q \in TakesConfig
    <3>1. PICK event \in {"CFG_COM", "CFG_DIDO", "CFG_INACTIVE"} :
            SmEvent(s, event) /\ (event = "CFG_DIDO" => s.cfg.mode \in {"DI", "DO"})
      BY <1>9, <2>1, <2>4 DEF SM_SetPortConfig
    <3> HIDE DEF s
    <3>2. Modern(s)  BY <1>5, <2>1 DEF Modern
    <3> QED BY <1>1, <2>1, <2>2, <3>1, <3>2, SmEventRuns
  <2> QED BY <2>3, <2>4
<1>10. ASSUME SM_Operate PROVE SmRuns
  <2>1. SmEvent(sm, "CYCL_REQ")  BY <1>5, <1>10 DEF SM_Operate
  <2>2. Mark(h, "go") /\ ~Mark(h, "lost") /\ ~Kind(h, "cnf")  BY <1>10 DEF SM_Operate, Due, Mark, Kind
  <2> QED BY <1>1, <2>1, <2>2, SmEventRuns
<1>11. ASSUME SM_Mode PROVE SmRuns
  <2> DEFINE mode == DueArg("MODE")
  <2>1. /\ ~Kind(h, "cnf") /\ Kind(h, "mode")
        /\ Mark(h, "lost") <=> mode = "COMLOST"
        /\ Mark(h, "oper") <=> mode = "OPERATE"
    BY <1>11 DEF SM_Mode, Due, DueArg, Mark, Kind
  <2>2. CASE mode = "COMLOST"
    <3>1. CASE q \in {"PortInactive", "DIDO"}
      <4>1. Calls(sm, dl, <<>>)  BY <1>11, <2>2, <3>1 DEF SM_Mode
      <4> QED BY <1>2, <1>3, <2>1, <3>1, <4>1
    <3>2. CASE q \notin {"PortInactive", "DIDO"}
      <4>1. SmEvent(sm, "DL_COMLOST")  BY <1>11, <2>2, <3>2 DEF SM_Mode
      <4>2. q = "SMOperate" => SmRows(q, "DL_COMLOST") # {}
        <5>1. <<"SMOperate", "DL_COMLOST", "PortInactive", "comlost">> \in SmTable  BY DEF SmTable
        <5> QED BY <5>1 DEF SmRows
      <4> QED BY <1>1, <2>1, <4>1, <4>2, SmEventRuns
    <3> QED BY <3>1, <3>2
  <2>3. CASE mode # "COMLOST"
    <3>1. \/ Calls(sm, dl, <<>>)
          \/ q = "PortInactive" /\ \E m \in {"INACTIVE", "COMLOST"} : Calls(sm, dl, <<PortMode(m)>>)
          \/ \E event \in {"DL_STARTUP", "DL_COMLOST"} : SmEvent(sm, event)
          \/ mode = "PREOPERATE" /\ SmEvent(sm, "DL_PREOPERATE")
          \/ mode = "OPERATE" /\ SmEvent(sm, "DL_OPERATE")
      BY <1>11, <2>3 DEF SM_Mode
    <3>2. CASE Calls(sm, dl, <<>>)  BY <1>2, <1>3, <2>1, <2>3, <3>2
    <3>3. ASSUME NEW m \in {"INACTIVE", "COMLOST"}, Calls(sm, dl, <<PortMode(m)>>), q = "PortInactive"
          PROVE SmRuns
      <4> DEFINE j == PortMode(m)
      <4>1. \A k : k # "job" => (Mark(j, k) => k = "gone")  BY MarkNames
      <4> HIDE DEF j
      <4>2. IsSeq(<<j>>) /\ \A k : k \notin {"job", "gone"} => Off(<<j>>, k)
        BY <4>1, KindOne, MarkOne
      <4>3. sm' = sm /\ Handled(<<j>>)  BY <3>3 DEF Calls, j
      <4>4. SmQuits(h, q, sm'.state, <<j>>)  BY <3>3, <4>2, <4>3 DEF SmQuits, Met
      <4> QED BY <4>2, <4>3, <4>4 DEF SmRuns, SmMoves
    <3>4. ASSUME NEW event \in {"DL_STARTUP", "DL_COMLOST"}, SmEvent(sm, event) PROVE SmRuns
      BY <1>1, <1>4, <1>5, <2>1, <2>3, <3>4
    <3>5. CASE mode = "PREOPERATE" /\ SmEvent(sm, "DL_PREOPERATE")
      BY <1>1, <2>1, <3>5, SmEventRuns
    <3>6. CASE mode = "OPERATE" /\ SmEvent(sm, "DL_OPERATE")
      BY <1>1, <2>1, <3>6, SmEventRuns
    <3> QED BY <3>1, <3>2, <3>3, <3>4, <3>5, <3>6
  <2> QED BY <2>2, <2>3
<1>12. ASSUME SM_DLCnf PROVE SmRuns
  <2>1. Kind(h, "cnf") /\ ~Mark(h, "lost") /\ (DueArg("DL_CNF").ok => Kind(h, "good"))
    BY <1>12 DEF SM_DLCnf, Due, DueArg, Kind, Mark
  <2>2. CASE ~DueArg("DL_CNF").ok
    <3>1. SmEvent(sm, "CNF_COMLOST")  BY <1>12, <2>2 DEF SM_DLCnf
    <3>2. q = "waitonDLPreop" => SmRows(q, "CNF_COMLOST") # {}
      <4>1. <<"waitonDLPreop", "CNF_COMLOST", "PortInactive", "comlost">> \in SmTable  BY DEF SmTable
      <4> QED BY <4>1 DEF SmRows
    <3> QED BY <1>1, <2>1, <3>1, <3>2, SmEventRuns
  <2>3. CASE DueArg("DL_CNF").ok /\ q = "ReadCom"
    <3> DEFINE s == [sm EXCEPT !.rev = "V11"]
    <3>1. Context(s) /\ s.state = q /\ s.rev = "V11"  BY <1>1 DEF Context, SmInit
    <3>2. SmEvent(s, "NOT_V10")  BY <1>12, <2>3, <3>1 DEF SM_DLCnf
    <3> HIDE DEF s
    <3> QED BY <1>4, <2>1, <2>3, <3>1, <3>2
  <2>4. CASE DueArg("DL_CNF").ok /\ q = "CheckComp"
    <3> DEFINE s == [sm EXCEPT !.id = dev.id]
    <3>1. Context(s) /\ s.state = q /\ s.rev = sm.rev  BY <1>1, <1>6 DEF Context, SmInit
    <3>2. CompEvent(s) \in {"CycTimeFault", "CycTimeFault_V10", "CompOK", "CompFault_V10", "RETRY", "CompFault"}
      BY DEF CompEvent
    <3> HIDE DEF s
    <3>3. SmEvent(WithError(s, CompEvent(s)), CompEvent(s))  BY <1>12, <2>4 DEF SM_DLCnf, s
    <3> QED BY <1>4, <1>5, <1>7, <2>1, <2>4, <3>1, <3>2, <3>3
  <2>5. CASE DueArg("DL_CNF").ok /\ q = "CheckVxy"
    <3>1. RevisionEvent(sm) \in {"REVISION_OK", "RETRY", "RevisionFault"}  BY DEF RevisionEvent
    <3>2. SmEvent(WithError(sm, RevisionEvent(sm)), RevisionEvent(sm))  BY <1>12, <2>5 DEF SM_DLCnf
    <3> QED BY <1>1, <1>4, <1>5, <1>7, <2>1, <2>5, <3>1, <3>2
  <2>6. CASE DueArg("DL_CNF").ok /\ q = "waitonDLPreop"
    <3>1. Calls(sm, SetMode(dl, "PREOPERATE"), <<>>)  BY <1>12, <2>6 DEF SM_DLCnf
    <3>2. sm' = sm /\ dl'.mode = "PREOPERATE" /\ Handled(<<>>)  BY <1>8, <3>1 DEF Calls
    <3>3. SmWaits(h, q, sm'.state, <<>>)  BY <1>3, <2>1, <2>6, <3>2 DEF SmWaits
    <3> QED BY <1>3, <3>2, <3>3 DEF SmRuns, SmMoves, Unmarked
  <2>7. CASE DueArg("DL_CNF").ok /\ q \notin {"ReadCom", "CheckComp", "CheckVxy", "waitonDLPreop"}
    <3>1. \E event \in {"WriteDone", sm.error} : SmEvent(sm, event)
      BY <1>5, <1>12, <2>7 DEF SM_DLCnf
    <3>2. sm.error \in Errors  BY DEF ErrorInv
    <3> QED BY <1>1, <1>4, <1>5, <2>1, <2>7, <3>1, <3>2 DEF Errors
  <2> QED BY <2>2, <2>3, <2>4, <2>5, <2>6, <2>7
<1>13. ASSUME SM_ALCnf PROVE SmRuns
  <2> DEFINE s == [sm EXCEPT !.error = "SerNumFault"]
  <2>1. Context(s) /\ s.state = q /\ s.rev = sm.rev  BY <1>1 DEF Context, SmInit
  <2>2. ~Mark(h, "lost") /\ ~Kind(h, "cnf")  BY <1>13 DEF SM_ALCnf, Due, Kind, Mark
  <2>3. \/ SmEvent(s, "SerNumFault")
        \/ \E event \in {"CNF_COMLOST", "DL_COMLOST", "CYCL_DONE", "SerNumOK"} : SmEvent(sm, event)
    BY <1>13 DEF SM_ALCnf, SM_SerialCnf, SM_CyclCnf
  <2> HIDE DEF s
  <2> QED BY <1>1, <1>4, <1>5, <2>1, <2>2, <2>3
<1>14. ASSUME SM_DevmodeCnf PROVE SmRuns
  <2>1. ~Mark(h, "lost") /\ ~Kind(h, "cnf")  BY <1>14 DEF SM_DevmodeCnf, Due, Kind, Mark
  <2>2. CASE DueArg("DEVMODE_CNF") /\ q = "wait_devmode_cnf"
    <3>1. /\ sm'.state = "SMOperate" /\ sm'.rev = sm.rev /\ dl' = SetMode(dl, "OPERATE")
          /\ Handled(<<>>)
      BY <1>1, <1>5, <1>14, <2>2 DEF SM_DevmodeCnf, Context, SmInit
    <3>2. SmReaches(h, q, sm'.state, <<>>)  BY <1>3, <1>8, <2>2, <3>1 DEF SmReaches
    <3>3. Modern(sm')  BY <1>5, <3>1 DEF Modern
    <3> QED BY <1>3, <3>1, <3>2, <3>3 DEF SmRuns, SmMoves, Unmarked
  <2>3. CASE DueArg("DEVMODE_CNF") /\ q = "waitForFallback"
    <3>1. SmEvent(sm, "CFG_INACTIVE")  BY <1>14, <2>3 DEF SM_DevmodeCnf
    <3> QED BY <1>1, <2>1, <2>3, <3>1, SmEventRuns
  <2>4. CASE /\ ~(DueArg("DEVMODE_CNF") /\ q = "wait_devmode_cnf")
            /\ ~(DueArg("DEVMODE_CNF") /\ q = "waitForFallback")
    <3>1. \E event \in {"CNF_COMLOST", "DL_COMLOST"} : SmEvent(sm, event)
      BY <1>14, <2>4 DEF SM_DevmodeCnf
    <3> QED BY <1>1, <1>4, <1>5, <2>1, <3>1
  <2> QED BY <2>2, <2>3, <2>4
<1> QED BY <1>9, <1>10, <1>11, <1>12, <1>13, <1>14 DEF SM_Handler

\* SM's handlers keep the rules.
LEMMA RunSm == ASSUME V10 = {}, RunInv, HandInv, ErrorInv, TypeInv, SM_Handler, UNCHANGED cm PROVE RunInv'
<1> DEFINE s == jobs
           t == Tail(jobs)
           h == Head(jobs)
           q == sm.state
           r == sm'.state
           c == cm.state
<1>1. SmRuns  BY SmRan DEF RunInv
<1>2. PICK p : /\ IsSeq(p) /\ Handled(p)
               /\ \A k : k \notin {"job", "ready", "operate", "gone"} => Off(p, k)
               /\ SmMoves(h, q, r, p)
  BY <1>1 DEF SmRuns
<1> DEFINE u == t \o p
<1>3. IsSeq(s) /\ s # <<>> /\ Mark(h, "job") /\ ~Mark(h, "gone") /\ ~Mark(h, "ready") /\ ~Mark(h, "operate")
  <2>1. IsSeq(s) /\ s # <<>>  BY SmTypes DEF TypeInv, Sound
  <2>2. \/ h.type \in {"SM_CONFIG", "SM_OPERATE", "MODE", "DL_CNF", "DEVMODE_CNF"}
        \/ h.type = "AL_CNF" /\ h.who = "SM"
    BY DEF SM_Handler, SM_SetPortConfig, SM_Operate, SM_Mode, SM_DLCnf, SM_ALCnf, SM_DevmodeCnf, Due
  <2> HIDE DEF h, s
  <2> QED BY <2>1, <2>2 DEF Mark
<1>4. /\ IsSeq(t)
      /\ \A k : Off(s, k) <=> ~Mark(h, k) /\ Off(t, k)
      /\ \A k, l : After(s, k, l) <=> After(t, k, l) /\ (Mark(h, k) => Off(t, l))
      /\ \A k : No(s, k) <=> ~Kind(h, k) /\ No(t, k)
      /\ \A k, l : Apart(s, k, l) <=> Apart(t, k, l) /\ (Kind(h, k) => No(t, l))
  BY <1>3, KindTail, MarkTail
<1>5. RunAt(s, dl, q, c)  BY DEF RunInv
<1>6. TokenRules(s, dl, q)  BY DEF HandInv, HandAt
<1>7. No(s, "mode") => Off(s, "oper")  BY DEF No, Off, Kind, Mark
<1>8. Modern(sm')  BY <1>1 DEF SmRuns
<1> HIDE DEF s, t, h, q, r, c
<1>9. /\ \A k : Off(u, k) <=> Off(t, k) /\ Off(p, k)
      /\ \A k, l : After(u, k, l) <=> After(t, k, l) /\ After(p, k, l) /\ (Off(t, k) \/ Off(p, l))
      /\ \A k : No(u, k) <=> No(t, k) /\ No(p, k)
  BY <1>2, <1>4, MarkBoth, KindBoth
<1> HIDE DEF u
<1>10. \A k : k \notin {"job", "ready", "operate", "gone"} => (Off(u, k) <=> Off(t, k))  BY <1>2, <1>9
<1>11. PortRules(u)
  <2>1. After(t, "job", "port") /\ Off(t, "port")  BY <1>3, <1>4, <1>5 DEF RunAt, PortRules
  <2>2. Off(p, "port") /\ After(p, "job", "port")  BY <1>2 DEF Off, After
  <2> QED BY <1>9, <2>1, <2>2 DEF PortRules
<1>12. ASSUME ModeRules(u, dl', r), StageRules(u, r, c), ActiveRules(u, dl', r, c) PROVE RunInv'
  BY <1>2, <1>8, <1>11, <1>12 DEF RunInv, RunAt, Handled, u, r, c, t
<1>13. Unmarked(p) => Off(p, "ready") /\ Off(p, "operate") /\ Off(p, "gone")  BY DEF Unmarked
<1>14. Off(u, "gone") => Off(s, "gone")  BY <1>3, <1>4, <1>9
<1>15. ASSUME q # "SMOperate", Off(p, "operate") PROVE ActiveRules(u, dl', r, c)
  <2>1. Off(u, "operate") <=> Off(s, "operate")  BY <1>3, <1>4, <1>9, <1>15
  <2> QED BY <1>5, <1>14, <1>15, <2>1 DEF RunAt, ActiveRules, Operates
<1>16. Holds(s, dl) /\ ~Mark(h, "lost") /\ dl'.link = dl.link => Holds(u, dl')
  BY <1>4, <1>10 DEF Holds
<1>17. ASSUME Off(p, "operate"), Off(p, "ready") \/ r \notin Late, r \in Late => q \in Late \/ Mark(h, "go")
       PROVE StageRules(u, r, c)
  <2>1. StageRules(s, q, c)  BY <1>5 DEF RunAt
  <2>2. Mark(h, "go") => c \notin {"SM_Startup", "DS_ParamManager"}  BY <1>4, <2>1 DEF StageRules
  <2>3. /\ Off(s, "go") => Off(u, "go")
        /\ Off(s, "smcfg") => Off(u, "smcfg")
        /\ Off(s, "operate") => Off(u, "operate")
    BY <1>4, <1>10, <1>9, <1>17
  <2>4. Off(s, "ready") \/ After(s, "ready", "operate") => After(t, "ready", "operate")
    BY <1>4 DEF Off, After
  <2>5. After(p, "ready", "operate")  BY <1>17 DEF Off, After
  <2>6. After(t, "ready", "operate") => After(u, "ready", "operate")  BY <1>9, <1>17, <2>5
  <2>7. Off(s, "ready") /\ Off(p, "ready") => Off(u, "ready")  BY <1>4, <1>9
  <2> QED BY <1>17, <2>1, <2>2, <2>3, <2>4, <2>6, <2>7 DEF StageRules
<1>18. "SMOperate" \in Late /\ "write_master_cycl" \in Late /\ "wait_devmode_cnf" \in Late
       /\ Late \subseteq Met \cup {"SMOperate"} /\ "waitonDLPreop" \notin Met /\ "SMOperate" \notin Met
       /\ "wait" \notin Late /\ "checkSerNum" \notin Late
       /\ {"checkSerNum", "wait", "write_master_cycl", "wait_devmode_cnf"} = Met
  BY DEF Late, Met
<1>19. CASE SmQuits(h, q, r, p)
  <2>1. ModeRules(u, dl', r)  BY <1>19 DEF SmQuits, ModeRules
  <2>2. StageRules(u, r, c)  BY <1>17, <1>18, <1>19 DEF SmQuits
  <2>3. ActiveRules(u, dl', r, c)
    <3>1. Off(u, "operate") <=> Off(s, "operate")  BY <1>3, <1>4, <1>9, <1>19 DEF SmQuits
    <3>2. q = "SMOperate" => ~Off(u, "gone") \/ Mark(h, "smcfg")  BY <1>9, <1>19 DEF SmQuits
    <3>3. Mark(h, "smcfg") => c \notin {"WaitingOnOperate", "Port_Active"}
      BY <1>4, <1>5 DEF RunAt, StageRules
    <3> QED BY <1>5, <1>14, <3>1, <3>2, <3>3 DEF RunAt, ActiveRules, Operates
  <2> QED BY <1>12, <2>1, <2>2, <2>3
<1>20. CASE SmRests(h, q, r, p)
  <2>1. r = q /\ Unmarked(p) /\ dl'.mode = dl.mode /\ dl'.link = dl.link /\ dl'.acc = dl.acc
    BY <1>20 DEF SmRests, Still
  <2>2. q = "SMOperate" /\ Holds(s, dl) => Holds(u, dl')  BY <1>16, <1>20, <2>1 DEF SmRests
  <2>3. q = "waitonDLPreop" /\ Token(s, dl) => Token(u, dl')
    BY <1>4, <1>9, <1>20, <2>1 DEF SmRests, Token
  <2>4. ModeRules(u, dl', r)  BY <1>4, <1>5, <1>10, <1>18, <2>1, <2>2, <2>3 DEF RunAt, ModeRules
  <2>5. StageRules(u, r, c)  BY <1>13, <1>17, <2>1
  <2>6. ActiveRules(u, dl', r, c)
    <3>1. Off(u, "operate") <=> Off(s, "operate")  BY <1>3, <1>4, <1>9, <1>13, <2>1
    <3> QED BY <1>5, <1>14, <2>1, <2>2, <3>1 DEF RunAt, ActiveRules, Operates
  <2> QED BY <1>12, <2>4, <2>5, <2>6
<1>21. CASE SmEnters(h, q, r, p)
  <2>1. Token(u, dl') /\ r = "waitonDLPreop" /\ q # "SMOperate" /\ Off(p, "operate") /\ Off(p, "ready")
    BY <1>9, <1>21 DEF SmEnters, Token
  <2>2. ModeRules(u, dl', r)  BY <1>18, <2>1 DEF ModeRules
  <2> QED BY <1>12, <1>15, <1>17, <1>18, <2>1, <2>2
<1>22. CASE SmWaits(h, q, r, p)
  <2>1. q = "waitonDLPreop" /\ r = q /\ ~No(s, "good") /\ dl'.mode = "PREOPERATE" /\ Unmarked(p)
    BY <1>4, <1>22 DEF SmWaits
  <2>2. Off(u, "oper")  BY <1>4, <1>6, <1>7, <1>10, <2>1 DEF TokenRules
  <2>3. ModeRules(u, dl', r)  BY <1>18, <2>1, <2>2 DEF ModeRules
  <2> QED BY <1>12, <1>13, <1>15, <1>17, <1>18, <2>1, <2>3
<1>23. CASE SmMeets(h, q, r, p)
  <2>1. /\ dl'.mode = dl.mode /\ Off(p, "operate") /\ (~Off(p, "ready") => r = "wait")
        /\ q \in Met \cup {"waitonDLPreop"} /\ r \in Met
        /\ q = "waitonDLPreop" => Kind(h, "mode") /\ r = "checkSerNum"
        /\ r = "write_master_cycl" => Mark(h, "go")
        /\ r = "wait_devmode_cnf" => q = "write_master_cycl"
    BY <1>18, <1>23 DEF SmMeets, Still
  <2>2. q = "waitonDLPreop" => ~Token(s, dl)
    <3>1. Kind(h, "mode") => dl.acc = "none" /\ No(t, "cnf")  BY <1>4, <1>6 DEF TokenRules
    <3>2. Kind(h, "mode") => ~Kind(h, "cnf")  BY DEF Kind
    <3> QED BY <1>4, <2>1, <3>1, <3>2 DEF Token
  <2>3. dl.mode = "PREOPERATE" /\ Off(s, "oper")  BY <1>5, <2>1, <2>2 DEF RunAt, ModeRules
  <2>4. ModeRules(u, dl', r)  BY <1>4, <1>10, <1>18, <2>1, <2>3 DEF ModeRules
  <2>5. StageRules(u, r, c)
    <3>1. r \in Late => q \in Late \/ Mark(h, "go")  BY <1>18, <2>1 DEF Late
    <3> QED BY <1>17, <1>18, <2>1, <3>1
  <2> QED BY <1>12, <1>15, <1>18, <2>1, <2>4, <2>5
<1>24. CASE SmReaches(h, q, r, p)
  <2>1. q = "wait_devmode_cnf" /\ r = "SMOperate" /\ dl'.mode = "OPERATE" /\ Unmarked(p)
    BY <1>24 DEF SmReaches
  <2>2. Off(s, "oper")  BY <1>5, <1>18, <2>1 DEF RunAt, ModeRules
  <2>3. ModeRules(u, dl', r)  BY <1>4, <1>10, <1>18, <2>1, <2>2 DEF ModeRules
  <2> QED BY <1>12, <1>13, <1>15, <1>17, <1>18, <2>1, <2>3
<1>25. CASE SmReports(h, q, r, p)
  <2>1. /\ q = "SMOperate" /\ r = q /\ ~Off(s, "oper") /\ ~Mark(h, "lost") /\ Off(p, "ready")
        /\ dl'.mode = dl.mode /\ dl'.link = dl.link
    BY <1>4, <1>25 DEF SmReports, Still, Mark
  <2>2. Holds(u, dl') /\ dl'.mode = "OPERATE"  BY <1>5, <1>16, <2>1 DEF RunAt, ModeRules
  <2>3. ModeRules(u, dl', r) /\ ActiveRules(u, dl', r, c)
    BY <1>18, <2>1, <2>2 DEF ModeRules, ActiveRules, Operates
  <2>4. StageRules(u, r, c)
    <3>1. Off(s, "go") => Off(u, "go")  BY <1>4, <1>10
    <3>2. Off(s, "smcfg") => Off(u, "smcfg")  BY <1>4, <1>10
    <3>3. Off(s, "ready") => Off(u, "ready")  BY <1>4, <1>9, <2>1
    <3>4. StageRules(s, q, c)  BY <1>5 DEF RunAt
    <3> QED BY <1>18, <2>1, <3>1, <3>2, <3>3, <3>4 DEF StageRules
  <2> QED BY <1>12, <2>3, <2>4
<1> QED BY <1>2, <1>19, <1>20, <1>21, <1>22, <1>23, <1>24, <1>25 DEF SmMoves

-----------------------------------------------------------------------------
\* At the start nothing runs.
LEMMA RunInit == ASSUME Init PROVE RunInv
<1>1. jobs = <<>> /\ sm = SmInit /\ cm.state = "Port_Deactivated"  BY DEF Init, CmInit
<1>2. (\A k : Off(jobs, k)) /\ \A k, l : After(jobs, k, l)  BY <1>1, MarkOne
<1>3. sm.state = "PortInactive" /\ sm.rev = "any"  BY <1>1 DEF SmInit
<1> QED BY <1>1, <1>2, <1>3
        DEF RunInv, RunAt, Modern, ModeRules, PortRules, StageRules, ActiveRules, Met

\* Every step keeps the rules.
LEMMA RunNext ==
  ASSUME V10 = {}, RunInv, ServiceInv, HandInv, ErrorInv, TypeInv, [Next]_vars PROVE RunInv'
<1>1. CASE Application  BY <1>1, RunApplication
<1>2. CASE LinkRuns \/ LinkFails  BY <1>2, RunLink DEF LinkRuns, LinkFails, above
<1>3. CASE AL_Request /\ UNCHANGED <<ode, pde, app, cm>>
  BY <1>3, RunOthers DEF AL_Request, AL_ReadWrite
<1>4. CASE AL_Handler /\ UNCHANGED <<sm, ds, info, ode, pde, app, cm>>  BY <1>4, RunOthers
<1>5. CASE SM_Handler /\ UNCHANGED <<ds, info, ode, pde, app, cm>>  BY <1>5, RunSm
<1>6. CASE DS_Handler /\ UNCHANGED <<ode, pde, app, cm>>  BY <1>6, RunOthers DEF DS_Handler
<1>7. CASE ODE_Handler /\ UNCHANGED cm  BY <1>7, RunOthers DEF ODE_Handler
<1>8. CASE CM_Handler  BY <1>8, RunCm
<1>9. CASE UNCHANGED vars  BY <1>9 DEF vars, link, above, RunInv
<1> QED BY <1>1, <1>2, <1>3, <1>4, <1>5, <1>6, <1>7, <1>8, <1>9 DEF Next, Master

\* What is on its way is the loss of the device.
LEMMA RunEnough == ASSUME TypeInv, RunInv PROVE Active
<1> SUFFICES ASSUME cm.state = "Port_Active",
                    ~ \E i \in DOMAIN jobs :
                        jobs[i] \in {PortMode("COMLOST"), ModeInd("INACTIVE"), ModeInd("COMLOST")}
             PROVE sm.state = "SMOperate" /\ dl.mode = "OPERATE" /\ dl.link = "Operate"
  BY DEF Active
<1>1. \A i \in DOMAIN jobs : JobOK(jobs[i])  BY DEF TypeInv, Sound
<1>2. Off(jobs, "gone")
  <2>1. \A i \in DOMAIN jobs : Mark(jobs[i], "gone") => jobs[i] = PortMode("COMLOST")
    BY <1>1 DEF Mark, JobOK, PortMode
  <2> QED BY <2>1 DEF Off
<1>3. Off(jobs, "lost")
  <2>1. \A i \in DOMAIN jobs : Mark(jobs[i], "lost") => jobs[i] = ModeInd("COMLOST")
    BY <1>1 DEF Mark, JobOK, ModeInd
  <2> QED BY <2>1 DEF Off
<1>4. sm.state = "SMOperate" /\ Holds(jobs, dl)
  BY <1>2 DEF RunInv, RunAt, ActiveRules, Operates
<1> QED BY <1>3, <1>4 DEF RunInv, RunAt, ModeRules, Holds

\* Where every device is of revision 1.1: while CM calls the port active, SM operates and
\* the link is in OPERATE, or the news to the contrary is in the mailbox (iolink_cm.c,
\* cm_sm_operate; iolink_sm.c, sm_DL_Mode_ind_cb): no order of losses, wake-ups, device
\* mode confirmations and new configurations lets the word of an earlier session pass for
\* this one's.  A device of revision 1.0 may be lost unnoticed (sm_comlost_ignore).
THEOREM PortRuns == ASSUME V10 = {} PROVE Spec => []Active
<1>1. Spec => []ExchangeInv
  BY JobsProper, ExchangeInit, ExchangeNext, PTL DEF Spec
<1>2. Init => ServiceInv  BY ServiceInit
<1>3. ServiceInv /\ HandInv /\ ErrorInv /\ ExchangeInv /\ TypeInv /\ [Next]_vars => ServiceInv'
  BY ServiceNext
<1>4. Init => RunInv  BY RunInit
<1>5. RunInv /\ ServiceInv /\ HandInv /\ ErrorInv /\ TypeInv /\ [Next]_vars => RunInv'
  BY RunNext
<1>6. TypeInv /\ RunInv => Active  BY RunEnough
<1> QED BY <1>1, <1>2, <1>3, <1>4, <1>5, <1>6, StartsHold, TypesHold, PTL DEF Spec
==============================================================================
