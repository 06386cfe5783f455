--------------------------- MODULE PortStack_proof ---------------------------
(***************************************************************************)
(* Proofs about PortStack, for every set of devices, configurations and     *)
(* requests and for every number of troubles: what CM stops stays stopped,   *)
(* a blocked exchange has a request under way, AL waits for no ISDU that is  *)
(* neither with the data link nor answered, and the data link implements     *)
(* LinkService.                                                             *)
(*                                                                         *)
(* The first part looks at what every callback posts to the mailbox; each    *)
(* of the others proves an invariant about the jobs in it.                  *)
(***************************************************************************)
EXTENDS PortStack, Selection_proof, FiniteSetTheorems, TLAPS

\* The mailbox is a sequence, of whatever jobs.
IsSeq(s) == \E S : s \in Seq(S)
\* A request in a job is a read or a write.
Asks(op) == "rw" \in DOMAIN op /\ op.rw \in {"read", "write"}
Real(j)  == /\ j.type = "AL_REQ" => Asks(j.op)
            /\ j.type = "SMI_RW" => Asks(j.arg)
Proper(p) == IsSeq(p) /\ \A i \in DOMAIN p : Real(p[i])
\* The mailbox holds proper jobs.
JobsInv == Proper(jobs)
\* Posts among which there is no OD_START, and those that indicate no mode either.
Tame(p)  == Proper(p) /\ \A i \in DOMAIN p : p[i].type # "OD_START"
Calm(p)  == Proper(p) /\ \A i \in DOMAIN p : p[i].type \notin {"OD_START", "MODE"}
\* The jobs of a kind: a request of the on-request exchange or a confirmation for it, or a
\* confirmation of the ISDU handler.
Of(j, k) == IF k = "ODE" THEN j.type \in {"AL_REQ", "AL_CNF"} /\ j.who = "ODE"
            ELSE j.type = "ISDU_CNF"

\* Posting nothing starts nothing and indicates nothing.
LEMMA CalmNone == Calm(<<>>)
<1>1. <<>> \in Seq({})  OBVIOUS
<1> QED BY <1>1 DEF Calm, Proper, IsSeq

\* One job that is neither OD_START nor an indication.
LEMMA CalmOne == ASSUME NEW a, a.type \notin {"OD_START", "MODE"}, Real(a) PROVE Calm(<<a>>)
<1>1. <<a>> \in Seq({a}) /\ Len(<<a>>) = 1 /\ <<a>>[1] = a  OBVIOUS
<1>2. DOMAIN <<a>> = 1..1  BY <1>1
<1>3. \A i \in DOMAIN <<a>> : i = 1  BY <1>2
<1> QED BY <1>1, <1>3 DEF Calm, Proper, IsSeq

\* The length, the domain and the elements of a concatenation.
LEMMA ConcatSeq == ASSUME NEW s, NEW t, IsSeq(s), IsSeq(t)
  PROVE /\ IsSeq(s \o t)
        /\ Len(s) \in Nat /\ Len(t) \in Nat /\ DOMAIN s = 1..Len(s) /\ DOMAIN t = 1..Len(t)
        /\ DOMAIN (s \o t) = 1..(Len(s) + Len(t))
        /\ \A i \in 1..Len(s) : (s \o t)[i] = s[i]
        /\ \A i \in 1..Len(t) : (s \o t)[Len(s) + i] = t[i]
<1>1. PICK S : s \in Seq(S)  BY DEF IsSeq
<1>2. PICK T : t \in Seq(T)  BY DEF IsSeq
<1>3. s \in Seq(S \cup T) /\ t \in Seq(S \cup T)  BY <1>1, <1>2
<1>4. s \o t \in Seq(S \cup T)  BY <1>3
<1> QED BY <1>3, <1>4 DEF IsSeq

\* The length, the domain and the elements of a tail.
LEMMA TailSeq == ASSUME NEW s, IsSeq(s), s # <<>>
  PROVE /\ IsSeq(Tail(s)) /\ Len(s) \in Nat \ {0} /\ DOMAIN s = 1..Len(s) /\ Head(s) = s[1]
        /\ Len(Tail(s)) = Len(s) - 1
        /\ \A i \in 1..(Len(s) - 1) : Tail(s)[i] = s[i + 1]
<1>1. PICK S : s \in Seq(S)  BY DEF IsSeq
<1>2. Tail(s) \in Seq(S)  BY <1>1
<1> QED BY <1>1, <1>2 DEF IsSeq

\* What two callbacks post, one after the other, is proper when each part is.
LEMMA ProperBoth == ASSUME NEW p, NEW q, Proper(p), Proper(q) PROVE Proper(p \o q)
<1>1. IsSeq(p) /\ IsSeq(q)  BY DEF Proper
<1>2. ASSUME NEW i \in DOMAIN (p \o q) PROVE Real((p \o q)[i])
  <2>1. CASE i <= Len(p)  BY <1>1, <2>1, ConcatSeq DEF Proper
  <2>2. CASE i > Len(p)
    <3>1. i - Len(p) \in 1..Len(q) /\ i = Len(p) + (i - Len(p))  BY <1>1, <2>2, ConcatSeq
    <3> QED BY <1>1, <3>1, ConcatSeq DEF Proper
  <2> QED BY <1>1, <2>1, <2>2, ConcatSeq
<1> QED BY <1>1, <1>2, ConcatSeq DEF Proper

\* And calm when each part is.
LEMMA CalmBoth == ASSUME NEW p, NEW q, Calm(p), Calm(q) PROVE Calm(p \o q)
<1>1. IsSeq(p) /\ IsSeq(q)  BY DEF Calm, Proper
<1>2. ASSUME NEW i \in DOMAIN (p \o q) PROVE (p \o q)[i].type \notin {"OD_START", "MODE"}
  <2>1. CASE i <= Len(p)  BY <1>1, <2>1, ConcatSeq DEF Calm, Proper
  <2>2. CASE i > Len(p)
    <3>1. i - Len(p) \in 1..Len(q) /\ i = Len(p) + (i - Len(p))  BY <1>1, <2>2, ConcatSeq
    <3> QED BY <1>1, <3>1, ConcatSeq DEF Calm, Proper
  <2> QED BY <1>1, <2>1, <2>2, ConcatSeq
<1> QED BY <1>2, ProperBoth DEF Calm, Proper

\* And tame when each part is.
LEMMA TameBoth == ASSUME NEW p, NEW q, Tame(p), Tame(q) PROVE Tame(p \o q)
<1>1. IsSeq(p) /\ IsSeq(q)  BY DEF Tame, Proper
<1>2. ASSUME NEW i \in DOMAIN (p \o q) PROVE (p \o q)[i].type # "OD_START"
  <2>1. CASE i <= Len(p)  BY <1>1, <2>1, ConcatSeq DEF Tame, Proper
  <2>2. CASE i > Len(p)
    <3>1. i - Len(p) \in 1..Len(q) /\ i = Len(p) + (i - Len(p))  BY <1>1, <2>2, ConcatSeq
    <3> QED BY <1>1, <3>1, ConcatSeq DEF Tame, Proper
  <2> QED BY <1>1, <2>1, <2>2, ConcatSeq
<1> QED BY <1>2, ProperBoth DEF Tame, Proper

\* An indication of a mode is tame.
LEMMA TameMode == ASSUME NEW mode PROVE Tame(<<ModeInd(mode)>>)
<1> DEFINE a == ModeInd(mode)
<1>1. <<a>> \in Seq({a}) /\ Len(<<a>>) = 1 /\ <<a>>[1] = a  OBVIOUS
<1>2. DOMAIN <<a>> = 1..1 /\ a.type = "MODE"  BY <1>1 DEF ModeInd, JobArg
<1>3. \A i \in DOMAIN <<a>> : i = 1  BY <1>2
<1> QED BY <1>1, <1>2, <1>3 DEF Tame, Proper, Real, IsSeq

\* A callback ran, or another thread did, and what it posted is calm, or tame.
CalmHandled == \E p : Calm(p) /\ Handled(p)
CalmPosted  == \E p : Calm(p) /\ Posted(p)
TamePosted  == \E p : Tame(p) /\ Posted(p)

\* What is calm is tame.
LEMMA CalmIsTame == (\A p : Calm(p) => Tame(p)) /\ (CalmPosted => TamePosted)
BY DEF Calm, Tame, CalmPosted, TamePosted

\* The jobs the layers post, by their constructors: none is OD_START.
LEMMA CalmNames ==
  /\ \A type, arg : type \notin {"OD_START", "MODE", "AL_REQ", "SMI_RW"} => Calm(<<JobArg(type, arg)>>)
  /\ \A type : type \notin {"OD_START", "MODE", "AL_REQ", "SMI_RW"} => Calm(<<Job(type)>>)
  /\ \A who, op : Asks(op) => Calm(<<AlReq(who, op)>>)
  /\ \A op : Asks(op) => Calm(<<JobArg("SMI_RW", op)>>)
  /\ \A who, rw, err, len : Calm(<<AlCnf(who, rw, err, len)>>)
  /\ \A mode : Calm(<<PortMode(mode)>>)
<1>1. \A type, arg : JobArg(type, arg).type = type /\ JobArg(type, arg).arg = arg  BY DEF JobArg
<1>2. \A type : Job(type).type = type  BY DEF Job
<1>3. \A who, op : AlReq(who, op).type = "AL_REQ" /\ AlReq(who, op).op = op  BY DEF AlReq
<1>4. \A who, rw, err, len : AlCnf(who, rw, err, len).type = "AL_CNF"  BY DEF AlCnf
<1>5. \A mode : PortMode(mode).type = "PORT_MODE"  BY DEF PortMode, JobArg
<1>6. ASSUME NEW type, NEW arg, type \notin {"OD_START", "MODE", "AL_REQ", "SMI_RW"}
      PROVE Calm(<<JobArg(type, arg)>>)
  BY <1>1, <1>6, CalmOne DEF Real
<1>7. ASSUME NEW type, type \notin {"OD_START", "MODE", "AL_REQ", "SMI_RW"} PROVE Calm(<<Job(type)>>)
  BY <1>2, <1>7, CalmOne DEF Real
<1>8. ASSUME NEW who, NEW op, Asks(op) PROVE Calm(<<AlReq(who, op)>>)
  BY <1>3, <1>8, CalmOne DEF Real
<1>9. ASSUME NEW who, NEW rw, NEW err, NEW len PROVE Calm(<<AlCnf(who, rw, err, len)>>)
  BY <1>4, CalmOne DEF Real
<1>10. ASSUME NEW mode PROVE Calm(<<PortMode(mode)>>)
  BY <1>5, CalmOne DEF Real
<1>11. ASSUME NEW op, Asks(op) PROVE Calm(<<JobArg("SMI_RW", op)>>)
  BY <1>1, <1>11, CalmOne DEF Real
<1> QED BY <1>6, <1>7, <1>8, <1>9, <1>10, <1>11

\* The operations the layers name are reads and writes.
LEMMA OpAsks == \A what, arg : Asks(Op("read", what, arg)) /\ Asks(Op("write", what, arg))
BY DEF Asks, Op

\* A step of SM that posts what is calm is calm.
LEMMA SmCalls == ASSUME NEW s, NEW d, NEW p, Calls(s, d, p), Calm(p) PROVE CalmHandled
BY DEF Calls, CalmHandled

\* No action of SM's table (sm_trans_s0 to sm_trans_s15) starts the exchange.
LEMMA SmDoCalm == ASSUME NEW do, NEW s, NEW event, SmDo(do, s, event) PROVE CalmHandled
<1>1. ASSUME NEW x, NEW what, SmAccess(x, what) PROVE CalmHandled
  <2>1. Calm(AccessCnf(dl, what))  BY CalmNone, CalmNames DEF AccessCnf
  <2> QED BY <1>1, <2>1, SmCalls DEF SmAccess
<1>2. ASSUME NEW x, SmFault(x, event) PROVE CalmHandled
  BY <1>2, SmCalls, CalmNames DEF SmFault
<1>3. \A mode : Calm(DevicemodeCnf(dl, mode))  BY CalmNone, CalmNames DEF DevicemodeCnf
<1>4. CASE do \in {"read_com", "read_id", "ident", "preop_cmd", "operate_cmd", "restart"}
  BY <1>1, <1>4 DEF SmDo
<1>5. CASE do = "fault"  BY <1>2, <1>5 DEF SmDo
<1>6. CASE do \in {"serial", "write_cycl", "comready", "comlost", "inactive", "start", "dido",
                   "operate_ind"}
  BY <1>6, SmCalls, CalmNames, CalmNone, OpAsks DEF SmDo
<1>7. CASE do \in {"fallback", "devmode"}  BY <1>3, <1>7, SmCalls DEF SmDo
<1>8. CASE do \notin {"read_com", "read_id", "ident", "preop_cmd", "operate_cmd", "restart",
                      "fault", "serial", "write_cycl", "comready", "comlost", "inactive",
                      "start", "dido", "operate_ind", "fallback", "devmode"}
  BY <1>8, SmCalls, CalmNone DEF SmDo
<1> QED BY <1>4, <1>5, <1>6, <1>7, <1>8

\* Neither does an event that SM processes, whatever its state.
LEMMA SmEventCalm == ASSUME NEW s, NEW event, SmEvent(s, event) PROVE CalmHandled
BY SmDoCalm, SmCalls, CalmNone DEF SmEvent

\* The head of the mailbox is neither OD_START nor OD_STOP nor a job of ODE.
Other == jobs # <<>> /\ Head(jobs).type \notin {"OD_START", "OD_STOP"} /\ ~Of(Head(jobs), "ODE")

\* A job of SM is none of the exchange, posts no OD_START and leaves AL alone.
LEMMA SmHandlerCalm == ASSUME SM_Handler PROVE CalmHandled /\ Other /\ UNCHANGED al
<1>1. UNCHANGED al  BY SM_Handler DEF SM_Handler
<1>2. Other
  BY SM_Handler DEF SM_Handler, SM_SetPortConfig, SM_Operate, SM_Mode, SM_DLCnf, SM_ALCnf,
                    SM_DevmodeCnf, Other, Of, Due
<1>3. ASSUME SM_SetPortConfig PROVE CalmHandled
  BY <1>3, SmEventCalm, SmCalls, CalmNone DEF SM_SetPortConfig
<1>4. ASSUME SM_Operate PROVE CalmHandled
  BY <1>4, SmEventCalm DEF SM_Operate
<1>5. ASSUME SM_Mode PROVE CalmHandled
  BY <1>5, SmEventCalm, SmCalls, CalmNone, CalmNames DEF SM_Mode
<1>6. ASSUME SM_DLCnf PROVE CalmHandled
  BY <1>6, SmEventCalm, SmCalls, CalmNone DEF SM_DLCnf
<1>7. ASSUME SM_ALCnf PROVE CalmHandled
  BY <1>7, SmEventCalm DEF SM_ALCnf, SM_SerialCnf, SM_CyclCnf
<1>8. ASSUME SM_DevmodeCnf PROVE CalmHandled
  <2>1. Calm(IF sm.rev = "V10" THEN <<PortMode("OPERATE")>> ELSE <<>>)  BY CalmNone, CalmNames
  <2> QED BY <1>8, <2>1, SmEventCalm, SmCalls, CalmNone DEF SM_DevmodeCnf, CalmHandled
<1> QED BY <1>1, <1>2, <1>3, <1>4, <1>5, <1>6, <1>7, <1>8, SM_Handler DEF SM_Handler

-----------------------------------------------------------------------------
\* What DS posts to AL, to itself and to CM.
LEMMA DsRequests ==
  /\ \A d, p : DsStep(d, p) /\ Calm(p) => CalmHandled
  /\ \A d, state, what, arg : DsRead(d, state, what, arg) => CalmHandled
  /\ \A d, state, cmd : DsCommand(d, state, cmd) => CalmHandled
  /\ \A d : DsReady(d) => CalmHandled
  /\ \A d, fault : DsFault(d, fault) => CalmHandled
  /\ \A d, fault : DsBreak(d, fault) => CalmHandled
<1>1. ASSUME NEW d, NEW p, DsStep(d, p), Calm(p) PROVE CalmHandled
  BY <1>1 DEF DsStep, CalmHandled
<1>2. ASSUME NEW d, NEW state, NEW what, NEW arg, DsRead(d, state, what, arg) PROVE CalmHandled
  BY <1>1, <1>2, CalmNames, OpAsks DEF DsRead
<1>3. ASSUME NEW d, NEW state, NEW cmd, DsCommand(d, state, cmd) PROVE CalmHandled
  BY <1>1, <1>3, CalmNames, OpAsks DEF DsCommand
<1>4. ASSUME NEW d, DsReady(d) PROVE CalmHandled  BY <1>1, <1>4, CalmNames DEF DsReady
<1>5. ASSUME NEW d, NEW fault, DsFault(d, fault) PROVE CalmHandled
  BY <1>1, <1>5, CalmNames DEF DsFault
<1>6. ASSUME NEW d, NEW fault, DsBreak(d, fault) PROVE CalmHandled  BY <1>3, <1>6 DEF DsBreak
<1> QED BY <1>1, <1>2, <1>3, <1>4, <1>5, <1>6

\* The next write of a download, or its end.
LEMMA DsChain ==
  /\ \A d : CheckIdentity(d) => CalmHandled
  /\ \A d, flag, locked : CheckUpload(d, flag, locked) => CalmHandled
  /\ \A d : CheckValidity(d) => CalmHandled
  /\ \A d : StartUpload(d) => CalmHandled
  /\ \A d : NextUpload(d) => CalmHandled
  /\ \A d : NextDownload(d) => CalmHandled
  /\ \A d : DsComErr(d) => CalmHandled
<1>1. ASSUME NEW d, CheckIdentity(d) PROVE CalmHandled  BY <1>1, DsRequests DEF CheckIdentity
<1>2. ASSUME NEW d, NEW flag, NEW locked, CheckUpload(d, flag, locked) PROVE CalmHandled
  BY <1>2, DsRequests DEF CheckUpload
<1>3. ASSUME NEW d, CheckValidity(d) PROVE CalmHandled  BY <1>3, DsRequests DEF CheckValidity
<1>4. ASSUME NEW d, StartUpload(d) PROVE CalmHandled  BY <1>4, DsRequests DEF StartUpload
<1>5. ASSUME NEW d, NextUpload(d) PROVE CalmHandled  BY <1>5, DsRequests DEF NextUpload
<1>6. ASSUME NEW d, NextDownload(d) PROVE CalmHandled
  <2> DEFINE op == [Op("write", "par", d.pos + 1) EXCEPT !.val = d.set[d.pos + 1]]
  <2>1. Asks(op)  BY DEF Asks, Op
  <2>2. Calm(<<AlReq("DS", op)>>)  BY <2>1, CalmNames
  <2> QED BY <1>6, <2>2, DsRequests DEF NextDownload
<1>7. ASSUME NEW d, DsComErr(d) PROVE CalmHandled
  BY <1>7, DsRequests, CalmNone DEF DsComErr
<1> QED BY <1>1, <1>2, <1>3, <1>4, <1>5, <1>6, <1>7

\* Two requests at once (iolink_ds.c, a short checksum in StoreDataSet).
LEMMA TwoRequests == ASSUME NEW a, NEW b, NEW c, NEW d, Asks(b), Asks(d)
  PROVE Calm(<<AlReq(a, b), AlReq(c, d)>>)
<1>1. <<AlReq(a, b), AlReq(c, d)>> = <<AlReq(a, b)>> \o <<AlReq(c, d)>>  OBVIOUS
<1> QED BY <1>1, CalmNames, CalmBoth

\* The read confirmations of DS post no OD_START.
LEMMA DsReadCalm == ASSUME NEW c, ReadCnf(c) PROVE CalmHandled
<1>1. ASSUME StoreChecksum(c) PROVE CalmHandled
  BY <1>1, DsRequests, TwoRequests, OpAsks DEF StoreChecksum
<1>2. ASSUME FinalChecksum(c) PROVE CalmHandled
  BY <1>2, DsRequests DEF FinalChecksum
<1>3. ASSUME NEW d, DsListed(d) PROVE CalmHandled  BY <1>3, DsChain DEF DsListed
<1>4. ASSUME NEW d, DsValue(d) PROVE CalmHandled  BY <1>4, DsChain DEF DsValue
<1> QED BY <1>1, <1>2, <1>3, <1>4, DsRequests, DsChain, CalmNone DEF ReadCnf

\* Nor do the write confirmations.
LEMMA DsWriteCalm == ASSUME NEW c, WriteCnf(c) PROVE CalmHandled
BY DsRequests, DsChain, CalmNone DEF WriteCnf

\* A job of DS is none of the exchange, posts no OD_START and leaves AL alone.
LEMMA DsHandlerCalm == ASSUME DS_Handler PROVE CalmHandled /\ Other /\ UNCHANGED al
<1>1. UNCHANGED al  BY DS_Handler DEF DS_Handler
<1>2. Other
  BY DS_Handler DEF DS_Handler, DS_ALCnf, DS_Startup, DS_Upload, DS_Delete, DS_Init, Other,
                    Of, Due
<1>3. ASSUME DS_ALCnf PROVE CalmHandled
  BY <1>3, DsReadCalm, DsWriteCalm DEF DS_ALCnf
<1>4. ASSUME DS_Startup PROVE CalmHandled
  BY <1>4, DsRequests, DsChain, CalmNone, CalmNames DEF DS_Startup
<1>5. ASSUME DS_Upload PROVE CalmHandled
  BY <1>5, DsRequests, DsChain, CalmNone DEF DS_Upload
<1>6. ASSUME DS_Delete PROVE CalmHandled
  BY <1>6, DsRequests, CalmNone DEF DS_Delete
<1>7. ASSUME DS_Init PROVE CalmHandled
  BY <1>7, DsRequests, CalmNone DEF DS_Init
<1> QED BY <1>1, <1>2, <1>3, <1>4, <1>5, <1>6, <1>7, DS_Handler DEF DS_Handler

-----------------------------------------------------------------------------
\* A confirmation of AL to its user.
LEMMA AlConfirmCalm == ASSUME NEW awaited, NEW err, NEW len, AL_Confirm(awaited, err, len)
  PROVE CalmHandled
BY CalmNone, CalmNames DEF AL_Confirm, CalmHandled

\* An event that AL shows to DS and to the application.
LEMMA AlEventCalm == ASSUME AL_EventInd PROVE CalmHandled
<1>1. Calm(<<Job("EVENT_RSP"), Job("DS_UPLOAD")>>)
  <2>1. <<Job("EVENT_RSP"), Job("DS_UPLOAD")>> = <<Job("EVENT_RSP")>> \o <<Job("DS_UPLOAD")>>
    OBVIOUS
  <2> QED BY <2>1, CalmNames, CalmBoth
<1> QED BY <1>1, CalmNone, CalmNames DEF AL_EventInd, CalmHandled

\* A job of the data link to AL is none of the exchange and posts no OD_START.
LEMMA AlHandlerCalm == ASSUME AL_Handler PROVE CalmHandled /\ Other
<1>1. Other
  BY DEF AL_Handler, AL_ParamCnf, AL_IsduCnf, AL_EventInd, AL_EventRsp, Other, Of, Due
<1>2. ASSUME AL_ParamCnf PROVE CalmHandled
  BY <1>2, AlConfirmCalm DEF AL_ParamCnf
<1>3. ASSUME AL_IsduCnf PROVE CalmHandled
  BY <1>3, AlConfirmCalm DEF AL_IsduCnf
<1>4. ASSUME AL_EventInd PROVE CalmHandled
  BY <1>4, AlEventCalm
<1>5. ASSUME AL_EventRsp PROVE CalmHandled
  BY <1>5, CalmNone DEF AL_EventRsp, CalmHandled
<1> QED BY <1>1, <1>2, <1>3, <1>4, <1>5, AL_Handler DEF AL_Handler

\* A request to AL posts no OD_START, refused or taken.
LEMMA AlRequestCalm == ASSUME AL_Request PROVE CalmHandled
<1>1. ASSUME NEW op, AL_ReadWrite(op) PROVE CalmHandled
  <2>1. \A refused : Calm(ParamCnf(op, refused))
    BY CalmNone, CalmNames DEF ParamCnf, ParamRes
  <2>2. Calm(TransportCnf(dl))  BY CalmNone, CalmNames DEF TransportCnf
  <2> QED BY <1>1, <2>1, <2>2, CalmNames DEF AL_ReadWrite, CalmHandled
<1> QED BY <1>1 DEF AL_Request

-----------------------------------------------------------------------------
\* The events of one event memory, posted one by one.
LEMMA EventsCalm == ASSUME NEW codes, IsSeq(codes) PROVE Calm(Events(codes))
<1>1. PICK S : codes \in Seq(S)  BY DEF IsSeq
<1>2. Len(codes) \in Nat /\ DOMAIN codes = 1..Len(codes)  BY <1>1
<1>. DEFINE ev(i) == JobArg("EVENT", [code |-> codes[i], left |-> i < Len(codes)])
<1>3. Events(codes) = [i \in 1..Len(codes) |-> ev(i)]  BY <1>2 DEF Events
<1>4. Events(codes) \in Seq({ev(i) : i \in 1..Len(codes)})  BY <1>2, <1>3
<1>5. \A i : ev(i).type = "EVENT"  BY DEF JobArg
<1>6. \A i \in DOMAIN Events(codes) : Events(codes)[i].type = "EVENT"
  BY <1>3, <1>5
<1> QED BY <1>4, <1>6 DEF Calm, Proper, Real, IsSeq

\* The data link thread and the cable post no OD_START.
LEMMA LinkCalm == ASSUME LinkProgress \/ LinkTrouble PROVE TamePosted \/ UNCHANGED jobs
<1>1. \A mode : Tame(<<ModeInd(mode)>>)  BY TameMode
<1>2. \A d : Calm(IsduDownCnf(d))  BY CalmNone, CalmNames DEF IsduDownCnf
<1>3. \A d, mode : Tame(IsduDownCnf(d) \o <<ModeInd(mode)>>)  BY <1>1, <1>2, TameBoth, CalmIsTame
<1>4. ASSUME ModeStep PROVE TamePosted \/ UNCHANGED jobs
  <2>1. ASSUME NEW d, NEW ind, GotoIdle(d, ind) PROVE TamePosted
    BY <1>3, <2>1 DEF GotoIdle, TamePosted
  <2>2. ASSUME NEW d, NEW link_, NEW ind, Goto(d, link_, ind) PROVE TamePosted
    BY <1>1, <2>2 DEF Goto, TamePosted
  <2>3. ASSUME NEW d, GotoStartup(d) PROVE TamePosted
    BY <1>3, <2>3 DEF GotoStartup, TamePosted
  <2> QED BY <1>4, <2>1, <2>2, <2>3 DEF ModeStep
<1>5. ASSUME WakeUp PROVE TamePosted  BY <1>1, <1>5 DEF WakeUp, TamePosted
<1>6. ASSUME AccessDone PROVE TamePosted  BY <1>6, CalmNames, CalmIsTame DEF AccessDone, TamePosted
<1>7. ASSUME IsduStart PROVE UNCHANGED jobs  BY <1>7 DEF IsduStart
<1>8. ASSUME IsduDone PROVE TamePosted  BY <1>8, CalmNames, CalmIsTame DEF IsduDone, TamePosted
<1>9. ASSUME ParamDone PROVE TamePosted  BY <1>9, CalmNames, CalmIsTame DEF ParamDone, ParamRes, TamePosted
<1>10. ASSUME ModeDone PROVE TamePosted  BY <1>10, CalmNames, CalmIsTame DEF ModeDone, TamePosted
<1>11. ASSUME IsduFails PROVE TamePosted  BY <1>11, CalmNames, CalmIsTame DEF IsduFails, TamePosted
<1>12. ASSUME Lose PROVE TamePosted
  <2>1. \A op, err, own : Calm(<<ParamRes(op, err, own)>>)  BY CalmNames DEF ParamRes
  <2>5. ASSUME NEW by10 PROVE Calm(LoseCnf(by10))
    <3>. DEFINE mode  == IF by10 /\ dl.mcmd # "none"
                         THEN <<JobArg("DEVMODE_CNF", FALSE)>> ELSE <<>>
                param == IF dl.par # NoOp /\ (by10 \/ dl.par.rw = "write")
                         THEN <<ParamRes(dl.par, "ERR", FALSE)>> ELSE <<>>
    <3>2. Calm(mode)  BY CalmNone, CalmNames
    <3>3. Calm(param)  BY <2>1, CalmNone
    <3>4. Calm(mode \o param)  BY <3>2, <3>3, CalmBoth
    <3> QED BY <3>4, CalmNames DEF LoseCnf
  <2> QED BY <1>12, <2>5, CalmIsTame DEF Lose, TamePosted
<1>13. ASSUME DeviceEvent PROVE TamePosted
  <2>1. IsSeq(<<"other">>) /\ IsSeq(<<"UPLOAD">>) /\ IsSeq(<<"other", "UPLOAD">>)
    <3>1. /\ <<"other">> \in Seq({"other"}) /\ <<"UPLOAD">> \in Seq({"UPLOAD"})
          /\ <<"other", "UPLOAD">> \in Seq({"other", "UPLOAD"})  OBVIOUS
    <3> QED BY <3>1 DEF IsSeq
  <2> QED BY <1>13, <2>1, EventsCalm, CalmIsTame DEF DeviceEvent, TamePosted
<1>14. ASSUME Swap PROVE UNCHANGED jobs  BY <1>14 DEF Swap
<1> QED BY <1>4, <1>5, <1>6, <1>7, <1>8, <1>9, <1>10, <1>11, <1>12, <1>13, <1>14
        DEF LinkProgress, LinkTrouble

\* Nor does the application.
LEMMA ApplicationCalm == ASSUME Application PROVE CalmPosted \/ UNCHANGED jobs
<1>1. ASSUME Configure PROVE CalmPosted  BY <1>1, CalmNames DEF Configure, CalmPosted
<1>2. ASSUME Request PROVE CalmPosted
  <2>1. \A op \in Requests : Asks(op)  BY RequestsAssumption DEF Asks, AppOps
  <2> QED BY <1>2, <2>1, CalmNames DEF Request, CalmPosted
<1> QED BY <1>1, <1>2 DEF Application, GiveUp

\* The exchange posts the request the application asked for.
LEMMA OdeCalm == ASSUME ODE_Handler, Proper(jobs) PROVE jobs # <<>> /\ CalmHandled
<1>1. jobs # <<>>  BY DEF ODE_Handler, ODE_Request, ODE_ALCnf, ODE_Start, ODE_Stop, Due
<1>2. ASSUME ODE_Request PROVE CalmHandled
  <2>1. Head(jobs).type = "SMI_RW" /\ 1 \in DOMAIN jobs /\ Head(jobs) = jobs[1]
    BY <1>1, <1>2, TailSeq DEF ODE_Request, Due, Proper
  <2>2. Asks(DueArg("SMI_RW"))  BY <2>1 DEF Proper, Real, DueArg
  <2> QED BY <1>2, <2>2, CalmNames, CalmNone DEF ODE_Request, CalmHandled
<1> QED BY <1>1, <1>2, CalmNone DEF ODE_Handler, ODE_ALCnf, ODE_Start, ODE_Stop, CalmHandled

-----------------------------------------------------------------------------
\* Every OD_START on its way is followed by an OD_STOP, or there is none and the exchange
\* is not active.
NoStart(s) == \A k \in DOMAIN s : s[k].type # "OD_START"
StopAt(s, i) == s[i].type = "OD_STOP" /\ \A k \in DOMAIN s : k > i => s[k].type # "OD_START"
Quelled(s, o) == \/ \E i \in DOMAIN s : StopAt(s, i)
                 \/ o.state = "Inactive" /\ NoStart(s)

\* Posting tame jobs keeps the exchange quelled.
LEMMA QuelledPost == ASSUME NEW s, NEW p, NEW o, IsSeq(s), Tame(p), Quelled(s, o)
  PROVE IsSeq(s \o p) /\ Quelled(s \o p, o)
<1>1. IsSeq(p) /\ \A i \in DOMAIN p : p[i].type # "OD_START"  BY DEF Tame, Proper
<1>2. IsSeq(s \o p)  BY <1>1, ConcatSeq
<1>3. ASSUME NEW k \in DOMAIN (s \o p), (s \o p)[k].type = "OD_START"
      PROVE k \in DOMAIN s /\ s[k].type = "OD_START"
  <2>1. CASE k <= Len(s)  BY <1>1, <1>3, <2>1, ConcatSeq
  <2>2. CASE k > Len(s)
    <3>1. k - Len(s) \in 1..Len(p) /\ k = Len(s) + (k - Len(s))  BY <1>1, <2>2, ConcatSeq
    <3> QED BY <1>1, <1>3, <3>1, ConcatSeq
  <2> QED BY <1>1, <2>1, <2>2, ConcatSeq
<1>4. ASSUME NEW i \in DOMAIN s, StopAt(s, i) PROVE Quelled(s \o p, o)
  <2>1. i \in DOMAIN (s \o p) /\ (s \o p)[i] = s[i]  BY <1>1, ConcatSeq
  <2>2. StopAt(s \o p, i)  BY <1>3, <1>4, <2>1 DEF StopAt
  <2> QED BY <2>1, <2>2 DEF Quelled
<1>5. ASSUME o.state = "Inactive", NoStart(s) PROVE Quelled(s \o p, o)
  BY <1>3, <1>5 DEF Quelled, NoStart
<1> QED BY <1>2, <1>4, <1>5 DEF Quelled

\* Taking a job that is not OD_STOP keeps the exchange quelled.
LEMMA QuelledTake == ASSUME NEW s, NEW o, IsSeq(s), s # <<>>, Quelled(s, o),
                            Head(s).type # "OD_STOP"
  PROVE IsSeq(Tail(s)) /\ Quelled(Tail(s), o)
<1>1. ASSUME NEW k \in DOMAIN Tail(s) PROVE k + 1 \in DOMAIN s /\ Tail(s)[k] = s[k + 1] /\ k \in Nat
  <2>1. DOMAIN Tail(s) = 1..Len(Tail(s))
    <3>1. IsSeq(Tail(s))  BY TailSeq
    <3> QED BY <3>1 DEF IsSeq
  <2> QED BY <2>1, TailSeq
<1>2. ASSUME NEW i \in DOMAIN s, StopAt(s, i) PROVE Quelled(Tail(s), o)
  <2>1. i # 1  BY <1>2, TailSeq DEF StopAt
  <2>2. i - 1 \in DOMAIN Tail(s) /\ Tail(s)[i - 1] = s[i]
    <3>1. DOMAIN Tail(s) = 1..Len(Tail(s))
      <4>1. IsSeq(Tail(s))  BY TailSeq
      <4> QED BY <4>1 DEF IsSeq
    <3>2. i \in 1..Len(s) /\ Len(s) \in Nat  BY TailSeq
    <3> QED BY <2>1, <3>1, <3>2, TailSeq
  <2>3. i \in Nat  BY TailSeq
  <2>4. StopAt(Tail(s), i - 1)  BY <1>1, <1>2, <2>2, <2>3 DEF StopAt
  <2> QED BY <2>2, <2>4 DEF Quelled
<1>3. ASSUME o.state = "Inactive", NoStart(s) PROVE Quelled(Tail(s), o)
  BY <1>1, <1>3 DEF Quelled, NoStart
<1> QED BY <1>2, <1>3, TailSeq DEF Quelled

\* Appending nothing.
LEMMA ConcatNone == ASSUME NEW s, IsSeq(s) PROVE s \o <<>> = s
<1>1. PICK S : s \in Seq(S)  BY DEF IsSeq
<1> QED BY <1>1

\* Taking a job with the exchange stopped afterwards.
LEMMA QuelledStopped == ASSUME NEW s, NEW o, NEW q, IsSeq(s), s # <<>>, Quelled(s, o),
                               q.state = "Inactive"
  PROVE Quelled(Tail(s), q)
<1>1. IsSeq(Tail(s))  BY TailSeq
<1>2. DOMAIN Tail(s) = 1..Len(Tail(s))  BY <1>1 DEF IsSeq
<1>3. ASSUME NEW k \in DOMAIN Tail(s) PROVE k + 1 \in DOMAIN s /\ Tail(s)[k] = s[k + 1] /\ k \in Nat
  BY <1>2, TailSeq
<1>4. ASSUME NEW i \in DOMAIN s, StopAt(s, i), i # 1 PROVE Quelled(Tail(s), q)
  <2>1. i \in 1..Len(s) /\ Len(s) \in Nat  BY TailSeq
  <2>2. i - 1 \in DOMAIN Tail(s) /\ Tail(s)[i - 1] = s[i]  BY <1>2, <1>4, <2>1, TailSeq
  <2>3. StopAt(Tail(s), i - 1)  BY <1>3, <1>4, <2>1, <2>2 DEF StopAt
  <2> QED BY <2>2, <2>3 DEF Quelled
<1>5. ASSUME NEW i \in DOMAIN s, StopAt(s, i), i = 1 PROVE Quelled(Tail(s), q)
  BY <1>3, <1>5 DEF StopAt, Quelled, NoStart
<1>6. ASSUME NoStart(s) PROVE Quelled(Tail(s), q)
  BY <1>3, <1>6 DEF Quelled, NoStart
<1> QED BY <1>4, <1>5, <1>6 DEF Quelled

\* Handling another job than OD_STOP, with calm posts, keeps it quelled.
LEMMA QuelledHandled == ASSUME NEW o, IsSeq(jobs), Quelled(jobs, o), CalmHandled,
                               jobs # <<>>, Head(jobs).type # "OD_STOP"
  PROVE IsSeq(jobs') /\ Quelled(jobs', o)
<1>1. PICK p : Calm(p) /\ Handled(p)  BY DEF CalmHandled
<1>2. IsSeq(Tail(jobs)) /\ Quelled(Tail(jobs), o)  BY QuelledTake
<1> QED BY <1>1, <1>2, QuelledPost, CalmIsTame DEF Handled

\* So does what another thread posts.
LEMMA QuelledPosted == ASSUME NEW o, IsSeq(jobs), Quelled(jobs, o), TamePosted
  PROVE IsSeq(jobs') /\ Quelled(jobs', o)
BY QuelledPost DEF TamePosted, Posted

\* The states of CM that may have the exchange running: the port is active, or was when a
\* fault or a loss was reported.
Exempt == {"Port_Active", "PortFault", "CheckPortMode"}
ExchangeInv == /\ IsSeq(jobs)
               /\ "state" \in DOMAIN ode
               /\ cm.state \notin Exempt => ~pde /\ Quelled(jobs, ode)

\* The port begins deactivated, with nothing posted.
LEMMA ExchangeInit == ASSUME Init PROVE ExchangeInv
<1>1. <<>> \in Seq({}) /\ Len(<<>>) = 0  OBVIOUS
<1>2. DOMAIN <<>> = 1..0  BY <1>1
<1>3. NoStart(<<>>)  BY <1>2 DEF NoStart
<1> QED BY <1>1, <1>3 DEF Init, ExchangeInv, Quelled, IsSeq, OdeInit

\* The mailbox stays a sequence when a job is handled,
LEMMA SeqHandled == ASSUME IsSeq(jobs), jobs # <<>>, NEW p, IsSeq(p), Handled(p)
  PROVE IsSeq(jobs')
BY TailSeq, ConcatSeq DEF Handled

\* when what is posted is calm,
LEMMA SeqCalm == ASSUME IsSeq(jobs), jobs # <<>>, CalmHandled PROVE IsSeq(jobs')
BY SeqHandled DEF CalmHandled, Calm, Proper

\* and when another thread posts.
LEMMA SeqPosted == ASSUME IsSeq(jobs), TamePosted PROVE IsSeq(jobs')
BY ConcatSeq DEF TamePosted, Tame, Proper, Posted

\* The exchange's own callbacks: only OD_START activates it, only OD_STOP ends the wait for one.
LEMMA ExchangeOde == ASSUME ODE_Handler, ExchangeInv, Proper(jobs), UNCHANGED cm PROVE ExchangeInv'
<1>1. jobs # <<>> /\ IsSeq(jobs) /\ UNCHANGED <<pde, cm>> /\ "state" \in DOMAIN ode
  BY DEF ODE_Handler, ODE_Request, ODE_ALCnf, ODE_Start, ODE_Stop, Due, ExchangeInv
<1>2. CASE ODE_Request \/ ODE_ALCnf
  <2>1. CalmHandled /\ Head(jobs).type # "OD_STOP"
    BY <1>2, OdeCalm DEF ODE_Request, ODE_ALCnf, Due
  <2>2. IsSeq(jobs')  BY <1>1, <2>1, SeqCalm
  <2>6. ASSUME ODE_Request PROVE "state" \in DOMAIN ode'
    <3>1. "state" \in DOMAIN [state |-> "Blocked", op |-> DueArg("SMI_RW"), result |-> "NONE"]
      OBVIOUS
    <3> QED BY <1>1, <2>6, <3>1 DEF ODE_Request
  <2>7. "state" \in DOMAIN ode'
    <3>1. CASE ODE_ALCnf
      <4>1. DOMAIN ode' = DOMAIN ode  BY <3>1 DEF ODE_ALCnf
      <4> QED BY <1>1, <4>1
    <3> QED BY <1>2, <2>6, <3>1
  <2>3. ode.state = "Inactive" => ode'.state = "Inactive"
    BY <1>1, <1>2 DEF ODE_Request, ODE_ALCnf
  <2>4. Quelled(jobs, ode) => Quelled(jobs', ode)  BY <1>1, <2>1, QuelledHandled
  <2>5. Quelled(jobs, ode) => Quelled(jobs', ode')  BY <2>3, <2>4 DEF Quelled
  <2> QED BY <1>1, <2>2, <2>5, <2>7 DEF ExchangeInv
<1>3. CASE ODE_Start
  <2>1. CalmHandled /\ Head(jobs).type = "OD_START"
    BY <1>3, CalmNone DEF ODE_Start, Due, CalmHandled
  <2>2. IsSeq(jobs')  BY <1>1, <2>1, SeqCalm
  <2>7. "state" \in DOMAIN ode'  BY <1>1, <1>3 DEF ODE_Start
  <2>3. ~NoStart(jobs)  BY <1>1, <2>1, TailSeq DEF NoStart
  <2>4. Quelled(jobs, ode) => Quelled(jobs, ode')  BY <2>3 DEF Quelled
  <2>5. Quelled(jobs, ode) => Quelled(jobs', ode')
    BY <1>1, <2>1, <2>4, QuelledHandled
  <2> QED BY <1>1, <2>2, <2>5, <2>7 DEF ExchangeInv
<1>4. CASE ODE_Stop
  <2>1. CalmHandled /\ Head(jobs).type = "OD_STOP" /\ Handled(<<>>)
    BY <1>4, CalmNone DEF ODE_Stop, Due, CalmHandled
  <2>2. IsSeq(jobs')  BY <1>1, <2>1, SeqCalm
  <2>7. "state" \in DOMAIN ode'  BY <1>1, <1>4 DEF ODE_Stop
  <2>3. ode'.state = "Inactive"  BY <1>1, <1>4 DEF ODE_Stop
  <2>4. IsSeq(Tail(jobs)) /\ jobs' = Tail(jobs)  BY <1>1, <2>1, TailSeq, ConcatNone DEF Handled
  <2>5. ASSUME Quelled(jobs, ode) PROVE Quelled(jobs', ode')
    BY <1>1, <2>3, <2>4, <2>5, QuelledStopped
  <2> QED BY <1>1, <2>2, <2>5, <2>7 DEF ExchangeInv
<1> QED BY <1>2, <1>3, <1>4 DEF ODE_Handler


\* Posts that stop the exchange: OD_STOP first, no OD_START at all.
Halting(p) == Calm(p) /\ 1 \in DOMAIN p /\ p[1].type = "OD_STOP"
HaltingHandled == \E p : Halting(p) /\ Handled(p)

\* OD_STOP alone halts.
LEMMA HaltStop == Halting(<<Job("OD_STOP")>>)
<1>1. Calm(<<Job("OD_STOP")>>)  BY CalmNames
<1>2. 1 \in DOMAIN <<Job("OD_STOP")>> /\ <<Job("OD_STOP")>>[1] = Job("OD_STOP")  OBVIOUS
<1>3. Job("OD_STOP").type = "OD_STOP"  BY DEF Job
<1> QED BY <1>1, <1>2, <1>3 DEF Halting

\* OD_STOP first, and no OD_START behind it, halts.
LEMMA HaltFirst == ASSUME NEW p, NEW q, Halting(p), Calm(q) PROVE Halting(p \o q)
<1>1. IsSeq(p) /\ IsSeq(q) /\ Calm(p) /\ 1 \in DOMAIN p  BY DEF Halting, Calm, Proper
<1>2. 1 \in DOMAIN (p \o q) /\ (p \o q)[1] = p[1]  BY <1>1, ConcatSeq
<1> QED BY <1>1, <1>2, CalmBoth DEF Halting

\* Posting what halts quells the exchange, whatever was in the mailbox before.
LEMMA QuelledByStop == ASSUME NEW s, NEW p, NEW o, IsSeq(s), Halting(p)
  PROVE IsSeq(s \o p) /\ Quelled(s \o p, o)
<1> DEFINE n == Len(s) + 1
<1>1. IsSeq(p) /\ 1 \in DOMAIN p /\ p[1].type = "OD_STOP"
      /\ \A i \in DOMAIN p : p[i].type # "OD_START"
  BY DEF Halting, Calm, Proper
<1>2. n \in DOMAIN (s \o p) /\ (s \o p)[n] = p[1]  BY <1>1, ConcatSeq
<1>3. ASSUME NEW k \in DOMAIN (s \o p), k > n PROVE (s \o p)[k].type # "OD_START"
  <2>1. k - Len(s) \in 1..Len(p) /\ k = Len(s) + (k - Len(s))  BY <1>1, <1>3, ConcatSeq
  <2> QED BY <1>1, <2>1, ConcatSeq
<1>4. StopAt(s \o p, n)  BY <1>1, <1>2, <1>3 DEF StopAt
<1>5. IsSeq(s \o p)  BY <1>1, ConcatSeq
<1> QED BY <1>2, <1>4, <1>5 DEF Quelled

\* cm_check_mode stops the exchange before cm_startup,
LEMMA StartupHalts == ASSUME NEW cfg, CM_Startup(cfg) PROVE HaltingHandled
<1> DEFINE extra == IF cfg.mode = "AUTO" \/ ~DS_ChkCfg(cfg) THEN <<Job("DS_DELETE")>> ELSE <<>>
           rest  == <<JobArg("DS_INIT", cfg), SmConfig(ParamList(cfg))>>
<1>1. Calm(extra)  BY CalmNone, CalmNames
<1>2. rest = <<JobArg("DS_INIT", cfg)>> \o <<SmConfig(ParamList(cfg))>>  OBVIOUS
<1>3. Calm(<<JobArg("DS_INIT", cfg)>>) /\ Calm(<<SmConfig(ParamList(cfg))>>)  BY CalmNames DEF SmConfig
<1>4. Calm(rest)  BY <1>2, <1>3, CalmBoth
<1> HIDE DEF extra, rest
<1>5. Halting((<<Job("OD_STOP")>> \o extra) \o rest)  BY <1>1, <1>4, HaltStop, HaltFirst
<1>6. Handled((<<Job("OD_STOP")>> \o extra) \o rest)
  BY DEF CM_Startup, CM_Calls, extra, rest
<1> QED BY <1>5, <1>6 DEF HaltingHandled

\* before cm_dido,
LEMMA DidoHalts == ASSUME NEW cfg, CM_DIDO(cfg) PROVE HaltingHandled
<1> DEFINE a == Job("OD_STOP")  b == Job("DS_DELETE")
           c == JobArg("DS_INIT", cfg)  d == SmConfig(ParamList(cfg))
<1>1. <<a, b, c, d>> = ((<<a>> \o <<b>>) \o <<c>>) \o <<d>>  OBVIOUS
<1>2. Calm(<<b>>) /\ Calm(<<c>>) /\ Calm(<<d>>)  BY CalmNames DEF SmConfig
<1>3. Halting(<<a, b, c, d>>)  BY <1>1, <1>2, HaltStop, HaltFirst
<1> QED BY <1>3 DEF CM_DIDO, CM_Calls, HaltingHandled

\* and before cm_deactivate.
LEMMA DeactivateHalts == ASSUME NEW cfg, NEW refused, CM_Deactivate(cfg, refused)
  PROVE HaltingHandled
<1> DEFINE extra == IF refused THEN <<Job("DS_DELETE")>> ELSE <<>>
           kept  == IF refused THEN cm.cfg ELSE cfg
           rest  == <<SmConfig(NoParams(kept.mode))>>
<1>1. Calm(extra) /\ Calm(rest)  BY CalmNone, CalmNames DEF SmConfig
<1> HIDE DEF extra
<1>2. Halting((<<Job("OD_STOP")>> \o extra) \o rest)  BY <1>1, HaltStop, HaltFirst
<1>3. Handled((<<Job("OD_STOP")>> \o extra) \o rest)  BY DEF CM_Deactivate, CM_Calls, extra
<1> QED BY <1>2, <1>3 DEF HaltingHandled

\* The application's configuration: the exchange is stopped before anything else is called.
LEMMA ExchangeConfigure == ASSUME CM_Configure, ExchangeInv PROVE ExchangeInv'
<1> DEFINE cfg == DueArg("SMI_PORTCFG")
<1>1. jobs # <<>> /\ IsSeq(jobs) /\ UNCHANGED ode /\ "state" \in DOMAIN ode
      /\ Head(jobs).type = "SMI_PORTCFG"
  BY DEF CM_Configure, CM_Ignores, Due, ExchangeInv
<1>2. CASE cm.state = "DS_ParamManager"
  <2>1. CalmHandled /\ UNCHANGED <<cm, pde>>
    BY <1>2, CalmNone DEF CM_Configure, CM_Ignores, CalmHandled
  <2>2. IsSeq(jobs') /\ Quelled(jobs', ode)
    BY <1>1, <1>2, <2>1, QuelledHandled DEF ExchangeInv, Exempt
  <2> QED BY <1>1, <1>2, <2>1, <2>2 DEF ExchangeInv, Exempt
<1>3. CASE cm.state # "DS_ParamManager"
  <2>1. pde' = FALSE  BY <1>3 DEF CM_Configure
  <2>2. CM_Startup(cfg) \/ CM_DIDO(cfg) \/ CM_Deactivate(cfg, FALSE) \/ CM_Deactivate(cfg, TRUE)
    BY <1>3 DEF CM_Configure
  <2>3. HaltingHandled  BY <2>2, StartupHalts, DidoHalts, DeactivateHalts
  <2>4. IsSeq(jobs') /\ Quelled(jobs', ode')
    BY <1>1, <2>3, TailSeq, QuelledByStop DEF Handled, HaltingHandled
  <2> QED BY <1>1, <2>1, <2>4 DEF ExchangeInv
<1> QED BY <1>2, <1>3

\* What the other callbacks of CM do to the exchange: nothing, or the port is active.
LEMMA ExchangeCalm == ASSUME ExchangeInv, CalmHandled, jobs # <<>>, Head(jobs).type # "OD_STOP",
                             UNCHANGED <<ode, pde>>,
                             cm'.state \notin Exempt => cm.state \notin Exempt
  PROVE ExchangeInv'
<1>1. IsSeq(jobs')  BY SeqCalm DEF ExchangeInv
<1>2. Quelled(jobs, ode) => Quelled(jobs', ode')  BY QuelledHandled DEF ExchangeInv
<1> QED BY <1>1, <1>2 DEF ExchangeInv

\* The indications of SM: only CM_Operate starts the exchange, and the port is then active.
LEMMA ExchangePortMode == ASSUME CM_PortMode, ExchangeInv PROVE ExchangeInv'
<1>1. jobs # <<>> /\ Head(jobs).type # "OD_STOP"  BY DEF CM_PortMode, Due
<1>2. CASE CM_Operate
  <2>1. IsSeq(<<Job("OD_START")>>)
    <3>1. <<Job("OD_START")>> \in Seq({Job("OD_START")})  OBVIOUS
    <3> QED BY <3>1 DEF IsSeq
  <2>2. IsSeq(jobs')
    BY <1>1, <1>2, <2>1, SeqHandled DEF CM_Operate, CM_Moves, CM_Calls, ExchangeInv
  <2>3. cm'.state = "Port_Active" /\ UNCHANGED ode  BY <1>2 DEF CM_Operate, CM_Moves, CM_Calls
  <2> QED BY <2>2, <2>3 DEF ExchangeInv, Exempt
<1>3. CASE CM_ComReady
  <2>1. CalmHandled /\ cm.state = "SM_Startup" /\ UNCHANGED <<ode, pde>>
    BY <1>3, CalmNames DEF CM_ComReady, CM_Moves, CM_Calls, CalmHandled
  <2> QED BY <1>1, <2>1, ExchangeCalm DEF Exempt
<1>4. CASE CM_PortFault({"SM_Startup"}) \/ CM_Comlost
  <2>1. CalmHandled /\ cm'.state \in Exempt /\ UNCHANGED <<ode, pde>>
    BY <1>4, CalmNone DEF CM_PortFault, CM_Comlost, CM_Moves, CM_Calls, CalmHandled, Exempt
  <2> QED BY <1>1, <2>1, ExchangeCalm
<1>5. CASE CM_Ignores \/ (CM_Moves(cm.state, <<>>) /\ UNCHANGED <<ode, pde, app>>)
  <2>1. CalmHandled /\ cm'.state = cm.state /\ UNCHANGED <<ode, pde>>
    BY <1>5, CalmNone DEF CM_Ignores, CM_Moves, CM_Calls, CalmHandled
  <2> QED BY <1>1, <2>1, ExchangeCalm
<1> QED BY <1>2, <1>3, <1>4, <1>5 DEF CM_PortMode

\* The indications of DS post no OD_START, and a fault moves to PortFault.
LEMMA ExchangeDs == ASSUME CM_DsReady \/ CM_DsFault, ExchangeInv PROVE ExchangeInv'
<1>1. jobs # <<>> /\ Head(jobs).type # "OD_STOP"  BY DEF CM_DsReady, CM_DsFault, Due
<1>2. CASE CM_DsReady
  <2>1. CalmHandled /\ UNCHANGED <<ode, pde>>
        /\ (cm.state = "DS_ParamManager" \/ cm'.state = cm.state)
    BY <1>2, CalmNone, CalmNames DEF CM_DsReady, CM_Ignores, CM_Moves, CM_Calls, CalmHandled
  <2> QED BY <1>1, <2>1, ExchangeCalm DEF Exempt
<1>3. CASE CM_DsFault
  <2>1. CalmHandled /\ UNCHANGED <<ode, pde>> /\ (cm'.state = "PortFault" \/ cm'.state = cm.state)
    BY <1>3, CalmNone DEF CM_DsFault, CM_PortFault, CM_Ignores, CM_Moves, CM_Calls, CalmHandled
  <2> QED BY <1>1, <2>1, ExchangeCalm DEF Exempt
<1> QED BY <1>2, <1>3

\* Every step of the port keeps the invariant.
LEMMA ExchangeNext == ASSUME ExchangeInv, JobsInv, [Next]_vars PROVE ExchangeInv'
<1>1. CASE Application
  <2>1. TamePosted \/ UNCHANGED jobs  BY <1>1, ApplicationCalm, CalmIsTame
  <2>2. UNCHANGED <<ode, pde, cm>>  BY <1>1 DEF Application
  <2>3. IsSeq(jobs') /\ (Quelled(jobs, ode) => Quelled(jobs', ode))
    BY <2>1, SeqPosted, QuelledPosted DEF ExchangeInv
  <2> QED BY <2>2, <2>3 DEF ExchangeInv
<1>2. CASE LinkRuns \/ LinkFails
  <2>1. TamePosted \/ UNCHANGED jobs  BY <1>2, LinkCalm DEF LinkRuns, LinkFails
  <2>2. UNCHANGED <<ode, pde, cm>>  BY <1>2 DEF LinkRuns, LinkFails, above
  <2>3. IsSeq(jobs') /\ (Quelled(jobs, ode) => Quelled(jobs', ode))
    BY <2>1, SeqPosted, QuelledPosted DEF ExchangeInv
  <2> QED BY <2>2, <2>3 DEF ExchangeInv
<1>3. CASE AL_Request /\ UNCHANGED <<ode, pde, app, cm>>
  <2>1. CalmHandled /\ jobs # <<>> /\ Head(jobs).type # "OD_STOP"
    BY <1>3, AlRequestCalm DEF AL_Request, Due
  <2> QED BY <1>3, <2>1, ExchangeCalm
<1>4. CASE \/ AL_Handler /\ UNCHANGED <<sm, ds, info, ode, pde, app, cm>>
           \/ SM_Handler /\ UNCHANGED <<ds, info, ode, pde, app, cm>>
           \/ DS_Handler /\ UNCHANGED <<ode, pde, app, cm>>
  <2>1. CalmHandled /\ Other /\ UNCHANGED <<ode, pde, cm>>
    BY <1>4, AlHandlerCalm, SmHandlerCalm, DsHandlerCalm
  <2> QED BY <2>1, ExchangeCalm DEF Other
<1>5. CASE ODE_Handler /\ UNCHANGED cm  BY <1>5, ExchangeOde DEF JobsInv
<1>6. CASE CM_Handler
  BY <1>6, ExchangeConfigure, ExchangePortMode, ExchangeDs DEF CM_Handler
<1>7. CASE UNCHANGED vars  BY <1>7 DEF vars, above, ExchangeInv
<1> QED BY <1>1, <1>2, <1>3, <1>4, <1>5, <1>6, <1>7 DEF Next, Master

\* The invariant is stronger than the property.
LEMMA ExchangeStops == ASSUME ExchangeInv PROVE Stopped
BY DEF ExchangeInv, Stopped, Quelled, Exempt, StopAt, Pending

-----------------------------------------------------------------------------
\* Whatever the step, jobs leave the mailbox at its head and what joins it is proper.
LEMMA CmProper == ASSUME CM_Handler PROVE jobs # <<>> /\ \E p : Proper(p) /\ Handled(p)
<1>1. jobs # <<>>
  BY DEF CM_Handler, CM_Configure, CM_PortMode, CM_DsReady, CM_DsFault, Due
<1>2. ASSUME CM_Configure PROVE HaltingHandled \/ CalmHandled
  BY <1>2, StartupHalts, DidoHalts, DeactivateHalts, CalmNone
     DEF CM_Configure, CM_Ignores, CalmHandled
<1>3. ASSUME CM_Operate PROVE \E p : Proper(p) /\ Handled(p)
  <2> DEFINE p == <<Job("OD_START")>>
  <2>1. p \in Seq({Job("OD_START")}) /\ \A i \in DOMAIN p : p[i] = Job("OD_START")  OBVIOUS
  <2>2. Job("OD_START").type = "OD_START"  BY DEF Job
  <2>3. Proper(p)  BY <2>1, <2>2 DEF Proper, Real, IsSeq
  <2> QED BY <1>3, <2>3 DEF CM_Operate, CM_Moves, CM_Calls
<1>4. ASSUME CM_PortMode PROVE CM_Operate \/ CalmHandled
  BY <1>4, CalmNone, CalmNames
     DEF CM_PortMode, CM_ComReady, CM_PortFault, CM_Comlost, CM_Ignores, CM_Moves, CM_Calls,
         CalmHandled
<1>5. ASSUME CM_DsReady \/ CM_DsFault PROVE CalmHandled
  BY <1>5, CalmNone, CalmNames
     DEF CM_DsReady, CM_DsFault, CM_PortFault, CM_Ignores, CM_Moves, CM_Calls, CalmHandled
<1> QED BY <1>1, <1>2, <1>3, <1>4, <1>5 DEF CM_Handler, HaltingHandled, Halting, CalmHandled, Calm

\* A step keeps the jobs proper: what leaves is the head, what joins is proper.
LEMMA JobsNext == ASSUME JobsInv, [Next]_vars PROVE JobsInv'
<1> SUFFICES Proper(jobs')  BY DEF JobsInv
<1>0. Proper(jobs)  BY DEF JobsInv
<1>1. IsSeq(jobs)  BY <1>0 DEF Proper
<1>2. ASSUME jobs # <<>>, NEW p, Proper(p), Handled(p) PROVE Proper(jobs')
  <2>1. IsSeq(Tail(jobs)) /\ DOMAIN jobs = 1..Len(jobs) /\ Len(jobs) \in Nat
    BY <1>1, <1>2, TailSeq
  <2>2. DOMAIN Tail(jobs) = 1..(Len(jobs) - 1)  BY <1>1, <1>2, <2>1, TailSeq DEF IsSeq
  <2>3. ASSUME NEW i \in DOMAIN Tail(jobs) PROVE Real(Tail(jobs)[i])
    <3>1. i + 1 \in DOMAIN jobs /\ Tail(jobs)[i] = jobs[i + 1]
      BY <1>1, <1>2, <2>1, <2>2, TailSeq
    <3> QED BY <1>0, <3>1 DEF Proper
  <2>4. Proper(Tail(jobs))  BY <2>1, <2>3 DEF Proper
  <2> QED BY <1>2, <2>4, ProperBoth DEF Handled
<1>3. ASSUME jobs # <<>>, CalmHandled PROVE Proper(jobs')  BY <1>2, <1>3 DEF CalmHandled, Calm
<1>4. ASSUME TamePosted \/ UNCHANGED jobs PROVE Proper(jobs')
  BY <1>0, <1>4, ProperBoth DEF TamePosted, Tame, Posted
<1>5. CASE Application \/ LinkRuns \/ LinkFails
  BY <1>4, <1>5, ApplicationCalm, LinkCalm, CalmIsTame DEF LinkRuns, LinkFails
<1>6. CASE AL_Request  BY <1>3, <1>6, AlRequestCalm DEF AL_Request, Due
<1>7. CASE AL_Handler \/ SM_Handler \/ DS_Handler
  BY <1>3, <1>7, AlHandlerCalm, SmHandlerCalm, DsHandlerCalm DEF Other
<1>8. CASE ODE_Handler  BY <1>0, <1>3, <1>8, OdeCalm
<1>9. CASE CM_Handler  BY <1>2, <1>9, CmProper
<1>10. CASE UNCHANGED vars  BY <1>0, <1>10 DEF vars
<1> QED BY <1>5, <1>6, <1>7, <1>8, <1>9, <1>10 DEF Next, Master

\* Every request in the mailbox is a read or a write, in every state.
LEMMA JobsProper == Spec => []JobsInv
<1>1. Init => JobsInv
  <2>1. Init => jobs = <<>>  BY DEF Init
  <2>2. Proper(<<>>)  BY CalmNone DEF Calm
  <2> QED BY <2>1, <2>2 DEF JobsInv
<1> QED BY <1>1, JobsNext, PTL DEF Spec

\* When CM has left the exchange of data, whatever the application asks and whatever the
\* cable does, no process data is exchanged and the on-request exchange is inactive or
\* about to be: OD_STOP is in the mailbox (iolink_cm.c, cm_check_mode).
THEOREM ExchangeStopped == Spec => []Stopped
<1>1. Spec => []ExchangeInv
  BY JobsProper, ExchangeInit, ExchangeNext, PTL DEF Spec
<1> QED BY <1>1, ExchangeStops, PTL

-----------------------------------------------------------------------------
\* A job of that kind is in the mailbox.
Has(s, k) == \E i \in DOMAIN s : Of(s[i], k)
RequestInv == /\ IsSeq(jobs)
              /\ "state" \in DOMAIN ode /\ {"od", "owner"} \subseteq DOMAIN al
              /\ al.od = "Idle" => al.owner # "ODE"
              /\ ode.state = "Blocked" => al.owner = "ODE" \/ Has(jobs, "ODE")

\* A request and a confirmation that are the exchange's.
LEMMA HasNames ==
  /\ \A op : Has(<<AlReq("ODE", op)>>, "ODE")
  /\ \A rw, err, len : Has(<<AlCnf("ODE", rw, err, len)>>, "ODE")
<1>1. ASSUME NEW a, Of(a, "ODE") PROVE Has(<<a>>, "ODE")
  <2>1. 1 \in DOMAIN <<a>> /\ <<a>>[1] = a  OBVIOUS
  <2> QED BY <1>1, <2>1 DEF Has
<1>2. \A op : Of(AlReq("ODE", op), "ODE")  BY DEF Of, AlReq
<1>3. \A rw, err, len : Of(AlCnf("ODE", rw, err, len), "ODE")  BY DEF Of, AlCnf
<1> QED BY <1>1, <1>2, <1>3

\* A request in one part is in the whole.
LEMMA HasBoth == ASSUME NEW k, NEW s, NEW p, IsSeq(s), IsSeq(p), Has(s, k) \/ Has(p, k)
  PROVE Has(s \o p, k)
<1>1. ASSUME NEW i \in DOMAIN s, Of(s[i], k) PROVE Has(s \o p, k)
  <2>1. i \in DOMAIN (s \o p) /\ (s \o p)[i] = s[i]  BY ConcatSeq
  <2> QED BY <1>1, <2>1 DEF Has
<1>2. ASSUME NEW i \in DOMAIN p, Of(p[i], k) PROVE Has(s \o p, k)
  <2>1. i \in 1..Len(p) /\ Len(p) \in Nat /\ Len(s) \in Nat  BY ConcatSeq
  <2>2. Len(s) + i \in DOMAIN (s \o p) /\ (s \o p)[Len(s) + i] = p[i]  BY <2>1, ConcatSeq
  <2> QED BY <1>2, <2>2 DEF Has
<1> QED BY <1>1, <1>2 DEF Has

\* A request stays when another job is taken.
LEMMA HasTail == ASSUME NEW k, NEW s, IsSeq(s), s # <<>>, Has(s, k), ~Of(Head(s), k)
  PROVE Has(Tail(s), k)
<1>1. PICK i \in DOMAIN s : Of(s[i], k)  BY DEF Has
<1>2. i \in 1..Len(s) /\ i # 1 /\ Len(s) \in Nat  BY <1>1, TailSeq
<1>3. i - 1 \in 1..(Len(s) - 1) /\ Tail(s)[i - 1] = s[i]
  <2>1. i - 1 \in 1..(Len(s) - 1) /\ (i - 1) + 1 = i  BY <1>2
  <2>2. Tail(s)[i - 1] = s[(i - 1) + 1]  BY <2>1, TailSeq
  <2> QED BY <2>1, <2>2
<1>4. DOMAIN Tail(s) = 1..(Len(s) - 1)
  <2>1. IsSeq(Tail(s)) /\ Len(Tail(s)) = Len(s) - 1  BY TailSeq
  <2> QED BY <2>1 DEF IsSeq
<1> QED BY <1>1, <1>3, <1>4 DEF Has

\* A job that is not the exchange's is handled, whatever is posted.
LEMMA HasHandled == ASSUME NEW k, NEW p, IsSeq(p), Handled(p), IsSeq(jobs), jobs # <<>>
  PROVE /\ IsSeq(jobs')
        /\ Has(p, k) \/ (Has(jobs, k) /\ ~Of(Head(jobs), k)) => Has(jobs', k)
<1>1. IsSeq(Tail(jobs)) /\ jobs' = Tail(jobs) \o p  BY TailSeq DEF Handled
<1>2. IsSeq(jobs')  BY <1>1, ConcatSeq
<1>3. Has(jobs, k) /\ ~Of(Head(jobs), k) => Has(Tail(jobs), k)  BY HasTail
<1> QED BY <1>1, <1>2, <1>3, HasBoth

\* The same for what calm callbacks post,
LEMMA HasCalm == ASSUME NEW k, CalmHandled, IsSeq(jobs), jobs # <<>>, ~Of(Head(jobs), k)
  PROVE IsSeq(jobs') /\ (Has(jobs, k) => Has(jobs', k))
BY HasHandled DEF CalmHandled, Calm, Proper

\* and for other threads.
LEMMA HasPosted == ASSUME NEW k, TamePosted \/ UNCHANGED jobs, IsSeq(jobs)
  PROVE IsSeq(jobs') /\ (Has(jobs, k) => Has(jobs', k))
<1>1. CASE TamePosted
  <2>1. PICK p : Tame(p) /\ jobs' = jobs \o p  BY <1>1 DEF TamePosted, Posted
  <2>2. IsSeq(p)  BY <2>1 DEF Tame, Proper
  <2>3. IsSeq(jobs')  BY <2>1, <2>2, ConcatSeq
  <2> QED BY <2>1, <2>2, <2>3, HasBoth
<1>2. CASE UNCHANGED jobs  BY <1>2
<1> QED BY <1>1, <1>2

\* The exchange begins without a request.
LEMMA RequestInit == ASSUME Init PROVE RequestInv
<1>1. <<>> \in Seq({})  OBVIOUS
<1>2. IsSeq(jobs)  BY <1>1 DEF Init, IsSeq
<1>3. "state" \in DOMAIN ode /\ ode.state = "Inactive"  BY DEF Init, OdeInit
<1>4. {"od", "owner"} \subseteq DOMAIN al /\ al.owner = "none"  BY DEF Init, AlInit
<1> QED BY <1>2, <1>3, <1>4 DEF RequestInv

\* AL's handlers: the user of the service that ends finds a confirmation in the mailbox.
LEMMA RequestConfirm ==
  ASSUME NEW awaited \in {"Param", "Isdu"}, NEW err, NEW len, AL_Confirm(awaited, err, len),
         RequestInv, Other
  PROVE  /\ IsSeq(jobs') /\ {"od", "owner"} \subseteq DOMAIN al'
         /\ al'.od = "Idle" => al'.owner # "ODE"
         /\ al.owner = "ODE" \/ Has(jobs, "ODE") => al'.owner = "ODE" \/ Has(jobs', "ODE")
<1>1. /\ jobs # <<>> /\ ~Of(Head(jobs), "ODE") /\ IsSeq(jobs)
      /\ {"od", "owner"} \subseteq DOMAIN al /\ (al.od = "Idle" => al.owner # "ODE")
  BY DEF RequestInv, Other
<1>2. CalmHandled  BY AlConfirmCalm
<1>3. IsSeq(jobs') /\ (Has(jobs, "ODE") => Has(jobs', "ODE"))  BY <1>1, <1>2, HasCalm
<1>4. CASE al.od # awaited
  <2>1. UNCHANGED al  BY <1>4 DEF AL_Confirm
  <2> QED BY <1>1, <1>3, <2>1
<1>5. CASE al.od = awaited
  <2> DEFINE c == <<AlCnf(al.owner, al.op.rw, err, len)>>
  <2>1. /\ al' = [al EXCEPT !.od = "Idle", !.owner = "none", !.op = NoOp] /\ Handled(c)
    BY <1>5 DEF AL_Confirm
  <2>2. al'.od = "Idle" /\ al'.owner = "none" /\ {"od", "owner"} \subseteq DOMAIN al'
    BY <1>1, <2>1
  <2>3. IsSeq(c)  BY CalmNames DEF Calm, Proper
  <2>4. al.owner = "ODE" => Has(c, "ODE")  BY HasNames
  <2>5. al.owner = "ODE" => Has(jobs', "ODE")  BY <1>1, <2>1, <2>3, <2>4, HasHandled
  <2> QED BY <1>3, <2>2, <2>5
<1> QED BY <1>4, <1>5

\* Every job of the data link to AL keeps the invariant.
LEMMA RequestAl == ASSUME AL_Handler, RequestInv, UNCHANGED ode PROVE RequestInv'
<1>1. Other /\ CalmHandled  BY AlHandlerCalm
<1>2. ASSUME NEW awaited \in {"Param", "Isdu"}, NEW err, NEW len, AL_Confirm(awaited, err, len)
      PROVE  RequestInv'
  BY <1>1, <1>2, RequestConfirm DEF RequestInv
<1>3. CASE AL_ParamCnf  BY <1>2, <1>3 DEF AL_ParamCnf
<1>4. CASE AL_IsduCnf  BY <1>2, <1>4 DEF AL_IsduCnf
<1>5. CASE AL_EventInd \/ AL_EventRsp
  <2>1. IsSeq(jobs') /\ (Has(jobs, "ODE") => Has(jobs', "ODE"))
    BY <1>1, HasCalm DEF RequestInv, Other
  <2>2. al'.od = al.od /\ al'.owner = al.owner /\ DOMAIN al' = DOMAIN al
    <3>1. {"od", "owner"} \subseteq DOMAIN al  BY DEF RequestInv
    <3>2. CASE AL_EventInd  BY <3>1, <3>2 DEF AL_EventInd
    <3>3. CASE AL_EventRsp  BY <3>1, <3>3 DEF AL_EventRsp
    <3> QED BY <1>5, <3>2, <3>3
  <2> QED BY <2>1, <2>2 DEF RequestInv
<1> QED BY <1>3, <1>4, <1>5 DEF AL_Handler

\* AL takes a request: its user owns the service, or finds the refusal in the mailbox.
LEMMA RequestTaken == ASSUME AL_Request, RequestInv, UNCHANGED ode PROVE RequestInv'
<1> DEFINE op == Resolved(Head(jobs))
<1>1. /\ jobs # <<>> /\ Head(jobs).type = "AL_REQ" /\ IsSeq(jobs) /\ AL_ReadWrite(op)
      /\ {"od", "owner"} \subseteq DOMAIN al
  BY DEF AL_Request, Due, RequestInv
<1>2. PICK p : IsSeq(p) /\ Handled(p)  BY AlRequestCalm DEF CalmHandled, Calm, Proper
<1>3. IsSeq(jobs')  BY <1>1, <1>2, HasHandled
<1>4. CASE al.od # "Idle"
  <2> DEFINE c == <<AlCnf(Head(jobs).who, Head(jobs).op.rw, "BUSY", "none")>>
  <2>1. Handled(c) /\ UNCHANGED al  BY <1>1, <1>4 DEF AL_ReadWrite
  <2>2. IsSeq(c)  BY CalmNames DEF Calm, Proper
  <2>3. Of(Head(jobs), "ODE") => Has(c, "ODE")  BY HasNames DEF Of
  <2>4. Has(jobs, "ODE") => Has(jobs', "ODE")  BY <1>1, <2>1, <2>2, <2>3, HasHandled
  <2> QED BY <1>3, <2>1, <2>4 DEF RequestInv
<1>5. CASE al.od = "Idle"
  <2>1. \/ al' = [al EXCEPT !.od = "Param", !.owner = Head(jobs).who, !.op = op]
        \/ al' = [al EXCEPT !.od = "Isdu", !.owner = Head(jobs).who, !.op = op]
    BY <1>1, <1>5 DEF AL_ReadWrite
  <2>2. /\ al'.od # "Idle" /\ al'.owner = Head(jobs).who
        /\ {"od", "owner"} \subseteq DOMAIN al'
    BY <1>1, <2>1
  <2>3. Of(Head(jobs), "ODE") => al'.owner = "ODE"  BY <2>2 DEF Of
  <2>4. Has(jobs, "ODE") /\ ~Of(Head(jobs), "ODE") => Has(jobs', "ODE")  BY <1>1, <1>2, HasHandled
  <2> QED BY <1>3, <1>5, <2>2, <2>3, <2>4 DEF RequestInv
<1> QED BY <1>4, <1>5

\* The exchange's own callbacks: it blocks when it posts a request, a confirmation unblocks it.
LEMMA RequestOde == ASSUME ODE_Handler, RequestInv PROVE RequestInv'
<1>1. /\ jobs # <<>> /\ IsSeq(jobs) /\ "state" \in DOMAIN ode /\ UNCHANGED al
  BY DEF ODE_Handler, ODE_Request, ODE_ALCnf, ODE_Start, ODE_Stop, Due, RequestInv
<1>2. IsSeq(<<>>)  BY CalmNone DEF Calm, Proper
<1>3. CASE ODE_Request /\ ode.state = "Active"
  <2> DEFINE p == <<AlReq("ODE", DueArg("SMI_RW"))>>
             blocked == [state |-> "Blocked", op |-> DueArg("SMI_RW"), result |-> "NONE"]
  <2>1. Handled(p) /\ ode' = blocked  BY <1>3 DEF ODE_Request
  <2>2. IsSeq(p) /\ Has(p, "ODE")
    <3>1. p \in Seq({AlReq("ODE", DueArg("SMI_RW"))})  OBVIOUS
    <3> QED BY <3>1, HasNames DEF IsSeq
  <2>3. IsSeq(jobs') /\ Has(jobs', "ODE")  BY <1>1, <2>1, <2>2, HasHandled
  <2>4. "state" \in DOMAIN blocked  OBVIOUS
  <2> QED BY <1>1, <2>1, <2>3, <2>4 DEF RequestInv
<1>4. CASE ODE_Request /\ ode.state # "Active"
  <2>1. Handled(<<>>) /\ UNCHANGED ode /\ ~Of(Head(jobs), "ODE")
    BY <1>4 DEF ODE_Request, Due, Of
  <2> QED BY <1>1, <1>2, <2>1, HasHandled DEF RequestInv
<1>5. CASE ODE_ALCnf
  <2>1. Handled(<<>>) /\ DOMAIN ode' = DOMAIN ode  BY <1>5 DEF ODE_ALCnf
  <2>2. ode'.state # "Blocked"  BY <1>1, <1>5 DEF ODE_ALCnf
  <2> QED BY <1>1, <1>2, <2>1, <2>2, HasHandled DEF RequestInv
<1>6. CASE ODE_Start \/ ODE_Stop
  <2>1. Handled(<<>>) /\ DOMAIN ode' = DOMAIN ode /\ ~Of(Head(jobs), "ODE")
    BY <1>6 DEF ODE_Start, ODE_Stop, Due, Of
  <2>2. ode'.state = "Blocked" => ode.state = "Blocked"
    BY <1>1, <1>6 DEF ODE_Start, ODE_Stop
  <2> QED BY <1>1, <1>2, <2>1, <2>2, HasHandled DEF RequestInv
<1> QED BY <1>3, <1>4, <1>5, <1>6 DEF ODE_Handler

\* CM's callbacks take none of its jobs.
LEMMA RequestCm == ASSUME CM_Handler, RequestInv PROVE RequestInv'
<1>1. /\ jobs # <<>> /\ ~Of(Head(jobs), "ODE") /\ UNCHANGED <<al, ode>>
  BY DEF CM_Handler, CM_Configure, CM_PortMode, CM_ComReady, CM_Operate, CM_PortFault, CM_Comlost,
         CM_DsReady, CM_DsFault, CM_Ignores, Due, Of
<1>2. \E p : IsSeq(p) /\ Handled(p)  BY CmProper DEF Proper
<1> QED BY <1>1, <1>2, HasHandled DEF RequestInv

\* Every step of the port keeps the invariant.
LEMMA RequestNext == ASSUME RequestInv, [Next]_vars PROVE RequestInv'
<1>1. CASE Application \/ LinkRuns \/ LinkFails
  <2>1. TamePosted \/ UNCHANGED jobs
    BY <1>1, ApplicationCalm, LinkCalm, CalmIsTame DEF LinkRuns, LinkFails
  <2>2. UNCHANGED <<al, ode>>  BY <1>1 DEF Application, LinkRuns, LinkFails, above
  <2> QED BY <2>1, <2>2, HasPosted DEF RequestInv
<1>2. CASE AL_Request /\ UNCHANGED <<ode, pde, app, cm>>  BY <1>2, RequestTaken
<1>3. CASE AL_Handler /\ UNCHANGED <<sm, ds, info, ode, pde, app, cm>>  BY <1>3, RequestAl
<1>4. CASE \/ SM_Handler /\ UNCHANGED <<ds, info, ode, pde, app, cm>>
           \/ DS_Handler /\ UNCHANGED <<ode, pde, app, cm>>
  <2>1. CalmHandled /\ Other /\ UNCHANGED <<al, ode>>  BY <1>4, SmHandlerCalm, DsHandlerCalm
  <2> QED BY <2>1, HasCalm DEF RequestInv, Other
<1>5. CASE ODE_Handler  BY <1>5, RequestOde
<1>6. CASE CM_Handler  BY <1>6, RequestCm
<1>7. CASE UNCHANGED vars  BY <1>7 DEF vars, above, RequestInv
<1> QED BY <1>1, <1>2, <1>3, <1>4, <1>5, <1>6, <1>7 DEF Next, Master

\* The invariant is stronger than the property.
LEMMA RequestAnswered == ASSUME RequestInv PROVE BlockedAnswered
<1> DEFINE S == {i \in Pending("AL_REQ") \cup Pending("AL_CNF") : jobs[i].who = "ODE"}
<1>1. S \subseteq DOMAIN jobs  BY DEF Pending
<1>2. IsFiniteSet(DOMAIN jobs)
  <2>1. Len(jobs) \in Nat /\ DOMAIN jobs = 1..Len(jobs)  BY DEF RequestInv, IsSeq
  <2> QED BY <2>1, FS_Interval
<1>3. IsFiniteSet(S)  BY <1>1, <1>2, FS_Subset
<1>4. Cardinality(S) \in Nat /\ (Cardinality(S) = 0 <=> S = {})
  BY <1>3, FS_CardinalityType, FS_EmptySet
<1>5. Has(jobs, "ODE") => S # {}  BY DEF Has, Of, Pending
<1> QED BY <1>4, <1>5 DEF RequestInv, BlockedAnswered, InFlight

\* While the on-request exchange is blocked, its request is with AL or in the mailbox, or
\* the answer is, however often the port was reconfigured meanwhile (iolink_ode.c, ode_smi_done).
THEOREM ExchangeAnswered == Spec => []BlockedAnswered
<1>1. Spec => []RequestInv
  BY RequestInit, RequestNext, PTL DEF Spec
<1> QED BY <1>1, RequestAnswered, PTL

-----------------------------------------------------------------------------
\* AL's ISDU service has its request below it or its confirmation in the mailbox.
IsduInv == /\ "isdu" \in DOMAIN dl /\ "od" \in DOMAIN al
           /\ al.od = "Isdu" => dl.isdu # NoOp \/ Has(jobs, "ISDU")

\* The ISDU handler's request is the same.
Keeps(d) == "isdu" \in DOMAIN d /\ d.isdu = dl.isdu

\* A port without a request.
LEMMA IsduInit == ASSUME Init PROVE IsduInv
<1>1. "isdu" \in DOMAIN DlInit /\ "od" \in DOMAIN AlInit /\ AlInit.od = "Idle"
  BY DEF DlInit, AlInit
<1> QED BY <1>1 DEF Init, IsduInv

\* None of SM's calls of the data link touches the request.
LEMMA SmCallsKeep == ASSUME "isdu" \in DOMAIN dl
  PROVE /\ Keeps(dl)
        /\ \A mode : Keeps(SetMode(dl, mode)) /\ Keeps(SetMode(SetSDCI(dl), mode))
        /\ \A what : Keeps(Access(dl, what))
        /\ \A mode : Keeps(Devicemode(dl, mode))
<1>1. Keeps(dl)  BY DEF Keeps
<1>2. ASSUME NEW mode PROVE Keeps(SetMode(dl, mode)) /\ Keeps(SetMode(SetSDCI(dl), mode))
  BY DEF Keeps, SetMode, SetSDCI
<1>3. ASSUME NEW what PROVE Keeps(Access(dl, what))  BY DEF Keeps, Access
<1>4. ASSUME NEW mode PROVE Keeps(Devicemode(dl, mode))  BY DEF Keeps, Devicemode
<1> QED BY <1>1, <1>2, <1>3, <1>4

\* No action of SM's table does,
LEMMA SmDoKeeps == ASSUME "isdu" \in DOMAIN dl, NEW do, NEW s, NEW event, SmDo(do, s, event)
  PROVE Keeps(dl')
<1>1. CASE do \in {"read_com", "read_id", "ident", "preop_cmd", "operate_cmd", "restart"}
  BY <1>1, SmCallsKeep DEF SmDo, SmAccess, Calls
<1>2. CASE do = "fault"  BY <1>2, SmCallsKeep DEF SmDo, SmFault, Calls
<1>3. CASE do \in {"serial", "write_cycl", "comready", "comlost", "inactive", "start", "dido",
                   "operate_ind", "fallback", "devmode"}
  BY <1>3, SmCallsKeep DEF SmDo, Calls
<1>4. CASE do \notin {"read_com", "read_id", "ident", "preop_cmd", "operate_cmd", "restart",
                      "fault", "serial", "write_cycl", "comready", "comlost", "inactive",
                      "start", "dido", "operate_ind", "fallback", "devmode"}
  BY <1>4, SmCallsKeep DEF SmDo, Calls
<1> QED BY <1>1, <1>2, <1>3, <1>4

\* no event that SM processes,
LEMMA SmEventKeeps == ASSUME "isdu" \in DOMAIN dl, NEW s, NEW event, SmEvent(s, event)
  PROVE Keeps(dl')
BY SmDoKeeps, SmCallsKeep DEF SmEvent, Calls

\* and no job of SM.
LEMMA SmHandlerKeeps == ASSUME "isdu" \in DOMAIN dl, SM_Handler
  PROVE Keeps(dl') /\ Head(jobs).type # "ISDU_CNF"
<1>1. Head(jobs).type # "ISDU_CNF"
  BY SM_Handler DEF SM_Handler, SM_SetPortConfig, SM_Operate, SM_Mode, SM_DLCnf, SM_ALCnf,
                    SM_DevmodeCnf, Due
<1>2. ASSUME SM_SetPortConfig PROVE Keeps(dl')
  BY <1>2, SmEventKeeps, SmCallsKeep DEF SM_SetPortConfig, Calls
<1>3. ASSUME SM_Operate PROVE Keeps(dl')  BY <1>3, SmEventKeeps DEF SM_Operate
<1>4. ASSUME SM_Mode PROVE Keeps(dl')
  BY <1>4, SmEventKeeps, SmCallsKeep DEF SM_Mode, Calls
<1>5. ASSUME SM_DLCnf PROVE Keeps(dl')
  BY <1>5, SmEventKeeps, SmCallsKeep DEF SM_DLCnf, Calls
<1>6. ASSUME SM_ALCnf PROVE Keeps(dl')
  BY <1>6, SmEventKeeps DEF SM_ALCnf, SM_SerialCnf, SM_CyclCnf
<1>7. ASSUME SM_DevmodeCnf PROVE Keeps(dl')
  BY <1>7, SmEventKeeps, SmCallsKeep DEF SM_DevmodeCnf, Calls
<1> QED BY <1>1, <1>2, <1>3, <1>4, <1>5, <1>6, <1>7, SM_Handler DEF SM_Handler

\* A confirmation of the ISDU handler, alone or before another job, is one.
LEMMA HasCnf == ASSUME NEW stat
  PROVE /\ Has(<<JobArg("ISDU_CNF", stat)>>, "ISDU") /\ Proper(<<JobArg("ISDU_CNF", stat)>>)
        /\ \A mode : Has(<<JobArg("ISDU_CNF", stat)>> \o <<ModeInd(mode)>>, "ISDU")
<1> DEFINE c == <<JobArg("ISDU_CNF", stat)>>
<1>1. 1 \in DOMAIN c /\ c[1].type = "ISDU_CNF"  BY DEF JobArg
<1>2. Has(c, "ISDU")  BY <1>1 DEF Has, Of
<1>3. Proper(c)  BY CalmNames DEF Calm
<1>4. \A mode : IsSeq(<<ModeInd(mode)>>)  BY TameMode DEF Tame, Proper
<1>5. \A mode : Has(c \o <<ModeInd(mode)>>, "ISDU")  BY <1>2, <1>3, <1>4, HasBoth DEF Proper
<1> QED BY <1>2, <1>3, <1>5

\* The link keeps the request, or confirms the one it had.
Confirms == /\ "isdu" \in DOMAIN dl'
            /\ Keeps(dl') \/ \E p : IsSeq(p) /\ Has(p, "ISDU") /\ Posted(p)

\* Going down, the link gives up the request only with its confirmation,
LEMMA DownConfirms == ASSUME NEW d, Keeps(d), "isdu" \in DOMAIN dl,
                             GotoStartup(d) \/ (\E ind : GotoIdle(d, ind))
  PROVE Confirms
<1>1. \A e : "isdu" \in DOMAIN IsduDown(d)
  BY DEF Keeps, IsduDown
<1>2. "isdu" \in DOMAIN dl' /\ dl'.isdu = IsduDown(d).isdu
  <2>1. CASE GotoStartup(d)  BY <1>1, <2>1 DEF GotoStartup
  <2>2. CASE \E ind : GotoIdle(d, ind)  BY <1>1, <2>2 DEF GotoIdle
  <2> QED BY <2>1, <2>2
<1>3. CASE Abandons(d)
  <2>1. IsduDownCnf(d) = <<JobArg("ISDU_CNF", "ERR")>>  BY <1>3 DEF IsduDownCnf
  <2>2. PICK mode : Posted(IsduDownCnf(d) \o <<ModeInd(mode)>>)
    BY DEF GotoStartup, GotoIdle
  <2>3. IsSeq(<<JobArg("ISDU_CNF", "ERR")>> \o <<ModeInd(mode)>>)
    BY HasCnf, TameMode, ProperBoth DEF Tame, Proper
  <2> QED BY <1>2, <2>1, <2>2, <2>3, HasCnf DEF Confirms
<1>4. CASE ~Abandons(d)
  <2>1. IsduDown(d) = d  BY <1>4 DEF IsduDown
  <2> QED BY <1>2, <2>1 DEF Keeps, Confirms
<1> QED BY <1>3, <1>4

\* and so in every step of the data link thread and the cable.
LEMMA LinkConfirms == ASSUME LinkProgress \/ LinkTrouble, "isdu" \in DOMAIN dl PROVE Confirms
<1>1. ASSUME ModeStep PROVE Confirms
  <2> DEFINE d == [dl EXCEPT !.mdh = "no"]
  <2>1. Keeps(d)  BY DEF Keeps
  <2>2. Keeps([d EXCEPT !.link = "WakeUp", !.wurq = TRUE])  BY DEF Keeps
  <2>3. ASSUME NEW link_, NEW ind, Goto(d, link_, ind) PROVE Keeps(dl')
    BY <2>1, <2>3 DEF Goto, Keeps
  <2>4. \/ dl' = d \/ dl' = [d EXCEPT !.link = "WakeUp", !.wurq = TRUE]
        \/ GotoStartup(d) \/ (\E ind : GotoIdle(d, ind)) \/ \E link_, ind : Goto(d, link_, ind)
    BY <1>1 DEF ModeStep
  <2>5. Keeps(dl') => Confirms  BY DEF Keeps, Confirms
  <2> QED BY <2>1, <2>2, <2>3, <2>4, <2>5, DownConfirms
<1>2. \A e : Keeps(e) => Keeps(Served(e))  BY DEF Keeps, Served
<1>3. Keeps(dl) /\ Keeps(Served(dl))  BY <1>2 DEF Keeps
<1>4. ASSUME \/ WakeUp \/ AccessDone \/ IsduStart \/ ParamDone \/ ModeDone
             \/ Lose \/ DeviceEvent \/ Swap
      PROVE  Confirms
  <2>1. Keeps(dl')
    <3>1. CASE WakeUp  BY <1>3, <3>1 DEF WakeUp, Keeps
    <3>2. CASE AccessDone  BY <1>3, <3>2 DEF AccessDone, Keeps
    <3>3. CASE IsduStart  BY <1>3, <3>3 DEF IsduStart, Keeps
    <3>4. CASE ParamDone  BY <1>3, <3>4 DEF ParamDone, Keeps
    <3>5. CASE ModeDone  BY <1>3, <3>5 DEF ModeDone, Keeps
    <3>6. CASE Lose  BY <1>3, <3>6 DEF Lose, Keeps
    <3>7. CASE DeviceEvent  BY <1>3, <3>7 DEF DeviceEvent
    <3>8. CASE Swap  BY <1>3, <3>8 DEF Swap
    <3> QED BY <1>4, <3>1, <3>2, <3>3, <3>4, <3>5, <3>6, <3>7, <3>8
  <2> QED BY <2>1 DEF Keeps, Confirms
<1>5. ASSUME IsduDone \/ IsduFails PROVE Confirms
  <2>1. "isdu" \in DOMAIN dl'
    BY <1>3, <1>5 DEF IsduDone, IsduFails, Keeps
  <2>2. \E stat : Posted(<<JobArg("ISDU_CNF", stat)>>)  BY <1>5 DEF IsduDone, IsduFails
  <2> QED BY <2>1, <2>2, HasCnf DEF Proper, Confirms
<1> QED BY <1>1, <1>4, <1>5 DEF LinkProgress, LinkTrouble

\* A confirmation that another thread posts is in the mailbox, and what was there stays.
LEMMA IsduLink == ASSUME IsduInv, JobsInv, Confirms, TamePosted \/ UNCHANGED jobs, UNCHANGED al
  PROVE IsduInv'
<1>1. IsSeq(jobs)  BY DEF JobsInv, Proper
<1>2. Has(jobs, "ISDU") => Has(jobs', "ISDU")  BY <1>1, HasPosted
<1>3. CASE Keeps(dl')  BY <1>2, <1>3 DEF IsduInv, Keeps
<1>4. CASE \E p : IsSeq(p) /\ Has(p, "ISDU") /\ Posted(p)
  BY <1>1, <1>4, HasBoth DEF Confirms, Posted, IsduInv
<1> QED BY <1>3, <1>4 DEF Confirms

\* A request is a read or a write, not NoOp, with the data of DS or without.
LEMMA ResolvedAsks == ASSUME NEW j, Asks(j.op) PROVE Resolved(j) # NoOp
<1>1. NoOp.rw = "none"  BY DEF NoOp, Op
<1>2. Resolved(j).rw = j.op.rw  BY DEF Asks, Resolved
<1> QED BY <1>1, <1>2 DEF Asks

\* AL takes a request: it is the ISDU handler's, or refused.
LEMMA IsduTaken == ASSUME AL_Request, IsduInv, JobsInv PROVE IsduInv'
<1> DEFINE op == Resolved(Head(jobs))
<1>1. /\ jobs # <<>> /\ Head(jobs).type = "AL_REQ" /\ IsSeq(jobs) /\ AL_ReadWrite(op)
      /\ "isdu" \in DOMAIN dl /\ "od" \in DOMAIN al
  BY DEF AL_Request, Due, IsduInv, JobsInv, Proper
<1>2. CalmHandled  BY AlRequestCalm
<1>3. Has(jobs, "ISDU") => Has(jobs', "ISDU")  BY <1>1, <1>2, HasCalm DEF Of
<1>4. CASE al.od # "Idle"
  <2>1. UNCHANGED <<al, dl>>  BY <1>1, <1>4 DEF AL_ReadWrite
  <2> QED BY <1>3, <2>1 DEF IsduInv
<1>5. CASE al.od = "Idle" /\ IsParam(op)
  <2>1. al' = [al EXCEPT !.od = "Param", !.owner = Head(jobs).who, !.op = op] /\ dl' = Param(dl, op)
    BY <1>1, <1>5 DEF AL_ReadWrite
  <2>2. "od" \in DOMAIN al' /\ al'.od = "Param" /\ "isdu" \in DOMAIN dl'
    BY <1>1, <2>1 DEF Param
  <2> QED BY <2>2 DEF IsduInv
<1>6. CASE al.od = "Idle" /\ ~IsParam(op)
  <2>1. /\ al' = [al EXCEPT !.od = "Isdu", !.owner = Head(jobs).who, !.op = op]
        /\ dl' = Transport(dl, op) /\ Handled(TransportCnf(dl))
    BY <1>1, <1>6 DEF AL_ReadWrite
  <2>2. "od" \in DOMAIN al' /\ "isdu" \in DOMAIN dl'  BY <1>1, <2>1 DEF Transport
  <2>3. op # NoOp
    <3>1. 1 \in DOMAIN jobs /\ Head(jobs) = jobs[1]  BY <1>1, TailSeq
    <3>2. Asks(Head(jobs).op)  BY <1>1, <3>1 DEF JobsInv, Proper, Real
    <3> QED BY <3>2, ResolvedAsks
  <2>4. CASE dl.link \notin {"Idle", "WakeUp", "Startup"} /\ dl.isdu = NoOp
    BY <1>1, <2>1, <2>2, <2>3, <2>4 DEF Transport, IsduInv
  <2>5. CASE ~(dl.link \notin {"Idle", "WakeUp", "Startup"} /\ dl.isdu = NoOp)
    <3>1. Handled(<<JobArg("ISDU_CNF", "ERR")>>)  BY <2>1, <2>5 DEF TransportCnf
    <3>2. Has(jobs', "ISDU")  BY <1>1, <3>1, HasCnf, HasHandled DEF Proper
    <3> QED BY <2>2, <3>2 DEF IsduInv
  <2> QED BY <2>4, <2>5
<1> QED BY <1>4, <1>5, <1>6

\* AL takes a confirmation: only the ISDU handler's ends the ISDU service.
LEMMA IsduAl == ASSUME AL_Handler, IsduInv, JobsInv PROVE IsduInv'
<1>1. /\ jobs # <<>> /\ IsSeq(jobs) /\ "isdu" \in DOMAIN dl /\ "od" \in DOMAIN al /\ UNCHANGED dl
  BY AlHandlerCalm DEF AL_Handler, Other, IsduInv, JobsInv, Proper
<1>2. Head(jobs).type # "ISDU_CNF" => (Has(jobs, "ISDU") => Has(jobs', "ISDU"))
  BY <1>1, AlHandlerCalm, HasCalm DEF Of
<1>3. CASE AL_IsduCnf
  <2>1. "od" \in DOMAIN al' /\ al'.od # "Isdu"
    BY <1>1, <1>3 DEF AL_IsduCnf, AL_Confirm
  <2> QED BY <1>1, <2>1 DEF IsduInv
<1>4. CASE AL_ParamCnf \/ AL_EventInd \/ AL_EventRsp
  <2>1. Head(jobs).type # "ISDU_CNF"  BY <1>4 DEF AL_ParamCnf, AL_EventInd, AL_EventRsp, Due
  <2>2. "od" \in DOMAIN al' /\ (al'.od = "Isdu" => al.od = "Isdu")
    <3>1. CASE AL_ParamCnf  BY <1>1, <3>1 DEF AL_ParamCnf, AL_Confirm
    <3>2. CASE AL_EventInd  BY <1>1, <3>2 DEF AL_EventInd
    <3>3. CASE AL_EventRsp  BY <1>1, <3>3 DEF AL_EventRsp
    <3> QED BY <1>4, <3>1, <3>2, <3>3
  <2> QED BY <1>1, <1>2, <2>1, <2>2 DEF IsduInv
<1> QED BY <1>3, <1>4 DEF AL_Handler

\* Every step of the port keeps the invariant.
LEMMA IsduNext == ASSUME IsduInv, JobsInv, [Next]_vars PROVE IsduInv'
<1>1. IsSeq(jobs) /\ "isdu" \in DOMAIN dl /\ Keeps(dl)
  BY SmCallsKeep DEF IsduInv, JobsInv, Proper
<1>2. CASE Application
  <2>1. UNCHANGED <<dl, al>>  BY <1>2 DEF Application, link
  <2>2. Confirms  BY <1>1, <2>1 DEF Confirms, Keeps
  <2> QED BY <1>2, <2>1, <2>2, ApplicationCalm, CalmIsTame, IsduLink
<1>3. CASE LinkRuns \/ LinkFails
  <2>1. UNCHANGED al  BY <1>3 DEF LinkRuns, LinkFails, above
  <2> QED BY <1>1, <1>3, <2>1, LinkCalm, LinkConfirms, IsduLink DEF LinkRuns, LinkFails
<1>4. CASE AL_Request  BY <1>4, IsduTaken
<1>5. CASE AL_Handler  BY <1>5, IsduAl
<1>6. ASSUME \/ SM_Handler \/ DS_Handler \/ ODE_Handler \/ CM_Handler
      PROVE  IsduInv'
  <2>1. Keeps(dl') /\ UNCHANGED al /\ Head(jobs).type # "ISDU_CNF"
    <3>1. CASE SM_Handler  BY <1>1, <3>1, SmHandlerKeeps DEF SM_Handler
    <3>2. CASE DS_Handler
      BY <1>1, <3>2 DEF DS_Handler, DS_ALCnf, DS_Startup, DS_Upload, DS_Delete, DS_Init, Due
    <3>3. CASE ODE_Handler
      BY <1>1, <3>3 DEF ODE_Handler, ODE_Request, ODE_ALCnf, ODE_Start, ODE_Stop, Due
    <3>4. CASE CM_Handler
      BY <1>1, <3>4 DEF CM_Handler, CM_Configure, CM_PortMode, CM_ComReady, CM_Operate,
                        CM_PortFault, CM_Comlost, CM_DsReady, CM_DsFault, CM_Ignores, Due
    <3> QED BY <1>6, <3>1, <3>2, <3>3, <3>4
  <2>2. jobs # <<>> /\ \E p : Proper(p) /\ Handled(p)
    BY <1>6, SmHandlerCalm, DsHandlerCalm, OdeCalm, CmProper
       DEF Other, CalmHandled, Calm, JobsInv
  <2>3. Has(jobs, "ISDU") => Has(jobs', "ISDU")
    BY <1>1, <2>1, <2>2, HasHandled DEF Of, Proper
  <2> QED BY <2>1, <2>3 DEF IsduInv, Keeps
<1>7. CASE UNCHANGED vars  BY <1>7 DEF vars, link, above, IsduInv
<1> QED BY <1>2, <1>3, <1>4, <1>5, <1>6, <1>7 DEF Next, Master

\* The invariant is the property in terms of the mailbox's jobs.
LEMMA IsduAwaited == ASSUME IsduInv PROVE IsduUnderWay
BY DEF IsduInv, IsduUnderWay, Has, Of, Pending

\* AL never waits for an ISDU that is neither with the ISDU handler nor answered, whatever
\* is lost or reset in between (iolink_dl.c, isdu_down and the confirmations).
THEOREM IsduAnswered == Spec => []IsduUnderWay
<1>1. Spec => []IsduInv
  BY JobsProper, IsduInit, IsduNext, PTL DEF Spec
<1> QED BY <1>1, IsduAwaited, PTL

-----------------------------------------------------------------------------
(***************************************************************************)
(* PortStack implements LinkService: whatever the layers above ask of the    *)
(* data link and however the link is lost, each change of its mode is        *)
(* indicated to SM once and in order.                                       *)
(***************************************************************************)

\* The indications in a queue of jobs, as the refinement mapping has them.
Modes(q) == {i \in DOMAIN q : q[i].type = "MODE"}
Inds(q)  == [k \in 1..Cardinality(Modes(q)) |-> q[Nth(Modes(q), k)].arg]
Silent(p) == IsSeq(p) /\ \A i \in DOMAIN p : p[i].type # "MODE"

\* The mapping of the indications is this selection, before a step and after it.
LEMMA MappedInds ==
  /\ [i \in DOMAIN ModeInds |-> ModeInds[i].arg] = Inds(jobs)
  /\ [i \in DOMAIN ModeInds |-> ModeInds[i].arg]' = Inds(jobs')
<1> DEFINE args(f) == [i \in DOMAIN f |-> f[i].arg]
<1>1. ASSUME NEW q PROVE args(SelectAt(q, Modes(q))) = Inds(q)
  BY DEF SelectAt, Inds
<1>2. ModeInds = SelectAt(jobs, Modes(jobs)) /\ ModeInds' = SelectAt(jobs', Modes(jobs'))
  BY DEF ModeInds, Modes, Pending
<1>3. args(ModeInds) = Inds(jobs) /\ args(ModeInds') = Inds(jobs')
  BY <1>1, <1>2
<1>4. QED
  BY <1>3

\* The positions of a sequence of jobs.
LEMMA ModesInside ==
  ASSUME NEW q, IsSeq(q)
  PROVE  Len(q) \in Nat /\ Modes(q) \in SUBSET (1..Len(q))
BY DEF Modes, IsSeq

\* A sequence of other jobs adds nothing.
LEMMA IndsSilent ==
  ASSUME NEW q, NEW p, IsSeq(q), Silent(p)
  PROVE  Inds(q \o p) = Inds(q)
<1>1. IsSeq(p)
  BY DEF Silent
<1>2. ASSUME NEW i \in DOMAIN (q \o p), i \notin 1..Len(q)
      PROVE  (q \o p)[i].type # "MODE"
  <2>1. i - Len(q) \in DOMAIN p /\ i = Len(q) + (i - Len(q))
    BY <1>1, <1>2, ConcatSeq
  <2>2. (q \o p)[i] = p[i - Len(q)]
    BY <1>1, <2>1, ConcatSeq
  <2>3. QED
    BY <2>1, <2>2 DEF Silent
<1>3. /\ 1..Len(q) \subseteq DOMAIN (q \o p) /\ DOMAIN q = 1..Len(q)
      /\ \A i \in 1..Len(q) : (q \o p)[i] = q[i]
  BY <1>1, ConcatSeq
<1>4. Modes(q \o p) = Modes(q)
  BY <1>2, <1>3 DEF Modes
<1>5. \A k \in 1..Cardinality(Modes(q)) : Nth(Modes(q), k) \in 1..Len(q)
  BY ModesInside, NthInside
<1>6. QED
  BY <1>3, <1>4, <1>5 DEF Inds

\* An indication is added last.
LEMMA IndsAppend ==
  ASSUME NEW q, NEW mode, IsSeq(q)
  PROVE  Inds(q \o <<ModeInd(mode)>>) = Append(Inds(q), mode)
<1> DEFINE n == Len(q)
           c == q \o <<ModeInd(mode)>>
           m == Cardinality(Modes(q))
           S == {q[i].arg : i \in 1..n} \cup {mode}
<1>1. n \in Nat /\ Modes(q) \in SUBSET (1..n) /\ m \in Nat
  BY ModesInside, Ranks
<1>2. /\ DOMAIN c = 1..(n + 1) /\ c[n + 1] = ModeInd(mode)
      /\ \A i \in 1..n : c[i] = q[i]
  <2>1. IsSeq(<<ModeInd(mode)>>)
    BY TameMode DEF Tame, Proper
  <2>2. Len(<<ModeInd(mode)>>) = 1 /\ <<ModeInd(mode)>>[1] = ModeInd(mode)
    OBVIOUS
  <2>3. QED
    BY <2>1, <2>2, ConcatSeq
<1>3. ModeInd(mode).type = "MODE" /\ ModeInd(mode).arg = mode
  BY DEF ModeInd, JobArg
<1>4. Modes(c) = Modes(q) \cup {n + 1}
  <2>1. DOMAIN q = 1..n
    BY DEF IsSeq
  <2>2. QED
    BY <1>1, <1>2, <1>3, <2>1 DEF Modes
<1>5. /\ Cardinality(Modes(c)) = m + 1
      /\ \A k \in 1..m : Nth(Modes(c), k) = Nth(Modes(q), k)
      /\ Nth(Modes(c), m + 1) = n + 1
  <2>1. /\ Cardinality(Modes(q) \cup {n + 1}) = m + 1
        /\ \A k \in 1..m : Nth(Modes(q) \cup {n + 1}, k) = Nth(Modes(q), k)
        /\ Nth(Modes(q) \cup {n + 1}, Cardinality(Modes(q) \cup {n + 1})) = n + 1
    BY <1>1, SelectLast
  <2> HIDE DEF c, n, m
  <2>2. QED
    BY <1>4, <2>1
<1> HIDE DEF c, n
<1>6. \A k \in 1..m : Nth(Modes(q), k) \in 1..n
  BY <1>1, NthInside
<1>7. Inds(c) = [k \in 1..(m + 1) |-> IF k = m + 1 THEN mode ELSE q[Nth(Modes(q), k)].arg]
  BY <1>1, <1>2, <1>3, <1>5, <1>6 DEF Inds
<1>8. Inds(q) \in Seq(S) /\ Len(Inds(q)) = m
  BY <1>1, <1>6 DEF Inds
<1>9. \A k \in 1..m : Inds(q)[k] = q[Nth(Modes(q), k)].arg
  BY DEF Inds
<1>10. /\ Append(Inds(q), mode) \in Seq(S) /\ Len(Append(Inds(q), mode)) = m + 1
       /\ \A k \in 1..m : Append(Inds(q), mode)[k] = Inds(q)[k]
       /\ Append(Inds(q), mode)[m + 1] = mode
  BY <1>1, <1>8, AppendProperties
<1> DEFINE f == [k \in 1..(m + 1) |-> IF k = m + 1 THEN mode ELSE q[Nth(Modes(q), k)].arg]
<1>11. f \in Seq(S) /\ Len(f) = m + 1
  BY <1>1, <1>6
<1>12. \A k \in 1..(m + 1) : Append(Inds(q), mode)[k] = f[k]
  <2>1. \A k \in 1..(m + 1) : k = m + 1 \/ k \in 1..m
    BY <1>1
  <2>2. QED
    BY <1>1, <1>9, <1>10, <2>1
<1> HIDE DEF f, S, m
<1>13. Append(Inds(q), mode) = f
  BY <1>10, <1>11, <1>12, SeqEqual
<1>14. QED
  BY <1>7, <1>13 DEF c, f, n

\* When the head is taken, it is the first indication or concerns none.
LEMMA IndsTail ==
  ASSUME NEW q, IsSeq(q), q # <<>>
  PROVE  IF Head(q).type = "MODE"
         THEN Inds(q) # <<>> /\ Inds(Tail(q)) = Tail(Inds(q))
         ELSE Inds(Tail(q)) = Inds(q)
<1> DEFINE n == Len(q)
           t == Tail(q)
           m == Cardinality(Modes(q))
           r == Cardinality(Modes(t))
           h == IF 1 \in Modes(q) THEN 1 ELSE 0
           S == {q[i].arg : i \in 1..n}
<1>1. /\ n \in Nat \ {0} /\ DOMAIN q = 1..n /\ Head(q) = q[1]
      /\ DOMAIN t = 1..(n - 1) /\ \A i \in 1..(n - 1) : t[i] = q[i + 1]
  <2>1. IsSeq(t) /\ Len(t) = n - 1
    BY TailSeq
  <2>2. DOMAIN t = 1..Len(t)
    BY <2>1 DEF IsSeq
  <2>3. QED
    BY <2>1, <2>2, TailSeq
<1>2. Modes(q) \in SUBSET (1..n) /\ m \in Nat /\ n \in Nat
  BY <1>1, Ranks DEF Modes
<1>3. Modes(t) = {i \in 1..(n - 1) : i + 1 \in Modes(q)}
  BY <1>1 DEF Modes
<1>4. /\ r + h = m
      /\ \A k \in 1..r : Nth(Modes(t), k) + 1 = Nth(Modes(q), k + h)
      /\ 1 \in Modes(q) => Nth(Modes(q), 1) = 1
  BY SMTT(30), <1>2, <1>3, SelectTail
<1>5. Modes(t) \in SUBSET (1..(n - 1)) /\ n - 1 \in Nat /\ r \in Nat
  <2>1. Modes(t) \in SUBSET (1..(n - 1)) /\ n - 1 \in Nat
    BY <1>1, <1>3
  <2>2. QED
    BY <2>1, Ranks
<1>6. ASSUME NEW k \in 1..r PROVE t[Nth(Modes(t), k)].arg = q[Nth(Modes(q), k + h)].arg
  <2>1. Nth(Modes(t), k) \in 1..(n - 1)
    BY <1>5, NthInside
  <2>2. QED
    BY <1>1, <1>4, <2>1
<1>7. Inds(t) = [k \in 1..r |-> q[Nth(Modes(q), k + h)].arg]
  BY <1>6 DEF Inds
<1>8. 1 \in Modes(q) <=> Head(q).type = "MODE"
  BY <1>1 DEF Modes
<1>9. CASE 1 \notin Modes(q)
  <2>1. h = 0 /\ r = m
    BY <1>4, <1>5, <1>9
  <2>2. \A k \in 1..r : k + h = k
    BY <2>1
  <2>3. Inds(t) = [k \in 1..m |-> q[Nth(Modes(q), k)].arg]
    BY <1>7, <2>1, <2>2
  <2>4. QED
    BY <1>8, <1>9, <2>3 DEF Inds
<1>10. CASE 1 \in Modes(q)
  <2>1. m = r + 1
    BY <1>4, <1>5, <1>10
  <2>2. Inds(q) = [k \in 1..m |-> q[Nth(Modes(q), k)].arg]
    BY DEF Inds
  <2>3. \A k \in 1..m : Nth(Modes(q), k) \in 1..n
    BY <1>2, NthInside
  <2>4. Inds(q) \in Seq(S) /\ Len(Inds(q)) = m
    BY <1>2, <2>2, <2>3
  <2>5. /\ Inds(q) # <<>> /\ Tail(Inds(q)) \in Seq(S) /\ Len(Tail(Inds(q))) = r
        /\ \A k \in 1..r : Tail(Inds(q))[k] = Inds(q)[k + 1]
    BY <1>5, <2>1, <2>4
  <2>6. \A k \in 1..r : k + 1 \in 1..m /\ k + h = k + 1
    BY <1>5, <1>10, <2>1
  <2>7. \A k \in 1..r : Inds(t)[k] = Tail(Inds(q))[k]
    <3>1. \A k \in 1..r : Inds(t)[k] = q[Nth(Modes(q), k + 1)].arg
      BY <1>7, <2>6
    <3>2. \A k \in 1..r : Inds(q)[k + 1] = q[Nth(Modes(q), k + 1)].arg
      BY <2>2, <2>6
    <3>3. QED
      BY <2>5, <3>1, <3>2
  <2>8. Inds(t) \in Seq(S) /\ Len(Inds(t)) = r
    BY <1>5, <1>7, <2>3, <2>6
  <2> HIDE DEF S, t, r
  <2>9. Inds(t) = Tail(Inds(q))
    BY <2>5, <2>7, <2>8, SeqEqual
  <2>10. QED
    BY <1>8, <1>10, <2>5, <2>9 DEF t
<1>11. QED
  BY <1>9, <1>10

-----------------------------------------------------------------------------
\* What the thread of the data link does to the mode, and what it posts of it.
LinkInv == /\ IsSeq(jobs) /\ "link" \in DOMAIN dl
           /\ dl.link \in {"Idle", "WakeUp", "Startup", "Preop", "Operate"}

\* The mode stays and no indication is posted,
Steady == /\ "link" \in DOMAIN dl' /\ dl'.link = dl.link
          /\ UNCHANGED jobs \/ CalmPosted
\* or it changes as the service has it.
Rise(from, to) == <<from, to>> \in {<<"Startup", "Preop">>, <<"Startup", "Operate">>,
                                    <<"Preop", "Operate">>}
Fall(from, to, ind) ==
  \/ from \in {"Preop", "Operate"} /\ to = "Startup" /\ ind = "STARTUP"
  \/ from \in {"Startup", "Preop", "Operate"} /\ to = "Idle" /\ ind \in {"INACTIVE", "COMLOST"}
  \/ from = "WakeUp" /\ to = "Startup" /\ ind = "STARTUP"
  \/ from = "WakeUp" /\ to = "Idle" /\ ind = "INACTIVE"
IndOf(to) == IF to = "Preop" THEN "PREOPERATE" ELSE "OPERATE"
Moves ==
  /\ "link" \in DOMAIN dl'
  /\ \/ dl.link = "Idle" /\ dl'.link = "WakeUp" /\ UNCHANGED jobs
     \/ \E p, ind : /\ Calm(p) /\ Posted(p \o <<ModeInd(ind)>>)
                    /\ \/ Rise(dl.link, dl'.link) /\ ind = IndOf(dl'.link)
                       \/ Fall(dl.link, dl'.link, ind)

\* An indication that is posted alone.
LEMMA IndicationAlone == ASSUME NEW ind, Posted(<<ModeInd(ind)>>)
  PROVE  Calm(<<>>) /\ Posted(<<>> \o <<ModeInd(ind)>>)
<1>1. <<>> \o <<ModeInd(ind)>> = <<ModeInd(ind)>>
  OBVIOUS
<1>2. QED
  BY <1>1, CalmNone

\* iolink_dl_mode_h_sm changes the mode with an indication, or not at all.
LEMMA ModeStepMoves == ASSUME LinkInv, ModeStep PROVE Steady \/ Moves
<1> DEFINE d == [dl EXCEPT !.mdh = "no"]
<1>0. "link" \in DOMAIN d /\ d.link = dl.link
  BY DEF LinkInv
<1>1. Calm(IsduDownCnf(d))
  BY CalmNone, CalmNames DEF IsduDownCnf
<1>2. ASSUME NEW e PROVE DOMAIN IsduDown(e) = DOMAIN e
  BY DEF IsduDown
<1>3. ASSUME NEW ind, GotoIdle(d, ind), Fall(dl.link, "Idle", ind) PROVE Moves
  <2>1. "link" \in DOMAIN dl' /\ dl'.link = "Idle"
    BY <1>0, <1>2, <1>3 DEF GotoIdle
  <2>2. QED
    BY <1>1, <1>3, <2>1 DEF GotoIdle, Moves
<1>4. ASSUME GotoStartup(d), Fall(dl.link, "Startup", "STARTUP") PROVE Moves
  <2>1. "link" \in DOMAIN dl' /\ dl'.link = "Startup"
    BY <1>0, <1>2, <1>4 DEF GotoStartup
  <2>2. QED
    BY <1>1, <1>4, <2>1 DEF GotoStartup, Moves
<1>5. ASSUME NEW to, Goto(d, to, IndOf(to)), Rise(dl.link, to) PROVE Moves
  <2>1. "link" \in DOMAIN dl' /\ dl'.link = to
    BY <1>0, <1>5 DEF Goto
  <2>2. Calm(<<>>) /\ Posted(<<>> \o <<ModeInd(IndOf(to))>>)
    BY <1>5, IndicationAlone DEF Goto
  <2>3. QED
    BY <1>5, <2>1, <2>2 DEF Moves
<1>6. ASSUME dl' = d, UNCHANGED jobs PROVE Steady
  BY <1>0, <1>6 DEF Steady
<1>7. ASSUME dl.link = "Idle", dl' = [d EXCEPT !.link = "WakeUp", !.wurq = TRUE], UNCHANGED jobs
      PROVE  Moves
  <2>1. "link" \in DOMAIN dl' /\ dl'.link = "WakeUp"
    BY <1>0, <1>7
  <2>2. QED
    BY <1>7, <2>1 DEF Moves
<1> HIDE DEF d
<1>8. CASE dl.link = "Idle"
  BY <1>0, <1>6, <1>7, <1>8 DEF ModeStep, d
<1>9. CASE dl.link = "WakeUp"
  BY <1>0, <1>6, <1>9 DEF ModeStep, d
<1>10. CASE dl.link = "Startup"
  <2>1. \/ Goto(d, "Preop", "PREOPERATE") \/ Goto(d, "Operate", "OPERATE")
        \/ GotoIdle(d, "INACTIVE") \/ GotoIdle(d, "COMLOST") \/ (dl' = d /\ UNCHANGED jobs)
    BY <1>0, <1>10 DEF ModeStep, d
  <2>2. /\ Rise(dl.link, "Preop") /\ Rise(dl.link, "Operate") /\ IndOf("Preop") = "PREOPERATE"
        /\ IndOf("Operate") = "OPERATE" /\ Fall(dl.link, "Idle", "INACTIVE")
        /\ Fall(dl.link, "Idle", "COMLOST")
    BY <1>10 DEF Rise, Fall, IndOf
  <2>3. QED
    BY <1>3, <1>5, <1>6, <2>1, <2>2
<1>11. CASE dl.link \in {"Preop", "Operate"}
  <2>1. \/ GotoStartup(d) \/ GotoIdle(d, "INACTIVE") \/ GotoIdle(d, "COMLOST")
        \/ (dl.link = "Preop" /\ Goto(d, "Operate", "OPERATE")) \/ (dl' = d /\ UNCHANGED jobs)
    BY <1>0, <1>11 DEF ModeStep, d
  <2>2. /\ dl.link = "Preop" => Rise(dl.link, "Operate")
        /\ IndOf("Operate") = "OPERATE" /\ Fall(dl.link, "Idle", "INACTIVE")
        /\ Fall(dl.link, "Idle", "COMLOST") /\ Fall(dl.link, "Startup", "STARTUP")
    BY <1>11 DEF Rise, Fall, IndOf
  <2>3. QED
    BY <1>3, <1>4, <1>5, <1>6, <2>1, <2>2
<1>12. QED
  BY <1>8, <1>9, <1>10, <1>11 DEF LinkInv

\* The answers, confirmations and events of the other steps are no indications.
LEMMA CablePosts ==
  ASSUME \/ AccessDone \/ IsduStart \/ IsduDone \/ ParamDone \/ ModeDone \/ IsduFails
         \/ Lose \/ DeviceEvent \/ Swap
  PROVE  CalmPosted \/ UNCHANGED jobs
<1>1. CASE AccessDone  BY <1>1, CalmNames DEF AccessDone, CalmPosted
<1>2. CASE IsduStart  BY <1>2 DEF IsduStart
<1>3. CASE IsduDone  BY <1>3, CalmNames DEF IsduDone, CalmPosted
<1>4. CASE ParamDone  BY <1>4, CalmNames DEF ParamDone, ParamRes, CalmPosted
<1>5. CASE ModeDone  BY <1>5, CalmNames DEF ModeDone, CalmPosted
<1>6. CASE IsduFails  BY <1>6, CalmNames DEF IsduFails, CalmPosted
<1>7. CASE Lose
  <2>1. ASSUME NEW by10 PROVE Calm(LoseCnf(by10))
    <3> DEFINE mode  == IF by10 /\ dl.mcmd # "none"
                        THEN <<JobArg("DEVMODE_CNF", FALSE)>> ELSE <<>>
               param == IF dl.par # NoOp /\ (by10 \/ dl.par.rw = "write")
                        THEN <<ParamRes(dl.par, "ERR", FALSE)>> ELSE <<>>
    <3>1. Calm(mode) /\ Calm(param)
      BY CalmNone, CalmNames DEF ParamRes
    <3>2. Calm(mode \o param)
      BY <3>1, CalmBoth
    <3>3. QED
      BY <3>2, CalmNames DEF LoseCnf
  <2>2. QED
    BY <1>7, <2>1 DEF Lose, CalmPosted
<1>8. CASE DeviceEvent
  <2>1. IsSeq(<<"other">>) /\ IsSeq(<<"UPLOAD">>) /\ IsSeq(<<"other", "UPLOAD">>)
    <3>1. /\ <<"other">> \in Seq({"other"}) /\ <<"UPLOAD">> \in Seq({"UPLOAD"})
          /\ <<"other", "UPLOAD">> \in Seq({"other", "UPLOAD"})
      OBVIOUS
    <3>2. QED
      BY <3>1 DEF IsSeq
  <2>2. QED
    BY <1>8, <2>1, EventsCalm DEF DeviceEvent, CalmPosted
<1>9. CASE Swap  BY <1>9 DEF Swap
<1>10. QED
  BY <1>1, <1>2, <1>3, <1>4, <1>5, <1>6, <1>7, <1>8, <1>9

\* SM's calls leave the mode alone: it sets dl_mode, the request, and no more.
LEMMA SmKeepsLink == ASSUME "link" \in DOMAIN dl, SM_Handler
  PROVE  "link" \in DOMAIN dl' /\ dl'.link = dl.link
<1> DEFINE Kept(d) == "link" \in DOMAIN d /\ d.link = dl.link
<1>1. /\ Kept(dl)
      /\ \A mode : Kept(SetMode(dl, mode)) /\ Kept(SetMode(SetSDCI(dl), mode))
      /\ \A what : Kept(Access(dl, what))
      /\ \A mode : Kept(Devicemode(dl, mode))
  BY DEF SetMode, SetSDCI, Access, Devicemode
<1> HIDE DEF Kept
<1>2. ASSUME NEW do, NEW s, NEW event, SmDo(do, s, event) PROVE Kept(dl')
  <2>1. CASE do \in {"read_com", "read_id", "ident", "preop_cmd", "operate_cmd", "restart"}
    BY <1>1, <1>2, <2>1 DEF SmDo, SmAccess, Calls
  <2>2. CASE do = "fault"
    BY <1>1, <1>2, <2>2 DEF SmDo, SmFault, Calls
  <2>3. CASE do \in {"serial", "write_cycl", "comready", "comlost", "inactive", "start", "dido",
                     "operate_ind", "fallback", "devmode"}
    BY <1>1, <1>2, <2>3 DEF SmDo, Calls
  <2>4. CASE do \notin {"read_com", "read_id", "ident", "preop_cmd", "operate_cmd", "restart",
                        "fault", "serial", "write_cycl", "comready", "comlost", "inactive",
                        "start", "dido", "operate_ind", "fallback", "devmode"}
    BY <1>1, <1>2, <2>4 DEF SmDo, Calls
  <2>5. QED
    BY <2>1, <2>2, <2>3, <2>4
<1>3. ASSUME NEW s, NEW event, SmEvent(s, event) PROVE Kept(dl')
  BY <1>1, <1>2, <1>3 DEF SmEvent, Calls
<1>4. ASSUME SM_SetPortConfig PROVE Kept(dl')
  BY <1>1, <1>3, <1>4 DEF SM_SetPortConfig, Calls
<1>5. ASSUME SM_Operate PROVE Kept(dl')
  BY <1>3, <1>5 DEF SM_Operate
<1>6. ASSUME SM_Mode PROVE Kept(dl')
  BY <1>1, <1>3, <1>6 DEF SM_Mode, Calls
<1>7. ASSUME SM_DLCnf PROVE Kept(dl')
  BY <1>1, <1>3, <1>7 DEF SM_DLCnf, Calls
<1>8. ASSUME SM_ALCnf PROVE Kept(dl')
  BY <1>3, <1>8 DEF SM_ALCnf, SM_SerialCnf, SM_CyclCnf
<1>9. ASSUME SM_DevmodeCnf PROVE Kept(dl')
  BY <1>1, <1>3, <1>9 DEF SM_DevmodeCnf, Calls
<1>10. Kept(dl')
  BY <1>4, <1>5, <1>6, <1>7, <1>8, <1>9 DEF SM_Handler
<1>11. QED
  BY <1>10 DEF Kept

\* What CM posts is no indication either.
LEMMA CmSilent == ASSUME CM_Handler PROVE jobs # <<>> /\ \E p : Silent(p) /\ Handled(p)
<1>0. \A p : Calm(p) => Silent(p)
  BY DEF Calm, Proper, Silent
<1>1. jobs # <<>>
  BY DEF CM_Handler, CM_Configure, CM_PortMode, CM_DsReady, CM_DsFault, Due
<1>2. ASSUME CM_Configure PROVE HaltingHandled \/ CalmHandled
  BY <1>2, StartupHalts, DidoHalts, DeactivateHalts, CalmNone
     DEF CM_Configure, CM_Ignores, CalmHandled
<1>3. ASSUME CM_Operate PROVE \E p : Silent(p) /\ Handled(p)
  <2> DEFINE p == <<Job("OD_START")>>
  <2>1. p \in Seq({Job("OD_START")}) /\ \A i \in DOMAIN p : p[i] = Job("OD_START")
    OBVIOUS
  <2>2. Job("OD_START").type = "OD_START"
    BY DEF Job
  <2>3. Silent(p)
    BY <2>1, <2>2 DEF Silent, IsSeq
  <2>4. QED
    BY <1>3, <2>3 DEF CM_Operate, CM_Moves, CM_Calls
<1>4. ASSUME CM_PortMode PROVE CM_Operate \/ CalmHandled
  BY <1>4, CalmNone, CalmNames
     DEF CM_PortMode, CM_ComReady, CM_PortFault, CM_Comlost, CM_Ignores, CM_Moves, CM_Calls,
         CalmHandled
<1>5. ASSUME CM_DsReady \/ CM_DsFault PROVE CalmHandled
  BY <1>5, CalmNone, CalmNames
     DEF CM_DsReady, CM_DsFault, CM_PortFault, CM_Ignores, CM_Moves, CM_Calls, CalmHandled
<1>6. QED
  BY <1>0, <1>1, <1>2, <1>3, <1>4, <1>5 DEF CM_Handler, HaltingHandled, Halting, CalmHandled

\* Sequences may be concatenated in any order of steps.
LEMMA ConcatAssoc == ASSUME NEW s, NEW t, NEW u, IsSeq(s), IsSeq(t), IsSeq(u)
  PROVE  s \o (t \o u) = (s \o t) \o u
<1>1. PICK S, T, U : s \in Seq(S) /\ t \in Seq(T) /\ u \in Seq(U)
  BY DEF IsSeq
<1> DEFINE V == S \cup T \cup U
<1>2. s \in Seq(V) /\ t \in Seq(V) /\ u \in Seq(V)
  BY <1>1
<1> HIDE DEF V
<1>3. QED
  BY <1>2, ConcatAssociative

\* So does every step of the data link thread and the cable.
LEMMA LinkMoves == ASSUME LinkInv, LinkProgress \/ LinkTrouble PROVE Steady \/ Moves
<1>0. "link" \in DOMAIN dl
  BY DEF LinkInv
<1>1. CASE WakeUp
  <2>1. dl.link = "WakeUp" /\ "link" \in DOMAIN dl'
    BY <1>0, <1>1 DEF WakeUp, Served
  <2>2. PICK ind : /\ Posted(<<ModeInd(ind)>>)
                   /\ \/ dl'.link = "Startup" /\ ind = "STARTUP"
                      \/ dl'.link = "Idle" /\ ind = "INACTIVE"
    BY <1>0, <1>1 DEF WakeUp, Served
  <2>3. Fall(dl.link, dl'.link, ind)
    BY <2>1, <2>2 DEF Fall
  <2>4. QED
    BY <2>1, <2>2, <2>3, IndicationAlone DEF Moves
<1>2. CASE AccessDone \/ IsduStart \/ IsduDone \/ ParamDone \/ ModeDone \/ IsduFails \/ Lose
           \/ DeviceEvent \/ Swap
  <2>1. "link" \in DOMAIN dl' /\ dl'.link = dl.link
    <3>0. \A d : "link" \in DOMAIN d => "link" \in DOMAIN Served(d) /\ Served(d).link = d.link
      BY DEF Served
    <3>1. CASE AccessDone  BY <1>0, <3>0, <3>1 DEF AccessDone
    <3>2. CASE IsduStart  BY <1>0, <3>0, <3>2 DEF IsduStart
    <3>3. CASE IsduDone  BY <1>0, <3>0, <3>3 DEF IsduDone
    <3>4. CASE ParamDone  BY <1>0, <3>0, <3>4 DEF ParamDone
    <3>5. CASE ModeDone  BY <1>0, <3>0, <3>5 DEF ModeDone
    <3>6. CASE IsduFails  BY <1>0, <3>0, <3>6 DEF IsduFails
    <3>7. CASE Lose  BY <1>0, <3>7 DEF Lose
    <3>8. CASE DeviceEvent  BY <1>0, <3>0, <3>8 DEF DeviceEvent
    <3>9. CASE Swap  BY <1>0, <3>9 DEF Swap
    <3> QED BY <1>2, <3>1, <3>2, <3>3, <3>4, <3>5, <3>6, <3>7, <3>8, <3>9
  <2>2. CalmPosted \/ UNCHANGED jobs
    BY <1>2, CablePosts
  <2>3. QED
    BY <2>1, <2>2 DEF Steady
<1>3. QED
  BY <1>1, <1>2, ModeStepMoves DEF LinkProgress, LinkTrouble

\* No call of the layers above touches the mode, and none of their jobs indicates one.
LEMMA AboveSteady == ASSUME LinkInv, JobsInv, Master \/ Application
  PROVE  /\ "link" \in DOMAIN dl' /\ dl'.link = dl.link
         /\ \/ CalmPosted \/ UNCHANGED jobs
            \/ jobs # <<>> /\ \E p : Silent(p) /\ Handled(p)
<1>1. \A p : Calm(p) => Silent(p)
  BY DEF Calm, Proper, Silent
<1>2. CASE Application
  BY <1>2, ApplicationCalm DEF Application, link, LinkInv
<1>3. CASE AL_Request
  <2>1. jobs # <<>> /\ CalmHandled
    BY <1>3, AlRequestCalm DEF AL_Request, Due
  <2>2. "link" \in DOMAIN dl' /\ dl'.link = dl.link
    BY <1>3 DEF AL_Request, AL_ReadWrite, Param, Transport, LinkInv
  <2>3. QED
    BY <1>1, <2>1, <2>2 DEF CalmHandled
<1>4. CASE AL_Handler \/ DS_Handler
  <2>1. jobs # <<>> /\ CalmHandled /\ UNCHANGED dl
    BY <1>4, AlHandlerCalm, DsHandlerCalm DEF Other, AL_Handler, DS_Handler
  <2>2. QED
    BY <1>1, <2>1 DEF CalmHandled, LinkInv
<1>5. CASE SM_Handler
  <2>1. jobs # <<>> /\ CalmHandled
    BY <1>5, SmHandlerCalm DEF Other
  <2>2. QED
    BY <1>1, <1>5, <2>1, SmKeepsLink DEF CalmHandled, LinkInv
<1>6. CASE ODE_Handler
  BY <1>1, <1>6, OdeCalm DEF ODE_Handler, CalmHandled, LinkInv, JobsInv
<1>7. CASE CM_Handler
  BY <1>7, CmSilent DEF CM_Handler, LinkInv
<1>8. QED
  BY <1>2, <1>3, <1>4, <1>5, <1>6, <1>7 DEF Master

-----------------------------------------------------------------------------
\* A port starts without a link and with nothing indicated.
LEMMA LinkStarts == ASSUME Init PROVE LinkInv /\ Link!LinkInit
<1>1. jobs = <<>> /\ dl = DlInit
  BY DEF Init
<1>2. IsSeq(<<>>)
  BY CalmNone DEF Calm, Proper
<1>3. LinkInv
  BY <1>1, <1>2 DEF LinkInv, DlInit
<1>4. Modes(<<>>) = {}
  BY DEF Modes
<1>5. Inds(<<>>) = <<>>
  BY <1>4, FS_EmptySet DEF Inds
<1>6. LinkOf[dl.link] = "Down"
  BY <1>1 DEF LinkOf, DlInit
<1>7. QED
  BY <1>1, <1>3, <1>5, <1>6, MappedInds DEF Link!LinkInit

\* Every step of the port is a step of the service, or none of its concern.
LEMMA LinkStep == ASSUME LinkInv, JobsInv, [Next]_vars
  PROVE  LinkInv' /\ [Link!LinkNext]_(Link!lvars)
<1> DEFINE ind == [i \in DOMAIN ModeInds |-> ModeInds[i].arg]
<1>0. IsSeq(jobs) /\ ind = Inds(jobs) /\ ind' = Inds(jobs')
  BY MappedInds DEF LinkInv
<1>1. ASSUME CalmPosted \/ UNCHANGED jobs PROVE IsSeq(jobs') /\ ind' = ind
  <2>1. \A p : Calm(p) => Silent(p)
    BY DEF Calm, Proper, Silent
  <2>2. CASE UNCHANGED jobs
    BY <1>0, <2>2
  <2>3. ASSUME NEW p, Silent(p), Posted(p) PROVE IsSeq(jobs') /\ ind' = ind
    <3>1. jobs' = jobs \o p /\ IsSeq(p)
      BY <2>3 DEF Posted, Silent
    <3>2. QED
      BY <1>0, <2>3, <3>1, IndsSilent, ConcatSeq
  <2>4. QED
    BY <1>1, <2>1, <2>2, <2>3 DEF CalmPosted
<1>2. CASE UNCHANGED vars \/ ((LinkRuns \/ LinkFails) /\ Steady)
  <2>1. /\ "link" \in DOMAIN dl' /\ dl'.link = dl.link /\ (CalmPosted \/ UNCHANGED jobs)
    BY <1>2 DEF Steady, vars, link, LinkInv
  <2>2. IsSeq(jobs') /\ ind' = ind
    BY <1>1, <2>1
  <2>3. QED
    BY <2>1, <2>2 DEF LinkInv, Link!lvars
<1>3. CASE Moves
  <2>1. CASE dl.link = "Idle" /\ dl'.link = "WakeUp" /\ UNCHANGED jobs
    <3>1. ind' = ind /\ IsSeq(jobs')
      BY <1>1, <2>1
    <3>2. Link!WakeUp
      BY <2>1, <3>1 DEF Link!WakeUp, LinkOf
    <3>3. QED
      BY <1>3, <2>1, <3>1, <3>2 DEF Link!LinkNext, LinkInv, Moves
  <2>2. ASSUME NEW p, NEW mode, Calm(p), Posted(p \o <<ModeInd(mode)>>),
               \/ Rise(dl.link, dl'.link) /\ mode = IndOf(dl'.link)
               \/ Fall(dl.link, dl'.link, mode)
        PROVE  LinkInv' /\ [Link!LinkNext]_(Link!lvars)
    <3>1. Silent(p) /\ IsSeq(p)
      BY <2>2 DEF Calm, Proper, Silent
    <3>2. IsSeq(<<ModeInd(mode)>>) /\ IsSeq(jobs \o p)
      BY <1>0, <3>1, TameMode, ConcatSeq DEF Tame, Proper
    <3>3. jobs' = (jobs \o p) \o <<ModeInd(mode)>> /\ IsSeq(jobs')
      <4>1. jobs \o (p \o <<ModeInd(mode)>>) = (jobs \o p) \o <<ModeInd(mode)>>
        BY <1>0, <3>1, <3>2, ConcatAssoc
      <4>2. QED
        BY <2>2, <3>2, <4>1, ConcatSeq DEF Posted
    <3>4. ind' = Append(ind, mode)
      BY SMTT(30), <1>0, <3>1, <3>2, <3>3, IndsSilent, IndsAppend
    <3>5. Link!Indicate(mode)
      BY <3>4 DEF Link!Indicate
    <3>6. CASE Rise(dl.link, dl'.link) /\ mode = IndOf(dl'.link)
      BY <1>3, <3>3, <3>5, <3>6 DEF Rise, IndOf, LinkOf, Link!LinkNext, Link!ToPreoperate,
         Link!ToOperate, LinkInv, Moves
    <3>7. CASE Fall(dl.link, dl'.link, mode)
      BY <1>3, <3>3, <3>5, <3>7 DEF Fall, LinkOf, Link!LinkNext, Link!Restart, Link!Drop,
         Link!Established, Link!NoDevice, LinkInv, Moves
    <3>8. QED
      BY <2>2, <3>6, <3>7
  <2>3. QED
    BY <1>3, <2>1, <2>2 DEF Moves
<1>4. CASE Master \/ Application
  <2>1. "link" \in DOMAIN dl' /\ dl'.link = dl.link
    BY <1>4, AboveSteady
  <2>2. CASE CalmPosted \/ UNCHANGED jobs
    BY <1>1, <2>1, <2>2 DEF LinkInv, Link!lvars
  <2>3. ASSUME jobs # <<>>, NEW p, Silent(p), Handled(p)
        PROVE  LinkInv' /\ [Link!LinkNext]_(Link!lvars)
    <3>1. IsSeq(p) /\ IsSeq(Tail(jobs)) /\ IsSeq(jobs') /\ jobs' = Tail(jobs) \o p
      BY <1>0, <2>3, TailSeq, ConcatSeq DEF Handled, Silent
    <3>2. ind' = Inds(Tail(jobs))
      BY <1>0, <2>3, <3>1, IndsSilent
    <3>3. ind' = ind \/ (ind # <<>> /\ ind' = Tail(ind))
      BY <1>0, <2>3, <3>2, IndsTail
    <3>4. QED
      BY <2>1, <3>1, <3>3 DEF LinkInv, Link!lvars, Link!LinkNext, Link!Take
  <2>4. QED
    BY <1>4, <2>2, <2>3, AboveSteady
<1>5. CASE LinkRuns \/ LinkFails
  BY <1>2, <1>3, <1>5, LinkMoves DEF LinkRuns, LinkFails
<1>6. QED
  BY <1>2, <1>4, <1>5 DEF Next

\* PortDataLink, under whatever the layers above it call and the cable does, implements the
\* service that IolinkDL implements: each change of mode is indicated to SM once and in
\* order, and the mode changes only as the service has it (iolink_dl.c, iolink_dl_mode_h_sm).
THEOREM PortLinkImplemented == Spec => LinkRefinement
<1>1. Spec => []LinkInv
  BY JobsProper, LinkStarts, LinkStep, PTL DEF Spec
<1>2. QED
  BY <1>1, JobsProper, LinkStarts, LinkStep, PTL DEF Spec, LinkRefinement, Link!LinkSpec

=============================================================================
