--------------------------- MODULE PortDataStorage ---------------------------
(***************************************************************************)
(* Data storage of a port, iolink_ds.c: the copy the master keeps of the    *)
(* device's parameters, taken by an upload and written to a device whose    *)
(* checksum differs by a download.  Each answer of AL is one step of the    *)
(* state machine, with the chain of events iolink_ds_event runs through.    *)
(***************************************************************************)
EXTENDS PortSystemManagement

VARIABLES
  ds,      \* the state machine and the data set
  info     \* iolink_port_info: the identity CM took from SM, and the status

DsStates == {"CheckActivation", "Waiting", "Off", "CheckIdentity", "CheckMemSize",
             "CheckUpload", "CheckDSValidity", "ReadParameter", "StoreDataSet",
             "DecomposeSet", "WriteParameter", "DownloadDone", "DS_Fault"}
DsResting == {"CheckActivation", "Waiting", "Off"}

Junk == [e \in Entries |-> <<"none", 1>>]      \* what another answer's bytes are as a set
Zero == [e \in Entries |-> NoValue]

(***************************************************************************)
(* up, down, enable are ds_upload, ds_download, ds_enable; pend pending_id;  *)
(* id, set, size, valid, cs, pos are master_ds; dcs device_ds.cs; item       *)
(* current_index; count index_list.count; cmd the byte a request points to.  *)
(***************************************************************************)
DsInit == [state |-> "CheckActivation", up |-> FALSE, down |-> FALSE, enable |-> FALSE,
           fault |-> "NONE", pend |-> "none", id |-> "none", set |-> Zero, size |-> 0,
           valid |-> FALSE, cs |-> Zero, pos |-> 0, dcs |-> Zero, item |-> 0, count |-> 0,
           cmd |-> "none"]

-----------------------------------------------------------------------------
(***************************************************************************)
(* The requests: the state that waits for the answer, and what is posted.   *)
(***************************************************************************)
DsStep(d, posts) == ds' = d /\ Handled(posts)

\* ds_AL_Read_req, ds_AL_Write_ds_cmd_req.
DsRead(d, state, what, arg) ==
  DsStep([d EXCEPT !.state = state], <<AlReq("DS", Op("read", what, arg))>>)
DsCommand(d, state, cmd) ==
  DsStep([d EXCEPT !.state = state, !.cmd = cmd], <<AlReq("DS", Op("write", "cmd", cmd))>>)

\* ds_ready; ds_fault for ID, SIZE and LOCK, and for UP and DOWN.
DsReady(d)        == DsStep([d EXCEPT !.state = "Waiting"], <<Job("DS_READY")>>)
DsFault(d, fault) == DsStep([d EXCEPT !.state = "Waiting", !.enable = @ /\ fault # "LOCK"],
                            <<JobArg("DS_FAULT", fault)>>)
DsBreak(d, fault) == DsCommand([d EXCEPT !.fault = fault], "DS_Fault", "BREAK")

\* ds_chk_id.
CheckIdentity(d) == IF d.id \in {"none", info.id}
                    THEN DsRead(d, "CheckIdentity", "size", 0) ELSE DsFault(d, "ID")

\* ds_chk_upload.
CheckUpload(d, flag, locked) ==
  IF locked THEN DsFault(d, "LOCK")
  ELSE IF flag /\ d.up THEN DsCommand(d, "CheckUpload", "UL_START")
  ELSE DsRead(d, "CheckUpload", "cs", 0)

\* Mutant: a valid set is taken for the device's.
CheckValidity_Trusts(d) ==
  IF ~d.valid THEN DsCommand(d, "CheckDSValidity", "UL_START") ELSE DsReady(d)

\* ds_chk_validity and ds_chk_csum.
CheckValidity(d) ==
  IF ~d.valid THEN DsCommand(d, "CheckDSValidity", "UL_START")
  ELSE IF d.down /\ d.cs # d.dcs THEN DsCommand(d, "DecomposeSet", "DL_START")
  ELSE DsReady(d)

\* ds_upload: the index list, and after it the parameters it names.
StartUpload(d) == DsRead([d EXCEPT !.pos = 0, !.item = 0], "ReadParameter", "list", 0)
\* Mutant: the last parameter of the list is not read.
NextUpload_StopsEarly(d) ==
  IF d.pos + 1 < d.count
  THEN DsRead([d EXCEPT !.pos = @ + 1, !.item = d.pos + 1], "ReadParameter", "par", d.pos + 1)
  ELSE DsRead([d EXCEPT !.size = d.pos], "StoreDataSet", "cs", 0)

NextUpload(d) ==
  IF d.pos < d.count
  THEN DsRead([d EXCEPT !.pos = @ + 1, !.item = d.pos + 1], "ReadParameter", "par", d.pos + 1)
  ELSE DsRead([d EXCEPT !.size = d.pos], "StoreDataSet", "cs", 0)

\* ds_decompose_set and ds_write_param: the request points into the data set.
NextDownload(d) ==
  IF d.pos >= d.size THEN DsCommand(d, "DownloadDone", "DL_END")
  ELSE DsStep([d EXCEPT !.state = "WriteParameter", !.pos = @ + 1],
              <<AlReq("DS", [Op("write", "par", d.pos + 1) EXCEPT !.val = d.set[d.pos + 1]])>>)

\* DS_EVENT_COM_ERR.  The states without a row ignore it.
DsComErr(d) ==
  CASE d.state \in {"ReadParameter", "StoreDataSet"}  -> DsBreak(d, "UP")
    [] d.state \in {"WriteParameter", "DownloadDone"} -> DsBreak(d, "DOWN")
    [] d.state = "DS_Fault"                           -> DsStep([d EXCEPT !.state = "Waiting"], <<>>)
    [] OTHER                                          -> DsStep(d, <<>>)

-----------------------------------------------------------------------------
(***************************************************************************)
(* ds_read_cnf_cb.  The confirmation points to the one buffer of AL: a      *)
(* later answer may have overwritten it, and then the bytes are read as     *)
(* what they are not.                                                      *)
(***************************************************************************)
Reads(kind, outcomes) == IF bufr[1] = kind THEN {bufr[2]} ELSE outcomes
Checksums == Reads("cs", {Junk})

DsListed(d)  == \E n \in Reads("list", {d.count}) : NextUpload([d EXCEPT !.count = n])
DsValue(d)   == \E v \in Reads("par", {<<"none", 1>>}) : NextUpload([d EXCEPT !.set[d.item] = v])

\* A checksum answer that is too short is a COM_ERR, and is used all the same.
StoreChecksum(c) ==
  \E cs \in Checksums :
    LET d == [ds EXCEPT !.dcs = cs, !.cmd = "UL_END"] IN
    IF c.len = "full" THEN DsCommand(d, "StoreDataSet", "UL_END")
    ELSE DsStep([d EXCEPT !.state = "DS_Fault", !.fault = "UP"],
                <<AlReq("DS", Op("write", "cmd", "BREAK")), AlReq("DS", Op("write", "cmd", "UL_END"))>>)
FinalChecksum(c) ==
  \E cs \in Checksums :
    LET d == [ds EXCEPT !.dcs = cs] IN
    IF c.len = "full" THEN DsReady(d) ELSE DsBreak(d, "DOWN")

ReadCnf(c) ==
  CASE c.err = "COM_ERR" -> DsComErr(ds)
    [] c.err # "COM_ERR" /\ ds.state = "CheckIdentity" ->
         IF c.err # "NONE" \/ c.len # "full" THEN DsFault(ds, "ID")
         ELSE \E big \in Reads("size", BOOLEAN) :
                IF big THEN DsFault(ds, "SIZE") ELSE DsRead(ds, "CheckMemSize", "state", 0)
    [] c.err # "COM_ERR" /\ ds.state = "CheckMemSize" ->
         IF c.err # "NONE" \/ c.len # "full" THEN DsFault(ds, "SIZE")
         ELSE \E p \in Reads("state", BOOLEAN \X BOOLEAN) : CheckUpload(ds, p[1], p[2])
    [] c.err # "COM_ERR" /\ ds.state = "ReadParameter" ->
         IF c.err # "NONE" THEN DsBreak(ds, "UP")
         ELSE IF ds.item = 0 THEN DsListed(ds) ELSE DsValue(ds)
    [] c.err # "COM_ERR" /\ ds.state = "CheckUpload" ->
         \E cs \in Checksums : CheckValidity([ds EXCEPT !.dcs = cs])
    [] c.err # "COM_ERR" /\ ds.state = "StoreDataSet" -> StoreChecksum(c)
    [] c.err # "COM_ERR" /\ ds.state = "DownloadDone" -> FinalChecksum(c)
    [] OTHER -> DsStep(ds, <<>>)

\* ds_write_cnf_cb.
WriteCnf(c) ==
  IF c.err # "NONE" THEN DsComErr(ds)
  ELSE CASE ds.state \in {"CheckUpload", "CheckDSValidity"} -> StartUpload(ds)
         [] ds.state = "WriteParameter" -> NextDownload(ds)
         [] ds.state = "StoreDataSet" ->
              DsReady([ds EXCEPT !.id = ds.pend, !.cs = ds.dcs, !.valid = TRUE])
         [] ds.state = "DecomposeSet" -> NextDownload([ds EXCEPT !.pos = 0])
         [] ds.state = "DownloadDone" -> DsRead(ds, "DownloadDone", "cs", 0)
         [] ds.state = "DS_Fault"     -> DsFault(ds, ds.fault)
         [] OTHER -> DsStep(ds, <<>>)

\* A refused read is confirmed with no data at all, which these states read nevertheless.
NullRead ==
  /\ Due("AL_CNF") /\ Head(jobs).who = "DS" /\ Head(jobs).rw = "read" /\ Head(jobs).err = "BUSY"
  /\ ds.state \in {"CheckUpload", "StoreDataSet", "DownloadDone"}

DS_ALCnf ==
  /\ Due("AL_CNF") /\ Head(jobs).who = "DS" /\ ~NullRead
  /\ IF Head(jobs).rw = "read" THEN ReadCnf(Head(jobs)) ELSE WriteCnf(Head(jobs))

-----------------------------------------------------------------------------
(***************************************************************************)
(* The jobs of CM and of AL's events.                                      *)
(***************************************************************************)
DS_Startup ==
  /\ Due("DS_STARTUP")
  /\ CASE ds.state = "Waiting" -> CheckIdentity(ds)
       [] ds.state = "Off"     -> DsStep(ds, <<Job("DS_READY")>>)
       [] OTHER                -> DsStep(ds, <<>>)

DS_Upload ==
  /\ Due("DS_UPLOAD")
  /\ IF ds.state = "Waiting" THEN CheckIdentity(ds) ELSE DsStep(ds, <<>>)

\* Mutant: the set stays valid.
DS_Delete_KeepsValid ==
  /\ Due("DS_DELETE")
  /\ DsStep(IF ds.state \in DsResting THEN [ds EXCEPT !.id = "none", !.cs = Zero, !.pos = 0]
            ELSE ds, <<>>)

\* ds_delete: the identity, the validity and the checksum go; the data stays.
DS_Delete ==
  /\ Due("DS_DELETE")
  /\ DsStep(IF ds.state \in DsResting
            THEN [ds EXCEPT !.id = "none", !.cs = Zero, !.valid = FALSE, !.pos = 0] ELSE ds, <<>>)

\* ds_init_cb and ds_reinit.
DS_Init ==
  /\ Due("DS_INIT")
  /\ LET cfg == DueArg("DS_INIT")
         up   == cfg.mode = "MAN" /\ cfg.val = "BAK_RESTORE"
         down == cfg.mode = "MAN" /\ cfg.val \in {"RESTORE", "BAK_RESTORE"}
         on   == ds.enable \/ down
     IN DsStep([ds EXCEPT !.up = up, !.down = down, !.fault = "NONE", !.enable = on,
                          !.pend = cfg.dev,
                          !.state = IF @ \in DsResting \cup {"CheckIdentity", "CheckMemSize"}
                                    THEN IF on THEN "Waiting" ELSE "Off"
                                    ELSE @], <<>>)

\* DS_Chk_Cfg, called by CM.
DS_ChkCfg(cfg) == ds.id # "none" /\ ds.id = cfg.dev

DS_Handler == /\ DS_ALCnf \/ DS_Startup \/ DS_Upload \/ DS_Delete \/ DS_Init
              /\ UNCHANGED <<dl, dev, bufr, faults, al, sm, info>>

\* al_read_write_cb, for whoever asked: a write of DS points into ds, where the value it
\* was asked with may have been replaced.
Resolved(j) ==
  CASE j.op.what = "cmd" -> [j.op EXCEPT !.arg = ds.cmd]
    [] j.op.what = "par" /\ j.op.rw = "write" -> [j.op EXCEPT !.val = ds.set[j.op.arg]]
    [] OTHER -> j.op

AL_Request == /\ Due("AL_REQ")
              /\ AL_ReadWrite(Resolved(Head(jobs)))
              /\ UNCHANGED <<dev, bufr, faults, sm, ds, info>>
=============================================================================
