-------------------------- MODULE ProcessData_proof --------------------------
(***************************************************************************)
(* Proofs about ProcessData, for any number of sessions and any length of   *)
(* the mailbox.                                                             *)
(*                                                                         *)
(* From a lost link to the next session there is one recovery, which is in  *)
(* one place at a time: the mode indication in the mailbox (Lost), CM's      *)
(* (Reported), the application's event (Told), its timer (Waiting), its     *)
(* retry (Retrying), the new configuration (Configured) and the startup.     *)
(* What is in the mailbox and in app_event on its way is what makes the      *)
(* input fresh and the outputs the session's own.                           *)
(***************************************************************************)
EXTENDS ProcessData, TLAPS

Recovery == {"DL_COMLOST", "SM_COMLOST", "CONFIG"}
Plain == \A i \in 1..Len(jobs) : jobs[i] \notin Recovery

\* No part of the recovery is with the application.
Quiet == "COMLOST" \notin ev \union cur /\ "RETRY_ESTCOM" \notin ev \union cur /\ ~timer
\* Nothing that was asked for in the last session is left.
Clear == pd.out = 0 /\ dev.out = 0 /\ code = "NONE" /\ ev = {} /\ cur = {} /\ ~timer

Starting == link \in {"startup", "preop", "ready"} /\ Clear /\ ~pde.oe
            /\ jobs = IF link = "preop" THEN <<"SM_PREOP">> ELSE <<>>
Operating == link = "operate" /\ Plain /\ Quiet
Lost == /\ link = "down" /\ Quiet
        /\ \E i \in 1..Len(jobs) :
             /\ jobs[i] = "DL_COMLOST"
             /\ \A j \in 1..Len(jobs) \ {i} :
                  jobs[j] \notin Recovery /\ (j > i => jobs[j] = "SM_OPERATE")
Reported == /\ link = "down" /\ Quiet
            /\ jobs # <<>> /\ jobs[Len(jobs)] = "SM_COMLOST"
            /\ \A j \in 1..Len(jobs) - 1 : jobs[j] = "SM_OPERATE"
Told == /\ link = "down" /\ jobs = <<>> /\ ~timer /\ "RETRY_ESTCOM" \notin ev \union cur
        /\ \/ "COMLOST" \in ev \ cur
           \/ "COMLOST" \in cur /\ ev = {}
Waiting == link = "down" /\ jobs = <<>> /\ timer /\ ev = {} /\ cur = {}
Retrying == /\ link = "down" /\ jobs = <<>> /\ ~timer /\ app = "WU_RETRY_WAIT_TSD"
            /\ \/ ev = {"RETRY_ESTCOM"} /\ cur = {}
               \/ ev = {} /\ cur = {"RETRY_ESTCOM"}
Configured == link = "down" /\ jobs = <<"CONFIG">> /\ Clear

OneRecovery == Starting \/ Operating \/ Lost \/ Reported \/ Told \/ Waiting \/ Retrying
               \/ Configured

\* What is on its way to generic_run is of this session.
Fresh == /\ ("PD" \in ev \union cur \/ \E i \in 1..Len(jobs) : jobs[i] = "PD_EVENT") => al = ses
         /\ run.pc # "none" => "PD" \in cur

\* The outputs, and the word that they are valid.
Outputs == /\ pd.out \in {0, ses} /\ dev.out \in {0, ses}
           /\ link # "operate" => dev.out = 0 /\ mh = "wait"
           /\ link = "operate" => tx.out \in {0, ses}
           /\ link = "operate" /\ pde.oe /\ ~race => dev.told \/ tx.valid \/ code = "PDOUTVALID"
           /\ mh # "wait" /\ tx.valid => dev.told

\* The control code and the command handler go together unless there is a race.
Commands == /\ run.pc = "control" => ~pde.oe
            /\ link = "operate" => cmd # "Inactive"
            /\ link = "operate" /\ ~race =>
                 /\ IF run.pc = "told" THEN code = "PDOUTVALID" /\ cmd = "Idle"
                    ELSE cmd = "Command" <=> code = "PDOUTVALID"
                 /\ ~pde.oe /\ run.pc # "told" => code = "NONE"

Inv == TypeOK /\ OneRecovery /\ Fresh /\ Outputs /\ Commands

-----------------------------------------------------------------------------
(* The mailbox as a sequence.                                               *)

\* The mailbox without its oldest job.
LEMMA Taken ==
  ASSUME jobs \in Seq(Jobs), jobs # <<>>
  PROVE  /\ Tail(jobs) \in Seq(Jobs) /\ Len(jobs) \in Nat \ {0} /\ Head(jobs) = jobs[1]
         /\ Len(Tail(jobs)) = Len(jobs) - 1
         /\ \A i \in 1..Len(jobs) - 1 : Tail(jobs)[i] = jobs[i + 1]
OBVIOUS

\* The mailbox with a job behind the others,
LEMMA Posted ==
  ASSUME NEW s \in Seq(Jobs), NEW e \in Jobs
  PROVE  /\ Append(s, e) \in Seq(Jobs) /\ Len(s) \in Nat /\ Len(Append(s, e)) = Len(s) + 1
         /\ Append(s, e)[Len(s) + 1] = e
         /\ \A i \in 1..Len(s) : Append(s, e)[i] = s[i]
OBVIOUS

\* and with two.
LEMMA PostedTwo ==
  ASSUME NEW s \in Seq(Jobs), NEW e \in Jobs, NEW f \in Jobs
  PROVE  /\ s \o <<e, f>> \in Seq(Jobs) /\ Len(s) \in Nat /\ Len(s \o <<e, f>>) = Len(s) + 2
         /\ (s \o <<e, f>>)[Len(s) + 1] = e /\ (s \o <<e, f>>)[Len(s) + 2] = f
         /\ \A i \in 1..Len(s) : (s \o <<e, f>>)[i] = s[i]
OBVIOUS

\* The steps, for the proofs by cases.
LEMMA Steps ==
  Next <=>
    \/ EnterPreop \/ EnterOperate \/ StartFails \/ Exchange \/ Answer \/ Prepare \/ LoseLink \/ ControlInd
    \/ PdEvent \/ ModeInd \/ CM_StartDs \/ CM_Operate \/ CM_Comlost \/ CM_Config \/ Take \/ PdOut
    \/ NoPdOut \/ PdIgnored \/ PdOutControl \/ PdOutTold \/ PdIn \/ PdInOut \/ PortEvent \/ RetryEstcom \/ Comlost \/ TsdTimer
BY DEF Next, DlThread, Startup, Master, Handler, Run

-----------------------------------------------------------------------------
(* Every variable stays in its domain.                                      *)

\* Every step keeps the types.
LEMMA TypeStep ==
  ASSUME TypeOK, [Next]_vars
  PROVE  TypeOK'
<1> USE DEF TypeOK, dlVars, amVars, hdVars, Jobs, Controls, Bits
<1>0. CASE UNCHANGED vars
  BY <1>0 DEF vars
<1>1. CASE EnterPreop
  BY <1>1, Posted DEF EnterPreop, Room
<1>2. CASE EnterOperate
  BY <1>2, Posted, BoundsAssumption DEF EnterOperate, Room
<1>3. CASE StartFails
  BY <1>3, Posted DEF StartFails, Room
<1>4. CASE Exchange
  BY <1>4 DEF Exchange
<1>5. CASE Answer
  BY <1>5, PostedTwo DEF Answer, Room
<1>6. CASE Prepare
  <2>1. PICK taken \in {FALSE, code = "PDOUTVALID"} :
          LET valid == taken /\ cmd = "Command"
          IN /\ tx' = [out |-> pd.out, valid |-> valid]
             /\ code' = IF valid THEN "NONE" ELSE code
             /\ cmd' = IF valid THEN "Idle" ELSE IF taken THEN "Command" ELSE cmd
    BY <1>6 DEF Prepare
  <2>2. pd.out \in 0..ses /\ code' \in {"NONE", "PDOUTVALID"} /\ cmd' \in {"Inactive", "Idle", "Command"}
    BY <2>1
  <2>3. (taken /\ cmd = "Command") \in BOOLEAN
    OBVIOUS
  <2>4. tx' \in [out : 0..ses, valid : BOOLEAN]
    BY <2>1, <2>2, <2>3, Zenon
  <2> QED
    BY <1>6, <2>2, <2>4 DEF Prepare
<1>7. CASE LoseLink
  BY <1>7, Posted DEF LoseLink, Room
<1>8. CASE ControlInd
  BY <1>8, Taken DEF ControlInd, Next_, Rest
<1>9. CASE PdEvent
  BY <1>9, Taken DEF PdEvent, Next_, Rest, Signal
<1>10. CASE ModeInd
  <2>1. \A e \in Jobs : Append(Tail(jobs), e) \in Seq(Jobs)
    BY <1>10, Taken, Posted DEF ModeInd, Next_
  <2>2. \E e \in {"SM_OPERATE", "SM_COMLOST"} : jobs' = Append(Tail(jobs), e)
    BY <1>10 DEF ModeInd
  <2>3. jobs' \in Seq(Jobs)
    BY <2>1, <2>2
  <2> QED
    BY <1>10, <2>3 DEF ModeInd
<1>11. CASE CM_StartDs
  BY <1>11, Taken DEF CM_StartDs, Next_, Rest
<1>12. CASE CM_Operate
  <2>1. ev' \subseteq Bits
    BY <1>12, Taken DEF CM_Operate, Next_, Rest, Signal
  <2>2. port' \in [status : {"DEACTIVATED", "PREOP", "OP", "NO_DEV"}, quality : Controls]
    BY <1>12, Taken DEF CM_Operate, Next_, Rest, Signal
  <2>3. pde' \in [active : BOOLEAN, oe : BOOLEAN]
    BY <1>12, Taken DEF CM_Operate, Next_, Rest, Signal
  <2>4. jobs' \in Seq(Jobs)
    BY <1>12, Taken DEF CM_Operate, Next_, Rest, Signal
  <2> QED
    BY <1>12, Taken, <2>1, <2>2, <2>3, <2>4 DEF CM_Operate, Next_, Rest, Signal
<1>13. CASE CM_Comlost
  <2>1. ev' \subseteq Bits
    BY <1>13, Taken DEF CM_Comlost, Next_, Rest, Signal
  <2>2. port' \in [status : {"DEACTIVATED", "PREOP", "OP", "NO_DEV"}, quality : Controls]
    BY <1>13, Taken DEF CM_Comlost, Next_, Rest, Signal
  <2>3. jobs' \in Seq(Jobs)
    BY <1>13, Taken DEF CM_Comlost, Next_, Rest, Signal
  <2> QED
    BY <1>13, Taken, <2>1, <2>2, <2>3 DEF CM_Comlost, Next_, Rest, Signal
<1>14. CASE CM_Config
  BY <1>14, Taken DEF CM_Config, Next_, Rest
<1>15. CASE Take
  BY <1>15 DEF Take
<1>16. CASE PdOut
  <2>1. run'.valid = FALSE /\ run'.pc \in {"control", "in"} /\ run' = [pc |-> run'.pc, valid |-> FALSE]
    BY <1>16 DEF PdOut
  <2>2. run' \in [pc : {"none", "control", "told", "in", "inout"}, valid : BOOLEAN]
    BY <2>1
  <2>3. pd' \in [state : {"Inactive", "Single"}, out : 0..ses]
    BY <1>16 DEF PdOut
  <2> QED
    BY <1>16, <2>1, <2>2, <2>3 DEF PdOut
<1>17. CASE NoPdOut
  BY <1>17 DEF NoPdOut
<1>18. CASE PdIgnored
  BY <1>18 DEF PdIgnored
<1>19. CASE PdOutControl
  BY SMTT(30), <1>19 DEF PdOutControl
<1>26. CASE PdOutTold
  <2>1. run' \in [pc : {"none", "control", "told", "in", "inout"}, valid : BOOLEAN]
    BY <1>26 DEF PdOutTold
  <2>2. pde' \in [active : BOOLEAN, oe : BOOLEAN]
    BY <1>26 DEF PdOutTold
  <2>3. code' \in {"NONE", "PDOUTVALID"} /\ cmd' \in {"Inactive", "Idle", "Command"}
    BY <1>26 DEF PdOutTold
  <2>4. tx' = tx \/ \E sent \in {FALSE, mh = "wait"} : tx' = [tx EXCEPT !.valid = @ \/ sent]
    BY <1>26 DEF PdOutTold
  <2>5. tx' \in [out : 0..ses, valid : BOOLEAN]
    BY <2>4
  <2> QED
    BY <1>26, <2>1, <2>2, <2>3, <2>5 DEF PdOutTold
<1>20. CASE PdIn
  BY <1>20 DEF PdIn
<1>21. CASE PdInOut
  BY <1>21 DEF PdInOut
<1>22. CASE PortEvent
  BY <1>22 DEF PortEvent
<1>23. CASE RetryEstcom
  <2>0. Append(jobs, "CONFIG") \in Seq(Jobs)
    BY Posted
  <2>1. jobs' \in Seq(Jobs)
    BY <1>23, <2>0 DEF RetryEstcom
  <2>2. cur' \subseteq Bits
    BY <1>23, Posted DEF RetryEstcom, Room
  <2>3. pd' \in [state : {"Inactive", "Single"}, out : 0..ses]
    BY <1>23, Posted DEF RetryEstcom, Room
  <2> QED
    BY <1>23, Posted, <2>1, <2>2, <2>3 DEF RetryEstcom, Room
<1>24. CASE Comlost
  <2>1. ev' \subseteq Bits /\ cur' \subseteq Bits
    BY <1>24 DEF Comlost
  <2>2. timer' \in BOOLEAN
    BY <1>24, Zenon DEF Comlost
  <2> QED
    BY <1>24, <2>1, <2>2 DEF Comlost
<1>25. CASE TsdTimer
  <2>1. ev' \subseteq Bits
    BY <1>25 DEF TsdTimer
  <2>2. timer' \in BOOLEAN
    BY <1>25, Zenon DEF TsdTimer
  <2> QED
    BY <1>25, <2>1, <2>2 DEF TsdTimer
<1> QED
  BY <1>0, <1>1, <1>2, <1>3, <1>4, <1>5, <1>6, <1>7, <1>8, <1>9, <1>10, <1>11, <1>12, <1>13, <1>14, <1>15, <1>16, <1>17, <1>18, <1>19, <1>20, <1>21, <1>22, <1>23, <1>24, <1>25, <1>26, Steps
-----------------------------------------------------------------------------
(* The recovery is in one place.                                             *)

\* CM and SM take a job that is not part of the recovery.
LEMMA TakenKeeps ==
  ASSUME TypeOK, OneRecovery, ~Starting, jobs # <<>>, Head(jobs) \notin Recovery,
         jobs' = Tail(jobs), link' = link, Quiet => Quiet'
  PROVE  OneRecovery'
<1>1. jobs \in Seq(Jobs)
  BY DEF TypeOK
<1>2. Operating \/ Lost \/ Reported
  BY DEF OneRecovery, Told, Waiting, Retrying, Configured, Recovery
<1>3. CASE Operating
  BY <1>1, <1>3, Taken DEF Operating, OneRecovery, Plain
<1>4. CASE Lost
  <2>1. PICK i \in 1..Len(jobs) :
           /\ jobs[i] = "DL_COMLOST"
           /\ \A j \in 1..Len(jobs) \ {i} :
                jobs[j] \notin Recovery /\ (j > i => jobs[j] = "SM_OPERATE")
    BY <1>4 DEF Lost
  <2>2. i # 1 /\ i - 1 \in 1..Len(Tail(jobs)) /\ Tail(jobs)[i - 1] = "DL_COMLOST"
    BY <1>1, <2>1, Taken DEF Recovery
  <2>3. ASSUME NEW j \in 1..Len(Tail(jobs)) \ {i - 1}
        PROVE  Tail(jobs)[j] \notin Recovery /\ (j > i - 1 => Tail(jobs)[j] = "SM_OPERATE")
    BY <1>1, <2>1, <2>2, Taken
  <2> QED
    BY <1>4, <2>2, <2>3 DEF Lost, OneRecovery
<1>5. CASE Reported
  <2>1. Len(jobs) # 1 /\ jobs[Len(jobs)] = "SM_COMLOST"
    BY <1>1, <1>5, Taken DEF Reported, Recovery
  <2>2. Len(Tail(jobs)) \in Nat \ {0} /\ Tail(jobs)[Len(Tail(jobs))] = "SM_COMLOST"
    BY <1>1, <2>1, Taken
  <2>3. Tail(jobs) # <<>>
    <3>1. Len(<<>>) = 0
      OBVIOUS
    <3> QED
      BY <2>2, <3>1
  <2>4. \A j \in 1..Len(Tail(jobs)) - 1 : Tail(jobs)[j] = "SM_OPERATE"
    BY <1>1, <1>5, Taken DEF Reported
  <2> QED
    BY <1>5, <2>2, <2>3, <2>4 DEF Reported, OneRecovery
<1> QED
  BY <1>2, <1>3, <1>4, <1>5

\* The application ends with its process data or with a change of the port's status.
LEMMA HandledKeeps ==
  ASSUME OneRecovery, cur \intersect {"PD", "PORTE"} # {},
         cur' \subseteq cur, cur \ cur' \subseteq {"PD", "PORTE"},
         ev' = ev, timer' = timer, link' = link, jobs' = jobs
  PROVE  OneRecovery'
<1>1. Operating \/ Lost \/ Reported \/ Told
  BY DEF OneRecovery, Starting, Waiting, Retrying, Configured, Clear
<1>2. Quiet => Quiet'
  BY DEF Quiet
<1>3. Operating \/ Lost \/ Reported => OneRecovery'
  BY <1>2 DEF Operating, Lost, Reported, OneRecovery, Plain
<1>4. Told => Told'
  BY DEF Told
<1> QED
  BY <1>1, <1>3, <1>4 DEF OneRecovery

\* Every step keeps the recovery in one place.
LEMMA RecoveryStep ==
  ASSUME TypeOK, OneRecovery, Fresh, Outputs, [Next]_vars
  PROVE  OneRecovery'
<1> USE DEF dlVars, amVars, hdVars
<1>0. jobs \in Seq(Jobs)
  BY DEF TypeOK
<1>1. CASE EnterPreop
  <2>1. Starting /\ jobs = <<>>
    BY <1>1 DEF EnterPreop, OneRecovery, Starting, Operating, Lost, Reported, Told, Waiting, Retrying, Configured
  <2>2. jobs' = <<"SM_PREOP">>
    BY <1>1, <2>1 DEF EnterPreop
  <2> QED
    BY <1>1, <2>1, <2>2 DEF EnterPreop, OneRecovery, Starting, Clear
<1>2. CASE EnterOperate
  <2>1. Starting /\ jobs = <<>>
    BY <1>2 DEF EnterOperate, OneRecovery, Starting, Operating, Lost, Reported, Told, Waiting, Retrying, Configured
  <2>2. jobs' = <<"DL_OPERATE">>
    BY <1>2, <2>1 DEF EnterOperate
  <2>3. Plain'
    BY <2>2 DEF Plain, Recovery
  <2> QED
    BY <1>2, <2>1, <2>3 DEF EnterOperate, OneRecovery, Starting, Operating, Clear, Quiet
<1>3. CASE StartFails
  <2>1. Starting
    BY <1>3 DEF StartFails, OneRecovery, Operating, Lost, Reported, Told, Waiting, Retrying, Configured
  <2>2. jobs' = Append(jobs, "DL_COMLOST") /\ \A j \in 1..Len(jobs) : jobs[j] = "SM_PREOP"
    BY <1>3, <2>1 DEF StartFails, Starting
  <2>3. /\ Len(jobs') = Len(jobs) + 1 /\ Len(jobs) \in Nat /\ jobs'[Len(jobs) + 1] = "DL_COMLOST"
        /\ \A j \in 1..Len(jobs) : jobs'[j] = "SM_PREOP"
    BY <1>0, <2>2, Posted DEF Jobs
  <2>4. Quiet'
    BY <1>3, <2>1 DEF StartFails, Starting, Clear, Quiet
  <2>5. Lost'
    BY <1>3, <2>3, <2>4 DEF StartFails, Lost, Recovery
  <2> QED
    BY <2>5 DEF OneRecovery
<1>4. CASE Exchange \/ Answer \/ Prepare
  <2>1. Operating
    BY <1>4 DEF Exchange, Answer, Prepare, Outputs, OneRecovery, Starting, Lost, Reported, Told, Waiting, Retrying, Configured
  <2>2. link' = link /\ Quiet'
    BY <1>4, <2>1 DEF Exchange, Answer, Prepare, Operating, Quiet
  <2>3. CASE Answer
    <3>1. PICK v \in Controls : jobs' = jobs \o <<v, "PD_EVENT">>
      BY <2>3 DEF Answer
    <3>2. Plain'
      BY <1>0, <2>1, <3>1, PostedTwo DEF Operating, Plain, Recovery, Controls, Jobs
    <3> QED
      BY <2>1, <2>2, <3>2 DEF Operating, OneRecovery
  <2>4. CASE Exchange \/ Prepare
    BY <2>1, <2>2, <2>4 DEF Exchange, Prepare, Operating, Plain, OneRecovery
  <2> QED
    BY <1>4, <2>3, <2>4
<1>5. CASE LoseLink
  <2>1. Operating
    BY <1>5 DEF LoseLink, OneRecovery, Starting, Lost, Reported, Told, Waiting, Retrying, Configured
  <2>2. /\ Len(jobs') = Len(jobs) + 1 /\ Len(jobs) \in Nat /\ jobs'[Len(jobs) + 1] = "DL_COMLOST"
        /\ \A j \in 1..Len(jobs) : jobs'[j] \notin Recovery
    BY <1>0, <1>5, <2>1, Posted DEF LoseLink, Operating, Plain, Jobs
  <2>3. Lost'
    BY <1>5, <2>1, <2>2 DEF LoseLink, Operating, Lost, Quiet
  <2> QED
    BY <2>3 DEF OneRecovery
<1>6. CASE ControlInd
  <2>1. Quiet => Quiet'
    BY <1>6 DEF ControlInd, Quiet
  <2>2. ~Starting
    BY <1>6 DEF ControlInd, Next_, Starting, Controls
  <2> QED
    BY <1>6, <2>1, <2>2, TakenKeeps DEF ControlInd, Next_, Rest, Controls, Recovery
<1>7. CASE PdEvent
  <2>1. Quiet => Quiet'
    BY <1>7 DEF PdEvent, Signal, Quiet
  <2>2. ~Starting
    BY <1>7 DEF PdEvent, Next_, Starting
  <2> QED
    BY <1>7, <2>1, <2>2, TakenKeeps DEF PdEvent, Next_, Rest, Signal, Recovery
<1>8. CASE CM_Operate
  <2>1. Quiet => Quiet'
    BY <1>8 DEF CM_Operate, Signal, Quiet
  <2>2. ~Starting
    BY <1>8 DEF CM_Operate, Next_, Starting
  <2> QED
    BY <1>8, <2>1, <2>2, TakenKeeps DEF CM_Operate, Next_, Rest, Signal, Recovery
<1>9. CASE CM_StartDs
  <2>1. CASE Starting
    <3>1. link = "preop" /\ jobs' = <<>>
      BY <1>9, <2>1 DEF CM_StartDs, Next_, Rest, Starting
    <3> QED
      BY <1>9, <2>1, <3>1 DEF CM_StartDs, Starting, Clear, OneRecovery
  <2>2. CASE ~Starting
    <3>1. link' = link
      BY <1>9, <2>2 DEF CM_StartDs, OneRecovery, Operating, Lost, Reported, Told, Waiting, Retrying, Configured
    <3> QED
      BY <1>9, <2>2, <3>1, TakenKeeps DEF CM_StartDs, Next_, Rest, Quiet, Recovery
  <2> QED
    BY <2>1, <2>2
<1>10. CASE ModeInd
  <2>1. jobs # <<>> /\ Len(jobs) \in Nat \ {0} /\ Head(jobs) = jobs[1] /\ Tail(jobs) \in Seq(Jobs)
    BY <1>0, <1>10, Taken DEF ModeInd, Next_
  <2>2. CASE Next_("DL_OPERATE") /\ jobs' = Append(Tail(jobs), "SM_OPERATE")
    <3>1. Operating \/ Lost
      BY <2>1, <2>2 DEF Next_, OneRecovery, Starting, Reported, Told, Waiting, Retrying, Configured
    <3>2. link' = link /\ (Quiet => Quiet')
      BY <1>10 DEF ModeInd, Quiet
    <3>3. /\ Len(jobs') = Len(jobs) /\ jobs'[Len(jobs)] = "SM_OPERATE"
          /\ \A i \in 1..Len(jobs) - 1 : jobs'[i] = jobs[i + 1]
      BY <1>0, <2>1, <2>2, Taken, Posted DEF Jobs
    <3>4. CASE Operating
      <4>1. Plain'
        BY <2>1, <3>3, <3>4 DEF Operating, Plain, Recovery
      <4> QED
        BY <3>2, <3>4, <4>1 DEF Operating, OneRecovery
    <3>5. CASE Lost
      <4>1. PICK i \in 1..Len(jobs) :
               /\ jobs[i] = "DL_COMLOST"
               /\ \A j \in 1..Len(jobs) \ {i} :
                    jobs[j] \notin Recovery /\ (j > i => jobs[j] = "SM_OPERATE")
        BY <3>5 DEF Lost
      <4>2. i # 1 /\ i - 1 \in 1..Len(jobs') /\ jobs'[i - 1] = "DL_COMLOST"
        BY <2>1, <2>2, <3>3, <4>1 DEF Next_
      <4>3. ASSUME NEW j \in 1..Len(jobs') \ {i - 1}
            PROVE  jobs'[j] \notin Recovery /\ (j > i - 1 => jobs'[j] = "SM_OPERATE")
        <5>1. CASE j = Len(jobs)
          BY <3>3, <5>1 DEF Recovery
        <5>2. CASE j # Len(jobs)
          BY <2>1, <3>3, <4>1, <4>2, <5>2
        <5> QED
          BY <5>1, <5>2
      <4> QED
        BY <3>2, <3>5, <4>2, <4>3 DEF Lost, OneRecovery
    <3> QED
      BY <3>1, <3>4, <3>5
  <2>3. CASE Next_("DL_COMLOST") /\ jobs' = Append(Tail(jobs), "SM_COMLOST")
    <3>1. Lost
      BY <2>1, <2>3 DEF Next_, OneRecovery, Starting, Operating, Plain, Recovery, Reported, Told, Waiting, Retrying, Configured
    <3>2. link' = link /\ (Quiet => Quiet')
      BY <1>10 DEF ModeInd, Quiet
    <3>3. \A j \in 1..Len(jobs) \ {1} : jobs[j] = "SM_OPERATE"
      BY <2>1, <2>3, <3>1 DEF Next_, Lost, Recovery
    <3>4. /\ Len(jobs') = Len(jobs) /\ jobs'[Len(jobs)] = "SM_COMLOST"
          /\ \A j \in 1..Len(jobs) - 1 : jobs'[j] = jobs[j + 1]
      BY <1>0, <2>1, <2>3, Taken, Posted DEF Jobs
    <3>5. jobs' # <<>> /\ \A j \in 1..Len(jobs) - 1 : jobs'[j] = "SM_OPERATE"
      BY <2>1, <3>3, <3>4
    <3>6. Reported'
      BY <3>1, <3>2, <3>4, <3>5 DEF Lost, Reported
    <3> QED
      BY <3>6 DEF OneRecovery
  <2> QED
    BY <1>10, <2>2, <2>3 DEF ModeInd
<1>11. CASE CM_Comlost
  <2>1. Len(jobs) \in Nat \ {0} /\ jobs[1] = "SM_COMLOST"
    BY <1>0, <1>11, Taken DEF CM_Comlost, Next_
  <2>2. Reported /\ Len(jobs) = 1
    <3>1. Reported
      BY <1>11, <2>1 DEF CM_Comlost, Next_, OneRecovery, Starting, Operating, Plain, Recovery, Lost, Told, Waiting, Retrying, Configured
    <3>2. ASSUME Len(jobs) - 1 >= 1 PROVE FALSE
      <4>1. 1 \in 1..Len(jobs) - 1
        BY <2>1, <3>2
      <4> QED
        BY <2>1, <3>1, <4>1 DEF Reported
    <3>3. Len(jobs) = 1
      BY SMTT(30), <2>1, <3>2
    <3> QED
      BY <3>1, <3>3
  <2>3. jobs' = <<>>
    BY <1>0, <1>11, <2>2, Taken DEF CM_Comlost, Rest
  <2> QED
    BY <1>11, <2>2, <2>3 DEF CM_Comlost, Signal, Reported, Quiet, Told, OneRecovery
<1>12. CASE CM_Config
  <2>1. Len(jobs) \in Nat \ {0} /\ jobs[1] = "CONFIG"
    BY <1>0, <1>12, Taken DEF CM_Config, Next_
  <2>2. Configured
    BY <1>12, <2>1 DEF CM_Config, Next_, OneRecovery, Starting, Operating, Plain, Recovery, Lost, Reported, Told, Waiting, Retrying
  <2>3. jobs' = <<>> /\ link' = "startup" /\ pde'.oe = FALSE
    BY <1>12, <2>2 DEF CM_Config, Rest, Configured
  <2>4. Clear'
    BY <1>12, <2>2 DEF CM_Config, Configured, Clear
  <2> QED
    BY <2>3, <2>4 DEF Starting, OneRecovery
<1>13. CASE Take
  <2>1. Operating \/ Lost \/ Reported \/ Told \/ Retrying
    BY <1>13 DEF Take, OneRecovery, Starting, Waiting, Configured, Clear
  <2>2. Quiet => Quiet'
    BY <1>13 DEF Take, Quiet
  <2>3. Operating \/ Lost \/ Reported => OneRecovery'
    BY <1>13, <2>2 DEF Take, Operating, Lost, Reported, OneRecovery, Plain
  <2>4. (Told => Told') /\ (Retrying => Retrying')
    BY <1>13 DEF Take, Told, Retrying
  <2> QED
    BY <2>1, <2>3, <2>4 DEF OneRecovery
<1>14. CASE PdOut \/ NoPdOut \/ PdIgnored \/ PdOutControl \/ PdOutTold \/ PdIn \/ PdInOut
  <2>1. "PD" \in cur /\ cur' \subseteq cur /\ cur \ cur' \subseteq {"PD"}
    BY <1>14 DEF PdOut, NoPdOut, PdIgnored, PdOutControl, PdOutTold, PdIn, PdInOut, Fresh
  <2>2. ev' = ev /\ timer' = timer /\ link' = link /\ jobs' = jobs
    BY <1>14 DEF PdOut, NoPdOut, PdIgnored, PdOutControl, PdOutTold, PdIn, PdInOut
  <2> QED
    BY <2>1, <2>2, HandledKeeps
<1>15. CASE PortEvent
  BY <1>15, HandledKeeps DEF PortEvent
<1>16. CASE RetryEstcom
  <2>1. Retrying
    BY <1>16 DEF RetryEstcom, OneRecovery, Starting, Operating, Lost, Reported, Told, Waiting, Configured, Quiet, Clear
  <2>2. ev = {} /\ cur = {"RETRY_ESTCOM"}
    BY <1>16, <2>1 DEF RetryEstcom, Retrying
  <2>3. jobs' = <<"CONFIG">> /\ pd'.out = 0 /\ code' = "NONE" /\ link' = "down" /\ cur' = {} /\ ev' = {} /\ ~timer'
    BY <1>16, <2>1, <2>2 DEF RetryEstcom, Retrying
  <2>4. dev'.out = 0
    BY <1>16, <2>1 DEF RetryEstcom, Retrying, Outputs
  <2> QED
    BY <2>3, <2>4 DEF Configured, Clear, OneRecovery
<1>17. CASE Comlost
  <2>1. Told /\ ev = {}
    BY <1>17 DEF Comlost, OneRecovery, Starting, Operating, Lost, Reported, Told, Waiting, Retrying, Configured, Quiet, Clear
  <2>2. CASE app = "STARTING"
    BY <1>17, <2>1, <2>2 DEF Comlost, Told, Waiting, OneRecovery
  <2>3. CASE app # "STARTING"
    BY <1>17, <2>1, <2>3 DEF Comlost, Told, Retrying, OneRecovery
  <2> QED
    BY <2>2, <2>3
<1>18. CASE TsdTimer
  <2>1. Waiting
    BY <1>18 DEF TsdTimer, OneRecovery, Starting, Operating, Lost, Reported, Told, Retrying, Configured, Quiet, Clear
  <2> QED
    BY <1>18, <2>1 DEF TsdTimer, Waiting, Retrying, OneRecovery
<1>19. CASE UNCHANGED vars
  BY <1>19 DEF vars, OneRecovery, Starting, Operating, Lost, Reported, Told, Waiting, Retrying, Configured, Quiet, Clear, Plain
<1> QED
  BY <1>1, <1>2, <1>3, <1>4, <1>5, <1>6, <1>7, <1>8, <1>9, <1>10, <1>11, <1>12, <1>13, <1>14,
     <1>15, <1>16, <1>17, <1>18, <1>19, Steps

-----------------------------------------------------------------------------
(* What is on its way is of this session.                                    *)

\* Every step keeps the input of the session.
LEMMA FreshStep ==
  ASSUME TypeOK, OneRecovery, Fresh, Outputs, [Next]_vars
  PROVE  Fresh'
<1> USE DEF dlVars, amVars, hdVars
<1> DEFINE Asked == "PD" \in ev \union cur \/ \E i \in 1..Len(jobs) : jobs[i] = "PD_EVENT"
<1>0. jobs \in Seq(Jobs)
  BY DEF TypeOK
<1>1. CASE EnterOperate
  <2>1. Starting /\ jobs = <<>>
    BY <1>1 DEF EnterOperate, OneRecovery, Starting, Operating, Lost, Reported, Told, Waiting, Retrying, Configured
  <2>2. jobs' = <<"DL_OPERATE">> /\ ev' = {} /\ cur' = {} /\ run' = run /\ cur = {}
    BY <1>1, <2>1 DEF EnterOperate, Starting, Clear
  <2> QED
    BY <2>2 DEF Fresh
<1>2. CASE Answer
  BY <1>2 DEF Answer, Fresh
<1>3. CASE EnterPreop \/ StartFails \/ LoseLink
  <2>1. \E e \in {"SM_PREOP", "DL_COMLOST"} : jobs' = Append(jobs, e)
    BY <1>3 DEF EnterPreop, StartFails, LoseLink
  <2>2. (\E i \in 1..Len(jobs') : jobs'[i] = "PD_EVENT") => \E i \in 1..Len(jobs) : jobs[i] = "PD_EVENT"
    BY <1>0, <2>1, Posted DEF Jobs
  <2> QED
    BY <1>3, <2>2 DEF EnterPreop, StartFails, LoseLink, Fresh
<1>4. CASE Exchange \/ Prepare \/ NoPdOut \/ PdIgnored \/ PdOut \/ PdOutControl \/ PdOutTold \/ PdIn \/ PdInOut \/ PortEvent \/ Take \/ Comlost \/ TsdTimer
  <2>0. PdOutTold => ev' = ev /\ cur' = cur /\ run.pc # "none"
    BY DEF PdOutTold
  <2>1. jobs' = jobs /\ al' = al /\ ses' = ses
    BY <1>4 DEF Exchange, Prepare, NoPdOut, PdIgnored, PdOut, PdOutControl, PdOutTold, PdIn, PdInOut, PortEvent, Take, Comlost, TsdTimer
  <2>2. "PD" \in ev' \union cur' => "PD" \in ev \union cur
    BY <1>4, <2>0 DEF Exchange, Prepare, NoPdOut, PdIgnored, PdOut, PdOutControl, PdIn, PdInOut, PortEvent, Take, Comlost, TsdTimer
  <2>3. run'.pc # "none" => "PD" \in cur'
    BY <1>4, <2>0 DEF Exchange, Prepare, NoPdOut, PdIgnored, PdOut, PdOutControl, PdIn, PdInOut, PortEvent, Take, Comlost, TsdTimer, Fresh
  <2> QED
    BY <2>1, <2>2, <2>3 DEF Fresh
<1>5. CASE ControlInd \/ PdEvent \/ CM_StartDs \/ CM_Operate \/ CM_Comlost \/ CM_Config
  <2>1. jobs # <<>> /\ jobs' = Tail(jobs) /\ al' = al /\ ses' = ses /\ cur' = cur /\ run' = run
    BY <1>5 DEF ControlInd, PdEvent, CM_StartDs, CM_Operate, CM_Comlost, CM_Config, Next_, Rest, Signal
  <2>2. "PD" \in ev' => "PD" \in ev \/ jobs[1] = "PD_EVENT"
    BY <1>0, <1>5, <2>1, Taken DEF ControlInd, PdEvent, CM_StartDs, CM_Operate, CM_Comlost, CM_Config, Next_, Signal
  <2>3. (\E i \in 1..Len(jobs') : jobs'[i] = "PD_EVENT") => \E i \in 1..Len(jobs) : jobs[i] = "PD_EVENT"
    BY <1>0, <2>1, Taken
  <2>4. 1 \in 1..Len(jobs)
    BY <1>0, <2>1, Taken
  <2> QED
    BY <2>1, <2>2, <2>3, <2>4 DEF Fresh
<1>6. CASE ModeInd
  <2>1. jobs # <<>> /\ \E e \in {"SM_OPERATE", "SM_COMLOST"} : jobs' = Append(Tail(jobs), e)
    BY <1>6 DEF ModeInd, Next_
  <2>2. PICK e \in {"SM_OPERATE", "SM_COMLOST"} : jobs' = Append(Tail(jobs), e)
    BY <2>1
  <2>3. /\ Len(jobs') = Len(jobs) /\ Len(jobs) \in Nat \ {0} /\ jobs'[Len(jobs)] = e
        /\ \A i \in 1..Len(jobs) - 1 : jobs'[i] = jobs[i + 1]
    BY <1>0, <2>1, <2>2, Taken, Posted DEF Jobs
  <2>4. ASSUME NEW i \in 1..Len(jobs'), jobs'[i] = "PD_EVENT"
        PROVE  \E k \in 1..Len(jobs) : jobs[k] = "PD_EVENT"
    <3>1. i # Len(jobs)
      BY <2>2, <2>3, <2>4
    <3> QED
      BY <2>3, <2>4, <3>1
  <2> QED
    BY <1>6, <2>4 DEF ModeInd, Fresh
<1>7. CASE RetryEstcom
  <2>1. cur' \subseteq cur /\ ("PD" \in cur => "PD" \in cur') /\ ev' = ev /\ al' = al /\ ses' = ses /\ run' = run
    BY <1>7 DEF RetryEstcom
  <2>2. jobs' = jobs \/ jobs' = Append(jobs, "CONFIG")
    BY <1>7 DEF RetryEstcom
  <2>3. (\E i \in 1..Len(jobs') : jobs'[i] = "PD_EVENT") => \E i \in 1..Len(jobs) : jobs[i] = "PD_EVENT"
    BY <1>0, <2>2, Posted DEF Jobs
  <2> QED
    BY <2>1, <2>3 DEF Fresh
<1>8. CASE UNCHANGED vars
  BY <1>8 DEF vars, Fresh
<1> QED
  BY <1>1, <1>2, <1>3, <1>4, <1>5, <1>6, <1>7, <1>8, Steps

-----------------------------------------------------------------------------
(* The outputs are the session's, and the device knows of them.               *)

\* Every step keeps the outputs of the session.
LEMMA OutputsStep ==
  ASSUME TypeOK, OneRecovery, Fresh, Outputs, Commands, [Next]_vars
  PROVE  Outputs'
<1> USE DEF dlVars, amVars, hdVars
<1>1. CASE EnterOperate
  <2>1. Starting
    BY <1>1 DEF EnterOperate, OneRecovery, Operating, Lost, Reported, Told, Waiting, Retrying, Configured
  <2> QED
    BY <1>1, <2>1 DEF EnterOperate, Starting, Clear, Outputs, TypeOK
<1>2. CASE EnterPreop \/ StartFails \/ LoseLink
  BY <1>2 DEF EnterPreop, StartFails, LoseLink, Outputs, TypeOK
<1>3. CASE Exchange
  BY <1>3 DEF Exchange, Outputs, TypeOK
<1>4. CASE Answer
  BY <1>4 DEF Answer, Outputs
<1>5. CASE Prepare
  <2>1. PICK taken \in {FALSE, code = "PDOUTVALID"} :
          LET valid == taken /\ cmd = "Command"
          IN tx' = [out |-> pd.out, valid |-> valid] /\ code' = IF valid THEN "NONE" ELSE code
    BY <1>5 DEF Prepare
  <2>2. tx'.out = pd.out /\ (tx'.valid \/ code' = "PDOUTVALID" \/ code # "PDOUTVALID")
    BY <2>1
  <2>3. mh = "prepare" /\ mh' = "wait" /\ link = "operate"
    BY <1>5 DEF Prepare, Outputs
  <2> QED
    BY <1>5, <2>2, <2>3 DEF Prepare, Outputs
<1>6. CASE CM_StartDs
  BY <1>6 DEF CM_StartDs, Outputs
<1>7. CASE CM_Operate \/ CM_Config
  <2>1. CM_Config => link # "operate"
    BY DEF CM_Config, Next_, OneRecovery, Starting, Operating, Plain, Recovery, Lost, Reported, Told, Waiting, Retrying, Configured
  <2> QED
    BY <1>7, <2>1 DEF CM_Operate, CM_Config, Signal, Outputs, TypeOK
<1>8. CASE ControlInd \/ PdEvent \/ ModeInd \/ CM_Comlost
  BY <1>8 DEF ControlInd, PdEvent, ModeInd, CM_Comlost, Signal, Outputs
<1>9. CASE Take \/ NoPdOut \/ PdIgnored \/ PdIn \/ PdInOut \/ PortEvent \/ Comlost \/ TsdTimer
  BY <1>9 DEF Take, NoPdOut, PdIgnored, PdIn, PdInOut, PortEvent, Comlost, TsdTimer, Outputs
<1>10. CASE PdOut
  BY <1>10 DEF PdOut, Outputs, TypeOK
<1>11. CASE PdOutControl
  BY <1>11 DEF PdOutControl, Outputs
<1>14. CASE PdOutTold
  <2>1. tx' = tx \/ \E sent \in {FALSE, mh = "wait"} : tx' = [tx EXCEPT !.valid = @ \/ sent]
    BY <1>14 DEF PdOutTold, TypeOK
  <2>2. tx'.out = tx.out /\ (mh # "wait" => tx'.valid = tx.valid)
    BY <2>1 DEF TypeOK
  <2>3. link = "operate" /\ ~race => code' = "PDOUTVALID"
    BY <1>14 DEF PdOutTold, Commands
  <2> QED
    BY <1>14, <2>2, <2>3 DEF PdOutTold, Outputs
<1>12. CASE RetryEstcom
  <2>1. Retrying
    BY <1>12 DEF RetryEstcom, OneRecovery, Starting, Operating, Lost, Reported, Told, Waiting, Configured, Quiet, Clear
  <2> QED
    BY <1>12, <2>1 DEF RetryEstcom, Retrying, Outputs
<1>13. CASE UNCHANGED vars
  BY <1>13 DEF vars, Outputs
<1> QED
  BY <1>1, <1>2, <1>3, <1>4, <1>5, <1>6, <1>7, <1>8, <1>9, <1>10, <1>11, <1>12, <1>13, <1>14, Steps

-----------------------------------------------------------------------------
(* The command of the outputs is sent.                                        *)

\* Every step keeps the command on its way.
LEMMA CommandsStep ==
  ASSUME TypeOK, OneRecovery, Fresh, Commands, [Next]_vars
  PROVE  Commands'
<1> USE DEF dlVars, amVars, hdVars
<1>1. CASE EnterOperate
  <2>1. Starting
    BY <1>1 DEF EnterOperate, OneRecovery, Operating, Lost, Reported, Told, Waiting, Retrying, Configured
  <2>2. code = "NONE" /\ run.pc = "none"
    BY <2>1 DEF Starting, Clear, Fresh
  <2> QED
    BY <1>1, <2>2 DEF EnterOperate, Commands
<1>2. CASE EnterPreop \/ StartFails \/ LoseLink \/ RetryEstcom
  <2>1. link' # "operate"
    <3>1. RetryEstcom => link # "operate"
      BY DEF RetryEstcom, OneRecovery, Starting, Operating, Lost, Reported, Told, Waiting, Retrying, Configured, Quiet
    <3> QED
      BY <1>2, <3>1 DEF EnterPreop, StartFails, LoseLink, RetryEstcom
  <2> QED
    BY <1>2, <2>1 DEF EnterPreop, StartFails, LoseLink, RetryEstcom, Commands
<1>3. CASE Exchange \/ Answer \/ ControlInd \/ PdEvent \/ ModeInd \/ CM_Operate \/ CM_Comlost \/ Take
           \/ PdIgnored \/ PortEvent \/ Comlost \/ TsdTimer \/ CM_StartDs
  BY <1>3 DEF Exchange, Answer, ControlInd, PdEvent, ModeInd, CM_Operate, CM_Comlost, Take, PdIgnored,
              PortEvent, Comlost, TsdTimer, CM_StartDs, Signal, Commands, TypeOK
<1>4. CASE Prepare
  <2>1. PICK taken \in {FALSE, code = "PDOUTVALID"} :
          LET valid == taken /\ cmd = "Command"
          IN /\ code' = IF valid THEN "NONE" ELSE code
             /\ cmd' = IF valid THEN "Idle" ELSE IF taken THEN "Command" ELSE cmd
    BY <1>4 DEF Prepare
  <2> QED
    BY <1>4, <2>1 DEF Prepare, Commands
<1>5. CASE CM_Config
  <2>1. link' # "operate" /\ ~pde'.oe
    BY <1>5 DEF CM_Config
  <2> QED
    BY <2>1 DEF Commands
<1>6. CASE PdOut
  BY <1>6 DEF PdOut, Commands
<1>7. CASE NoPdOut \/ PdIn \/ PdInOut
  BY <1>7 DEF NoPdOut, PdIn, PdInOut, Commands
<1>8. CASE PdOutControl
  BY <1>8 DEF PdOutControl, Commands, TypeOK
<1>9. CASE PdOutTold
  BY <1>9 DEF PdOutTold, Commands, TypeOK
<1>10. CASE UNCHANGED vars
  BY <1>10 DEF vars, Commands
<1> QED
  BY <1>1, <1>2, <1>3, <1>4, <1>5, <1>6, <1>7, <1>8, <1>9, <1>10, Steps

-----------------------------------------------------------------------------
\* The invariant holds at the start.
LEMMA InvInit == Init => Inv
<1> SUFFICES ASSUME Init PROVE Inv
  OBVIOUS
<1>1. TypeOK
  <2>1. jobs \in Seq(Jobs)
    BY DEF Init, Jobs
  <2>2. /\ pd \in [state : {"Inactive", "Single"}, out : 0..ses] /\ tx \in [out : 0..ses, valid : BOOLEAN]
        /\ dev \in [out : 0..ses, told : BOOLEAN] /\ ses \in 0..MaxSessions /\ al \in 0..ses
    BY BoundsAssumption DEF Init
  <2>3. /\ port \in [status : {"DEACTIVATED", "PREOP", "OP", "NO_DEV"}, quality : Controls]
        /\ pde \in [active : BOOLEAN, oe : BOOLEAN]
        /\ run \in [pc : {"none", "control", "told", "in", "inout"}, valid : BOOLEAN]
    BY DEF Init, Controls
  <2> QED
    BY <2>1, <2>2, <2>3 DEF Init, TypeOK
<1>2. Configured
  BY DEF Init, Configured, Clear
<1>3. Fresh /\ Outputs /\ Commands
  BY DEF Init, Fresh, Outputs, Commands
<1> QED
  BY <1>1, <1>2, <1>3 DEF Inv, OneRecovery

\* The recovery of a lost link is in one place at a time, what is on its way to the
\* application is of this session, and the outputs are.
THEOREM ExchangeKept == Spec => []Inv
<1>1. Inv /\ [Next]_vars => Inv'
  BY TypeStep, RecoveryStep, FreshStep, OutputsStep, CommandsStep DEF Inv
<1> QED
  BY InvInit, <1>1, PTL DEF Spec

\* generic_run never reads the input of a session other than the present one.
THEOREM InputIsFresh == Spec => []InputFresh
<1>1. Inv => InputFresh
  BY DEF Inv, Fresh, InputFresh
<1> QED
  BY <1>1, ExchangeKept, PTL

\* The device has only outputs of this session, and was told of them or is about to be.
THEOREM OutputsAreOwn == Spec => []OutputsOwn
<1>1. Inv => OutputsOwn
  BY DEF Inv, Outputs, OutputsOwn
<1> QED
  BY <1>1, ExchangeKept, PTL

\* Every variable stays in its domain.
THEOREM TypeCorrect == Spec => []TypeOK
<1>1. Inv => TypeOK
  BY DEF Inv
<1> QED
  BY <1>1, ExchangeKept, PTL
=============================================================================
