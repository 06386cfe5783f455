---------------------- MODULE IolinkODServices_proof ----------------------
(***************************************************************************)
(* Proofs about IolinkOD's services: that a write which is confirmed has     *)
(* reached the device, that an event is told once, and before it is          *)
(* confirmed, that what AL waits for is not forgotten, and the types, with    *)
(* how far an ISDU counts its segments.  IolinkOD_proof has the invariant of  *)
(* the ISDU and what each handler leaves alone.                             *)
(***************************************************************************)
EXTENDS IolinkOD_proof

-----------------------------------------------------------------------------
(* What the ISDU handler does with a parameter.                             *)

\* It leaves the parameter alone, sends it only when it is idle, and confirms one only when
\* it is idle and active, after an answer.
Parameters(x, y) ==
  /\ y.val = x.val
  /\ y.tx.kind = "Write" => y.tx = x.tx \/ (x.act /\ x.trig = "MASTER" /\ y.tx = Msg("Write", 0, x.val))
  /\ \/ y.out = x.out
     \/ \E c : /\ y.out = Append(x.out, c)
               /\ c.kind # "isdu" => /\ x.act /\ x.is = "Idle" /\ x.trig = "DEVICE"
                                     /\ c.kind = x.rw /\ y.rw = "none"

\* An ISDU that ends concerns no parameter.
LEMMA EndsAside == ASSUME NEW x, Typed(x)
  PROVE Parameters(x, EnterError(x)) /\ Parameters(x, IsduError(x)) /\ Parameters(x, Complete(x))
<1>1. \A st, d : Cnf("isdu", st, d).kind = "isdu"
  BY DEF Cnf
<1> DEFINE Ending(y) == /\ y.val = x.val /\ (y.tx = x.tx \/ y.tx = Msg("Abort", 0, 0))
                        /\ y.out = x.out \/ \E st, d : y.out = Append(x.out, Cnf("isdu", st, d))
<1>2. Ending(IsduError(x))
  BY DEF IsduError, Confirm, Send, Typed, Fields
<1>3. Ending(EnterError(x))
  BY <1>2 DEF EnterError, Confirm, Typed, Fields
<1>4. Ending(Complete(x))
  BY DEF Complete, Confirm, Typed, Fields
<1>5. ASSUME NEW y, Ending(y) PROVE Parameters(x, y)
  <2>1. y.tx.kind = "Write" => y.tx = x.tx
    BY <1>5 DEF Msg
  <2>2. y.out = x.out \/ \E c : y.out = Append(x.out, c) /\ c.kind = "isdu"
    BY <1>1, <1>5
  <2>3. QED
    BY <1>5, <2>1, <2>2 DEF Parameters
<1> HIDE DEF Ending
<1>6. QED
  BY <1>2, <1>3, <1>4, <1>5

\* The handler that goes on from z leaves the parameter of x alone.
LEMMA AsideFrom == ASSUME NEW x, NEW z, NEW y, z.val = x.val, z.tx = x.tx, z.out = x.out,
                          z.trig = x.trig, z.act = x.act, z.is # "Idle", Parameters(z, y)
  PROVE Parameters(x, y)
BY DEF Parameters

\* The ISDU handler in each of its states.
LEMMA IsduParameters == ASSUME NEW x, NEW r, Typed(x)
  PROVE Parameters(x, IsduHandler(x, r))
<1>0. \A k, a, b : Msg(k, a, b).kind = k
  BY DEF Msg
<1>1. Parameters(x, EnterError(x)) /\ Parameters(x, IsduError(x)) /\ Parameters(x, Complete(x))
  BY EndsAside
<1>2. ASSUME NEW y, y.val = x.val, y.out = x.out, y.tx = x.tx \/ y.tx.kind # "Write"
      PROVE  Parameters(x, y)
  BY <1>2 DEF Parameters
<1>3. ASSUME x.is = "Inactive" PROVE Parameters(x, IsduHandler(x, r))
  <2> DEFINE y == IsduHandler(x, r)
  <2>1. y.val = x.val /\ y.out = x.out /\ y.tx = x.tx
    BY <1>3 DEF IsduHandler, Typed, Fields
  <2> HIDE DEF y
  <2>2. QED
    BY <1>2, <2>1 DEF y
<1>4. ASSUME x.is = "Idle" PROVE Parameters(x, IsduHandler(x, r))
  <2> DEFINE y == IsduIdle(x, r)
  <2>1. IsduHandler(x, r) = y
    BY <1>4 DEF IsduHandler
  <2>2. CASE ~x.act
    <3>1. y.val = x.val /\ y.tx = x.tx
          /\ (y.out = x.out \/ y.out = Append(x.out, Cnf("isdu", "ERR", 0)))
      BY <2>2 DEF IsduIdle, Confirm, Typed, Fields
    <3>2. Cnf("isdu", "ERR", 0).kind = "isdu"
      BY DEF Cnf
    <3> HIDE DEF y
    <3>3. QED
      BY <2>1, <3>1, <3>2 DEF Parameters
  <2>3. CASE x.act /\ x.trig = "MASTER"
    <3>1. \/ y = [Send(x, Msg("Seg", 0, x.job)) EXCEPT !.seg = 1, !.is = "Request"]
          \/ y = Send(x, Msg("Read", 0, 0)) \/ y = Send(x, Msg("Write", 0, x.val))
          \/ y = Send(x, IdleMsg)
      BY <2>3 DEF IsduIdle
    <3> HIDE DEF y
    <3>2. /\ y.val = x.val /\ y.out = x.out
          /\ \/ y.tx = Msg("Seg", 0, x.job) \/ y.tx = Msg("Read", 0, 0)
             \/ y.tx = Msg("Write", 0, x.val) \/ y.tx = Msg("Idle", 0, 0)
      BY <3>1 DEF Send, Typed, Fields, IdleMsg
    <3>3. y.tx.kind = "Write" => y.tx = Msg("Write", 0, x.val)
      BY <1>0, <3>2
    <3>4. QED
      BY <2>1, <2>3, <3>2, <3>3 DEF Parameters
  <2>4. CASE x.act /\ x.trig = "DEVICE" /\ x.rw \in {"read", "write"}
    <3>1. \E d : y = Confirm([x EXCEPT !.rw = "none"], Cnf(x.rw, "OK", d))
      BY <2>4 DEF IsduIdle
    <3>2. PICK d : y = Confirm([x EXCEPT !.rw = "none"], Cnf(x.rw, "OK", d))
      BY <3>1
    <3>3. PICK c : c = Cnf(x.rw, "OK", d)
      OBVIOUS
    <3>4. c.kind = x.rw
      BY <3>3 DEF Cnf
    <3>5. y.val = x.val /\ y.tx = x.tx /\ y.out = Append(x.out, c) /\ y.rw = "none"
      BY <3>2, <3>3 DEF Confirm, Typed, Fields
    <3> HIDE DEF y
    <3>6. QED
      BY <1>4, <2>1, <2>4, <3>4, <3>5 DEF Parameters
  <2>5. CASE x.act /\ x.trig # "MASTER" /\ ~(x.trig = "DEVICE" /\ x.rw \in {"read", "write"})
    <3>1. y = x
      BY <2>5 DEF IsduIdle
    <3>2. QED
      BY <1>2, <2>1, <3>1
  <2>6. QED
    BY <2>2, <2>3, <2>4, <2>5 DEF Typed
<1>5. ASSUME x.is = "Request" PROVE Parameters(x, IsduHandler(x, r))
  <2> DEFINE s == [Send(x, Msg("Seg", x.seg, x.job)) EXCEPT !.seg = @ + 1]
             w == [x EXCEPT !.seg = 0, !.is = "Wait", !.late = FALSE]
  <2>1. s.val = x.val /\ s.out = x.out /\ s.tx = Msg("Seg", x.seg, x.job)
    BY DEF Send, Typed, Fields
  <2>2. w.val = x.val /\ w.out = x.out /\ w.tx = x.tx
    BY DEF Typed, Fields
  <2> HIDE DEF s, w
  <2>3. Parameters(x, s) /\ Parameters(x, w) /\ Parameters(x, x)
    BY <1>0, <1>2, <2>1, <2>2
  <2>4. QED
    BY <1>1, <1>5, <2>3 DEF IsduHandler, IsduRequest, s, w
<1>6. ASSUME x.is = "Wait" PROVE Parameters(x, IsduHandler(x, r))
  <2> DEFINE b == [x.buf EXCEPT ![0] = <<r.at, r.arg>>]
             z == [x EXCEPT !.buf = b, !.seg = 1, !.tot = RespSegs]
             n == [x EXCEPT !.late = FALSE]
  <2>1. [x EXCEPT !.buf[0] = <<r.at, r.arg>>, !.seg = 1, !.tot = RespSegs] = z
    OBVIOUS
  <2>2. Buffer(b)
    BY BufferKept DEF Typed
  <2> HIDE DEF b
  <2>3. /\ Typed(z) /\ z.val = x.val /\ z.tx = x.tx /\ z.out = x.out /\ z.trig = x.trig
        /\ z.act = x.act /\ z.is = "Wait"
        /\ [z EXCEPT !.is = "Response"].val = x.val /\ [z EXCEPT !.is = "Response"].tx = x.tx
        /\ [z EXCEPT !.is = "Response"].out = x.out
    BY <1>6, <2>2 DEF Typed, Fields
  <2>4. /\ Typed(n) /\ n.val = x.val /\ n.tx = x.tx /\ n.out = x.out /\ n.trig = x.trig
        /\ n.act = x.act /\ n.is = "Wait"
    BY <1>6 DEF Typed, Fields
  <2> HIDE DEF z, n
  <2>5. Parameters(x, Complete(z)) /\ Parameters(x, EnterError(n))
        /\ Parameters(x, [z EXCEPT !.is = "Response"])
    <3>1. Parameters(z, Complete(z)) /\ Parameters(n, EnterError(n))
      BY <2>3, <2>4, EndsAside
    <3>2. Parameters(x, Complete(z))
      BY <2>3, <3>1, AsideFrom
    <3>3. Parameters(x, EnterError(n))
      BY <2>4, <3>1, AsideFrom
    <3>4. Parameters(x, [z EXCEPT !.is = "Response"])
      BY <1>2, <2>3
    <3>5. QED
      BY <3>2, <3>3, <3>4
  <2>6. Parameters(x, Send(x, Msg("Get", 0, 0))) /\ Parameters(x, x)
    BY <1>0, <1>2 DEF Send, Typed, Fields
  <2>7. QED
    BY <1>1, <1>6, <2>1, <2>5, <2>6 DEF IsduHandler, IsduWait, n
<1>7. ASSUME x.is = "Error" PROVE Parameters(x, IsduHandler(x, r))
  BY <1>1, <1>7 DEF IsduHandler
<1>8. ASSUME x.is = "Response" PROVE Parameters(x, IsduHandler(x, r))
  <2> DEFINE b == [x.buf EXCEPT ![x.seg] = <<r.at, r.arg>>]
             z == [x EXCEPT !.buf = b, !.seg = x.seg + 1]
  <2>1. [x EXCEPT !.buf[x.seg] = <<r.at, r.arg>>, !.seg = @ + 1] = z
    OBVIOUS
  <2>2. Buffer(b)
    BY BufferKept DEF Typed
  <2> HIDE DEF b
  <2>3. /\ Typed(z) /\ z.val = x.val /\ z.tx = x.tx /\ z.out = x.out /\ z.trig = x.trig
        /\ z.act = x.act /\ z.is = "Response"
    BY <1>8, <2>2 DEF Typed, Fields
  <2> HIDE DEF z
  <2>4. Parameters(z, Complete(z))
    BY <2>3, EndsAside
  <2>5. Parameters(x, Complete(z)) /\ Parameters(x, z)
    BY <1>2, <2>3, <2>4, AsideFrom
  <2>6. Parameters(x, Send(x, Msg("Get", x.seg, 0))) /\ Parameters(x, x)
    BY <1>0, <1>2 DEF Send, Typed, Fields
  <2>7. QED
    BY <1>1, <1>8, <2>1, <2>5, <2>6 DEF IsduHandler, IsduResponse
<1>9. QED
  BY <1>3, <1>4, <1>5, <1>6, <1>7, <1>8 DEF Typed

-----------------------------------------------------------------------------
(* Without commands: the OD handler is with the ISDU or with the events.    *)

\* Nobody has a control code, and the event handler has the OD handler only while the flag is up.
Calm(x)    == x.code = "NONE" /\ x.cs # "Master" /\ x.od # "Command"
Flagging(x) == x.od = "Event" => x.flag

\* An idle ISDU handler sends the parameter.
LEMMA ParameterSent == ASSUME NEW x, NEW r, Typed(x), x.is = "Idle", x.act, x.trig = "MASTER",
                              x.rw = "write"
  PROVE IsduHandler(x, r).tx = Msg("Write", 0, x.val)
BY DEF IsduHandler, IsduIdle, Send, Typed, Fields

\* What a trigger without commands does to the parameter, and what it confirms of it.
Handled(x, y, t) ==
  /\ Typed(y) /\ Given(y) = Given(x) /\ y.val = x.val
  /\ Calm(y) /\ Flagging(y) /\ y.od # "Inactive"
  /\ y.tx.kind = "Write" => y.tx = x.tx \/ (t = "MASTER" /\ y.tx = Msg("Write", 0, x.val))
  /\ Flagging(x) /\ x.is = "Idle" /\ x.rw = "write" /\ t = "MASTER" /\ y.od = "Isdu"
       => y.tx = Msg("Write", 0, x.val)
  /\ \A c \in Outs(y) : c.kind = "write" => x.od = "Isdu" /\ x.is = "Idle" /\ t = "DEVICE"
                                            /\ x.rw = "write" /\ y.rw = "none"

\* So does the OD handler's turn, whoever has it.
LEMMA CalmTrigger == ASSUME NEW x, NEW t \in {"DEVICE", "MASTER"}, NEW r, Typed(x), x.out = <<>>,
                            x.act, Calm(x), x.od # "Inactive"
  PROVE Handled(x, Trigger(x, t, r), t)
<1> DEFINE z == [x EXCEPT !.trig = t]
           y == Trigger(x, t, r)
           i == IsduHandler(z, r)
           e == EvHandler(z, r)
<1>1. /\ Typed(z) /\ IsduPart(z) = IsduPart(x) /\ Given(z) = Given(x) /\ z.trig = t
      /\ z.tx = x.tx /\ z.out = x.out
  BY Triggered
<1>2. z.od = x.od /\ Calm(z) /\ z.act /\ z.flag = x.flag /\ z.is = x.is /\ z.rw = x.rw /\ z.val = x.val
  BY DEF Calm, Typed, Fields
<1>3. y = OdHandler(z, r)
  BY DEF Trigger
<1> HIDE DEF z
<1>4. \/ x.od = "Isdu" /\ x.flag /\ y = [i EXCEPT !.od = "Event"]
      \/ x.od = "Isdu" /\ ~x.flag /\ y = [i EXCEPT !.trig = "NONE"]
      \/ x.od = "Event" /\ ~x.flag /\ y = [z EXCEPT !.od = "Isdu"]
      \/ x.od = "Event" /\ x.flag /\ y = [e EXCEPT !.trig = "NONE"]
  BY <1>1, <1>2, <1>3 DEF OdHandler, OdIsdu, OdEvent, Untriggered, Calm, Typed
<1> HIDE DEF y
<1>5. \A d \in Outs(z) : FALSE
  BY <1>1 DEF Outs
<1>6. ASSUME x.od = "Isdu" PROVE Handled(x, y, t)
  <2>1. /\ Typed(i) /\ Given(i) = Given(z) /\ CmdPart(i) = CmdPart(z) /\ OdPart(i) = OdPart(z)
    BY <1>1, IsduDoes DEF IsduKeeps
  <2>2. Parameters(z, i)
    BY <1>1, IsduParameters
  <2>3. x.is = "Idle" /\ x.rw = "write" /\ t = "MASTER" => i.tx = Msg("Write", 0, x.val)
    BY <1>1, <1>2, ParameterSent
  <2> HIDE DEF i
  <2>4. /\ Typed(y) /\ Given(y) = Given(i) /\ CmdPart(y) = CmdPart(i) /\ y.val = i.val /\ y.rw = i.rw
        /\ y.tx = i.tx /\ y.out = i.out /\ (x.flag => y.od = "Event") /\ (~x.flag => y.od = i.od)
    BY <1>4, <1>6, <2>1 DEF Typed, Fields, Given, CmdPart
  <2>5. i.od = "Isdu"
    BY <1>2, <1>6, <2>1 DEF OdPart
  <2>6. Calm(y) /\ Flagging(y) /\ y.od # "Inactive"
    BY <1>1, <1>2, <2>1, <2>4, <2>5 DEF Calm, Flagging, CmdPart, Given
  <2>7. \A c \in Outs(y) : c.kind = "write" => x.is = "Idle" /\ t = "DEVICE" /\ x.rw = "write"
                                                /\ y.rw = "none"
    <3>1. CASE i.out = z.out
      BY <1>5, <2>4, <3>1 DEF Outs
    <3>2. ASSUME NEW c, i.out = Append(z.out, c),
                 c.kind # "isdu" => z.is = "Idle" /\ z.trig = "DEVICE" /\ c.kind = z.rw /\ i.rw = "none"
          PROVE  \A d \in Outs(y) : d.kind = "write" => x.is = "Idle" /\ t = "DEVICE" /\ x.rw = "write"
                                                /\ y.rw = "none"
      <4>0. Typed(z) /\ i.out = Append(z.out, c)
        BY <1>1, <3>2
      <4>1. Outs(i) = Outs(z) \cup {c}
        BY <4>0, OneMore
      <4>2. Outs(y) = {c}
        BY <1>5, <2>4, <4>1 DEF Outs
      <4>3. QED
        BY <1>1, <1>2, <2>4, <3>2, <4>2
    <3>3. QED
      BY <2>2, <3>1, <3>2 DEF Parameters
  <2>8. y.tx.kind = "Write" => y.tx = x.tx \/ (t = "MASTER" /\ y.tx = Msg("Write", 0, x.val))
    BY <1>1, <1>2, <2>2, <2>4 DEF Parameters
  <2>9. y.val = x.val /\ Given(y) = Given(x)
    BY <1>1, <1>2, <2>1, <2>2, <2>4 DEF Parameters
  <2>10. QED
    BY <1>6, <2>3, <2>4, <2>6, <2>7, <2>8, <2>9 DEF Handled
<1>7. ASSUME x.od = "Event", ~x.flag PROVE Handled(x, y, t)
  <2>0. y = [z EXCEPT !.od = "Isdu"] /\ Typed(z)
    BY <1>1, <1>4, <1>7
  <2>1. /\ Typed(y) /\ Given(y) = Given(z) /\ CmdPart(y) = CmdPart(z) /\ y.val = z.val
        /\ y.tx = z.tx /\ y.out = z.out /\ y.od = "Isdu"
    BY <2>0 DEF Typed, Fields, Given, CmdPart
  <2>2. Calm(y) /\ Flagging(y)
    BY <1>2, <2>1 DEF Calm, Flagging, CmdPart
  <2>3. \A d \in Outs(y) : FALSE
    BY <1>5, <2>1 DEF Outs
  <2>4. ~Flagging(x)
    BY <1>7 DEF Flagging
  <2>5. QED
    BY <1>1, <1>2, <2>1, <2>2, <2>3, <2>4 DEF Handled
<1>8. ASSUME x.od = "Event", x.flag PROVE Handled(x, y, t)
  <2>1. /\ Typed(e) /\ IsduPart(e) = IsduPart(z) /\ Given(e) = Given(z) /\ CmdPart(e) = CmdPart(z)
        /\ OdPart(e) = OdPart(z) /\ (e.tx = z.tx \/ e.tx.kind \in {"EvRead", "EvConf"})
        /\ MayConfirm(z, e, {"event"})
    BY <1>1, EvDoes
  <2> HIDE DEF e
  <2>2. /\ Typed(y) /\ Given(y) = Given(e) /\ CmdPart(y) = CmdPart(e) /\ y.val = e.val
        /\ y.tx = e.tx /\ y.out = e.out /\ y.od = e.od
    BY <1>4, <1>8, <2>1 DEF Typed, Fields, Given, CmdPart
  <2>3. e.od = "Event" /\ e.val = x.val
    BY <1>2, <1>8, <2>1 DEF OdPart, IsduPart
  <2>4. Calm(y) /\ Flagging(y)
    BY <1>1, <1>2, <1>8, <2>1, <2>2, <2>3 DEF Calm, Flagging, CmdPart, Given
  <2>5. \A d \in Outs(y) : d.kind # "write"
    <3>1. CASE e.out = z.out
      BY <1>5, <2>2, <3>1 DEF Outs
    <3>2. ASSUME NEW c, c.kind \in {"event"}, e.out = Append(z.out, c)
          PROVE  \A d \in Outs(y) : d.kind # "write"
      <4>0. Typed(z) /\ e.out = Append(z.out, c)
        BY <1>1, <3>2
      <4>1. Outs(e) = Outs(z) \cup {c}
        BY <4>0, OneMore
      <4>2. Outs(y) = {c}
        BY <1>5, <2>2, <4>1 DEF Outs
      <4>3. QED
        BY <3>2, <4>2
    <3>3. QED
      BY <2>1, <3>1, <3>2 DEF MayConfirm
  <2>6. QED
    BY <1>1, <1>2, <2>1, <2>2, <2>3, <2>4, <2>5 DEF Handled
<1>9. QED
  BY <1>4, <1>6, <1>7, <1>8 DEF y

\* What becomes of the parameter when the handlers are activated or deactivated.
Silenced(x) == \A c \in Outs(x) : c.kind # "write"

\* OPERATE begins: calm, with no parameter confirmed.
LEMMA CalmUp == ASSUME NEW x, Typed(x), Calm(x), x.out = <<>>, ~x.act, x.od = "Inactive"
  PROVE LET y == Activated(x) IN
        /\ Calm(y) /\ Flagging(y) /\ y.od # "Inactive" /\ y.val = x.val /\ Silenced(y)
<1> DEFINE x1 == [x EXCEPT !.ch = TRUE, !.rw = "none"]
           c  == CmdHandler(x1)
           c1 == [c EXCEPT !.act = TRUE]
           o  == OdHandler(c1, NoRx)
           i  == IsduHandler(o, NoRx)
           y  == EvHandler(i, NoRx)
<1>1. /\ Typed(x1) /\ x1.rw = "none" /\ Calm(x1) /\ x1.od = "Inactive" /\ x1.val = x.val
      /\ x1.out = <<>> /\ x1.ch
  BY DEF Typed, Fields, Calm
<1> HIDE DEF x1
<1>2. /\ Typed(c) /\ IsduPart(c) = IsduPart(x1) /\ OdPart(c) = OdPart(x1) /\ c.out = <<>>
  BY <1>1, CmdDoes
<1>3. c.code = "NONE" /\ c.cs # "Master"
  BY <1>1 DEF CmdHandler, Calm, Typed, Fields
<1> HIDE DEF c
<1>4. /\ Typed(c1) /\ c1.act /\ c1.rw = "none" /\ c1.val = x.val /\ c1.od = "Inactive"
      /\ c1.code = "NONE" /\ c1.cs # "Master" /\ c1.out = <<>>
  BY <1>1, <1>2, <1>3 DEF Typed, Fields, IsduPart, OdPart
<1> HIDE DEF c1
<1>5. o = [c1 EXCEPT !.od = "Isdu"]
  BY <1>4 DEF OdHandler
<1> HIDE DEF o
<1>6. /\ Typed(o) /\ o.rw = "none" /\ o.val = x.val /\ o.od = "Isdu" /\ Calm(o) /\ o.out = <<>>
  BY <1>4, <1>5 DEF Typed, Fields, Calm
<1>7. Typed(i) /\ OdPart(i) = OdPart(o) /\ CmdPart(i) = CmdPart(o)
  BY <1>6, IsduDoes DEF IsduKeeps
<1>8. Parameters(o, i)
  BY <1>6, IsduParameters
<1> HIDE DEF i
<1>9. Silenced(i)
  <2>1. \A d \in Outs(o) : FALSE
    BY <1>6 DEF Outs
  <2>2. CASE i.out = o.out
    BY <2>1, <2>2 DEF Silenced, Outs
  <2>3. ASSUME NEW d, i.out = Append(o.out, d), d.kind # "isdu" => d.kind = o.rw
        PROVE  Silenced(i)
    <3>0. Typed(o) /\ i.out = Append(o.out, d)
      BY <1>6, <2>3
    <3>1. Outs(i) = Outs(o) \cup {d}
      BY <3>0, OneMore
    <3>2. QED
      BY <1>6, <2>1, <2>3, <3>1 DEF Silenced
  <2>4. QED
    BY <1>8, <2>2, <2>3 DEF Parameters
<1>10. /\ Typed(y) /\ IsduPart(y) = IsduPart(i) /\ OdPart(y) = OdPart(i) /\ CmdPart(y) = CmdPart(i)
       /\ MayConfirm(i, y, {"event"})
  BY <1>7, EvDoes
<1>11. y = Activated(x)
  BY DEF Activated, y, i, o, c1, c, x1
<1> HIDE DEF y
<1>12. Silenced(y)
  <2>1. CASE y.out = i.out
    BY <1>9, <2>1 DEF Silenced, Outs
  <2>2. ASSUME NEW d, d.kind \in {"event"}, y.out = Append(i.out, d) PROVE Silenced(y)
    <3>1. Outs(y) = Outs(i) \cup {d}
      BY <1>7, <2>2, OneMore
    <3>2. QED
      BY <1>9, <2>2, <3>1 DEF Silenced
  <2>3. QED
    BY <1>10, <2>1, <2>2 DEF MayConfirm
<1>13. y.od = "Isdu" /\ y.val = x.val /\ y.code = o.code /\ y.cs = o.cs
  BY <1>6, <1>7, <1>8, <1>10 DEF OdPart, IsduPart, CmdPart, Parameters
<1>14. QED
  BY <1>6, <1>11, <1>12, <1>13 DEF Calm, Flagging

\* OPERATE ends likewise, and sends no parameter.
LEMMA CalmDown == ASSUME NEW x, Typed(x), Calm(x), x.out = <<>>
  PROVE LET y == Deactivated(x) IN
        /\ Calm(y) /\ y.od = "Inactive" /\ y.val = x.val /\ Silenced(y)
        /\ y.tx.kind = "Write" => y.tx = x.tx
<1> DEFINE x1 == [x EXCEPT !.act = FALSE]
           o  == OdHandler(x1, rx)
           i  == IsduHandler(o, rx)
           e  == EvHandler(i, rx)
           e1 == [e EXCEPT !.ch = FALSE]
           y  == CmdHandler(e1)
<1>1. /\ Typed(x1) /\ ~x1.act /\ x1.out = <<>> /\ x1.val = x.val /\ Calm(x1) /\ x1.tx = x.tx
  BY DEF Typed, Fields, Calm
<1> HIDE DEF x1
<1>2. o = [x1 EXCEPT !.od = "Inactive"] \/ (x1.od = "Inactive" /\ o = x1)
  BY <1>1 DEF OdHandler, OdIsdu, OdEvent, Calm, Typed
<1> HIDE DEF o
<1>3. /\ Typed(o) /\ ~o.act /\ o.out = <<>> /\ o.val = x.val /\ Calm(o) /\ o.tx = x.tx
      /\ o.od = "Inactive"
  BY <1>1, <1>2 DEF Typed, Fields, Calm
<1>4. Typed(i) /\ OdPart(i) = OdPart(o) /\ CmdPart(i) = CmdPart(o)
  BY <1>3, IsduDoes DEF IsduKeeps
<1>5. Parameters(o, i)
  BY <1>3, IsduParameters
<1> HIDE DEF i
<1>6. Silenced(i) /\ (i.tx.kind = "Write" => i.tx = x.tx)
  <2>1. \A d \in Outs(o) : FALSE
    BY <1>3 DEF Outs
  <2>2. CASE i.out = o.out
    BY <1>3, <1>5, <2>1, <2>2 DEF Silenced, Outs, Parameters
  <2>3. ASSUME NEW d, i.out = Append(o.out, d), d.kind # "isdu" => o.act
        PROVE  Silenced(i)
    <3>0. Typed(o) /\ i.out = Append(o.out, d)
      BY <1>3, <2>3
    <3>1. Outs(i) = Outs(o) \cup {d}
      BY <3>0, OneMore
    <3>2. QED
      BY <1>3, <2>1, <2>3, <3>1 DEF Silenced
  <2>4. QED
    BY <1>3, <1>5, <2>2, <2>3 DEF Parameters
<1>7. /\ Typed(e) /\ IsduPart(e) = IsduPart(i) /\ OdPart(e) = OdPart(i) /\ CmdPart(e) = CmdPart(i)
      /\ MayConfirm(i, e, {"event"}) /\ (e.tx = i.tx \/ e.tx.kind \in {"EvRead", "EvConf"})
  BY <1>4, EvDoes
<1> HIDE DEF e
<1>8. Silenced(e)
  <2>1. CASE e.out = i.out
    BY <1>6, <2>1 DEF Silenced, Outs
  <2>2. ASSUME NEW d, d.kind \in {"event"}, e.out = Append(i.out, d) PROVE Silenced(e)
    <3>1. Outs(e) = Outs(i) \cup {d}
      BY <1>4, <2>2, OneMore
    <3>2. QED
      BY <1>6, <2>2, <3>1 DEF Silenced
  <2>3. QED
    BY <1>7, <2>1, <2>2 DEF MayConfirm
<1>9. /\ e.od = "Inactive" /\ e.val = x.val /\ e.code = "NONE" /\ e.cs # "Master"
      /\ e.tx.kind = "Write" => e.tx = x.tx
  BY <1>3, <1>4, <1>5, <1>6, <1>7 DEF OdPart, IsduPart, CmdPart, Parameters, Calm
<1>10. /\ Typed(e1) /\ ~e1.ch /\ e1.od = "Inactive" /\ e1.val = x.val /\ e1.code = "NONE"
       /\ e1.cs # "Master" /\ e1.tx = e.tx /\ e1.out = e.out
  BY <1>7, <1>9 DEF Typed, Fields
<1> HIDE DEF e1
<1>11. y \in {e1, [e1 EXCEPT !.cs = "Inactive"]}
  BY <1>10 DEF CmdHandler, Typed
<1>12. y = Deactivated(x)
  BY DEF Deactivated, y, e1, e, i, o, x1
<1> HIDE DEF y
<1>13. /\ y.od = "Inactive" /\ y.val = x.val /\ y.code = "NONE" /\ y.cs # "Master" /\ y.tx = e.tx
       /\ y.out = e.out
  BY <1>10, <1>11 DEF Typed, Fields
<1>14. QED
  BY <1>8, <1>9, <1>12, <1>13 DEF Calm, Silenced, Outs

-----------------------------------------------------------------------------
(* The invariant of a write, where no commands come between.                *)

\* No process data output and no device mode in the behaviours with writes.
WritesApart == "Write" \in occurs => "Pdout" \notin occurs /\ "Mode" \notin occurs
Apart       == "Write" \in occurs /\ "Pdout" \notin occurs /\ "Mode" \notin occurs

CallerFields == {"pdout", "sm", "events"}
NoCaller     == ~caller.pdout /\ caller.sm = "idle"

\* The value of the latest write is the largest, and the messages' values follow each other:
\* the device's, the chip's, the handler's.
Values ==
  /\ h.val \in 0..MaxJobs - left.jobs /\ dev.par \in 0..h.val
  /\ h.tx.kind = "Write" => chip = h.tx
  /\ chip.kind = "Write" => chip.arg \in dev.par..h.val
  /\ al.op = "write" => al.job = IF al.amid = "none" THEN h.val ELSE MaxJobs - left.jobs

\* While the answer to a write is awaited and the OD handler is with the ISDU, the message in
\* the chip is that write, once its value is stored.
Downloaded ==
  mh.state = "reply9" /\ md.up /\ h.od = "Isdu" /\ al.op = "write" /\ h.rw = "write" /\ al.amid = "none"
    => chip = Msg("Write", 0, h.val) /\ (IsGood(rx) => dev.par = h.val)

Told == al.told[2].kind = "write" /\ al.told[2].stat = "OK" => al.told[1] \in 0..dev.par

Write ==
  /\ Calm(h) /\ Flagging(h) /\ NoCaller /\ (md.up => h.od # "Inactive")
  /\ Values /\ Downloaded /\ Told

NoWrite == "Write" \notin occurs => al.op # "write" /\ al.told[2].kind # "write"
WriteInv == DOMAIN caller = CallerFields /\ NoWrite /\ (Apart => Write)

\* Whom a step's confirmations reach.
LEMMA Handed == ASSUME NEW x, NEW c, Typed(x), HandTo(x, c), DOMAIN c = CallerFields, AlOK
  PROVE /\ h' = [x EXCEPT !.out = <<>>]
        /\ \/ al' = al
           \/ \E d \in Outs(x) : /\ d.kind = al.op
                                 /\ al'.op = "none" /\ al'.told = <<al.job, d>> /\ al'.amid = al.amid
        /\ DOMAIN caller' = CallerFields /\ caller'.pdout = c.pdout
        /\ c.sm = "idle" => caller'.sm = "idle"
<1> DEFINE mine == Of(x, al.op)
<1>1. h' = [x EXCEPT !.out = <<>>]
  BY DEF HandTo, Delivered
<1>2. \/ al' = al
      \/ /\ mine # <<>> /\ al'.op = "none" /\ al'.told = <<al.job, mine[1]>>
         /\ al'.amid = al.amid
  <2>1. al' = IF mine = <<>> THEN al
              ELSE [al EXCEPT !.op = "none", !.job = 0, !.told = <<al.job, mine[1]>>]
    BY DEF HandTo
  <2> HIDE DEF mine
  <2>2. QED
    BY <2>1 DEF AlOK
<1>3. mine = <<>> \/ (mine[1] \in Outs(x) /\ mine[1].kind = al.op)
  <2>1. IsSeq(x.out)
    BY DEF Typed
  <2>2. QED
    BY <2>1, OfOuts
<1>4. \E b : caller' = [b EXCEPT !.events = @ \o Of(x, "event")] /\ b \in {c, Ended(c)}
  BY DEF HandTo
<1>5. \A b \in {c, Ended(c)} : /\ DOMAIN b = CallerFields /\ b.pdout = c.pdout
                               /\ (c.sm = "idle" => b.sm = "idle")
  BY DEF Ended, CallerFields
<1> HIDE DEF mine
<1>6. DOMAIN caller' = CallerFields /\ caller'.pdout = c.pdout /\ (c.sm = "idle" => caller'.sm = "idle")
  BY <1>4, <1>5 DEF CallerFields
<1>7. QED
  BY <1>1, <1>2, <1>3, <1>6

\* Without writes none is confirmed.
LEMMA NoneHanded == ASSUME NEW x, NEW c, Typed(x), HandTo(x, c), DOMAIN c = CallerFields, NoWrite,
                           occurs' = occurs, AlOK
  PROVE NoWrite'
<1>1. \/ al' = al
      \/ \E d \in Outs(x) : /\ d.kind = al.op
                            /\ al'.op = "none" /\ al'.told = <<al.job, d>> /\ al'.amid = al.amid
  BY Handed
<1>2. QED
  BY <1>1 DEF NoWrite

\* What the device does with a message leaves the value it has, but for a write.
LEMMA ParameterTaken == ASSUME NEW m, DOMAIN dev = DeviceFields
  PROVE Takes(dev, m, TRUE)[1].par = IF m.kind = "Write" THEN m.arg ELSE dev.par
<1> DEFINE t == Takes(dev, m, TRUE)
<1>1. CASE m.kind = "Seg"
  <2>1. t[1] = TakeSegment(dev, m)
    BY <1>1 DEF Takes
  <2>2. TakeSegment(dev, m).par = dev.par
    BY DEF TakeSegment, DeviceFields
  <2>3. QED
    BY <1>1, <2>1, <2>2
<1>2. CASE m.kind = "Write"
  BY <1>2 DEF Takes, DeviceFields
<1>3. CASE m.kind \notin {"Seg", "Write"}
  <2>1. \E a : \/ t = <<dev, a>> \/ t = <<[dev EXCEPT !.st = "Idle"], a>>
               \/ t = <<[dev EXCEPT !.st = "Tx"], a>> \/ t = <<[dev EXCEPT !.mcmd = m.arg], a>>
               \/ t = <<[dev EXCEPT !.ev = 0, !.cleared = (@ \cup {dev.ev}) \ {0}], a>>
    BY <1>3 DEF Takes
  <2> HIDE DEF t
  <2>2. \/ t[1] = dev \/ t[1] = [dev EXCEPT !.st = "Idle"]
        \/ t[1] = [dev EXCEPT !.st = "Tx"] \/ t[1] = [dev EXCEPT !.mcmd = m.arg]
        \/ t[1] = [dev EXCEPT !.ev = 0, !.cleared = (@ \cup {dev.ev}) \ {0}]
    BY <2>1
  <2>3. t[1].par = dev.par
    BY <2>2 DEF DeviceFields
  <2>4. QED
    BY <1>3, <2>3 DEF t
<1>4. QED
  BY <1>1, <1>2, <1>3

\* A step that concerns no parameter.
LEMMA Untouched == ASSUME Inv, WriteInv, UNCHANGED <<chip, al, caller, occurs>>,
    h'.od = h.od, h'.code = h.code, h'.cs = h.cs, h'.flag = h.flag, h'.val = h.val,
    h'.tx = h.tx, h'.rw = h.rw, md'.up = md.up, dev'.par = dev.par, left'.jobs = left.jobs,
    mh'.state = mh.state, rx' \in {rx, NoRx} \/ ~IsGood(rx')
  PROVE WriteInv'
<1>1. NoWrite' /\ DOMAIN caller' = CallerFields /\ (Apart' <=> Apart)
  BY DEF WriteInv, NoWrite, Apart
<1>2. ASSUME Write PROVE Write'
  <2>1. Calm(h)' /\ Flagging(h)' /\ NoCaller' /\ (md.up => h.od # "Inactive")'
    BY <1>2 DEF Write, Calm, Flagging, NoCaller
  <2>2. Values' /\ Told'
    BY <1>2 DEF Write, Values, Told
  <2>3. IsGood(rx)' => IsGood(rx)
    BY NoRxIs DEF IsGood
  <2>4. Downloaded'
    BY <1>2, <2>3 DEF Write, Downloaded
  <2>5. QED
    BY <2>1, <2>2, <2>4 DEF Write
<1>3. QED
  BY <1>1, <1>2 DEF WriteInv

\* The thread's and the chip's steps that do not reach the handlers.
LEMMA WriteAside == ASSUME Inv, WriteInv, Resend \/ IsduTimeout \/ DeviceEvent \/ AskInactive
                                          \/ Trouble \/ UNCHANGED vars
  PROVE WriteInv'
<1>1. /\ Typed(h) /\ DOMAIN dev = DeviceFields /\ DOMAIN md = {"up", "mode", "mdh"}
      /\ DOMAIN left = LeftFields /\ DOMAIN mh = {"state", "retry"}
  BY DEF Inv, Types, DeviceOK
<1>2. CASE Resend
  <2>1. UNCHANGED <<h, md, chip, dev, al, caller, left, occurs>> /\ rx' = NoRx
        /\ mh' = [mh EXCEPT !.retry = @ + 1]
    BY <1>2 DEF Resend
  <2>2. mh'.state = mh.state
    BY <1>1, <2>1
  <2>3. QED
    BY <2>1, <2>2, Untouched
<1>3. CASE IsduTimeout
  <2>1. UNCHANGED <<md, mh, chip, rx, dev, al, caller, occurs>> /\ h' = [h EXCEPT !.late = TRUE]
        /\ left' = [left EXCEPT !.faults = @ - 1]
    BY <1>3 DEF IsduTimeout
  <2>2. /\ h'.od = h.od /\ h'.code = h.code /\ h'.cs = h.cs /\ h'.flag = h.flag /\ h'.val = h.val
        /\ h'.tx = h.tx /\ h'.rw = h.rw /\ left'.jobs = left.jobs
    BY <1>1, <2>1 DEF Typed, Fields, LeftFields
  <2>3. QED
    BY <2>1, <2>2, Untouched
<1>4. CASE DeviceEvent
  <2>1. UNCHANGED <<h, md, mh, chip, rx, al, caller, occurs>>
        /\ dev' = [dev EXCEPT !.ev = left.events] /\ left' = [left EXCEPT !.events = @ - 1]
    BY <1>4 DEF DeviceEvent
  <2>2. dev'.par = dev.par /\ left'.jobs = left.jobs
    BY <1>1, <2>1 DEF DeviceFields, LeftFields
  <2>3. QED
    BY <2>1, <2>2, Untouched
<1>5. CASE AskInactive
  <2>1. UNCHANGED <<h, mh, chip, rx, dev, al, caller, left, occurs>>
        /\ md' = [md EXCEPT !.mode = "INACTIVE", !.mdh = TRUE]
    BY <1>5 DEF AskInactive
  <2>2. md'.up = md.up
    BY <1>1, <2>1
  <2>3. QED
    BY <2>1, <2>2, Untouched
<1>6. CASE UNCHANGED vars
  <2>1. UNCHANGED <<h, md, mh, chip, rx, dev, al, caller, left, occurs>>
    BY <1>6 DEF vars
  <2>2. QED
    BY <2>1, Untouched
<1>7. CASE Trouble
  <2>1. /\ UNCHANGED <<h, md, mh, chip, al, caller, occurs>> /\ chip.kind = "Get"
        /\ left' = [left EXCEPT !.faults = @ - 1]
        /\ dev' = dev \/ dev' = [dev EXCEPT !.st = "Idle"]
    BY <1>7 DEF Trouble
  <2>2. dev'.par = dev.par /\ left'.jobs = left.jobs
    BY <1>1, <2>1 DEF DeviceFields, LeftFields
  <2>3. NoWrite' /\ DOMAIN caller' = CallerFields /\ (Apart' <=> Apart)
    BY <2>1 DEF WriteInv, NoWrite, Apart
  <2>4. ASSUME Write PROVE Write'
    <3>1. Calm(h)' /\ Flagging(h)' /\ NoCaller' /\ (md.up => h.od # "Inactive")'
      BY <2>1, <2>4 DEF Write, Calm, Flagging, NoCaller
    <3>2. Values' /\ Told'
      BY <2>1, <2>2, <2>4 DEF Write, Values, Told
    <3>3. chip # Msg("Write", 0, h.val)
      BY <2>1 DEF Msg
    <3>4. Downloaded'
      BY <2>1, <2>4, <3>3 DEF Write, Downloaded
    <3>5. QED
      BY <3>1, <3>2, <3>4 DEF Write
  <2>5. QED
    BY <2>3, <2>4 DEF WriteInv
<1>8. QED
  BY <1>2, <1>3, <1>4, <1>5, <1>6, <1>7

\* The chip exchanges the message: a write reaches the device.
LEMMA WriteExchanged == ASSUME Inv, WriteInv, Exchange \/ Drop
  PROVE WriteInv'
<1> DEFINE t == Takes(dev, chip, TRUE)
<1>1. /\ DOMAIN dev = DeviceFields /\ DOMAIN left = LeftFields
      /\ left.jobs \in 0..MaxJobs /\ MaxJobs \in Nat
  BY BudgetAssumption DEF Inv, Types, DeviceOK
<1>2. /\ UNCHANGED <<h, md, mh, chip, al, caller, occurs>>
      /\ left' = left \/ left' = [left EXCEPT !.faults = @ - 1]
      /\ \/ dev' = t[1]
         \/ dev' = dev /\ rx' = [NoRx EXCEPT !.what = "error"]
  BY DEF Exchange, Drop
<1>3. left'.jobs = left.jobs
  BY <1>1, <1>2 DEF LeftFields
<1>4. t[1].par = IF chip.kind = "Write" THEN chip.arg ELSE dev.par
  BY <1>1, ParameterTaken
<1> HIDE DEF t
<1>5. \/ dev'.par = IF chip.kind = "Write" THEN chip.arg ELSE dev.par
      \/ dev'.par = dev.par /\ ~IsGood(rx')
  BY <1>2, <1>4 DEF IsGood, NoRx
<1>6. NoWrite' /\ DOMAIN caller' = CallerFields /\ (Apart' <=> Apart)
  BY <1>2 DEF WriteInv, NoWrite, Apart
<1>7. ASSUME Write PROVE Write'
  <2>1. Calm(h)' /\ Flagging(h)' /\ NoCaller' /\ (md.up => h.od # "Inactive")'
    BY <1>2, <1>7 DEF Write, Calm, Flagging, NoCaller
  <2>2. /\ h.val \in Nat /\ dev.par \in Nat /\ dev.par <= h.val
        /\ chip.kind = "Write" => chip.arg \in Nat /\ dev.par <= chip.arg /\ chip.arg <= h.val
    BY <1>1, <1>7 DEF Write, Values
  <2>3. dev'.par \in Nat /\ dev.par <= dev'.par /\ dev'.par <= h.val
        /\ (chip.kind = "Write" => dev'.par <= chip.arg)
    BY <1>5, <2>2
  <2>4. Values'
    BY <1>2, <1>3, <1>7, <2>2, <2>3 DEF Write, Values
  <2>5. Told'
    BY <1>2, <1>7, <2>2, <2>3 DEF Write, Told
  <2>6. Downloaded'
    <3>1. \A v : Msg("Write", 0, v).kind = "Write" /\ Msg("Write", 0, v).arg = v
      BY DEF Msg
    <3>2. QED
      BY <1>2, <1>5, <1>7, <3>1 DEF Write, Downloaded
  <2>7. QED
    BY <2>1, <2>4, <2>5, <2>6 DEF Write
<1>8. QED
  BY <1>6, <1>7 DEF WriteInv

\* What the thread's steps have in common: x is what the handlers leave.
LEMMA WriteHanded == ASSUME Inv, Write, NEW x, NEW c, Typed(x), HandTo(x, c),
    DOMAIN c = CallerFields, ~c.pdout, c.sm = "idle",
    Calm(x), Flagging(x), x.val = h.val, dev'.par = dev.par, left'.jobs = left.jobs,
    md'.up => x.od # "Inactive",
    x.tx.kind = "Write" => chip' = x.tx,
    chip'.kind = "Write" => chip' = chip \/ chip' = h.tx \/ chip' = Msg("Write", 0, h.val),
    \A d \in Outs(x) : d.kind = "write" /\ d.stat = "OK" /\ al.op = "write"
        => al.amid = "none" /\ dev.par = h.val,
    Downloaded'
  PROVE Write'
<1>1. /\ h' = [x EXCEPT !.out = <<>>]
      /\ \/ al' = al
         \/ \E d \in Outs(x) : /\ d.kind = al.op
                               /\ al'.op = "none" /\ al'.told = <<al.job, d>> /\ al'.amid = al.amid
      /\ DOMAIN caller' = CallerFields /\ caller'.pdout = c.pdout
      /\ c.sm = "idle" => caller'.sm = "idle"
  BY Handed DEF Inv, Types
<1>2. /\ h'.od = x.od /\ h'.code = x.code /\ h'.cs = x.cs /\ h'.flag = x.flag /\ h'.val = x.val
      /\ h'.tx = x.tx
  BY <1>1 DEF Typed, Fields
<1>3. Calm(h)' /\ Flagging(h)' /\ NoCaller' /\ (md.up => h.od # "Inactive")'
  BY <1>1, <1>2 DEF Calm, Flagging, NoCaller
<1>4. /\ h.val \in Nat /\ dev.par \in 0..h.val
      /\ (al.op = "write" => al.job = IF al.amid = "none" THEN h.val ELSE MaxJobs - left.jobs)
      /\ left.jobs \in 0..MaxJobs /\ MaxJobs \in Nat
  BY BudgetAssumption DEF Inv, Types, Write, Values
<1>5. Values'
  <2>1. chip'.kind = "Write" => chip'.arg \in dev.par..h.val
    <3>1. \A v : Msg("Write", 0, v).arg = v
      BY DEF Msg
    <3>2. h.val \in dev.par..h.val
      BY <1>4
    <3>3. chip.kind = "Write" => chip.arg \in dev.par..h.val
      BY DEF Write, Values
    <3>4. h.tx.kind = "Write" => h.tx.arg \in dev.par..h.val
      BY <3>3 DEF Write, Values
    <3>5. QED
      BY <3>1, <3>2, <3>3, <3>4
  <2>2. al'.op = "write" => al'.job = IF al'.amid = "none" THEN h.val ELSE MaxJobs - left'.jobs
    BY <1>1, <1>4
  <2>3. h'.val = h.val /\ (h'.tx.kind = "Write" => chip' = h'.tx)
    BY <1>2
  <2>4. QED
    BY <2>1, <2>2, <2>3 DEF Write, Values
<1>6. Told'
  BY <1>1, <1>4 DEF Write, Told
<1>7. QED
  BY <1>3, <1>5, <1>6 DEF Write

\* The trigger after an answer, and the one before the next message.
LEMMA WriteReceived == ASSUME Inv, WriteInv, Received PROVE WriteInv'
<1> DEFINE z == [h EXCEPT !.flag = rx.flag]
           x == Trigger(z, "DEVICE", rx)
<1>1. /\ HandTo(x, caller) /\ UNCHANGED <<md, mh, chip, rx, dev, left, occurs>>
      /\ mh.state = "reply16" /\ h.rw # "write"
  BY DEF Received, Hand, Waiting
<1>2. md.up /\ h.act = md.up
  BY <1>1 DEF Inv, Turns
<1>3. /\ Typed(z) /\ z.out = <<>> /\ z.act = h.act /\ z.tx = h.tx /\ z.od = h.od
      /\ z.rw = h.rw /\ z.val = h.val /\ z.code = h.code /\ z.cs = h.cs
  BY DEF Inv, Types, Typed, Fields
<1> HIDE DEF z
<1>4. Typed(x)
  BY <1>3, StepOf DEF Elsewhere, Like
<1>5. DOMAIN caller = CallerFields /\ NoWrite
  BY DEF WriteInv
<1>6. NoWrite' /\ DOMAIN caller' = CallerFields /\ (Apart' <=> Apart)
  BY <1>1, <1>4, <1>5, NoneHanded, Handed DEF Apart, Inv, Types
<1>7. ASSUME Write PROVE Write'
  <2>1. Calm(z) /\ z.act /\ z.od # "Inactive"
    BY <1>2, <1>3, <1>7 DEF Write, Calm
  <2>2. Handled(z, x, "DEVICE")
    BY <1>3, <2>1, CalmTrigger
  <2> HIDE DEF x
  <2>3. Downloaded'
    BY <1>1 DEF Downloaded
  <2>4. /\ Calm(x) /\ Flagging(x) /\ x.val = h.val /\ x.od # "Inactive"
        /\ (x.tx.kind = "Write" => x.tx = h.tx) /\ (\A d \in Outs(x) : d.kind # "write")
    BY <1>1, <1>3, <2>2 DEF Handled
  <2>5. x.tx.kind = "Write" => chip' = x.tx
    BY <1>1, <1>7, <2>4 DEF Write, Values
  <2>6. ~caller.pdout /\ caller.sm = "idle"
    BY <1>7 DEF Write, NoCaller
  <2>7. QED
    BY <1>1, <1>4, <1>5, <1>7, <2>3, <2>4, <2>5, <2>6, WriteHanded
<1>8. QED
  BY <1>6, <1>7 DEF WriteInv

\* The MASTER trigger, of AW_REPLY_16 or for a write that is asked for, downloads what it prepared.
LEMMA WritePrepared == ASSUME Inv, WriteInv, Prepare \/ WriteNow PROVE WriteInv'
<1> DEFINE x == Trigger(h, "MASTER", rx)
<1>1. /\ HandTo(x, caller) /\ UNCHANGED <<md, dev, left, occurs>> /\ chip' = x.tx /\ rx' = NoRx
      /\ \/ mh'.state = "reply16"
         \/ mh.state = "reply16" /\ h.rw = "write"
  <2>1. CASE Prepare
    BY <2>1 DEF Prepare, Hand, Inv, Turns
  <2>2. CASE WriteNow
    BY <2>2 DEF WriteNow, Hand, Waiting
  <2>3. QED
    BY <2>1, <2>2
<1>2. md.up /\ h.act = md.up
  <2>1. CASE Prepare
    BY <2>1 DEF Prepare, Inv, Turns
  <2>2. CASE WriteNow
    BY <2>2 DEF WriteNow, Waiting, Inv, Turns
  <2>3. QED
    BY <2>1, <2>2
<1>3. Typed(h) /\ h.out = <<>>
  BY DEF Inv, Types
<1>4. Typed(x)
  BY <1>3, StepOf DEF Elsewhere, Like
<1>5. DOMAIN caller = CallerFields /\ NoWrite
  BY DEF WriteInv
<1>6. NoWrite' /\ DOMAIN caller' = CallerFields /\ (Apart' <=> Apart)
  BY <1>1, <1>4, <1>5, NoneHanded, Handed DEF Apart, Inv, Types
<1>7. ASSUME Write PROVE Write'
  <2>1. Calm(h) /\ h.act /\ h.od # "Inactive" /\ Flagging(h)
    BY <1>2, <1>7 DEF Write
  <2>2. Handled(h, x, "MASTER")
    BY <1>3, <2>1, CalmTrigger
  <2>3. h'.od = x.od
    BY <1>1, <1>4, <1>5, Handed DEF Typed, Fields, Inv, Types
  <2> HIDE DEF x
  <2>4. /\ Calm(x) /\ Flagging(x) /\ x.val = h.val /\ x.od # "Inactive"
        /\ (x.tx.kind = "Write" => x.tx = h.tx \/ x.tx = Msg("Write", 0, h.val))
        /\ (\A d \in Outs(x) : d.kind # "write")
        /\ (h.is = "Idle" /\ h.rw = "write" /\ x.od = "Isdu" => x.tx = Msg("Write", 0, h.val))
    BY <2>1, <2>2 DEF Handled
  <2>5. Downloaded'
    <3>1. CASE mh'.state = "reply16"
      BY <3>1 DEF Downloaded
    <3>2. CASE mh.state = "reply16" /\ h.rw = "write"
      <4>1. h.is = "Idle"
        BY <1>2, <1>3, <3>2 DEF Inv, Isdu, Owed, Turns, Active, Typed
      <4>2. h'.val = h.val
        BY <1>1, <1>4, <1>5, <2>4, Handed DEF Typed, Fields, Inv, Types
      <4>3. QED
        BY <1>1, <2>3, <2>4, <3>2, <4>1, <4>2, NoRxIs DEF Downloaded
    <3>3. QED
      BY <1>1, <3>1, <3>2
  <2>6. ~caller.pdout /\ caller.sm = "idle"
    BY <1>7 DEF Write, NoCaller
  <2>7. /\ x.tx.kind = "Write" => chip' = x.tx
        /\ chip'.kind = "Write" => chip' = chip \/ chip' = h.tx \/ chip' = Msg("Write", 0, h.val)
        /\ dev'.par = dev.par /\ left'.jobs = left.jobs
    BY <1>1, <2>4
  <2>8. QED
    BY <1>1, <1>4, <1>5, <1>7, <2>4, <2>5, <2>6, <2>7, WriteHanded
<1>8. QED
  BY <1>6, <1>7 DEF WriteInv

\* The answer to a write.
LEMMA WriteWritten == ASSUME Inv, WriteInv, InTime, Written PROVE WriteInv'
<1> DEFINE x == Trigger(h, "DEVICE", rx)
<1>1. /\ HandTo(x, caller) /\ UNCHANGED <<md, pc, chip, dev, left, occurs>> /\ rx' = NoRx
      /\ mh.state = "reply9" /\ IsGood(rx)
      /\ mh' = [mh EXCEPT !.state = IF x.is = "Idle" THEN "reply16" ELSE @]
  BY DEF Written, Hand, Waiting, Good, IsGood
<1>2. /\ Typed(h) /\ h.out = <<>> /\ h.act = md.up /\ h.is \notin Active /\ DOMAIN mh = {"state", "retry"}
      /\ Isdu(h, chip, rx)
  BY <1>1 DEF Inv, Types, Turns
<1>4. Typed(x)
  BY <1>2, StepOf DEF Elsewhere, Like
<1>5. DOMAIN caller = CallerFields /\ NoWrite
  BY DEF WriteInv
<1>6. NoWrite' /\ DOMAIN caller' = CallerFields /\ (Apart' <=> Apart)
  BY <1>1, <1>4, <1>5, NoneHanded, Handed DEF Apart, Inv, Types
<1>7. ASSUME Write PROVE Write'
  <2>0. Calm(h) /\ Flagging(h) /\ (md.up => h.od # "Inactive") /\ ~caller.pdout /\ caller.sm = "idle"
        /\ Values /\ Downloaded
    BY <1>7 DEF Write, NoCaller
  <2>1. CASE md.up
    <3>1. Handled(h, x, "DEVICE")
      BY <1>2, <2>0, <2>1, CalmTrigger
    <3>2. x.is = "Idle"
      <4>1. h.is # "Inactive" /\ h.act
        BY <1>2, <2>1 DEF Inv, Turns
      <4>2. x.is # "Inactive" /\ x.is \notin Active
        BY <1>1, <1>2, <4>1, DeviceStep
      <4>3. QED
        BY <1>4, <4>2 DEF Typed, Active
    <3> HIDE DEF x
    <3>3. /\ Calm(x) /\ Flagging(x) /\ x.val = h.val /\ x.od # "Inactive"
          /\ (x.tx.kind = "Write" => x.tx = h.tx)
          /\ (\A d \in Outs(x) : d.kind = "write" => h.od = "Isdu" /\ h.rw = "write")
      BY <3>1 DEF Handled
    <3>4. \A d \in Outs(x) : d.kind = "write" /\ d.stat = "OK" /\ al.op = "write"
            => al.amid = "none" /\ dev.par = h.val
      <4>1. al.op = "write" => al.amid = "none"
        BY <1>1 DEF InTime, Inv, Types, AlOK
      <4>2. QED
        BY <1>1, <2>0, <2>1, <3>3, <4>1 DEF Downloaded
    <3>5. Downloaded'
      BY <1>1, <1>2, <3>2 DEF Downloaded
    <3>6. (x.tx.kind = "Write" => chip' = x.tx) /\ chip' = chip
      BY <1>1, <2>0, <3>3 DEF Values
    <3>7. QED
      BY <1>1, <1>4, <1>5, <1>7, <2>0, <3>3, <3>4, <3>5, <3>6, WriteHanded
  <2>2. CASE ~md.up
    <3>1. h.od = "Inactive" /\ ~h.act
      BY <1>2, <2>0, <2>2 DEF Inv, Turns, Calm
    <3>2. x = [h EXCEPT !.trig = "DEVICE"]
      BY <1>2, <3>1 DEF Trigger, OdHandler, Typed, Fields
    <3>3. /\ Calm(x) /\ Flagging(x) /\ x.val = h.val /\ x.tx = h.tx /\ x.out = <<>> /\ x.od = "Inactive"
      BY <1>2, <2>0, <3>1, <3>2 DEF Calm, Flagging, Typed, Fields
    <3> HIDE DEF x
    <3>4. \A d \in Outs(x) : FALSE
      BY <3>3 DEF Outs
    <3>5. Downloaded' /\ ~md'.up
      BY <1>1, <2>2 DEF Downloaded
    <3>6. (x.tx.kind = "Write" => chip' = x.tx) /\ chip' = chip
      BY <1>1, <2>0, <3>3 DEF Values
    <3>7. QED
      BY <1>1, <1>4, <1>5, <1>7, <2>0, <3>3, <3>4, <3>5, <3>6, WriteHanded
  <2>3. QED
    BY <2>1, <2>2
<1>8. QED
  BY <1>6, <1>7 DEF WriteInv

\* A lost link confirms the write as an error.
LEMMA WriteLost == ASSUME Inv, WriteInv, ComLost PROVE WriteInv'
<1> DEFINE w == IF mh.state = "reply9" THEN WriteMasterCommand(h, "ERR") ELSE h
           c == Cnf(h.rw, "ERR", 0)
           v == IF mh.state = "reply9" /\ h.rw \in {"read", "write"} THEN Confirm(w, c) ELSE w
           x == [v EXCEPT !.rw = "none", !.lost = TRUE]
<1>1. /\ HandTo(x, caller) /\ UNCHANGED <<pc, chip, dev, left, occurs>> /\ rx' = NoRx
      /\ mh' = [state |-> "off", retry |-> 0] /\ md' = [md EXCEPT !.mdh = TRUE]
  BY DEF ComLost, Hand
<1>2. Typed(h) /\ h.out = <<>> /\ DOMAIN md = {"up", "mode", "mdh"}
  BY DEF Inv, Types
<1>3. /\ Typed(w) /\ IsduPart(w) = IsduPart(h) /\ Given(w) = Given(h) /\ OdPart(w) = OdPart(h)
      /\ w.tx = h.tx /\ MayConfirm(h, w, {"mode"}) /\ w.code = h.code /\ w.cs = h.cs
  <2>1. MayConfirm(h, h, {"mode"})
    BY DEF MayConfirm
  <2>2. w.code = h.code /\ w.cs = h.cs
    BY <1>2 DEF WriteMasterCommand, Confirm, Typed, Fields
  <2>3. QED
    BY <1>2, <2>1, <2>2, WriteDoes
<1>4. \A d \in Outs(w) : d.kind = "mode"
  <2>1. \A d \in Outs(h) : FALSE
    BY <1>2 DEF Outs
  <2>2. CASE w.out = h.out
    BY <2>1, <2>2 DEF Outs
  <2>3. ASSUME NEW d, d.kind \in {"mode"}, w.out = Append(h.out, d)
        PROVE  \A e \in Outs(w) : e.kind = "mode"
    <3>1. Outs(w) = Outs(h) \cup {d}
      BY <1>2, <2>3, OneMore
    <3>2. QED
      BY <2>1, <2>3, <3>1
  <2>4. QED
    BY <1>3, <2>2, <2>3 DEF MayConfirm
<1> HIDE DEF w
<1>5. /\ Typed(v) /\ v.val = w.val /\ v.od = w.od /\ v.code = w.code /\ v.cs = w.cs
      /\ v.flag = w.flag /\ v.tx = w.tx
      /\ \A d \in Outs(v) : d.kind = "mode" \/ d.stat = "ERR"
  <2>1. CASE v = w
    BY <1>3, <1>4, <2>1
  <2>2. CASE v = Confirm(w, c)
    <3>1. IsSeq(Append(w.out, c)) /\ Outs(v) = Outs(w) \cup {c}
      <4>1. Typed(w) /\ v.out = Append(w.out, c)
        BY <1>3, <2>2 DEF Confirm, Typed, Fields
      <4>2. IsSeq(w.out)
        BY <4>1 DEF Typed
      <4>3. IsSeq(Append(w.out, c))
        BY <4>2, AppendAdds
      <4>4. Outs(v) = Outs(w) \cup {c}
        BY <4>1, OneMore
      <4>5. QED
        BY <4>3, <4>4
    <3>2. c.stat = "ERR"
      BY DEF Cnf
    <3> HIDE DEF c
    <3>3. v = [w EXCEPT !.out = Append(w.out, c)]
      BY <2>2 DEF Confirm
    <3> HIDE DEF v
    <3>4. /\ v.val = w.val /\ v.od = w.od /\ v.code = w.code /\ v.cs = w.cs
          /\ v.flag = w.flag /\ v.tx = w.tx
      BY <1>3, <3>3 DEF Typed, Fields
    <3>5. Typed(v)
      BY <1>3, <3>1, <3>3 DEF Typed, Fields
    <3>6. \A d \in Outs(v) : d.kind = "mode" \/ d.stat = "ERR"
      BY <1>4, <3>1, <3>2
    <3>7. QED
      BY <3>4, <3>5, <3>6
  <2>3. QED
    BY <2>1, <2>2
<1> HIDE DEF v
<1>6. /\ Typed(x) /\ x.val = h.val /\ x.od = h.od /\ x.code = h.code /\ x.cs = h.cs
      /\ x.flag = h.flag /\ x.tx = h.tx /\ x.out = v.out
  BY <1>3, <1>5 DEF Typed, Fields, IsduPart, Given, OdPart
<1> HIDE DEF x
<1>7. \A d \in Outs(x) : d.kind = "mode" \/ d.stat = "ERR"
  BY <1>5, <1>6 DEF Outs
<1>8. DOMAIN caller = CallerFields /\ NoWrite
  BY DEF WriteInv
<1>9. NoWrite' /\ DOMAIN caller' = CallerFields /\ (Apart' <=> Apart)
  BY <1>1, <1>6, <1>8, NoneHanded, Handed DEF Apart, Inv, Types
<1>10. ASSUME Write PROVE Write'
  <2>1. /\ Calm(x) /\ Flagging(x) /\ ~caller.pdout /\ caller.sm = "idle"
        /\ (md.up => x.od # "Inactive") /\ (x.tx.kind = "Write" => chip = x.tx)
    BY <1>6, <1>10 DEF Write, NoCaller, Calm, Flagging, Values
  <2>2. Downloaded'
    BY <1>1 DEF Downloaded
  <2>3. md'.up = md.up
    BY <1>1, <1>2
  <2>4. QED
    BY <1>1, <1>6, <1>7, <1>8, <1>10, <2>1, <2>2, <2>3, WriteHanded
<1>11. QED
  BY <1>9, <1>10 DEF WriteInv

\* The mode handler brings the link down, or has nothing to do.
LEMMA WriteModes == ASSUME Inv, WriteInv, ModeHandler PROVE WriteInv'
<1>0. DOMAIN caller = CallerFields /\ NoWrite /\ Typed(h) /\ h.out = <<>> /\ Isdu(h, chip, rx)
      /\ DOMAIN md = {"up", "mode", "mdh"} /\ DOMAIN mh = {"state", "retry"}
  BY DEF WriteInv, Inv, Types
<1>1. CASE md.up /\ (md.mode = "INACTIVE" \/ h.lost)
  <2> DEFINE y == Deactivated(h)
             x == [y EXCEPT !.lost = FALSE]
             c == Ended(caller)
  <2>1. /\ HandTo(x, c) /\ md' = [md EXCEPT !.up = FALSE, !.mdh = (mh.state = "reply16")]
        /\ rx' = NoRx /\ UNCHANGED <<pc, chip, dev, left, occurs>> /\ pc = "wait"
    BY <1>1 DEF ModeHandler
  <2>2. Typed(y)
    <3>1. h.is \in Active => h.trig # "DEVICE"
      BY <2>1 DEF Inv, Turns
    <3>2. QED
      BY <1>0, <3>1, Downs
  <2>3. DOMAIN c = CallerFields /\ c.pdout = caller.pdout /\ (caller.sm = "idle" => c.sm = "idle")
    BY <1>0 DEF Ended, CallerFields
  <2> HIDE DEF c
  <2>4. ASSUME Calm(h)
        PROVE  /\ Calm(y) /\ y.od = "Inactive" /\ y.val = h.val /\ Silenced(y)
               /\ y.tx.kind = "Write" => y.tx = h.tx
    BY <1>0, <2>4, CalmDown
  <2> HIDE DEF y
  <2>5. /\ Typed(x) /\ x.val = y.val /\ x.od = y.od /\ x.code = y.code /\ x.cs = y.cs
        /\ x.flag = y.flag /\ x.tx = y.tx /\ x.out = y.out
    BY <2>2 DEF Typed, Fields
  <2> HIDE DEF x
  <2>6. NoWrite' /\ DOMAIN caller' = CallerFields /\ (Apart' <=> Apart)
    BY <1>0, <2>1, <2>3, <2>5, NoneHanded, Handed DEF Apart, Inv, Types
  <2>7. ASSUME Write PROVE Write'
    <3>1. /\ Calm(y) /\ y.od = "Inactive" /\ y.val = h.val /\ Silenced(y)
          /\ y.tx.kind = "Write" => y.tx = h.tx
      BY <2>4, <2>7 DEF Write
    <3>2. Calm(x) /\ Flagging(x) /\ (\A d \in Outs(x) : d.kind # "write")
      BY <2>5, <3>1 DEF Calm, Flagging, Silenced, Outs
    <3>3. ~md'.up
      BY <1>0, <2>1
    <3>4. Downloaded'
      BY <3>3 DEF Downloaded
    <3>5. (x.tx.kind = "Write" => chip = x.tx) /\ ~c.pdout /\ c.sm = "idle"
      BY <2>3, <2>5, <2>7, <3>1 DEF Write, Values, NoCaller
    <3>6. QED
      BY <2>1, <2>3, <2>5, <2>7, <3>1, <3>2, <3>3, <3>4, <3>5, WriteHanded
  <2>8. QED
    BY <2>6, <2>7 DEF WriteInv
<1>2. CASE ~(md.up /\ (md.mode = "INACTIVE" \/ h.lost))
  <2>1. UNCHANGED <<h, al, caller, mh, rx, chip, dev, left, occurs>> /\ md' = [md EXCEPT !.mdh = FALSE]
    BY <1>2 DEF ModeHandler
  <2>2. md'.up = md.up
    BY <1>0, <2>1
  <2>3. QED
    BY <2>1, <2>2, Untouched
<1>3. QED
  BY <1>1, <1>2

\* A new session keeps what was told of the one before.
LEMMA WriteUp == ASSUME Inv, WriteInv, Up PROVE WriteInv'
<1> DEFINE y == Activated(h)
           x == Send(y, EnterOperate)
<1>1. /\ ~md.up /\ HandTo(x, caller) /\ chip' = EnterOperate /\ rx' = NoRx
      /\ mh' = [state |-> "reply16", retry |-> 0] /\ occurs' = occurs
      /\ left' = [left EXCEPT !.sessions = @ - 1]
      /\ dev' = [dev EXCEPT !.st = "Idle", !.segs = <<>>, !.mcmd = "OPERATE"]
  BY DEF Up, Hand
<1>2. /\ DOMAIN caller = CallerFields /\ NoWrite /\ Typed(h) /\ h.out = <<>> /\ Isdu(h, chip, rx)
      /\ ~h.act /\ h.is \notin {"Idle", "Error"} /\ h.od \in {"Inactive", "Command"}
      /\ (h.is \in Active => h.trig # "DEVICE")
      /\ DOMAIN dev = DeviceFields /\ DOMAIN left = LeftFields
  BY <1>1 DEF WriteInv, Inv, Types, Turns, DeviceOK
<1>3. dev'.par = dev.par /\ left'.jobs = left.jobs
  BY <1>1, <1>2 DEF DeviceFields, LeftFields
<1>4. Typed(y)
  BY <1>2, Ups
<1>5. ASSUME Calm(h)
      PROVE  Calm(y) /\ Flagging(y) /\ y.od # "Inactive" /\ y.val = h.val /\ Silenced(y)
  <2>1. h.od = "Inactive"
    BY <1>2, <1>5 DEF Calm
  <2>2. QED
    BY <1>2, <1>5, <2>1, CalmUp
<1> HIDE DEF y
<1>6. EnterOperate.kind = "Cmd"
  BY DEF EnterOperate, Msg
<1>7. /\ Typed(x) /\ x.val = y.val /\ x.od = y.od /\ x.code = y.code /\ x.cs = y.cs
      /\ x.flag = y.flag /\ x.tx = EnterOperate /\ x.out = y.out
  BY <1>4, <1>6 DEF Typed, Fields, Send, Kinds
<1> HIDE DEF x
<1>8. NoWrite' /\ DOMAIN caller' = CallerFields /\ (Apart' <=> Apart)
  BY <1>1, <1>2, <1>7, NoneHanded, Handed DEF Apart, Inv, Types
<1>9. ASSUME Write PROVE Write'
  <2>1. Calm(y) /\ Flagging(y) /\ y.od # "Inactive" /\ y.val = h.val /\ Silenced(y)
    BY <1>5, <1>9 DEF Write
  <2>2. Calm(x) /\ Flagging(x) /\ x.od # "Inactive" /\ (\A d \in Outs(x) : d.kind # "write")
    BY <1>7, <2>1 DEF Calm, Flagging, Silenced, Outs
  <2>3. Downloaded'
    BY <1>1 DEF Downloaded
  <2>4. ~caller.pdout /\ caller.sm = "idle"
    BY <1>9 DEF Write, NoCaller
  <2>5. (chip'.kind = "Write" => FALSE) /\ (x.tx.kind = "Write" => FALSE)
    BY <1>1, <1>6, <1>7
  <2>6. QED
    BY <1>1, <1>2, <1>3, <1>7, <1>9, <2>1, <2>2, <2>3, <2>4, <2>5, WriteHanded
<1>10. QED
  BY <1>8, <1>9 DEF WriteInv

\* What AL asks for: an ISDU, a parameter.
LEMMA WriteAsked == ASSUME Inv, WriteInv, AskIsdu \/ AskParam PROVE WriteInv'
<1>1. PICK kind \in {"Isdu", "Read", "Write"} :
        /\ al.op = "none" /\ al.amid = "none"
        /\ left.jobs > 0 /\ left' = [left EXCEPT !.jobs = @ - 1] /\ kind \in occurs
        /\ UNCHANGED <<md, mh, chip, rx, dev, caller, occurs>>
        /\ IF kind = "Isdu"
           THEN /\ al' = al \/ al' = [al EXCEPT !.op = "isdu", !.job = NextJob]
                /\ \/ h' = h
                   \/ h' = [h EXCEPT !.rw = "isdu", !.job = NextJob, !.seg = 0, !.tot = ReqSegs,
                                     !.buf = Empty]
           ELSE /\ al' = [al EXCEPT !.op = OpOf[kind], !.job = NextJob, !.amid = OpOf[kind]]
                /\ h' = [h EXCEPT !.rw = OpOf[kind]]
  <2>1. CASE AskIsdu
    BY <2>1 DEF AskIsdu, Asks
  <2>2. CASE AskParam
    BY <2>2 DEF AskParam, Asks
  <2>3. QED
    BY <2>1, <2>2
<1>2. /\ Typed(h) /\ DOMAIN left = LeftFields /\ left.jobs \in 1..MaxJobs /\ MaxJobs \in Nat /\ AlOK
      /\ DOMAIN caller = CallerFields /\ NoWrite
  BY <1>1, BudgetAssumption DEF Inv, Types, WriteInv
<1>3. /\ left'.jobs = left.jobs - 1 /\ NextJob = MaxJobs - left'.jobs
  BY <1>1, <1>2 DEF LeftFields, NextJob
<1>4. OpOf["Read"] = "read" /\ OpOf["Write"] = "write"
  BY DEF OpOf
<1>5. /\ al'.told = al.told
      /\ al'.op = "write" => kind = "Write" /\ al'.amid = "write" /\ al'.job = NextJob
  BY <1>1, <1>2, <1>4 DEF AlOK
<1>6. PICK n, b : n = NextJob /\ b = Empty
  OBVIOUS
<1>7. /\ h'.od = h.od /\ h'.code = h.code /\ h'.cs = h.cs /\ h'.flag = h.flag /\ h'.tx = h.tx
      /\ h'.val = h.val
  <2>1. \/ h' = h \/ h' = [h EXCEPT !.rw = OpOf[kind]]
        \/ h' = [h EXCEPT !.rw = "isdu", !.job = n, !.seg = 0, !.tot = ReqSegs, !.buf = b]
    BY <1>1, <1>6
  <2>2. QED
    BY <1>2, <2>1 DEF Typed, Fields
<1>8. NoWrite' /\ DOMAIN caller' = CallerFields /\ (Apart' <=> Apart)
  BY <1>1, <1>2, <1>5 DEF NoWrite, Apart
<1>9. ASSUME Write PROVE Write'
  <2>1. Calm(h)' /\ Flagging(h)' /\ NoCaller' /\ (md.up => h.od # "Inactive")'
    BY <1>1, <1>7, <1>9 DEF Write, Calm, Flagging, NoCaller
  <2>2. /\ h.val \in 0..MaxJobs - left.jobs /\ dev.par \in 0..h.val
        /\ (chip.kind = "Write" => chip.arg \in dev.par..h.val)
    BY <1>9 DEF Write, Values
  <2>3. h'.val \in 0..MaxJobs - left'.jobs
    BY <1>2, <1>3, <1>7, <2>2
  <2>4. al'.op = "write" => al'.job = MaxJobs - left'.jobs /\ al'.amid # "none"
    BY <1>3, <1>5
  <2>5. Values'
    BY <1>1, <1>7, <1>9, <2>2, <2>3, <2>4 DEF Write, Values
  <2>6. Downloaded'
    BY <1>5 DEF Downloaded
  <2>7. Told'
    BY <1>1, <1>5, <1>9 DEF Write, Told
  <2>8. QED
    BY <2>1, <2>5, <2>6, <2>7 DEF Write
<1>10. QED
  BY <1>8, <1>9 DEF WriteInv

\* The rest of DL_ReadWriteParam_req: a value that is stored is the largest so far.
LEMMA WriteStored == ASSUME Inv, WriteInv, StoreParam PROVE WriteInv'
<1>1. /\ al.amid # "none" /\ UNCHANGED <<md, mh, chip, rx, dev, caller, left, occurs>>
      /\ IF mh.state # "reply16"
         THEN al' = [al EXCEPT !.op = "none", !.job = 0, !.amid = "none"] /\ h' = h
         ELSE /\ al' = [al EXCEPT !.amid = "none"]
              /\ h' = IF al.amid = "write" THEN [h EXCEPT !.val = NextJob - 1] ELSE h
  BY DEF StoreParam
<1>2. /\ Typed(h) /\ left.jobs \in 0..MaxJobs /\ MaxJobs \in Nat /\ AlOK
      /\ DOMAIN caller = CallerFields /\ NoWrite
  BY BudgetAssumption DEF Inv, Types, WriteInv
<1>3. NextJob - 1 = MaxJobs - left.jobs
  BY <1>2 DEF NextJob
<1>4. PICK n : n = NextJob - 1
  OBVIOUS
<1>5. /\ al'.told = al.told /\ al'.amid = "none" /\ al'.op \in {al.op, "none"}
      /\ al'.op = "write" => mh.state = "reply16" /\ al.amid = "write" /\ al'.job = al.job
  BY <1>1, <1>2 DEF AlOK
<1>6. /\ h'.od = h.od /\ h'.code = h.code /\ h'.cs = h.cs /\ h'.flag = h.flag /\ h'.tx = h.tx
      /\ h'.val \in {h.val, n}
      /\ mh.state = "reply16" /\ al.amid = "write" => h'.val = n
  <2>1. h' = IF mh.state = "reply16" /\ al.amid = "write" THEN [h EXCEPT !.val = n] ELSE h
    BY <1>1, <1>4
  <2>2. QED
    BY <1>2, <2>1 DEF Typed, Fields
<1>7. NoWrite' /\ DOMAIN caller' = CallerFields /\ (Apart' <=> Apart)
  BY <1>1, <1>2, <1>5 DEF NoWrite, Apart
<1>8. ASSUME Write PROVE Write'
  <2>1. Calm(h)' /\ Flagging(h)' /\ NoCaller' /\ (md.up => h.od # "Inactive")'
    BY <1>1, <1>6, <1>8 DEF Write, Calm, Flagging, NoCaller
  <2>2. /\ h.val \in 0..n /\ dev.par \in 0..h.val /\ n \in Nat /\ n = MaxJobs - left.jobs
        /\ (chip.kind = "Write" => chip.arg \in dev.par..h.val)
    BY <1>2, <1>3, <1>4, <1>8 DEF Write, Values
  <2>3. h'.val \in 0..n /\ dev.par \in 0..h'.val /\ (chip.kind = "Write" => chip.arg \in dev.par..h'.val)
    BY <1>6, <2>2
  <2>4. al'.op = "write" => al'.job = h'.val
    BY <1>5, <1>6, <1>8, <2>2 DEF Write, Values
  <2>5. Values'
    BY <1>1, <1>5, <1>6, <1>8, <2>2, <2>3, <2>4 DEF Write, Values
  <2>6. Downloaded'
    BY <1>1, <1>5 DEF Downloaded
  <2>7. Told'
    BY <1>1, <1>5, <1>8 DEF Write, Told
  <2>8. QED
    BY <2>1, <2>5, <2>6, <2>7 DEF Write
<1>9. QED
  BY <1>7, <1>8 DEF WriteInv

\* Commands come only without writes.
LEMMA WriteCommands == ASSUME Inv, WriteInv, AskPdout \/ RunPdout \/ AskMode \/ RunMode
  PROVE WriteInv'
<1>1. UNCHANGED <<al, occurs>>
  BY DEF AskPdout, RunPdout, AskMode, RunMode
<1>2. DOMAIN caller' = CallerFields
  BY DEF AskPdout, RunPdout, AskMode, RunMode, WriteInv, CallerFields
<1>3. NoWrite' /\ (Apart' <=> Apart)
  BY <1>1 DEF WriteInv, NoWrite, Apart
<1>4. ~Apart
  BY DEF AskPdout, RunPdout, AskMode, RunMode, WriteInv, Write, NoCaller, Apart
<1>5. QED
  BY <1>2, <1>3, <1>4 DEF WriteInv

\* At the start nothing was written.
LEMMA WriteInit == ASSUME Init, Inv PROVE WriteInv
<1>1. h = HandlersInit /\ caller = [pdout |-> FALSE, sm |-> "idle", events |-> <<>>]
      /\ md.up = FALSE /\ mh.state = "off" /\ chip = IdleMsg /\ dev.par = 0
      /\ al.op = "none" /\ al.told = <<0, Cnf("none", "OK", 0)>> /\ left.jobs = MaxJobs
      /\ MaxJobs \in Nat
  BY BudgetAssumption DEF Init, DeviceInit
<1>2. al.told[2].kind = "none"
  BY <1>1 DEF Cnf
<1>3. h.od = "Inactive" /\ h.code = "NONE" /\ h.cs = "Inactive" /\ h.val = 0 /\ h.tx = IdleMsg
  BY <1>1 DEF HandlersInit
<1>4. IdleMsg.kind = "Idle"
  BY DEF IdleMsg, Msg
<1>5. Values
  BY <1>1, <1>3, <1>4 DEF Values
<1>6. Write
  BY <1>1, <1>2, <1>3, <1>5 DEF Write, Calm, Flagging, NoCaller, Downloaded, Told
<1>7. QED
  BY <1>1, <1>2, <1>6 DEF WriteInv, NoWrite, CallerFields

\* Every step.
LEMMA WriteKept == Inv /\ WriteInv /\ InTime /\ [Next]_vars => WriteInv'
BY WriteUp, WriteModes, WriteReceived, WritePrepared, WriteWritten, WriteAside, WriteLost,
   WriteExchanged, WriteAsked, WriteStored, WriteCommands DEF Next, Thread, Callers, Free

\* What happens together in a behaviour is settled at its start.
LEMMA MixKept == Next => UNCHANGED occurs
BY DEF Next, Thread, Callers, Free, ModeHandler, Received, Prepare, WriteNow, Written, Resend,
   ComLost, RunPdout, RunMode, Exchange, Up, IsduTimeout, Drop, Trouble, DeviceEvent, AskIsdu,
   AskParam, StoreParam, Asks, AskPdout, AskMode, AskInactive

\* A write that AL is told is good has reached the device, which has that value or a later
\* one: whatever messages are lost, whatever events are read between the write and its answer,
\* and however often the link goes down and up (AW_REPLY_16 with a WRITEPARAM, AW_REPLY_9,
\* DL_ReadWriteParam_req), in every behaviour without commands in which the DL thread takes no
\* write whose value is not stored yet; where it does, the statement is false.
THEOREM WritesHaveReached == Spec => (WritesApart => WritesReach)
<1>1. Init /\ WritesApart => Inv /\ WriteInv /\ WritesApart
  BY InitInv, WriteInit
<1>2. (Inv /\ WriteInv /\ WritesApart) /\ InTime /\ [Next]_vars => (Inv /\ WriteInv /\ WritesApart)'
  <2>1. Next => (WritesApart' <=> WritesApart)
    BY MixKept DEF WritesApart
  <2>2. UNCHANGED vars => (WritesApart' <=> WritesApart)
    BY DEF vars, WritesApart
  <2>3. QED
    BY <2>1, <2>2, NextKeeps, WriteKept
<1>3. Inv /\ WriteInv /\ WritesApart => WriteReached
  <2> SUFFICES ASSUME Inv, WriteInv, WritesApart, al.told[2].kind = "write", al.told[2].stat = "OK"
               PROVE  dev.par >= al.told[1]
    BY DEF WriteReached
  <2>1. "Write" \in occurs
    BY DEF WriteInv, NoWrite
  <2>2. Write
    BY <2>1 DEF WriteInv, WritesApart, Apart
  <2>3. h.val \in Nat
    BY <2>2, BudgetAssumption DEF Write, Values, Inv, Types
  <2>4. QED
    BY <2>2, <2>3 DEF Write, Values, Told
<1>4. QED
  BY <1>1, <1>2, <1>3, PTL DEF Spec, WritesReach

-----------------------------------------------------------------------------
(* Whom the events reach.                                                   *)

\* What the event handler has read of event e after n bytes of the event memory.
Bytes(e, n) == [k \in 1..n |-> e]

\* Another byte of the same event.
LEMMA OneMoreByte == ASSUME NEW e, NEW n \in Nat
  PROVE Append(Bytes(e, n), e) = Bytes(e, n + 1)
<1>1. Bytes(e, n) \in Seq({e}) /\ Bytes(e, n + 1) \in Seq({e}) /\ Len(Bytes(e, n)) = n
      /\ Len(Bytes(e, n + 1)) = n + 1
  BY DEF Bytes
<1> DEFINE a == Append(Bytes(e, n), e)
           b == Bytes(e, n + 1)
<1>2. a \in Seq({e}) /\ Len(a) = n + 1
  BY <1>1
<1> HIDE DEF a, b
<1>3. DOMAIN a = 1..(n + 1) /\ DOMAIN b = 1..(n + 1) /\ (\A k \in 1..(n + 1) : a[k] = e /\ b[k] = e)
  BY <1>1, <1>2 DEF b
<1>4. a = [k \in DOMAIN a |-> a[k]] /\ b = [k \in DOMAIN b |-> b[k]]
  BY <1>1, <1>2 DEF b
<1>5. a = b
  BY <1>3, <1>4
<1>6. QED
  BY <1>5 DEF a, b

\* Two events differ in every byte.
LEMMA BytesDiffer == ASSUME NEW e, NEW f, Bytes(e, EvBytes) = Bytes(f, EvBytes) PROVE e = f
<1>1. 1 \in 1..EvBytes
  BY SegmentsAssumption
<1>2. Bytes(e, EvBytes)[1] = e /\ Bytes(f, EvBytes)[1] = f
  BY <1>1 DEF Bytes
<1>3. QED
  BY <1>2

\* A single confirmation is what is taken of its kind.
LEMMA OfOne == ASSUME NEW x, NEW c, x.out = <<c>> PROVE Of(x, c.kind) = <<c>>
<1> DEFINE at == {i \in DOMAIN x.out : x.out[i].kind = c.kind}
<1>1. DOMAIN x.out = {1} /\ x.out[1] = c
  OBVIOUS
<1>2. at = {1}
  BY <1>1
<1>3. Of(x, c.kind) = SelectAt(x.out, at)
  BY DEF Of
<1> HIDE DEF at
<1>4. {1} \in SUBSET (1..1) /\ 1 \in Nat
  OBVIOUS
<1>5. Cardinality({1}) = 1
  BY FS_Singleton
<1>6. Nth({1}, 1) \in {1}
  <2>1. 1 \in 1..Cardinality({1})
    BY <1>5
  <2>2. QED
    BY <1>4, <2>1, NthInside
<1>7. SelectAt(x.out, {1}) = [k \in 1..1 |-> x.out[Nth({1}, k)]]
  BY <1>5 DEF SelectAt
<1>8. [k \in 1..1 |-> x.out[Nth({1}, k)]] = <<c>>
  <2>1. \A k \in 1..1 : x.out[Nth({1}, k)] = c
    BY <1>1, <1>6
  <2>2. [k \in 1..1 |-> x.out[Nth({1}, k)]] = [k \in 1..1 |-> c]
    BY <2>1
  <2>3. [k \in 1..1 |-> c] = <<c>>
    OBVIOUS
  <2>4. QED
    BY <2>2, <2>3
<1>9. QED
  BY <1>2, <1>3, <1>7, <1>8

\* The handlers' state goes on, an event is added to those told, and nothing else is.
NoEvent(x) == \A c \in Outs(x) : c.kind # "event"
\* A step without an event leaves those that were told.
LEMMA EventsHanded == ASSUME NEW x, Typed(x), HandTo(x, caller), DOMAIN caller = CallerFields,
                             IsSeq(caller.events)
  PROVE /\ h' = [x EXCEPT !.out = <<>>]
        /\ DOMAIN caller' = CallerFields /\ caller'.pdout = caller.pdout
        /\ caller.sm \in {"idle", "wait"} => caller'.sm \in {"idle", "wait"}
        /\ NoEvent(x) => caller'.events = caller.events
        /\ \A c : x.out = <<c>> /\ c.kind = "event" => caller'.events = Append(caller.events, c)
<1>1. h' = [x EXCEPT !.out = <<>>]
  BY DEF HandTo, Delivered
<1>2. PICK b \in {caller, Ended(caller)} : caller' = [b EXCEPT !.events = @ \o Of(x, "event")]
  BY DEF HandTo
<1>3. /\ DOMAIN b = CallerFields /\ b.pdout = caller.pdout /\ b.events = caller.events
      /\ caller.sm \in {"idle", "wait"} => b.sm \in {"idle", "wait"}
  BY DEF Ended, CallerFields
<1>4. /\ DOMAIN caller' = CallerFields /\ caller'.pdout = b.pdout /\ caller'.sm = b.sm
      /\ caller'.events = caller.events \o Of(x, "event")
  BY <1>2, <1>3 DEF CallerFields
<1>5. ASSUME NoEvent(x) PROVE caller'.events = caller.events
  <2>1. IsSeq(x.out)
    BY DEF Typed
  <2>2. Of(x, "event") = <<>>
    BY <1>5, <2>1, OfOuts DEF NoEvent
  <2>3. caller.events \o <<>> = caller.events
    BY DEF IsSeq
  <2>4. QED
    BY <1>4, <2>2, <2>3
<1>6. ASSUME NEW c, x.out = <<c>>, c.kind = "event" PROVE caller'.events = Append(caller.events, c)
  <2>1. Of(x, "event") = <<c>>
    BY <1>6, OfOne
  <2>2. PICK S : caller.events \in Seq(S)
    BY DEF IsSeq
  <2>3. caller.events \in Seq(S \cup {c}) /\ c \in S \cup {c}
    BY <2>2
  <2>4. caller.events \o <<c>> = Append(caller.events, c)
    BY <2>3
  <2>5. QED
    BY <1>4, <2>1, <2>4
<1>7. QED
  BY <1>1, <1>3, <1>4, <1>5, <1>6

-----------------------------------------------------------------------------
(* What a trigger does to the events, to the commands, and to what is sent.  *)

\* An active ISDU handler sends something before every message, and no write of its own.
LEMMA IsduSends == ASSUME NEW x, NEW r, Typed(x), x.act, x.is # "Inactive"
  PROVE /\ ~x.lost /\ x.trig = "MASTER" => IsduHandler(x, r).tx.kind \in IsduKinds
        /\ IsduHandler(x, r).rw \in {x.rw, "none"}
<1> DEFINE Good3(y) == /\ ~x.lost /\ x.trig = "MASTER" => y.tx.kind \in IsduKinds
                       /\ y.rw \in {x.rw, "none"}
<1>0. \A k, a, b : Msg(k, a, b).kind = k
  BY DEF Msg
<1>1. \A k \in IsduKinds : \A a, b : Good3(Send(x, Msg(k, a, b)))
  BY <1>0 DEF Send, Typed, Fields
<1>2. Good3(IsduError(x))
  BY <1>0 DEF IsduError, Send, Confirm, Typed, Fields, IsduKinds
<1>3. Good3(EnterError(x))
  <2>1. CASE x.trig = "MASTER"
    BY <1>2, <2>1 DEF EnterError
  <2>2. CASE x.trig # "MASTER"
    <3>1. EnterError(x) = [x EXCEPT !.is = "Error"]
      BY <2>2 DEF EnterError
    <3>2. QED
      BY <2>2, <3>1 DEF Typed, Fields
  <2>3. QED
    BY <2>1, <2>2
<1>4. CASE x.is = "Idle"
  <2>1. \/ x.trig = "MASTER" /\ IsduHandler(x, r) = [Send(x, Msg("Seg", 0, x.job)) EXCEPT !.seg = 1, !.is = "Request"]
        \/ x.trig = "MASTER" /\ \E k \in {"Read", "Write", "Idle"} : \E a : IsduHandler(x, r) = Send(x, Msg(k, 0, a))
        \/ x.trig # "MASTER" /\ \E c : IsduHandler(x, r) = Confirm([x EXCEPT !.rw = "none"], c)
        \/ x.trig # "MASTER" /\ IsduHandler(x, r) = x
    BY <1>4 DEF IsduHandler, IsduIdle, IdleMsg
  <2>2. Good3([Send(x, Msg("Seg", 0, x.job)) EXCEPT !.seg = 1, !.is = "Request"])
    BY <1>0 DEF Send, Typed, Fields, IsduKinds
  <2>3. \A k \in {"Read", "Write", "Idle"} : \A a : Good3(Send(x, Msg(k, 0, a)))
    BY <1>1 DEF IsduKinds
  <2>4. \A c : Confirm([x EXCEPT !.rw = "none"], c).rw = "none"
    BY DEF Confirm, Typed, Fields
  <2> HIDE DEF Good3
  <2>5. QED
    BY <2>1, <2>2, <2>3, <2>4 DEF Good3
<1>5. CASE x.is = "Request"
  <2> DEFINE s == [Send(x, Msg("Seg", x.seg, x.job)) EXCEPT !.seg = @ + 1]
             w == [x EXCEPT !.seg = 0, !.is = "Wait", !.late = FALSE]
  <2>1. s.rw = x.rw /\ s.tx = Msg("Seg", x.seg, x.job) /\ w.rw = x.rw
    BY DEF Send, Typed, Fields
  <2> HIDE DEF s, w
  <2>2. \/ IsduHandler(x, r) = EnterError(x) \/ IsduHandler(x, r) = s
        \/ x.trig # "MASTER" /\ IsduHandler(x, r) \in {w, x}
    BY <1>5 DEF IsduHandler, IsduRequest, s, w
  <2>3. QED
    BY <1>0, <1>3, <2>1, <2>2 DEF IsduKinds
<1>6. CASE x.is = "Error"
  BY <1>2, <1>6 DEF IsduHandler
<1>7. \A z : z.rw = x.rw /\ Typed(z) /\ z.act => Complete(z).rw = "none" /\ EnterError(z).rw \in {x.rw, "none"}
  BY DEF Complete, EnterError, IsduError, Send, Confirm, Typed, Fields
<1>8. CASE x.is = "Wait"
  <2> DEFINE b == [x.buf EXCEPT ![0] = <<r.at, r.arg>>]
             z == [x EXCEPT !.buf = b, !.seg = 1, !.tot = RespSegs]
             n == [x EXCEPT !.late = FALSE]
             e == [z EXCEPT !.is = "Response"]
  <2>1. [x EXCEPT !.buf[0] = <<r.at, r.arg>>, !.seg = 1, !.tot = RespSegs] = z
    OBVIOUS
  <2>2. Buffer(b)
    BY BufferKept DEF Typed
  <2> HIDE DEF b
  <2>3. Typed(z) /\ z.rw = x.rw /\ z.act /\ Typed(n) /\ n.rw = x.rw /\ n.act /\ e.rw = x.rw
    BY <2>2 DEF Typed, Fields
  <2> HIDE DEF z, n, e
  <2>4. Complete(z).rw = "none" /\ EnterError(n).rw \in {x.rw, "none"}
    BY <1>7, <2>3
  <2>5. \/ IsduHandler(x, r) = EnterError(x) \/ IsduHandler(x, r) = Send(x, Msg("Get", 0, 0))
        \/ x.trig # "MASTER" /\ IsduHandler(x, r) \in {x, EnterError(n), Complete(z), e}
    BY <1>8, <2>1 DEF IsduHandler, IsduWait, n, e
  <2>6. Good3(Send(x, Msg("Get", 0, 0)))
    BY <1>1 DEF IsduKinds
  <2> HIDE DEF Good3
  <2>7. QED
    BY <1>3, <2>3, <2>4, <2>5, <2>6 DEF Good3
<1>9. CASE x.is = "Response"
  <2> DEFINE b == [x.buf EXCEPT ![x.seg] = <<r.at, r.arg>>]
             z == [x EXCEPT !.buf = b, !.seg = x.seg + 1]
  <2>1. [x EXCEPT !.buf[x.seg] = <<r.at, r.arg>>, !.seg = @ + 1] = z
    OBVIOUS
  <2>2. Buffer(b)
    BY BufferKept DEF Typed
  <2> HIDE DEF b
  <2>3. Typed(z) /\ z.rw = x.rw /\ z.act
    <3>0. PICK n \in Nat : n = x.seg + 1
      BY DEF Typed
    <3>1. Typed([x EXCEPT !.buf = b, !.seg = n])
      BY <2>2 DEF Typed, Fields
    <3>2. z.rw = x.rw /\ z.act
      BY DEF Typed, Fields
    <3>3. QED
      BY <3>0, <3>1, <3>2
  <2> HIDE DEF z
  <2>4. Complete(z).rw = "none"
    BY <1>7, <2>3
  <2>5. \/ IsduHandler(x, r) = EnterError(x) \/ IsduHandler(x, r) = Send(x, Msg("Get", x.seg, 0))
        \/ x.trig # "MASTER" /\ IsduHandler(x, r) \in {x, Complete(z), z}
    BY <1>9, <2>1 DEF IsduHandler, IsduResponse
  <2>6. Good3(Send(x, Msg("Get", x.seg, 0)))
    BY <1>1 DEF IsduKinds
  <2> HIDE DEF Good3
  <2>7. QED
    BY <1>3, <2>3, <2>4, <2>5, <2>6 DEF Good3
<1>10. QED
  BY <1>4, <1>5, <1>6, <1>8, <1>9 DEF Typed

\* The event handler takes the answer to a read: the status code, a byte, the last byte.
OneRead(x, y, r) ==
  /\ x.addr = 0 /\ r.arg # 0 => /\ y.es = "Read" /\ y.addr = 1 /\ y.got = x.got /\ y.conf = x.conf
                                /\ NoEvent(y)
  /\ x.addr \in 1..EvBytes - 1 => /\ y.es = "Read" /\ y.addr = x.addr + 1 /\ y.conf = x.conf
                                  /\ y.got = Append(x.got, r.arg) /\ NoEvent(y)
  /\ x.addr = EvBytes => /\ y.es = "Idle" /\ y.conf
                         /\ y.out = <<Cnf("event", "OK", Append(x.got, r.arg))>>

\* The event handler takes a byte.
LEMMA ReadTaken == ASSUME NEW x, NEW r, Typed(x), x.out = <<>>, x.es = "Read"
  PROVE OneRead(x, EventRead(x, r), r) /\ EventRead(x, r).tx = x.tx
<1>0. EvBytes \in Nat \ {0} /\ x.addr \in 0..EvBytes + 1
  BY SegmentsAssumption DEF Typed
<1>1. ASSUME NEW y, y.out = <<>> PROVE NoEvent(y)
  BY <1>1 DEF NoEvent, Outs
<1> DEFINE s == [x EXCEPT !.addr = 1]
           i == [x EXCEPT !.conf = TRUE, !.es = "Idle"]
           g == Append(x.got, r.arg)
           a == x.addr + 1
           b == [x EXCEPT !.got = g, !.addr = a]
           l == [x EXCEPT !.got = g, !.addr = a, !.conf = TRUE, !.es = "Idle"]
<1>2. /\ s.es = "Read" /\ s.addr = 1 /\ s.got = x.got /\ s.conf = x.conf /\ s.out = <<>> /\ s.tx = x.tx
      /\ i.tx = x.tx
  BY DEF Typed, Fields
<1>3. b.es = "Read" /\ b.addr = a /\ b.got = g /\ b.conf = x.conf /\ b.out = <<>> /\ b.tx = x.tx
  BY DEF Typed, Fields
<1>4. /\ l.es = "Idle" /\ l.conf /\ l.out = <<>> /\ l.tx = x.tx /\ DOMAIN l = Fields
  BY DEF Typed, Fields
<1>5. EventRead(x, r) = IF x.addr = 0 THEN IF r.arg = 0 THEN i ELSE s
                        ELSE IF x.addr < EvBytes THEN b ELSE Confirm(l, Cnf("event", "OK", g))
  <2>1. [b EXCEPT !.conf = TRUE, !.es = "Idle"] = l /\ b.got = g
    BY DEF Typed, Fields
  <2>2. QED
    BY <2>1 DEF EventRead
<1> HIDE DEF s, b, l, i
<1>6. CASE x.addr = 0
  BY <1>0, <1>1, <1>2, <1>5, <1>6 DEF OneRead
<1>7. CASE x.addr \in 1..EvBytes - 1
  <2>1. EventRead(x, r) = b
    BY <1>0, <1>5, <1>7
  <2>2. QED
    BY <1>0, <1>1, <1>3, <1>7, <2>1 DEF OneRead
<1>8. CASE x.addr >= EvBytes
  <2>1. EventRead(x, r) = Confirm(l, Cnf("event", "OK", g))
    BY <1>0, <1>5, <1>8
  <2> DEFINE c == Cnf("event", "OK", g)
  <2> HIDE DEF c
  <2>2. Append(<<>>, c) = <<c>>
    OBVIOUS
  <2>3. /\ Confirm(l, c).es = "Idle" /\ Confirm(l, c).conf /\ Confirm(l, c).out = <<c>>
        /\ Confirm(l, c).tx = x.tx
    BY <1>4, <2>2 DEF Confirm, Fields
  <2>4. QED
    BY <1>0, <1>8, <2>1, <2>3 DEF OneRead, c
<1>9. QED
  BY <1>0, <1>6, <1>7, <1>8

\* The state in which a link that is up runs its handlers, without writes.
Running(x) == /\ Typed(x) /\ x.out = <<>> /\ x.act /\ ~x.lost /\ x.od # "Inactive"
              /\ x.is # "Inactive" /\ x.es # "Inactive" /\ x.rw # "write"

\* The ISDU handler's turn is nothing to the events and the commands.
LEMMA IsduTurn == ASSUME NEW x, NEW r, Running(x)
  PROVE LET y == IsduHandler(x, r) IN
        /\ Typed(y) /\ Given(y) = Given(x) /\ CmdPart(y) = CmdPart(x) /\ EventPart(y) = EventPart(x)
        /\ NoEvent(y) /\ y.rw # "write" /\ OdPart(y) = OdPart(x)
        /\ x.trig = "MASTER" => y.tx.kind \in IsduKinds
<1> DEFINE y == IsduHandler(x, r)
<1>1. IsduKeeps(x, y)
  BY IsduDoes DEF Running
<1>2. (x.trig = "MASTER" => y.tx.kind \in IsduKinds) /\ y.rw \in {x.rw, "none"}
  BY IsduSends DEF Running
<1> HIDE DEF y
<1>3. NoEvent(y)
  <2>1. \A d \in Outs(x) : FALSE
    BY DEF Running, Outs
  <2>2. CASE y.out = x.out
    BY <2>1, <2>2 DEF NoEvent, Outs
  <2>3. ASSUME NEW c, c.kind \in {"isdu", "read", "write"}, y.out = Append(x.out, c) PROVE NoEvent(y)
    <3>1. Typed(x) /\ y.out = Append(x.out, c)
      BY <2>3 DEF Running
    <3>2. Outs(y) = Outs(x) \cup {c}
      BY <3>1, OneMore
    <3>3. QED
      BY <2>1, <2>3, <3>2 DEF NoEvent
  <2>4. QED
    BY <1>1, <2>2, <2>3 DEF IsduKeeps, MayConfirm
<1>4. QED
  BY <1>1, <1>2, <1>3 DEF IsduKeeps, Running, y

\* An answer: the event handler may take it as the answer to its read; nothing else concerns
\* the events, and no command begins.
AfterAnswer(x, y, r) ==
  /\ Typed(y) /\ Given(y) = Given(x) /\ y.rw # "write" /\ y.code = x.code /\ y.cs = x.cs
  /\ y.od = IF x.od = "Command" /\ x.code # "NONE" THEN "Command"
            ELSE IF x.flag THEN "Event" ELSE "Isdu"
  /\ x.od = "Command" => y.tx = x.tx
  /\ IF x.od = "Event" /\ x.flag /\ x.es = "Read" THEN OneRead(x, y, r)
     ELSE EventPart(y) = EventPart(x) /\ NoEvent(y)

\* The OD handler takes an answer.
LEMMA AnswerTaken == ASSUME NEW x, NEW r, Running(x)
  PROVE AfterAnswer(x, Trigger(x, "DEVICE", r), r)
<1> DEFINE z == [x EXCEPT !.trig = "DEVICE"]
           y == Trigger(x, "DEVICE", r)
           i == IsduHandler(z, r)
           e == EvHandler(z, r)
           u == [z EXCEPT !.trig = "NONE"]
           w == WriteMasterCommand(u, "OK")
<1>1. /\ Typed(z) /\ Running(z) /\ Given(z) = Given(x) /\ EventPart(z) = EventPart(x)
      /\ z.trig = "DEVICE" /\ z.tx = x.tx /\ z.od = x.od /\ z.code = x.code /\ z.cs = x.cs
      /\ z.flag = x.flag /\ z.out = <<>> /\ z.es = x.es /\ z.addr = x.addr /\ z.got = x.got
      /\ z.conf = x.conf /\ z.act /\ ~z.lost /\ z.rw = x.rw
  BY ZenonT(40) DEF Running, Typed, Fields, Given, EventPart
<1>2. y = OdHandler(z, r)
  BY DEF Trigger
<1> HIDE DEF z
<1>3. \/ x.od = "Isdu" /\ x.flag /\ y = [i EXCEPT !.od = "Event"]
      \/ x.od = "Isdu" /\ ~x.flag /\ y = [i EXCEPT !.trig = "NONE"]
      \/ x.od = "Event" /\ ~x.flag /\ y = [z EXCEPT !.od = "Isdu"]
      \/ x.od = "Event" /\ x.flag /\ y = [e EXCEPT !.trig = "NONE"]
      \/ x.od = "Command" /\ x.code # "NONE" /\ y = u
      \/ x.od = "Command" /\ x.code = "NONE" /\ y = [w EXCEPT !.od = IF x.flag THEN "Event" ELSE "Isdu"]
  BY <1>1, <1>2 DEF OdHandler, OdIsdu, OdEvent, OdCommand, Untriggered, Running, Typed
<1> HIDE DEF y
<1>4. ASSUME NEW v, v.out = <<>> PROVE NoEvent(v)
  BY <1>4 DEF NoEvent, Outs
<1>5. ASSUME x.od = "Isdu" PROVE AfterAnswer(x, y, r)
  <2>1. /\ Typed(i) /\ Given(i) = Given(z) /\ CmdPart(i) = CmdPart(z) /\ EventPart(i) = EventPart(z)
        /\ NoEvent(i) /\ i.rw # "write" /\ OdPart(i) = OdPart(z)
    BY <1>1, IsduTurn
  <2> HIDE DEF i
  <2>2. /\ Typed(y) /\ Given(y) = Given(i) /\ CmdPart(y) = CmdPart(i) /\ EventPart(y) = EventPart(i)
        /\ y.out = i.out /\ y.rw = i.rw /\ (x.flag => y.od = "Event") /\ (~x.flag => y.od = i.od)
    BY <1>3, <1>5, <2>1 DEF Typed, Fields, Given, CmdPart, EventPart
  <2>3. NoEvent(y)
    BY <2>1, <2>2 DEF NoEvent, Outs
  <2>4. QED
    BY <1>1, <1>5, <2>1, <2>2, <2>3 DEF AfterAnswer, CmdPart, OdPart
<1>6. ASSUME x.od = "Event", ~x.flag PROVE AfterAnswer(x, y, r)
  <2>1. y = [z EXCEPT !.od = "Isdu"]
    BY <1>3, <1>6
  <2>2. /\ Typed(y) /\ Given(y) = Given(z) /\ EventPart(y) = EventPart(z) /\ y.out = <<>>
        /\ y.rw = z.rw /\ y.code = z.code /\ y.cs = z.cs /\ y.od = "Isdu"
    BY <1>1, <2>1 DEF Typed, Fields, Given, EventPart
  <2>3. QED
    BY <1>1, <1>4, <1>6, <2>2 DEF AfterAnswer, Running
<1>7. ASSUME x.od = "Event", x.flag PROVE AfterAnswer(x, y, r)
  <2>1. /\ Typed(e) /\ IsduPart(e) = IsduPart(z) /\ Given(e) = Given(z) /\ CmdPart(e) = CmdPart(z)
        /\ OdPart(e) = OdPart(z)
    BY <1>1, EvDoes
  <2>2. CASE x.es # "Read"
    <3>1. e = z
      BY <1>1, <2>2 DEF EvHandler, Running, Typed
    <3>2. y = [z EXCEPT !.trig = "NONE"]
      BY <1>3, <1>7, <3>1
    <3>3. /\ Typed(y) /\ Given(y) = Given(z) /\ EventPart(y) = EventPart(z) /\ y.out = <<>>
          /\ y.rw = z.rw /\ y.code = z.code /\ y.cs = z.cs /\ y.od = "Event"
      BY <1>1, <1>7, <3>2 DEF Typed, Fields, Given, EventPart
    <3>4. QED
      BY <1>1, <1>4, <1>7, <2>2, <3>3 DEF AfterAnswer, Running
  <2>3. CASE x.es = "Read"
    <3>1. e = EventRead(z, r)
      BY <1>1, <2>3 DEF EvHandler
    <3>2. OneRead(z, e, r)
      BY <1>1, <2>3, <3>1, ReadTaken
    <3> HIDE DEF e
    <3>3. y = [e EXCEPT !.trig = "NONE"]
      BY <1>3, <1>7
    <3>4. /\ Typed(y) /\ Given(y) = Given(e) /\ CmdPart(y) = CmdPart(e) /\ y.od = e.od
          /\ y.es = e.es /\ y.addr = e.addr /\ y.got = e.got /\ y.conf = e.conf /\ y.out = e.out
          /\ y.rw = e.rw
      BY <2>1, <3>3 DEF Typed, Fields, Given, CmdPart
    <3>5. NoEvent(e) <=> NoEvent(y)
      BY <3>4 DEF NoEvent, Outs
    <3>6. OneRead(x, y, r)
      BY <1>1, <3>2, <3>4, <3>5 DEF OneRead
    <3>7. /\ y.rw # "write" /\ y.code = x.code /\ y.cs = x.cs /\ y.od = "Event" /\ Given(y) = Given(x)
      BY <1>1, <1>7, <2>1, <3>4 DEF Running, CmdPart, OdPart, IsduPart
    <3>8. QED
      BY <1>7, <2>3, <3>4, <3>6, <3>7 DEF AfterAnswer
  <2>4. QED
    BY <2>2, <2>3
<1>8. ASSUME x.od = "Command", x.code # "NONE" PROVE AfterAnswer(x, y, r)
  <2>1. y = [z EXCEPT !.trig = "NONE"]
    BY <1>3, <1>8
  <2>2. /\ Typed(y) /\ Given(y) = Given(z) /\ EventPart(y) = EventPart(z) /\ y.out = <<>>
        /\ y.rw = z.rw /\ y.code = z.code /\ y.cs = z.cs /\ y.od = "Command" /\ y.tx = z.tx
    BY <1>1, <1>8, <2>1 DEF Typed, Fields, Given, EventPart
  <2>3. QED
    BY <1>1, <1>4, <1>8, <2>2 DEF AfterAnswer, Running
<1>9. ASSUME x.od = "Command", x.code = "NONE" PROVE AfterAnswer(x, y, r)
  <2>1. Typed(u) /\ Given(u) = Given(z) /\ EventPart(u) = EventPart(z) /\ u.out = <<>>
        /\ u.rw = z.rw /\ u.code = z.code /\ u.cs = z.cs /\ u.tx = z.tx
    BY <1>1 DEF Typed, Fields, Given, EventPart
  <2> HIDE DEF u
  <2>2. /\ Typed(w) /\ IsduPart(w) = IsduPart(u) /\ Given(w) = Given(u) /\ EventPart(w) = EventPart(u)
        /\ w.tx = u.tx /\ MayConfirm(u, w, {"mode"})
    BY <2>1, WriteDoes
  <2>3. w.code = u.code /\ w.cs = u.cs
    BY <2>1 DEF WriteMasterCommand, Confirm, Typed, Fields
  <2>4. NoEvent(w)
    <3>1. \A d \in Outs(u) : FALSE
      BY <2>1 DEF Outs
    <3>2. CASE w.out = u.out
      BY <3>1, <3>2 DEF NoEvent, Outs
    <3>3. ASSUME NEW c, c.kind \in {"mode"}, w.out = Append(u.out, c) PROVE NoEvent(w)
      <4>1. Typed(u) /\ w.out = Append(u.out, c)
        BY <2>1, <3>3
      <4>2. Outs(w) = Outs(u) \cup {c}
        BY <4>1, OneMore
      <4>3. QED
        BY <3>1, <3>3, <4>2 DEF NoEvent
    <3>4. QED
      BY <2>2, <3>2, <3>3 DEF MayConfirm
  <2> HIDE DEF w
  <2>5. y = [w EXCEPT !.od = IF x.flag THEN "Event" ELSE "Isdu"]
    BY <1>3, <1>9
  <2>6. /\ Typed(y) /\ Given(y) = Given(w) /\ EventPart(y) = EventPart(w) /\ y.out = w.out
        /\ y.rw = w.rw /\ y.code = w.code /\ y.cs = w.cs /\ y.tx = w.tx
        /\ y.od = IF x.flag THEN "Event" ELSE "Isdu"
    BY <2>2, <2>5 DEF Typed, Fields, Given, EventPart
  <2>7. NoEvent(y)
    BY <2>4, <2>6 DEF NoEvent, Outs
  <2>8. QED
    BY <1>1, <1>9, <2>1, <2>2, <2>3, <2>6, <2>7 DEF AfterAnswer, Running, IsduPart
<1>10. QED
  BY <1>5, <1>6, <1>7, <1>8, <1>9 DEF Running, Typed, y

\* The next message is prepared: a command, the ISDU handler's, the event handler's, or, while
\* the OD handler waits for a command to be written, the one before.
ReadsOn(x, y) ==
  /\ x.es = "Idle" /\ ~x.conf => /\ y.tx = Msg("EvRead", 0, 0) /\ y.addr = 0 /\ y.got = <<>>
                                 /\ y.es = "Read" /\ ~y.conf
  /\ x.es = "Idle" /\ x.conf => y.tx.kind = "EvConf" /\ ~y.conf /\ y.es = "Idle"
  /\ x.es = "Read" => y.tx = Msg("EvRead", x.addr, 0) /\ EventPart(y) = EventPart(x)

BeforeMessage(x, y) ==
  /\ Typed(y) /\ Given(y) = Given(x) /\ y.rw # "write" /\ NoEvent(y)
  /\ \/ /\ x.od # "Command" /\ x.code # "NONE" /\ y.od = "Command" /\ y.code = "NONE"
        /\ y.cs = "Idle" /\ y.tx.kind = "Cmd" /\ EventPart(y) = EventPart(x)
     \/ /\ x.od = "Isdu" /\ x.code = "NONE" /\ y.code = "NONE" /\ y.cs = x.cs
        /\ y.od = (IF x.flag THEN "Event" ELSE "Isdu")
        /\ y.tx.kind \in IsduKinds /\ EventPart(y) = EventPart(x)
     \/ /\ x.od = "Event" /\ x.flag /\ x.code = "NONE" /\ y.code = "NONE" /\ y.cs = x.cs
        /\ y.od = "Event" /\ ReadsOn(x, y)
     \/ /\ x.od = "Command" /\ x.code # "NONE" /\ y.code = x.code /\ y.cs = x.cs
        /\ y.od = "Command" /\ y.tx = x.tx /\ EventPart(y) = EventPart(x)

\* The OD handler prepares a message.
LEMMA MessagePrepared == ASSUME NEW x, NEW r, Running(x),
    x.od = "Event" => x.flag, x.od = "Command" => x.code # "NONE",
    x.od # "Command" /\ x.code # "NONE" => x.cs = "Master"
  PROVE BeforeMessage(x, Trigger(x, "MASTER", r))
<1> DEFINE z == [x EXCEPT !.trig = "MASTER"]
           y == Trigger(x, "MASTER", r)
           i == IsduHandler(z, r)
           e == EvHandler(z, r)
           m == CmdHandler(z)
<1>1. /\ Typed(z) /\ Running(z) /\ Given(z) = Given(x) /\ EventPart(z) = EventPart(x)
      /\ z.trig = "MASTER" /\ z.tx = x.tx /\ z.od = x.od /\ z.code = x.code /\ z.cs = x.cs
      /\ z.flag = x.flag /\ z.out = <<>> /\ z.es = x.es /\ z.addr = x.addr /\ z.got = x.got
      /\ z.conf = x.conf /\ z.act /\ ~z.lost /\ z.rw = x.rw
  BY ZenonT(40) DEF Running, Typed, Fields, Given, EventPart
<1>2. y = OdHandler(z, r)
  BY DEF Trigger
<1> HIDE DEF z
<1>3. \/ x.od # "Command" /\ x.code # "NONE" /\ y = [m EXCEPT !.od = "Command"]
      \/ x.od = "Isdu" /\ x.code = "NONE" /\ x.flag /\ y = [i EXCEPT !.od = "Event"]
      \/ x.od = "Isdu" /\ x.code = "NONE" /\ ~x.flag /\ y = [i EXCEPT !.trig = "NONE"]
      \/ x.od = "Event" /\ x.code = "NONE" /\ y = [e EXCEPT !.trig = "NONE"]
      \/ x.od = "Command" /\ y = [z EXCEPT !.trig = "NONE"]
  BY <1>1, <1>2 DEF OdHandler, OdIsdu, OdEvent, OdCommand, Untriggered, Running, Typed
<1> HIDE DEF y
<1>4. ASSUME NEW v, v.out = <<>> PROVE NoEvent(v)
  BY <1>4 DEF NoEvent, Outs
<1>5. \A k, a, b : Msg(k, a, b).kind = k
  BY DEF Msg
<1>6. ASSUME x.od # "Command", x.code # "NONE" PROVE BeforeMessage(x, y)
  <2>1. /\ Typed(m) /\ IsduPart(m) = IsduPart(z) /\ Given(m) = Given(z)
        /\ EventPart(m) = EventPart(z) /\ m.out = z.out
    BY <1>1, CmdDoes
  <2>2. m.code = "NONE" /\ m.cs = "Idle" /\ m.tx = Msg("Cmd", 0, z.mcmd)
    BY <1>1, <1>6 DEF CmdHandler, Send, Typed, Fields
  <2> HIDE DEF m
  <2>3. y = [m EXCEPT !.od = "Command"]
    BY <1>3, <1>6
  <2>4. /\ Typed(y) /\ Given(y) = Given(m) /\ EventPart(y) = EventPart(m) /\ y.out = m.out
        /\ y.rw = m.rw /\ y.code = m.code /\ y.cs = m.cs /\ y.tx = m.tx /\ y.od = "Command"
    BY <2>1, <2>3 DEF Typed, Fields, Given, EventPart
  <2>5. NoEvent(y) /\ y.rw # "write" /\ y.tx.kind = "Cmd"
    BY <1>1, <1>4, <1>5, <2>1, <2>2, <2>4 DEF IsduPart, Running
  <2>6. Typed(y) /\ Given(y) = Given(x) /\ EventPart(y) = EventPart(x)
    BY <1>1, <2>1, <2>4
  <2>7. QED
    BY <1>6, <2>2, <2>4, <2>5, <2>6 DEF BeforeMessage
<1>7. ASSUME x.od = "Isdu", x.code = "NONE" PROVE BeforeMessage(x, y)
  <2>1. /\ Typed(i) /\ Given(i) = Given(z) /\ CmdPart(i) = CmdPart(z) /\ EventPart(i) = EventPart(z)
        /\ NoEvent(i) /\ i.rw # "write" /\ OdPart(i) = OdPart(z) /\ i.tx.kind \in IsduKinds
    BY <1>1, IsduTurn
  <2> HIDE DEF i
  <2>2. /\ Typed(y) /\ Given(y) = Given(i) /\ CmdPart(y) = CmdPart(i) /\ EventPart(y) = EventPart(i)
        /\ y.out = i.out /\ y.rw = i.rw /\ y.tx = i.tx
        /\ (x.flag => y.od = "Event") /\ (~x.flag => y.od = i.od)
    BY <1>3, <1>7, <2>1 DEF Typed, Fields, Given, CmdPart, EventPart
  <2>3. NoEvent(y)
    BY <2>1, <2>2 DEF NoEvent, Outs
  <2>4. /\ y.od = (IF x.flag THEN "Event" ELSE "Isdu") /\ y.code = "NONE" /\ y.cs = x.cs
        /\ y.tx.kind \in IsduKinds
    BY <1>1, <1>7, <2>1, <2>2 DEF CmdPart, OdPart
  <2>5. Typed(y) /\ Given(y) = Given(x) /\ EventPart(y) = EventPart(x) /\ y.rw # "write"
    BY <1>1, <2>1, <2>2
  <2>6. QED
    BY <1>7, <2>3, <2>4, <2>5 DEF BeforeMessage
<1>8. ASSUME x.od = "Event", x.code = "NONE" PROVE BeforeMessage(x, y)
  <2>1. /\ Typed(e) /\ IsduPart(e) = IsduPart(z) /\ Given(e) = Given(z) /\ CmdPart(e) = CmdPart(z)
        /\ OdPart(e) = OdPart(z)
    BY <1>1, EvDoes
  <2>2. ReadsOn(z, e) /\ e.out = <<>>
    <3> DEFINE a == [Send(z, Msg("EvRead", 0, 0)) EXCEPT !.addr = 0, !.got = <<>>, !.es = "Read"]
               c == [Send(z, Msg("EvConf", 0, 0)) EXCEPT !.conf = FALSE]
               n == Send(z, Msg("EvRead", z.addr, 0))
    <3>1. /\ a.tx = Msg("EvRead", 0, 0) /\ a.addr = 0 /\ a.got = <<>> /\ a.es = "Read"
          /\ a.conf = z.conf /\ a.out = <<>>
      BY <1>1 DEF Send, Typed, Fields
    <3>2. c.tx = Msg("EvConf", 0, 0) /\ ~c.conf /\ c.es = z.es /\ c.out = <<>>
      BY <1>1 DEF Send, Typed, Fields
    <3>3. n.tx = Msg("EvRead", z.addr, 0) /\ EventPart(n) = EventPart(z) /\ n.out = <<>>
      BY <1>1 DEF Send, Typed, Fields, EventPart
    <3> HIDE DEF a, c, n
    <3>4. /\ z.es = "Idle" /\ ~z.conf => e = a
          /\ z.es = "Idle" /\ z.conf => e = c
          /\ z.es = "Read" => e = n
          /\ z.es \in {"Idle", "Read"}
      BY <1>1 DEF EvHandler, Running, Typed, a, c, n
    <3>5. QED
      BY <1>5, <3>1, <3>2, <3>3, <3>4 DEF ReadsOn
  <2> HIDE DEF e
  <2>3. y = [e EXCEPT !.trig = "NONE"]
    BY <1>3, <1>8
  <2>4. /\ Typed(y) /\ Given(y) = Given(e) /\ CmdPart(y) = CmdPart(e) /\ y.od = e.od /\ y.tx = e.tx
        /\ y.es = e.es /\ y.addr = e.addr /\ y.got = e.got /\ y.conf = e.conf /\ y.out = e.out
        /\ y.rw = e.rw
    BY <2>1, <2>3 DEF Typed, Fields, Given, CmdPart
  <2>5. NoEvent(y)
    BY <1>4, <2>2, <2>4
  <2>6. ReadsOn(x, y)
    BY <1>1, <2>2, <2>4 DEF ReadsOn, EventPart
  <2>7. y.code = "NONE" /\ y.cs = x.cs /\ y.od = "Event" /\ y.rw # "write" /\ Given(y) = Given(x)
    BY <1>1, <1>8, <2>1, <2>4 DEF CmdPart, OdPart, IsduPart, Running
  <2>8. QED
    BY <1>8, <2>4, <2>5, <2>6, <2>7 DEF BeforeMessage
<1>9. ASSUME x.od = "Command" PROVE BeforeMessage(x, y)
  <2>1. y = [z EXCEPT !.trig = "NONE"]
    BY <1>3, <1>9
  <2>2. /\ Typed(y) /\ Given(y) = Given(z) /\ EventPart(y) = EventPart(z) /\ y.out = <<>>
        /\ y.rw = z.rw /\ y.code = z.code /\ y.cs = z.cs /\ y.od = "Command" /\ y.tx = z.tx
    BY <1>1, <1>9, <2>1 DEF Typed, Fields, Given, EventPart
  <2>3. y.rw # "write"
    BY <1>1, <2>2 DEF Running
  <2>4. QED
    BY <1>1, <1>4, <1>9, <2>2, <2>3 DEF BeforeMessage
<1>10. QED
  BY <1>6, <1>7, <1>8, <1>9 DEF Running, Typed, y

\* What an exchange does to the events: a confirmation clears the device's, and the answer
\* tells of what the device then has.
LEMMA EventTaken == ASSUME NEW m, DOMAIN dev = DeviceFields
  PROVE LET t == Takes(dev, m, TRUE) IN
        /\ t[1].ev = IF m.kind = "EvConf" THEN 0 ELSE dev.ev
        /\ t[1].cleared = IF m.kind = "EvConf" THEN (dev.cleared \cup {dev.ev}) \ {0} ELSE dev.cleared
        /\ m.kind = "EvRead" => t[2].arg = dev.ev
        /\ t[2].what # "error"
<1> DEFINE t == Takes(dev, m, TRUE)
           ev == IF m.kind = "EvConf" THEN 0 ELSE dev.ev
           cl == IF m.kind = "EvConf" THEN (dev.cleared \cup {dev.ev}) \ {0} ELSE dev.cleared
           goal == /\ t[1].ev = ev /\ t[1].cleared = cl
                   /\ (m.kind = "EvRead" => t[2].arg = dev.ev) /\ t[2].what # "error"
<1>1. \A w, i, j : Answer(w, i, j).what = w /\ Answer(w, i, j).arg = j
  BY DEF Answer
<1>2. ASSUME m.kind = "Seg" PROVE goal
  <2>1. t[1] = TakeSegment(dev, m) /\ t[2] = Answer("any", 0, 0)
    BY <1>2 DEF Takes
  <2>2. TakeSegment(dev, m).ev = dev.ev /\ TakeSegment(dev, m).cleared = dev.cleared
    BY DEF TakeSegment, DeviceFields
  <2> HIDE DEF t
  <2>3. t[2].what = "any"
    BY <1>1, <2>1
  <2>4. QED
    BY <1>2, <2>1, <2>2, <2>3
<1>3. ASSUME m.kind = "EvConf" PROVE goal
  <2>1. /\ t[1] = [dev EXCEPT !.ev = 0, !.cleared = (@ \cup {dev.ev}) \ {0}]
        /\ t[2] = Answer("any", 0, 0)
    BY <1>3 DEF Takes
  <2>2. t[1].ev = 0 /\ t[1].cleared = (dev.cleared \cup {dev.ev}) \ {0}
    BY <2>1 DEF DeviceFields
  <2> HIDE DEF t
  <2>3. t[2].what = "any"
    BY <1>1, <2>1
  <2>4. QED
    BY <1>3, <2>2, <2>3
<1>4. ASSUME m.kind = "EvRead" PROVE goal
  <2>1. t[1] = dev /\ t[2] = Answer("event", m.at, dev.ev)
    BY <1>4 DEF Takes
  <2> HIDE DEF t
  <2>2. t[1] = dev /\ t[2].what = "event" /\ t[2].arg = dev.ev
    BY <1>1, <2>1
  <2>3. QED
    BY <1>4, <2>2
<1>5. ASSUME m.kind \notin {"Seg", "EvConf", "EvRead"} PROVE goal
  <2>1. \E w \in {"any", "noservice", "busy", "par", "seg"} : \E i, j :
          \/ t = <<dev, Answer(w, i, j)>> \/ t = <<[dev EXCEPT !.st = "Idle"], Answer(w, i, j)>>
          \/ t = <<[dev EXCEPT !.st = "Tx"], Answer(w, i, j)>>
          \/ t = <<[dev EXCEPT !.par = m.arg], Answer(w, i, j)>>
          \/ t = <<[dev EXCEPT !.mcmd = m.arg], Answer(w, i, j)>>
    BY <1>5 DEF Takes
  <2> HIDE DEF t
  <2>2. PICK w, i, j :
          /\ w \in {"any", "noservice", "busy", "par", "seg"}
          /\ \/ t = <<dev, Answer(w, i, j)>> \/ t = <<[dev EXCEPT !.st = "Idle"], Answer(w, i, j)>>
             \/ t = <<[dev EXCEPT !.st = "Tx"], Answer(w, i, j)>>
             \/ t = <<[dev EXCEPT !.par = m.arg], Answer(w, i, j)>>
             \/ t = <<[dev EXCEPT !.mcmd = m.arg], Answer(w, i, j)>>
    BY <2>1
  <2>3. /\ t[2] = Answer(w, i, j)
        /\ \/ t[1] = dev \/ t[1] = [dev EXCEPT !.st = "Idle"] \/ t[1] = [dev EXCEPT !.st = "Tx"]
           \/ t[1] = [dev EXCEPT !.par = m.arg] \/ t[1] = [dev EXCEPT !.mcmd = m.arg]
    BY <2>2
  <2>4. t[1].ev = dev.ev /\ t[1].cleared = dev.cleared
    BY <2>3 DEF DeviceFields
  <2>5. QED
    <3>1. t[2].what # "error"
      BY <1>1, <2>2, <2>3
    <3>2. QED
      BY <1>5, <2>4, <3>1
<1>6. QED
  BY <1>2, <1>3, <1>4, <1>5

-----------------------------------------------------------------------------
(* The invariant of the events.                                             *)

\* No lost link and no reset, no write, no caller between its two steps when the DL thread
\* runs, and no commands, or too few to clear one behind the OD handler's back
\* (iolink_dl.c:2653).
Commanding  == {"Mode", "Pdout"} \cap occurs # {}
EventsApart == /\ {"Write", "Loss", "Reset", "Race"} \cap occurs = {}
               /\ Commanding => MaxCommands <= 2

\* The commands that may still come.
CommandsLeft == IF Commanding THEN left.commands ELSE 0

ToldIn(s, e) == \E i \in DOMAIN s : s[i].data = Bytes(e, EvBytes)
Distinct(s)  == \A i, j \in DOMAIN s : s[i].data = s[j].data => i = j
Pending      == caller.pdout \/ caller.sm = "set"

\* The link stays up, and a message that fails is sent again.
Kept ==
  /\ h.rw # "write" /\ ~h.lost /\ ~md.mdh /\ mh.state # "reply9"
  /\ md.up => md.mode # "INACTIVE"
  /\ rx.what = "error" => mh.retry < OPERATE_RETRY

\* A command is with its caller, with the command handler, or written: a second one finds the
\* first in one of these places.
Commanded ==
  /\ DOMAIN caller = CallerFields /\ caller.pdout \in BOOLEAN /\ caller.sm \in {"idle", "wait", "set"}
  /\ h.code \in {"NONE", "PDOUTVALID", "PDOUTINVALID", "DEVICEMODE"} /\ CommandsLeft \in 0..2
  /\ h.code # "NONE" \/ h.od = "Command" => CommandsLeft <= 1
  /\ ~Pending => (h.code # "NONE" <=> h.cs = "Master")
  /\ Pending => h.code # "NONE" /\ (h.cs = "Master" => CommandsLeft = 0 /\ h.od # "Command")
  /\ caller.pdout /\ caller.sm = "set" => h.cs # "Master" /\ CommandsLeft = 0 /\ h.od # "Command"
  /\ h.od = "Command" => /\ IF h.code = "NONE" THEN pc = "wait" ELSE CommandsLeft = 0
                         /\ h.tx.kind = "Cmd"

Stages ==
  /\ md.up => h.od # "Inactive" /\ h.es # "Inactive" /\ h.cs # "Inactive"
  /\ ~md.up => /\ h.od = "Inactive" /\ h.es = "Inactive" /\ h.cs = "Inactive" /\ h.code = "NONE"
               /\ ~h.conf /\ ~h.flag /\ ~Pending /\ rx = NoRx /\ chip.kind = "Idle"

\* The flag is up while the events have the OD handler, and an event that is read or is to be
\* confirmed is the device's.
Flags ==
  /\ h.od = "Event" => h.flag
  /\ rx.flag => dev.ev # 0
  /\ pc = "prepare" /\ h.flag => dev.ev # 0
  /\ h.es = "Read" \/ h.conf => /\ h.flag /\ h.od \in {"Event", "Command"} /\ dev.ev # 0
                                /\ (IsGood(rx) => rx.flag)

\* What was read is of the device's event, and the chip asks for the byte that is expected.
ReadSoFar ==
  h.es = "Read" => /\ ~ToldIn(caller.events, dev.ev) /\ ~h.conf
                   /\ h.got = Bytes(dev.ev, IF h.addr = 0 THEN 0 ELSE h.addr - 1)
                   /\ pc = "wait" /\ h.od = "Event" =>
                        chip = Msg("EvRead", h.addr, 0) /\ (IsGood(rx) => rx.arg = dev.ev)

\* A confirmation in the chip clears an event that was told, or has cleared it; an event that
\* was told is to be confirmed, so that it is not read again.
Confirmed ==
  /\ h.conf => h.es = "Idle" /\ ToldIn(caller.events, dev.ev)
  /\ chip.kind = "EvConf" => /\ h.es = "Idle" /\ ~h.conf /\ h.od \in {"Event", "Isdu"}
                             /\ dev.ev # 0 => ToldIn(caller.events, dev.ev)
                             /\ IsGood(rx) \/ pc = "prepare" => dev.ev = 0
  /\ dev.ev # 0 /\ ToldIn(caller.events, dev.ev) => h.conf \/ chip.kind = "EvConf"

\* The events' numbers fall: one that is to come was not told.
Numbers ==
  /\ left.events \in Nat /\ dev.ev \in Nat
  /\ \A e \in 1..left.events : ~ToldIn(caller.events, e)
  /\ dev.ev # 0 => dev.ev > left.events

Reported ==
  /\ IsSeq(caller.events) /\ Distinct(caller.events)
  /\ \A e \in dev.cleared : ToldIn(caller.events, e)

Eventful == Kept /\ Commanded /\ Stages /\ Flags /\ ReadSoFar /\ Confirmed /\ Numbers /\ Reported

\* An event is added to those told.
LEMMA ToldMore == ASSUME NEW s, NEW c, NEW e, IsSeq(s), c.data = Bytes(e, EvBytes)
  PROVE /\ \A f : ToldIn(Append(s, c), f) <=> ToldIn(s, f) \/ f = e
        /\ Distinct(s) /\ ~ToldIn(s, e) => Distinct(Append(s, c))
<1>1. PICK S : s \in Seq(S)
  BY DEF IsSeq
<1>2. s \in Seq(S \cup {c}) /\ c \in S \cup {c}
  BY <1>1
<1> DEFINE t == Append(s, c)
<1>3. /\ Len(s) \in Nat /\ DOMAIN s = 1..Len(s) /\ DOMAIN t = 1..(Len(s) + 1)
      /\ (\A i \in 1..Len(s) : t[i] = s[i]) /\ t[Len(s) + 1] = c
  BY <1>2
<1> HIDE DEF t
<1>4. ASSUME NEW f PROVE ToldIn(t, f) <=> ToldIn(s, f) \/ f = e
  <2>1. ASSUME ToldIn(t, f) PROVE ToldIn(s, f) \/ f = e
    <3>1. PICK i \in DOMAIN t : t[i].data = Bytes(f, EvBytes)
      BY <2>1 DEF ToldIn
    <3>2. i \in 1..Len(s) \/ i = Len(s) + 1
      BY <1>3
    <3>3. CASE i \in 1..Len(s)
      BY <1>3, <3>1, <3>3 DEF ToldIn
    <3>4. CASE i = Len(s) + 1
      BY <1>3, <3>1, <3>4, BytesDiffer
    <3>5. QED
      BY <3>2, <3>3, <3>4
  <2>2. ASSUME ToldIn(s, f) PROVE ToldIn(t, f)
    <3>1. PICK i \in DOMAIN s : s[i].data = Bytes(f, EvBytes)
      BY <2>2 DEF ToldIn
    <3>2. i \in DOMAIN t /\ t[i] = s[i]
      BY <1>3
    <3>3. QED
      BY <3>1, <3>2 DEF ToldIn
  <2>3. ASSUME f = e PROVE ToldIn(t, f)
    <3>1. Len(s) + 1 \in DOMAIN t
      BY <1>3
    <3>2. QED
      BY <1>3, <2>3, <3>1 DEF ToldIn
  <2>4. QED
    BY <2>1, <2>2, <2>3
<1>5. ASSUME Distinct(s), ~ToldIn(s, e) PROVE Distinct(t)
  <2>1. ASSUME NEW i \in DOMAIN t, NEW j \in DOMAIN t, t[i].data = t[j].data PROVE i = j
    <3>1. (i \in 1..Len(s) \/ i = Len(s) + 1) /\ (j \in 1..Len(s) \/ j = Len(s) + 1)
      BY <1>3
    <3>2. \A k \in 1..Len(s) : s[k].data # c.data
      BY <1>3, <1>5 DEF ToldIn
    <3>3. QED
      BY <1>3, <1>5, <2>1, <3>1, <3>2 DEF Distinct
  <2>2. QED
    BY <2>1 DEF Distinct
<1>6. QED
  BY <1>4, <1>5 DEF t

\* A step that concerns neither the events nor the commands.
LEMMA EventAside == ASSUME Eventful, UNCHANGED <<pc, chip, caller>>,
    md'.up = md.up, md'.mode = md.mode, md'.mdh = md.mdh, mh'.state = mh.state,
    h'.od = h.od, h'.es = h.es, h'.cs = h.cs, h'.conf = h.conf, h'.flag = h.flag, h'.addr = h.addr,
    h'.got = h.got, h'.code = h.code, h'.tx = h.tx, h'.lost = h.lost, h'.rw # "write",
    dev'.ev = dev.ev, dev'.cleared = dev.cleared,
    CommandsLeft' = CommandsLeft, left'.events = left.events,
    rx' = NoRx \/ (rx' = rx /\ mh'.retry = mh.retry)
  PROVE Eventful'
<1>1. (IsGood(rx)' => IsGood(rx)) /\ (rx'.flag => rx.flag) /\ (IsGood(rx)' => rx' = rx)
      /\ (rx'.what = "error" => rx.what = "error" /\ mh'.retry = mh.retry) /\ (rx = NoRx => rx' = NoRx)
  BY NoRxIs DEF IsGood, NoRx
<1>2. Kept' /\ Commanded' /\ Stages'
  BY <1>1 DEF Eventful, Kept, Commanded, Stages, Pending
<1>3. Flags' /\ ReadSoFar' /\ Confirmed'
  BY <1>1 DEF Eventful, Flags, ReadSoFar, Confirmed
<1>4. Numbers' /\ Reported'
  BY DEF Eventful, Numbers, Reported
<1>5. QED
  BY <1>2, <1>3, <1>4 DEF Eventful

\* The chip exchanges a message.
LEMMA EventMoves == ASSUME Eventful, UNCHANGED <<h, md, mh, pc, chip, caller>>, md.up,
    CommandsLeft' = CommandsLeft, left'.events = left.events, pc = "wait",
    \/ dev'.ev = dev.ev /\ dev'.cleared = dev.cleared
    \/ /\ chip.kind = "EvConf" /\ dev'.ev = 0 /\ dev'.cleared = (dev.cleared \cup {dev.ev}) \ {0},
    rx'.what = "error" => mh.retry < OPERATE_RETRY, rx'.flag => dev'.ev # 0,
    IsGood(rx') => /\ rx'.flag = (dev'.ev # 0)
                   /\ chip.kind = "EvConf" => dev'.ev = 0
                   /\ chip.kind = "EvRead" => rx'.arg = dev'.ev
  PROVE Eventful'
<1>1. Kept' /\ Commanded' /\ Stages'
  BY DEF Eventful, Kept, Commanded, Stages, Pending
<1>2. h.es = "Read" \/ h.conf => dev'.ev = dev.ev
  BY DEF Eventful, Confirmed
<1>3. Flags'
  BY <1>2 DEF Eventful, Flags
<1>4. ReadSoFar'
  <2>1. Msg("EvRead", h.addr, 0).kind = "EvRead"
    BY DEF Msg
  <2>2. QED
    BY <1>2, <2>1 DEF Eventful, ReadSoFar
<1>5. Confirmed'
  BY <1>2 DEF Eventful, Confirmed
<1>6. Numbers'
  BY DEF Eventful, Numbers
<1>7. Reported'
  BY DEF Eventful, Reported, Confirmed
<1>8. QED
  BY <1>1, <1>3, <1>4, <1>5, <1>6, <1>7 DEF Eventful

\* The exchange, with an answer, with none, or with one of an ISDU's troubles.
LEMMA EventExchanged == ASSUME Inv, EventsApart, Eventful, Exchange \/ Drop \/ Trouble
  PROVE Eventful'
<1> DEFINE t == Takes(dev, chip, TRUE)
<1>1. /\ DOMAIN dev = DeviceFields /\ DOMAIN left = LeftFields
  BY DEF Inv, Types, DeviceOK
<1>2. /\ UNCHANGED <<h, md, mh, pc, chip, al, caller, occurs>> /\ pc = "wait" /\ mh.state # "off"
      /\ left' = left \/ left' = [left EXCEPT !.faults = @ - 1]
  BY DEF Exchange, Drop, Trouble, Exchanging
<1>3. CommandsLeft' = CommandsLeft /\ left'.events = left.events
  BY <1>1, <1>2 DEF LeftFields, CommandsLeft, Commanding
<1>4. md.up
  BY <1>2 DEF Inv, Types, Turns, Eventful, Kept
<1>5. /\ t[1].ev = IF chip.kind = "EvConf" THEN 0 ELSE dev.ev
      /\ t[1].cleared = IF chip.kind = "EvConf" THEN (dev.cleared \cup {dev.ev}) \ {0} ELSE dev.cleared
      /\ chip.kind = "EvRead" => t[2].arg = dev.ev
      /\ t[2].what # "error"
  BY <1>1, EventTaken
<1> HIDE DEF t
<1>6. \A a, d : /\ Flagged(a, d).flag = (d.ev # 0) /\ Flagged(a, d).arg = a.arg
                /\ Flagged(a, d).what = a.what
  BY DEF Flagged
<1>7. CASE Exchange
  <2>1. dev' = t[1] /\ rx' = Flagged(t[2], t[1])
    BY <1>7 DEF Exchange, t
  <2>2. rx'.flag = (t[1].ev # 0) /\ rx'.arg = t[2].arg /\ rx'.what = t[2].what
    BY <1>6, <2>1
  <2>3. QED
    BY <1>2, <1>3, <1>4, <1>5, <2>1, <2>2, EventMoves
<1>8. CASE Drop
  <2>1. dev' \in {dev, t[1]} /\ rx' = [NoRx EXCEPT !.what = "error"] /\ mh.retry < OPERATE_RETRY
    BY <1>8 DEF Drop, t, EventsApart
  <2>2. rx'.what = "error" /\ ~rx'.flag /\ ~IsGood(rx')
    BY <2>1 DEF NoRx, IsGood
  <2>3. QED
    BY <1>2, <1>3, <1>4, <1>5, <2>1, <2>2, EventMoves
<1>9. CASE Trouble
  <2>1. /\ chip.kind = "Get" /\ dev' \in {dev, [dev EXCEPT !.st = "Idle"]}
        /\ \E a \in {"busy", "noservice", "bad"} : rx' = Flagged(Answer(a, 0, 0), dev)
    BY <1>9 DEF Trouble
  <2>2. dev'.ev = dev.ev /\ dev'.cleared = dev.cleared
    BY <1>1, <2>1 DEF DeviceFields
  <2>3. PICK a \in {"busy", "noservice", "bad"} : rx' = Flagged(Answer(a, 0, 0), dev)
    BY <2>1
  <2>4. Answer(a, 0, 0).what = a
    BY DEF Answer
  <2>5. rx'.flag = (dev.ev # 0) /\ rx'.what # "error"
    BY <1>6, <2>3, <2>4
  <2>6. QED
    BY <1>2, <1>3, <1>4, <2>1, <2>2, <2>5, EventMoves
<1>10. QED
  BY <1>7, <1>8, <1>9

\* The steps of AL and of the timer, a message that is sent again, and those that do not happen.
LEMMA EventAsides == ASSUME Inv, EventsApart, Eventful,
    Resend \/ IsduTimeout \/ AskIsdu \/ AskParam \/ StoreParam \/ AskInactive \/ ComLost \/ WriteNow \/ Written
      \/ ModeHandler \/ UNCHANGED vars
  PROVE Eventful'
<1>1. /\ Typed(h) /\ DOMAIN left = LeftFields /\ DOMAIN mh = {"state", "retry"}
      /\ mh.retry \in Nat
  BY RetryAssumption DEF Inv, Types
<1>2. h.rw # "write" /\ ~h.lost /\ ~md.mdh /\ mh.state # "reply9"
      /\ (rx.what = "error" => mh.retry < OPERATE_RETRY)
  BY DEF Eventful, Kept
<1>3. CASE Resend
  <2>1. UNCHANGED <<h, md, pc, chip, dev, caller, left, occurs>> /\ rx' = NoRx
        /\ mh' = [mh EXCEPT !.retry = @ + 1]
    BY <1>3 DEF Resend
  <2>2. mh'.state = mh.state /\ CommandsLeft' = CommandsLeft
    BY <1>1, <2>1 DEF CommandsLeft, Commanding
  <2>3. QED
    BY <1>2, <2>1, <2>2, EventAside
<1>4. CASE IsduTimeout
  <2>1. UNCHANGED <<md, mh, pc, chip, rx, dev, caller, occurs>> /\ h' = [h EXCEPT !.late = TRUE]
        /\ left' = [left EXCEPT !.faults = @ - 1]
    BY <1>4 DEF IsduTimeout
  <2>2. /\ h'.od = h.od /\ h'.es = h.es /\ h'.cs = h.cs /\ h'.conf = h.conf /\ h'.flag = h.flag
        /\ h'.addr = h.addr /\ h'.got = h.got /\ h'.code = h.code /\ h'.tx = h.tx
        /\ h'.lost = h.lost /\ h'.rw = h.rw
        /\ CommandsLeft' = CommandsLeft /\ left'.events = left.events
    BY <1>1, <2>1 DEF Typed, Fields, LeftFields, CommandsLeft, Commanding
  <2>3. QED
    BY <1>2, <2>1, <2>2, EventAside
<1>5. CASE AskIsdu \/ AskParam \/ StoreParam
  <2>1. PICK n, b, v : n = NextJob /\ b = Empty /\ v = NextJob - 1
    OBVIOUS
  <2>2. /\ UNCHANGED <<md, mh, pc, chip, rx, dev, caller, occurs>>
        /\ left' = left \/ left' = [left EXCEPT !.jobs = @ - 1]
        /\ \/ h' = h \/ h' = [h EXCEPT !.rw = "read"] \/ h' = [h EXCEPT !.val = v]
           \/ h' = [h EXCEPT !.rw = "isdu", !.job = n, !.seg = 0, !.tot = ReqSegs, !.buf = b]
    <3>1. CASE AskIsdu
      BY <2>1, <3>1 DEF AskIsdu, Asks
    <3>2. CASE AskParam
      BY <2>1, <3>2 DEF AskParam, Asks, EventsApart, OpOf
    <3>3. CASE StoreParam
      BY <2>1, <3>3 DEF StoreParam
    <3>4. QED
      BY <1>5, <3>1, <3>2, <3>3
  <2>3. /\ h'.od = h.od /\ h'.es = h.es /\ h'.cs = h.cs /\ h'.conf = h.conf /\ h'.flag = h.flag
        /\ h'.addr = h.addr /\ h'.got = h.got /\ h'.code = h.code /\ h'.tx = h.tx
        /\ h'.lost = h.lost /\ h'.rw # "write"
        /\ CommandsLeft' = CommandsLeft /\ left'.events = left.events
    BY ZenonT(40), <1>1, <1>2, <2>2 DEF Typed, Fields, LeftFields, CommandsLeft, Commanding
  <2>4. QED
    BY <2>2, <2>3, EventAside
<1>6. CASE UNCHANGED vars
  <2>1. UNCHANGED <<h, md, mh, pc, chip, rx, dev, caller, left>> /\ CommandsLeft' = CommandsLeft
    BY <1>6 DEF vars, CommandsLeft, Commanding
  <2>2. QED
    BY <1>2, <2>1, EventAside
<1>7. CASE AskInactive \/ ComLost \/ WriteNow \/ Written \/ ModeHandler
  <2>1. ~AskInactive
    BY DEF AskInactive, EventsApart
  <2>2. ~ComLost
    <3>1. ComLost => rx.what = "error" /\ mh.retry >= OPERATE_RETRY
      BY DEF ComLost
    <3>2. QED
      BY <1>1, <1>2, <3>1, RetryAssumption
  <2>3. ~WriteNow /\ ~Written /\ ~ModeHandler
    BY <1>2 DEF WriteNow, Written, ModeHandler, Waiting
  <2>4. QED
    BY <1>7, <2>1, <2>2, <2>3
<1>8. QED
  BY <1>3, <1>4, <1>5, <1>6, <1>7

\* The device has a new event.
LEMMA EventComes == ASSUME Inv, EventsApart, Eventful, DeviceEvent PROVE Eventful'
<1>1. /\ DOMAIN dev = DeviceFields /\ DOMAIN left = LeftFields
  BY DEF Inv, Types, DeviceOK
<1>2. /\ left.events > 0 /\ dev.ev = 0 /\ chip.kind # "EvConf"
      /\ dev' = [dev EXCEPT !.ev = left.events] /\ left' = [left EXCEPT !.events = @ - 1]
      /\ UNCHANGED <<h, md, mh, pc, chip, rx, caller, occurs>>
  BY DEF DeviceEvent
<1>3. PICK n : n = left.events - 1
  OBVIOUS
<1>4. /\ dev'.ev = left.events /\ dev'.cleared = dev.cleared /\ left'.events = n
      /\ CommandsLeft' = CommandsLeft
  BY <1>1, <1>2, <1>3 DEF DeviceFields, LeftFields, CommandsLeft, Commanding
<1>5. /\ left.events \in Nat \ {0} /\ n \in Nat /\ n < left.events
      /\ ~ToldIn(caller.events, left.events)
  <2>1. /\ left.events \in Nat /\ \A e \in 1..left.events : ~ToldIn(caller.events, e)
    BY DEF Eventful, Numbers
  <2>2. left.events \in 1..left.events
    BY <1>2, <2>1
  <2>3. QED
    BY <1>2, <1>3, <2>1, <2>2
<1>6. Kept' /\ Commanded' /\ Stages'
  BY <1>2, <1>4 DEF Eventful, Kept, Commanded, Stages, Pending
<1>7. ~(h.es = "Read" \/ h.conf)
  BY <1>2 DEF Eventful, Flags
<1>8. Flags' /\ ReadSoFar' /\ Confirmed'
  BY <1>2, <1>4, <1>5, <1>7 DEF Eventful, Flags, ReadSoFar, Confirmed
<1>9. Numbers'
  <2>1. \A e \in 1..n : e \in 1..left.events
    BY <1>5
  <2>2. \A e \in 1..n : ~ToldIn(caller.events, e)
    BY <2>1 DEF Eventful, Numbers
  <2>3. QED
    BY <1>2, <1>4, <1>5, <2>2 DEF Numbers
<1>10. Reported'
  BY <1>2, <1>4 DEF Eventful, Reported
<1>11. QED
  BY <1>6, <1>8, <1>9, <1>10 DEF Eventful

\* The answer of an exchange: nothing to the events, a byte of one, or the last byte.
LEMMA EventReceived == ASSUME Inv, EventsApart, Eventful, Received PROVE Eventful'
<1> DEFINE z == [h EXCEPT !.flag = rx.flag]
           y == Trigger(z, "DEVICE", rx)
<1>1. /\ HandTo(y, caller) /\ pc' = "prepare" /\ UNCHANGED <<md, mh, chip, rx, dev, left, occurs>>
      /\ mh.state = "reply16" /\ h.rw # "write" /\ Runs /\ pc = "wait" /\ IsGood(rx)
  BY DEF Received, Hand, Waiting, Good, IsGood
<1>2. md.up /\ h.act /\ h.is # "Inactive" /\ rx.what # "error"
  BY <1>1 DEF Inv, Types, Turns, IsGood
<1>3. /\ Typed(z) /\ z.out = <<>> /\ z.act = h.act /\ z.lost = h.lost /\ z.is = h.is
      /\ z.tx = h.tx /\ z.od = h.od /\ z.rw = h.rw /\ z.code = h.code /\ z.cs = h.cs
      /\ z.flag = rx.flag /\ EventPart(z) = EventPart(h)
  BY DEF Inv, Types, Typed, Fields, EventPart
<1> HIDE DEF z
<1>4. z.es = h.es /\ z.conf = h.conf /\ z.addr = h.addr /\ z.got = h.got
  BY <1>3 DEF EventPart
<1>5. Running(z)
  BY <1>1, <1>2, <1>3, <1>4 DEF Running, Eventful, Kept, Stages
<1>6. AfterAnswer(z, y, rx)
  BY <1>5, AnswerTaken
<1> HIDE DEF y
<1>7. /\ Typed(y) /\ y.lost = h.lost /\ y.flag = rx.flag /\ y.rw # "write" /\ y.code = h.code
      /\ y.cs = h.cs
      /\ y.od = IF h.od = "Command" /\ h.code # "NONE" THEN "Command"
                ELSE IF rx.flag THEN "Event" ELSE "Isdu"
      /\ h.od = "Command" => y.tx = h.tx
  BY <1>3, <1>6 DEF AfterAnswer, Given
<1>8. /\ DOMAIN caller = CallerFields /\ IsSeq(caller.events)
      /\ ~Pending /\ ~caller.pdout /\ caller.sm \in {"idle", "wait"}
  BY <1>1 DEF Eventful, Commanded, Reported, EventsApart, Runs, Pending
<1>9. /\ h' = [y EXCEPT !.out = <<>>]
      /\ DOMAIN caller' = CallerFields /\ caller'.pdout = caller.pdout /\ caller'.sm \in {"idle", "wait"}
      /\ NoEvent(y) => caller'.events = caller.events
      /\ \A c : y.out = <<c>> /\ c.kind = "event" => caller'.events = Append(caller.events, c)
  BY <1>1, <1>7, <1>8, EventsHanded
<1>10. /\ h'.od = y.od /\ h'.es = y.es /\ h'.cs = y.cs /\ h'.conf = y.conf /\ h'.flag = y.flag
       /\ h'.addr = y.addr /\ h'.got = y.got /\ h'.code = y.code /\ h'.tx = y.tx
       /\ h'.lost = y.lost /\ h'.rw = y.rw
  BY <1>7, <1>9 DEF Typed, Fields
<1>11. Kept' /\ Commanded' /\ ~Pending'
  <2>1. Kept'
    BY <1>1, <1>2, <1>7, <1>10 DEF Eventful, Kept
  <2>2. ~Pending'
    BY <1>8, <1>9 DEF Pending
  <2>3. Commanded'
    BY <1>1, <1>7, <1>8, <1>9, <1>10, <2>2 DEF Eventful, Commanded, CommandsLeft, Commanding
  <2>4. QED
    BY <2>1, <2>2, <2>3
\* The three ways in which it concerns the events.
<1> DEFINE Nothing == /\ h'.es = h.es /\ h'.conf = h.conf /\ h'.addr = h.addr /\ h'.got = h.got
                      /\ caller'.events = caller.events
           AByte   == /\ h.es = "Read" /\ h.od = "Event" /\ h'.od = "Event" /\ rx.flag
                      /\ h'.es = "Read" /\ h'.conf = h.conf /\ caller'.events = caller.events
                      /\ h'.addr # 0 /\ h'.got = Bytes(dev.ev, h'.addr - 1)
           ALast   == /\ h.es = "Read" /\ h.od = "Event" /\ h'.od = "Event" /\ rx.flag
                      /\ h'.es = "Idle" /\ h'.conf
                      /\ \E c : /\ c.data = Bytes(dev.ev, EvBytes)
                                /\ caller'.events = Append(caller.events, c)
<1>12. Nothing \/ AByte \/ ALast
  <2>1. CASE ~(h.od = "Event" /\ rx.flag /\ h.es = "Read")
    <3>1. EventPart(y) = EventPart(z) /\ NoEvent(y)
      BY <1>3, <1>4, <1>6, <2>1 DEF AfterAnswer
    <3>2. QED
      BY <1>4, <1>9, <1>10, <3>1 DEF EventPart
  <2>2. CASE h.od = "Event" /\ rx.flag /\ h.es = "Read"
    <3>1. OneRead(z, y, rx) /\ y.od = "Event"
      BY <1>3, <1>4, <1>6, <1>7, <2>2 DEF AfterAnswer
    <3>2. /\ rx.arg = dev.ev /\ dev.ev # 0 /\ ~h.conf
          /\ h.got = Bytes(dev.ev, IF h.addr = 0 THEN 0 ELSE h.addr - 1)
      BY <1>1, <2>2 DEF Eventful, ReadSoFar, Flags
    <3>3. EvBytes \in Nat \ {0} /\ h.addr \in 0..EvBytes
      BY <2>2, SegmentsAssumption DEF Inv, Types, Typed
    <3>4. ASSUME h.addr = 0 PROVE AByte
      <4>1. y.es = "Read" /\ y.addr = 1 /\ y.got = h.got /\ y.conf = h.conf /\ NoEvent(y)
        BY <1>4, <3>1, <3>2, <3>4 DEF OneRead
      <4>2. h.got = Bytes(dev.ev, 0) /\ 1 - 1 = 0
        BY <3>2, <3>4
      <4>3. QED
        BY <1>9, <1>10, <2>2, <3>1, <4>1, <4>2
    <3>5. ASSUME h.addr # 0 PROVE Append(h.got, rx.arg) = Bytes(dev.ev, h.addr)
      <4>1. PICK n \in Nat : n = h.addr - 1
        BY <3>3, <3>5
      <4>2. h.got = Bytes(dev.ev, n) /\ n + 1 = h.addr
        BY <3>2, <3>3, <3>5, <4>1
      <4>3. QED
        BY <3>2, <4>2, OneMoreByte
    <3>6. ASSUME h.addr \in 1..EvBytes - 1 PROVE AByte
      <4>1. /\ y.es = "Read" /\ y.addr = h.addr + 1 /\ y.conf = h.conf /\ NoEvent(y)
            /\ y.got = Append(h.got, rx.arg)
        BY <1>4, <3>1, <3>6 DEF OneRead
      <4>2. h.addr # 0 /\ y.addr # 0 /\ y.addr - 1 = h.addr
        BY <3>3, <3>6, <4>1
      <4>3. QED
        BY SMTT(30), <1>9, <1>10, <2>2, <3>1, <3>5, <4>1, <4>2
    <3>7. ASSUME h.addr = EvBytes PROVE ALast
      <4> DEFINE c == Cnf("event", "OK", Append(h.got, rx.arg))
      <4>1. y.es = "Idle" /\ y.conf /\ y.out = <<c>>
        BY <1>4, <3>1, <3>7 DEF OneRead
      <4>2. c.kind = "event" /\ c.data = Bytes(dev.ev, EvBytes)
        BY <3>3, <3>5, <3>7 DEF Cnf
      <4> HIDE DEF c
      <4>3. caller'.events = Append(caller.events, c)
        BY <1>9, <4>1, <4>2
      <4>4. QED
        BY <1>10, <2>2, <3>1, <4>1, <4>2, <4>3
    <3>8. QED
      BY <3>3, <3>4, <3>6, <3>7
  <2>3. QED
    BY <2>1, <2>2
<1>13. h'.od \in {"Event", "Isdu", "Command"} /\ (h'.od = "Event" <=> h'.flag /\ ~(h.od = "Command" /\ h.code # "NONE"))
       /\ h'.flag = rx.flag /\ h'.od = y.od
  BY <1>7, <1>10
<1>14. Stages'
  BY <1>1, <1>2, <1>7, <1>10, <1>12 DEF Eventful, Stages
<1>15. CASE Nothing
  <2>1. Flags'
    BY <1>1, <1>7, <1>10, <1>15 DEF Eventful, Flags
  <2>2. ReadSoFar'
    BY <1>1, <1>15 DEF Eventful, ReadSoFar
  <2>3. Confirmed'
    BY <1>1, <1>7, <1>10, <1>15 DEF Eventful, Flags, Confirmed
  <2>4. Numbers' /\ Reported'
    BY <1>1, <1>15 DEF Eventful, Numbers, Reported
  <2>5. QED
    BY <1>11, <1>14, <2>1, <2>2, <2>3, <2>4 DEF Eventful
<1>16. CASE AByte
  <2>1. Flags'
    BY <1>1, <1>13, <1>16 DEF Eventful, Flags
  <2>2. ReadSoFar'
    BY <1>1, <1>16 DEF Eventful, ReadSoFar
  <2>3. Confirmed'
    BY <1>1, <1>16 DEF Eventful, ReadSoFar, Confirmed
  <2>4. Numbers' /\ Reported'
    BY <1>1, <1>16 DEF Eventful, Numbers, Reported
  <2>5. QED
    BY <1>11, <1>14, <2>1, <2>2, <2>3, <2>4 DEF Eventful
<1>17. CASE ALast
  <2>1. PICK c : /\ c.data = Bytes(dev.ev, EvBytes)
                 /\ caller'.events = Append(caller.events, c)
    BY <1>17
  <2>2. ~ToldIn(caller.events, dev.ev) /\ dev.ev # 0
    BY <1>17 DEF Eventful, ReadSoFar, Flags
  <2>3. /\ \A f : ToldIn(caller'.events, f) <=> ToldIn(caller.events, f) \/ f = dev.ev
        /\ Distinct(caller'.events)
    BY <1>8, <2>1, <2>2, ToldMore DEF Eventful, Reported
  <2>4. Flags'
    BY <1>1, <1>13, <1>17 DEF Eventful, Flags
  <2>5. ReadSoFar'
    BY <1>17 DEF ReadSoFar
  <2>6. Confirmed'
    <3>1. ToldIn(caller'.events, dev'.ev)
      BY <1>1, <2>3
    <3>2. chip'.kind # "EvConf"
      BY <1>1, <1>17 DEF Eventful, Confirmed
    <3>3. QED
      BY <1>17, <3>1, <3>2 DEF Confirmed
  <2>7. Numbers'
    <3>1. left.events \in Nat /\ dev.ev \in Nat /\ dev.ev > left.events
      BY <2>2 DEF Eventful, Numbers
    <3>2. \A e \in 1..left.events : e # dev.ev
      BY <3>1
    <3>3. QED
      BY <1>1, <2>3, <3>1, <3>2 DEF Eventful, Numbers
  <2>8. Reported'
    <3>1. IsSeq(caller'.events)
      BY <1>8, <2>1, AppendAdds
    <3>2. QED
      BY <1>1, <2>3, <3>1 DEF Eventful, Reported
  <2>9. QED
    BY <1>11, <1>14, <2>4, <2>5, <2>6, <2>7, <2>8 DEF Eventful
<1>18. QED
  BY <1>12, <1>15, <1>16, <1>17

\* The next message: a read of the event that was not told, its confirmation when it was.
LEMMA EventPrepared == ASSUME Inv, EventsApart, Eventful, Prepare PROVE Eventful'
<1> DEFINE y == Trigger(h, "MASTER", rx)
<1>1. /\ HandTo(y, caller) /\ pc = "prepare" /\ pc' = "wait" /\ chip' = y.tx /\ rx' = NoRx
      /\ UNCHANGED <<md, mh, dev, left, occurs>> /\ Runs
  BY DEF Prepare, Hand
<1>2. md.up /\ h.act /\ h.is # "Inactive" /\ Typed(h) /\ h.out = <<>>
  BY <1>1 DEF Inv, Types, Turns
<1>3. Running(h)
  BY <1>2 DEF Running, Eventful, Kept, Stages
<1>4. /\ DOMAIN caller = CallerFields /\ IsSeq(caller.events)
      /\ ~Pending /\ ~caller.pdout /\ caller.sm \in {"idle", "wait"}
  BY <1>1 DEF Eventful, Commanded, Reported, EventsApart, Runs, Pending
<1>5. /\ h.od = "Event" => h.flag
      /\ h.od = "Command" => h.code # "NONE"
      /\ h.code # "NONE" <=> h.cs = "Master"
  BY <1>1, <1>4 DEF Eventful, Flags, Commanded
<1>6. BeforeMessage(h, y)
  BY <1>3, <1>5, MessagePrepared
<1> HIDE DEF y
<1>7. Typed(y) /\ Given(y) = Given(h) /\ y.rw # "write" /\ NoEvent(y)
  BY <1>6 DEF BeforeMessage
<1>8. /\ h' = [y EXCEPT !.out = <<>>]
      /\ DOMAIN caller' = CallerFields /\ caller'.pdout = caller.pdout /\ caller'.sm \in {"idle", "wait"}
      /\ caller'.events = caller.events
  BY <1>1, <1>4, <1>7, EventsHanded
<1>9. /\ h'.od = y.od /\ h'.es = y.es /\ h'.cs = y.cs /\ h'.conf = y.conf /\ h'.flag = h.flag
      /\ h'.addr = y.addr /\ h'.got = y.got /\ h'.code = y.code /\ h'.tx = y.tx
      /\ h'.lost = h.lost /\ h'.rw = y.rw /\ chip' = y.tx
  BY <1>1, <1>7, <1>8 DEF Typed, Fields, Given
<1>10. rx'.what = "none" /\ ~rx'.flag /\ ~IsGood(rx')
  BY <1>1, NoRxIs
\* What is prepared is a command, not of the events, of the events, or the command of before.
<1> DEFINE Same    == h'.es = h.es /\ h'.conf = h.conf /\ h'.addr = h.addr /\ h'.got = h.got
           Command == /\ h.od # "Command" /\ h.code # "NONE" /\ h'.od = "Command" /\ h'.code = "NONE"
                      /\ h'.cs = "Idle" /\ h'.tx.kind = "Cmd" /\ Same
           Service == /\ h.od = "Isdu" /\ h.code = "NONE" /\ h'.code = "NONE" /\ h'.cs = h.cs
                      /\ h'.od = (IF h.flag THEN "Event" ELSE "Isdu")
                      /\ h'.tx.kind \in IsduKinds /\ Same
           Reading == /\ h.od = "Event" /\ h.flag /\ h.code = "NONE" /\ h'.code = "NONE"
                      /\ h'.cs = h.cs /\ h'.od = "Event" /\ ReadsOn(h, h')
           Again   == /\ h.od = "Command" /\ h.code # "NONE" /\ h'.code = h.code /\ h'.cs = h.cs
                      /\ h'.od = "Command" /\ h'.tx = h.tx /\ Same
<1>11. Command \/ Service \/ Reading \/ Again
  <2>1. EventPart(y) = EventPart(h) => Same
    BY <1>9 DEF EventPart
  <2>2. ReadsOn(h, y) => ReadsOn(h, h')
    BY <1>9 DEF ReadsOn, EventPart
  <2> HIDE DEF Same
  <2>3. QED
    BY <1>6, <1>9, <2>1, <2>2 DEF BeforeMessage
<1>12. ReadsOn(h, h') => /\ h.es = "Idle" /\ ~h.conf => /\ chip' = Msg("EvRead", 0, 0) /\ h'.addr = 0
                                                        /\ h'.got = <<>> /\ h'.es = "Read" /\ ~h'.conf
                         /\ h.es = "Idle" /\ h.conf => chip'.kind = "EvConf" /\ ~h'.conf /\ h'.es = "Idle"
                         /\ h.es = "Read" => chip' = Msg("EvRead", h.addr, 0) /\ Same
  BY <1>9 DEF ReadsOn, EventPart
<1>13. h.es \in {"Idle", "Read"} /\ chip' = h'.tx /\ \A a : Msg("EvRead", a, 0).kind = "EvRead"
  BY <1>2, <1>9 DEF Typed, Eventful, Stages, Msg
\* An event that was told is to be confirmed.
<1>14. /\ dev.ev # 0 /\ ToldIn(caller.events, dev.ev) => h.conf
       /\ h.flag => dev.ev # 0
  BY <1>1 DEF Eventful, Confirmed, Flags
<1>15. Kept'
  BY <1>1, <1>7, <1>9, <1>10 DEF Eventful, Kept
<1>16. Commanded'
  <2>1. ~Pending'
    BY <1>4, <1>8 DEF Pending
  <2>2. QED
    BY <1>1, <1>4, <1>5, <1>8, <1>11, <2>1 DEF Eventful, Commanded, CommandsLeft, Commanding
<1>17. Stages'
  BY <1>1, <1>2, <1>5, <1>11, <1>12, <1>13, <1>16 DEF Eventful, Stages, Commanded
<1>18. Flags'
  <2>1. h'.od = "Event" => h'.flag
    BY <1>5, <1>9, <1>11
  <2>2. h'.es = "Read" \/ h'.conf => h'.flag /\ h'.od \in {"Event", "Command"} /\ dev.ev # 0
    BY <1>9, <1>11, <1>14 DEF Eventful, Flags
  <2>3. QED
    BY <1>1, <1>10, <2>1, <2>2 DEF Flags
<1>19. ReadSoFar'
  <2>1. CASE Same /\ h'.od # "Event"
    BY <1>1, <1>8, <2>1 DEF Eventful, ReadSoFar
  <2>2. CASE Service
    BY <2>2 DEF Eventful, Flags, ReadSoFar
  <2>3. CASE Reading
    <3>1. CASE h.es = "Idle" /\ ~h.conf
      <4>1. /\ h'.addr = 0 /\ h'.got = <<>> /\ ~h'.conf /\ chip' = Msg("EvRead", 0, 0)
            /\ ~ToldIn(caller.events, dev.ev)
        BY <1>12, <1>14, <2>3, <3>1
      <4>2. <<>> = Bytes(dev.ev, 0)
        BY DEF Bytes
      <4>3. QED
        BY <1>1, <1>8, <1>10, <4>1, <4>2 DEF ReadSoFar
    <3>2. CASE h.es = "Idle" /\ h.conf
      BY <1>12, <2>3, <3>2 DEF ReadSoFar
    <3>3. CASE h.es = "Read"
      <4>1. Same /\ chip' = Msg("EvRead", h.addr, 0)
        BY <1>12, <2>3, <3>3
      <4>2. QED
        BY <1>1, <1>8, <1>10, <3>3, <4>1 DEF Eventful, ReadSoFar
    <3>4. QED
      BY <1>13, <3>1, <3>2, <3>3
  <2>4. QED
    BY <1>11, <2>1, <2>2, <2>3
<1>20. Confirmed'
  <2>1. h'.conf => h'.es = "Idle" /\ ToldIn(caller'.events, dev'.ev)
    <3>1. CASE Same
      BY <1>1, <1>8, <3>1 DEF Eventful, Confirmed
    <3>2. CASE Reading
      BY <1>1, <1>8, <1>12, <1>13, <3>2 DEF Eventful, Confirmed
    <3>3. QED
      BY <1>11, <3>1, <3>2
  <2>2. chip'.kind = "EvConf" => Reading /\ h.es = "Idle" /\ h.conf
    <3>1. CASE Reading
      BY <1>12, <1>13, <3>1
    <3>2. CASE Again
      BY <1>13, <3>2 DEF Eventful, Commanded, CommandsLeft, Commanding
    <3>3. CASE Command \/ Service
      BY <1>13, <3>3 DEF IsduKinds
    <3>4. QED
      BY <1>11, <3>1, <3>2, <3>3
  <2>3. chip'.kind = "EvConf" => /\ h'.es = "Idle" /\ ~h'.conf /\ h'.od \in {"Event", "Isdu"}
                                 /\ ToldIn(caller'.events, dev'.ev)
    BY <1>1, <1>8, <1>12, <2>2 DEF Eventful, Confirmed
  <2>4. h.conf => h'.conf \/ chip'.kind = "EvConf"
    <3>1. CASE Same
      BY <3>1
    <3>2. CASE Reading
      BY <1>12, <3>2 DEF Eventful, Confirmed
    <3>3. QED
      BY <1>11, <3>1, <3>2
  <2>5. QED
    BY <1>1, <1>8, <1>10, <1>14, <2>1, <2>3, <2>4 DEF Confirmed
<1>21. Numbers' /\ Reported'
  BY <1>1, <1>8 DEF Eventful, Numbers, Reported
<1>22. QED
  BY <1>15, <1>16, <1>17, <1>18, <1>19, <1>20, <1>21 DEF Eventful

\* OPERATE begins: no event is read or to be confirmed.
LEMMA EventUp == ASSUME Inv, EventsApart, Eventful, Up PROVE Eventful'
<1> DEFINE x1 == [h EXCEPT !.ch = TRUE, !.rw = "none"]
           c  == CmdHandler(x1)
           c1 == [c EXCEPT !.act = TRUE]
           o  == OdHandler(c1, NoRx)
           i  == IsduHandler(o, NoRx)
           e  == EvHandler(i, NoRx)
           y  == Send(e, EnterOperate)
<1>1. /\ ~md.up /\ HandTo(y, caller) /\ chip' = EnterOperate
      /\ md' = [up |-> TRUE, mode |-> "OPERATE", mdh |-> FALSE]
      /\ mh' = [state |-> "reply16", retry |-> 0] /\ pc' = "prepare" /\ rx' = NoRx
      /\ left' = [left EXCEPT !.sessions = @ - 1] /\ occurs' = occurs
      /\ dev' = [dev EXCEPT !.st = "Idle", !.segs = <<>>, !.mcmd = "OPERATE"]
  BY DEF Up, Hand, Activated
<1>2. /\ Typed(h) /\ h.out = <<>> /\ ~h.act /\ DOMAIN dev = DeviceFields /\ DOMAIN left = LeftFields
  BY <1>1 DEF Inv, Types, Turns, DeviceOK
<1>3. /\ h.od = "Inactive" /\ h.es = "Inactive" /\ h.cs = "Inactive" /\ h.code = "NONE"
      /\ ~h.conf /\ ~h.flag /\ ~h.lost /\ ~Pending /\ chip.kind = "Idle"
  BY <1>1 DEF Eventful, Kept, Stages
<1>4. /\ DOMAIN caller = CallerFields /\ IsSeq(caller.events)
      /\ ~caller.pdout /\ caller.sm \in {"idle", "wait"}
  BY <1>3 DEF Eventful, Commanded, Reported, Pending
<1>5. /\ Typed(x1) /\ x1.rw = "none" /\ x1.ch /\ x1.od = "Inactive" /\ x1.cs = "Inactive"
      /\ x1.code = "NONE" /\ x1.out = <<>> /\ ~x1.lost /\ ~x1.flag /\ EventPart(x1) = EventPart(h)
  BY <1>2, <1>3 DEF Typed, Fields, EventPart
<1> HIDE DEF x1
<1>6. /\ Typed(c) /\ IsduPart(c) = IsduPart(x1) /\ Given(c) = Given(x1) /\ OdPart(c) = OdPart(x1)
      /\ EventPart(c) = EventPart(x1) /\ c.out = <<>>
  BY <1>5, CmdDoes
<1>7. c.code = "NONE" /\ c.cs = "Idle"
  BY <1>5 DEF CmdHandler, Typed, Fields
<1> HIDE DEF c
<1>8. /\ Typed(c1) /\ c1.act /\ c1.rw = "none" /\ c1.od = "Inactive" /\ c1.code = "NONE"
      /\ c1.cs = "Idle" /\ c1.out = <<>> /\ ~c1.lost /\ ~c1.flag /\ EventPart(c1) = EventPart(h)
  BY ZenonT(40), <1>5, <1>6, <1>7 DEF Typed, Fields, IsduPart, OdPart, Given, EventPart
<1> HIDE DEF c1
<1>9. o = [c1 EXCEPT !.od = "Isdu"]
  BY <1>8 DEF OdHandler
<1> HIDE DEF o
<1>10. /\ Typed(o) /\ o.act /\ o.rw = "none" /\ o.od = "Isdu" /\ o.code = "NONE"
       /\ o.cs = "Idle" /\ o.out = <<>> /\ ~o.lost /\ ~o.flag /\ EventPart(o) = EventPart(h)
  BY <1>8, <1>9 DEF Typed, Fields, EventPart
<1>11. IsduKeeps(o, i)
  BY <1>10, IsduDoes
<1>12. i.rw = "none"
  <2>1. CASE o.is = "Inactive"
    <3>1. i = [o EXCEPT !.tot = 0, !.seg = 0, !.is = "Idle"]
      BY <1>10, <2>1 DEF IsduHandler
    <3> HIDE DEF i
    <3>2. QED
      BY <1>10, <3>1 DEF Typed, Fields
  <2>2. CASE o.is # "Inactive"
    BY <1>10, <2>2, IsduSends
  <2>3. QED
    BY <2>1, <2>2
<1> HIDE DEF i
<1>13. NoEvent(i)
  <2>1. \A d \in Outs(o) : FALSE
    BY <1>10 DEF Outs
  <2>2. CASE i.out = o.out
    BY <2>1, <2>2 DEF NoEvent, Outs
  <2>3. ASSUME NEW d, d.kind \in {"isdu", "read", "write"}, i.out = Append(o.out, d) PROVE NoEvent(i)
    <3>1. Typed(o) /\ i.out = Append(o.out, d)
      BY <1>10, <2>3
    <3>2. Outs(i) = Outs(o) \cup {d}
      BY <3>1, OneMore
    <3>3. QED
      BY <2>1, <2>3, <3>2 DEF NoEvent
  <2>4. QED
    BY <1>11, <2>2, <2>3 DEF IsduKeeps, MayConfirm
<1>14. /\ Typed(i) /\ i.act /\ ~i.lost /\ ~i.flag /\ i.es = "Inactive" /\ ~i.conf /\ i.code = "NONE"
       /\ i.cs = "Idle" /\ i.od = "Isdu"
  BY <1>3, <1>10, <1>11 DEF IsduKeeps, Given, CmdPart, EventPart, OdPart
<1>15. e = [i EXCEPT !.es = "Idle"]
  BY <1>14 DEF EvHandler
<1>16. EnterOperate.kind = "Cmd"
  BY DEF EnterOperate, Msg
<1> HIDE DEF e
<1>17. /\ Typed(y) /\ y.es = "Idle" /\ ~y.conf /\ y.code = "NONE" /\ y.cs = "Idle" /\ y.od = "Isdu"
       /\ ~y.lost /\ ~y.flag /\ y.rw = "none" /\ y.out = i.out
  BY <1>12, <1>14, <1>15, <1>16 DEF Typed, Fields, Send, Kinds
<1> HIDE DEF y
<1>18. NoEvent(y)
  BY <1>13, <1>17 DEF NoEvent, Outs
<1>19. /\ h' = [y EXCEPT !.out = <<>>]
       /\ DOMAIN caller' = CallerFields /\ caller'.pdout = caller.pdout /\ caller'.sm \in {"idle", "wait"}
       /\ caller'.events = caller.events
  BY <1>1, <1>4, <1>17, <1>18, EventsHanded
<1>20. /\ h'.es = "Idle" /\ ~h'.conf /\ h'.code = "NONE" /\ h'.cs = "Idle" /\ h'.od = "Isdu"
       /\ ~h'.lost /\ ~h'.flag /\ h'.rw = "none"
  BY <1>17, <1>19 DEF Typed, Fields
<1>21. /\ dev'.ev = dev.ev /\ dev'.cleared = dev.cleared
       /\ CommandsLeft' = CommandsLeft /\ left'.events = left.events
  BY <1>1, <1>2 DEF DeviceFields, LeftFields, CommandsLeft, Commanding
<1>22. Kept' /\ Stages'
  BY <1>1, <1>20, NoRxIs DEF Kept, Stages
<1>23. Commanded'
  BY <1>4, <1>19, <1>20, <1>21 DEF Eventful, Commanded, Pending
<1>24. Flags' /\ ReadSoFar'
  BY <1>1, <1>20, NoRxIs DEF Flags, ReadSoFar
<1>25. Confirmed'
  BY <1>1, <1>3, <1>16, <1>19, <1>20, <1>21 DEF Eventful, Confirmed
<1>26. Numbers' /\ Reported'
  BY <1>19, <1>21 DEF Eventful, Numbers, Reported
<1>27. QED
  BY <1>22, <1>23, <1>24, <1>25, <1>26 DEF Eventful

\* A step of the callers: a command is asked for, or the command handler runs.
LEMMA EventCommands == ASSUME Inv, EventsApart, Eventful, AskPdout \/ RunPdout \/ AskMode \/ RunMode
  PROVE Eventful'
<1>1. /\ Typed(h) /\ DOMAIN left = LeftFields /\ DOMAIN caller = CallerFields /\ CommandsLeft \in 0..2
      /\ caller.pdout \in BOOLEAN /\ caller.sm \in {"idle", "wait", "set"}
  BY DEF Inv, Types, Eventful, Commanded
<1>2. UNCHANGED <<md, mh, pc, chip, rx, dev, occurs>>
  BY DEF AskPdout, RunPdout, AskMode, RunMode
<1>3. PICK n : n = left.commands - 1
  OBVIOUS
\* What is asked for.
<1>4. ASSUME AskPdout \/ AskMode
      PROVE  /\ h'.od = h.od /\ h'.es = h.es /\ h'.cs = h.cs /\ h'.conf = h.conf /\ h'.flag = h.flag
             /\ h'.addr = h.addr /\ h'.got = h.got /\ h'.tx = h.tx /\ h'.lost = h.lost /\ h'.rw = h.rw
             /\ h'.code \in {"PDOUTVALID", "PDOUTINVALID", "DEVICEMODE"}
             /\ CommandsLeft > 0 /\ CommandsLeft' = CommandsLeft - 1 /\ left'.events = left.events
             /\ DOMAIN caller' = CallerFields /\ caller'.events = caller.events
             /\ \/ ~caller.pdout /\ caller'.pdout /\ caller'.sm = caller.sm
                \/ caller.sm = "idle" /\ caller'.pdout = caller.pdout /\ caller'.sm = "set"
             /\ caller'.pdout \in BOOLEAN /\ md.up
  <2>1. CASE AskPdout
    <3>1. /\ ~caller.pdout /\ left.commands > 0 /\ md.up /\ "Pdout" \in occurs
          /\ \E code \in {"PDOUTVALID", "PDOUTINVALID"} : h' = [h EXCEPT !.code = code]
          /\ caller' = [caller EXCEPT !.pdout = TRUE] /\ left' = [left EXCEPT !.commands = n]
      BY <1>3, <2>1 DEF AskPdout
    <3>2. QED
      BY ZenonT(40), <1>1, <1>2, <1>3, <3>1 DEF Typed, Fields, LeftFields, CallerFields, CommandsLeft, Commanding
  <2>2. CASE AskMode
    <3>1. /\ caller.sm = "idle" /\ left.commands > 0 /\ md.up /\ "Mode" \in occurs
          /\ h' = [h EXCEPT !.mcmd = "FALLBACK", !.code = "DEVICEMODE"]
          /\ caller' = [caller EXCEPT !.sm = "set"] /\ left' = [left EXCEPT !.commands = n]
      BY <1>3, <2>2 DEF AskMode
    <3>2. QED
      BY <1>1, <1>2, <1>3, <3>1 DEF Typed, Fields, LeftFields, CallerFields, CommandsLeft, Commanding
  <2>3. QED
    BY <1>4, <2>1, <2>2
\* The command handler takes the command, or writes it when it was taken for another.
<1>5. ASSUME RunPdout \/ RunMode
      PROVE  /\ h'.od = h.od /\ h'.es = h.es /\ h'.conf = h.conf /\ h'.flag = h.flag
             /\ h'.addr = h.addr /\ h'.got = h.got /\ h'.lost = h.lost /\ h'.rw = h.rw
             /\ h.cs = "Idle" => h'.cs = "Master" /\ h'.code = h.code /\ h'.tx = h.tx
             /\ h.cs = "Master" => h'.cs = "Idle" /\ h'.code = "NONE" /\ h'.tx.kind = "Cmd"
             /\ h.cs \in {"Idle", "Master"} /\ md.up
             /\ CommandsLeft' = CommandsLeft /\ left'.events = left.events
             /\ DOMAIN caller' = CallerFields /\ caller'.events = caller.events
             /\ \/ caller.pdout /\ caller'.pdout = FALSE /\ caller'.sm = caller.sm
                \/ caller.sm = "set" /\ caller'.pdout = caller.pdout /\ caller'.sm = "wait"
             /\ Pending
  <2>1. /\ h' = CmdHandler(h) /\ left' = left
        /\ \/ caller.pdout /\ caller' = [caller EXCEPT !.pdout = FALSE]
           \/ caller.sm = "set" /\ caller' = [caller EXCEPT !.sm = "wait"]
    BY <1>1, <1>5 DEF RunPdout, RunMode
  <2>2. Pending
    BY <2>1 DEF Pending
  <2>3. /\ md.up /\ h.cs # "Inactive" /\ h.code \in {"PDOUTVALID", "PDOUTINVALID", "DEVICEMODE"}
    BY <2>2 DEF Eventful, Commanded, Stages, Inv, Types
  <2>4. h.ch /\ h.cs \in {"Idle", "Master"}
    BY <1>1, <2>3 DEF Inv, Turns, Typed
  <2>5. Msg("Cmd", 0, h.mcmd).kind = "Cmd"
    BY DEF Msg
  <2>6. /\ IsduPart(h') = IsduPart(h) /\ Given(h') = Given(h) /\ EventPart(h') = EventPart(h)
        /\ OdPart(h') = OdPart(h)
    BY <1>1, <2>1, CmdDoes
  <2>7. /\ h'.od = h.od /\ h'.es = h.es /\ h'.conf = h.conf /\ h'.flag = h.flag
        /\ h'.addr = h.addr /\ h'.got = h.got /\ h'.lost = h.lost /\ h'.rw = h.rw
    BY <2>6 DEF IsduPart, Given, EventPart, OdPart
  <2>8. /\ h.cs = "Idle" => h'.cs = "Master" /\ h'.code = h.code /\ h'.tx = h.tx
        /\ h.cs = "Master" => h'.cs = "Idle" /\ h'.code = "NONE" /\ h'.tx.kind = "Cmd"
    BY <1>1, <2>1, <2>3, <2>4, <2>5 DEF CmdHandler, Send, Typed, Fields
  <2>9. /\ DOMAIN caller' = CallerFields /\ caller'.events = caller.events
        /\ \/ caller.pdout /\ caller'.pdout = FALSE /\ caller'.sm = caller.sm
           \/ caller.sm = "set" /\ caller'.pdout = caller.pdout /\ caller'.sm = "wait"
    BY <1>1, <2>1 DEF CallerFields
  <2>10. QED
    BY <1>2, <2>1, <2>2, <2>3, <2>4, <2>7, <2>8, <2>9 DEF CommandsLeft, Commanding
<1>6. CASE AskPdout \/ AskMode
  <2>1. CommandsLeft' \in 0..1 /\ CommandsLeft' = CommandsLeft - 1
    BY <1>1, <1>4, <1>6
  <2>2. Pending'
    BY <1>4, <1>6 DEF Pending
  <2>3. Commanded'
    BY <1>1, <1>2, <1>4, <1>6, <2>1, <2>2 DEF Eventful, Commanded, Pending
  <2>4. Kept' /\ Stages'
    BY <1>2, <1>4, <1>6 DEF Eventful, Kept, Stages
  <2>5. Flags' /\ ReadSoFar' /\ Confirmed' /\ Numbers' /\ Reported'
    BY <1>2, <1>4, <1>6 DEF Eventful, Flags, ReadSoFar, Confirmed, Numbers, Reported
  <2>6. QED
    BY <2>3, <2>4, <2>5 DEF Eventful
<1>7. CASE RunPdout \/ RunMode
  <2>1. Commanded'
    BY <1>1, <1>2, <1>5, <1>7 DEF Eventful, Commanded, Pending
  <2>2. Kept' /\ Stages'
    BY <1>1, <1>2, <1>5, <1>7 DEF Eventful, Kept, Stages
  <2>3. Flags' /\ ReadSoFar' /\ Confirmed' /\ Numbers' /\ Reported'
    BY <1>2, <1>5, <1>7 DEF Eventful, Flags, ReadSoFar, Confirmed, Numbers, Reported
  <2>4. QED
    BY <2>1, <2>2, <2>3 DEF Eventful
<1>8. QED
  BY <1>6, <1>7

\* At the start there is no event.
LEMMA EventInit == ASSUME Init, EventsApart PROVE Eventful
<1>1. /\ h = HandlersInit /\ caller = [pdout |-> FALSE, sm |-> "idle", events |-> <<>>]
      /\ md = [up |-> FALSE, mode |-> "INACTIVE", mdh |-> FALSE]
      /\ mh = [state |-> "off", retry |-> 0] /\ pc = "wait" /\ chip = IdleMsg /\ rx = NoRx
      /\ dev.ev = 0 /\ dev.cleared = {} /\ left.commands = MaxCommands /\ left.events = MaxEvents
  BY DEF Init, DeviceInit
<1>2. CommandsLeft \in 0..2 /\ MaxEvents \in Nat
  BY <1>1, BudgetAssumption DEF EventsApart, CommandsLeft
<1>3. /\ h.od = "Inactive" /\ h.es = "Inactive" /\ h.cs = "Inactive" /\ h.code = "NONE"
      /\ ~h.conf /\ ~h.flag /\ ~h.lost /\ h.rw = "none"
  BY <1>1 DEF HandlersInit
<1>4. IdleMsg.kind = "Idle"
  BY DEF IdleMsg, Msg
<1>5. IsSeq(<<>>) /\ DOMAIN <<>> = {}
  <2>1. <<>> \in Seq({}) /\ DOMAIN <<>> = {}
    OBVIOUS
  <2>2. QED
    BY <2>1 DEF IsSeq
<1>6. Kept /\ Commanded /\ Stages
  BY <1>1, <1>2, <1>3, <1>4, NoRxIs DEF Kept, Commanded, Stages, Pending, CallerFields
<1>7. Flags /\ ReadSoFar /\ Confirmed
  BY <1>1, <1>3, <1>4, NoRxIs DEF Flags, ReadSoFar, Confirmed
<1>8. Numbers /\ Reported
  <2>1. caller.events = <<>>
    BY <1>1
  <2>2. QED
    BY <1>1, <1>2, <1>5, <2>1 DEF Numbers, Reported, ToldIn, Distinct
<1>9. QED
  BY <1>6, <1>7, <1>8 DEF Eventful

\* The invariant goes on.
LEMMA EventsKept == Inv /\ (EventsApart => Eventful) /\ [Next]_vars => (EventsApart => Eventful)'
<1> SUFFICES ASSUME Inv, EventsApart => Eventful, [Next]_vars, EventsApart' PROVE Eventful'
  OBVIOUS
<1>1. occurs' = occurs
  BY MixKept DEF vars
<1>2. EventsApart /\ Eventful
  BY <1>1 DEF EventsApart, Commanding
<1>3. CASE UNCHANGED vars
  BY <1>2, <1>3, EventAsides
<1>4. CASE Next
  BY <1>2, <1>4, EventAsides, EventComes, EventReceived, EventPrepared, EventUp, EventCommands,
     EventExchanged DEF Next, Thread, Callers, Free
<1>5. QED
  BY <1>3, <1>4

\* An event is confirmed to the device only after all of it was read and indicated, and no
\* event is indicated twice: whatever answers are lost and messages repeated, and whatever
\* requests, parameters read and commands come between (iolink_dl_event_h_sm, OD handler).
THEOREM EventsAreTold == Spec => [](EventsApart => EventsTold)
<1>1. Init => Inv /\ (EventsApart => Eventful)
  BY InitInv, EventInit
<1>2. (Inv /\ (EventsApart => Eventful)) /\ [Next]_vars => (Inv /\ (EventsApart => Eventful))'
  BY NextKeeps, EventsKept
<1>3. (EventsApart => Eventful) => (EventsApart => EventsTold)
  <2>1. \A e : ToldIn(caller.events, e) => IsTold(e)
    BY DEF ToldIn, IsTold, Bytes
  <2>2. QED
    BY <2>1 DEF EventsTold, Eventful, Reported, Distinct
<1>4. QED
  BY <1>1, <1>2, <1>3, PTL DEF Spec

-----------------------------------------------------------------------------
(* What AL waits for is not forgotten.                                      *)

\* The ISDU that AL asked for is with its handler, begun or not.
HeldIsdu(x) == x.is \in Active \/ (x.is = "Idle" /\ x.tot # 0)
Tells(x, y, kind) == \E c : c.kind = kind /\ y.out = Append(x.out, c)

\* The ISDU handler drops what it holds only with a confirmation, and leaves an error for later
\* only after an answer.
Minds(x, y) ==
  /\ HeldIsdu(x) => HeldIsdu(y) \/ Tells(x, y, "isdu")
  /\ x.is \notin Active /\ x.rw \in {"read", "write"} => y.rw = x.rw \/ Tells(x, y, x.rw)
  /\ y.is = "Error" => x.trig # "MASTER"

\* An ISDU that ends is confirmed, at once or when the error is dealt with.
LEMMA EndTold == ASSUME NEW x, Typed(x)
  PROVE /\ Tells(x, Complete(x), "isdu") /\ Complete(x).is = "Idle"
        /\ x.act => Tells(x, IsduError(x), "isdu") /\ IsduError(x).is = "Idle"
        /\ \/ Tells(x, EnterError(x), "isdu") /\ EnterError(x).is # "Error"
           \/ EnterError(x).is = "Error" /\ x.trig # "MASTER"
<1>1. \A st, d : Cnf("isdu", st, d).kind = "isdu"
  BY DEF Cnf
<1>2. Tells(x, Complete(x), "isdu") /\ Complete(x).is = "Idle"
  <2>1. \E st, d : Complete(x).out = Append(x.out, Cnf("isdu", st, d))
    BY DEF Complete, Confirm, Typed, Fields
  <2>2. Complete(x).is = "Idle"
    BY DEF Complete, Confirm, Typed, Fields
  <2>3. QED
    BY <1>1, <2>1, <2>2 DEF Tells
<1>3. ASSUME x.act PROVE Tells(x, IsduError(x), "isdu") /\ IsduError(x).is = "Idle"
  <2>1. IsduError(x).out = Append(x.out, Cnf("isdu", "ERR", 0)) /\ IsduError(x).is = "Idle"
    BY <1>3 DEF IsduError, Confirm, Send, Typed, Fields
  <2>2. QED
    BY <1>1, <2>1 DEF Tells
<1>4. CASE ~x.act
  <2>1. EnterError(x).out = Append(x.out, Cnf("isdu", "ERR", 0)) /\ EnterError(x).is = "Inactive"
    BY <1>4 DEF EnterError, Confirm, Typed, Fields
  <2>2. QED
    BY <1>1, <1>2, <1>4, <2>1 DEF Tells
<1>5. CASE x.act /\ x.trig = "MASTER"
  <2>1. EnterError(x) = IsduError(x)
    BY <1>5 DEF EnterError
  <2>2. QED
    BY <1>2, <1>3, <1>5, <2>1
<1>6. CASE x.act /\ x.trig # "MASTER"
  <2>1. EnterError(x).is = "Error"
    BY <1>6 DEF EnterError, Typed, Fields
  <2>2. QED
    BY <1>2, <1>3, <1>6, <2>1
<1>7. QED
  BY <1>4, <1>5, <1>6

\* The handler that ends the ISDU of z, which is that of x.
LEMMA EndMinds == ASSUME NEW x, NEW z, NEW y, Typed(z), z.out = x.out, z.trig = x.trig, x.is \in Active,
                         y \in {EnterError(z), Complete(z)}
  PROVE Minds(x, y)
<1>1. \/ Tells(z, y, "isdu") /\ y.is # "Error"
      \/ y.is = "Error" /\ z.trig # "MASTER"
  BY EndTold
<1>2. QED
  BY <1>1 DEF Minds, HeldIsdu, Tells, Active

\* In each of its states.
LEMMA IsduMinds == ASSUME NEW x, NEW r, Typed(x), x.is = "Error" => x.act
  PROVE Minds(x, IsduHandler(x, r))
<1> DEFINE y == IsduHandler(x, r)
<1>1. ASSUME x.is = "Inactive" PROVE Minds(x, y)
  <2>1. y.rw = x.rw /\ y.is \in {"Inactive", "Idle"}
    BY <1>1 DEF IsduHandler, Typed, Fields
  <2> HIDE DEF y
  <2>2. QED
    BY <1>1, <2>1 DEF Minds, HeldIsdu, Active
<1>2. ASSUME x.is = "Idle" PROVE Minds(x, y)
  <2>1. y = IsduIdle(x, r)
    BY <1>2 DEF IsduHandler
  <2> HIDE DEF y
  <2>2. CASE ~x.act
    <3>1. /\ y.rw = x.rw /\ y.is = "Inactive"
          /\ x.tot # 0 => y.out = Append(x.out, Cnf("isdu", "ERR", 0))
      BY <2>1, <2>2 DEF IsduIdle, Confirm, Typed, Fields
    <3>2. Cnf("isdu", "ERR", 0).kind = "isdu"
      BY DEF Cnf
    <3>3. QED
      BY <1>2, <3>1, <3>2 DEF Minds, HeldIsdu, Tells, Active
  <2>3. CASE x.act /\ x.trig = "MASTER"
    <3>1. /\ y.rw = x.rw /\ y.tot = x.tot /\ y.is \in {"Idle", "Request"}
      <4>1. \/ y = [Send(x, Msg("Seg", 0, x.job)) EXCEPT !.seg = 1, !.is = "Request"]
            \/ \E m : y = Send(x, m)
        BY <2>1, <2>3 DEF IsduIdle
      <4>2. QED
        BY <1>2, <4>1 DEF Send, Typed, Fields
    <3>2. QED
      BY <1>2, <3>1 DEF Minds, HeldIsdu, Active
  <2>4. CASE x.act /\ x.trig = "DEVICE" /\ x.rw \in {"read", "write"}
    <3>1. PICK d : y = Confirm([x EXCEPT !.rw = "none"], Cnf(x.rw, "OK", d))
      BY <2>1, <2>4 DEF IsduIdle
    <3>2. PICK c : c = Cnf(x.rw, "OK", d)
      OBVIOUS
    <3>3. c.kind = x.rw
      BY <3>2 DEF Cnf
    <3>4. y.out = Append(x.out, c) /\ y.is = x.is /\ y.tot = x.tot
      BY <3>1, <3>2 DEF Confirm, Typed, Fields
    <3>5. QED
      BY <1>2, <3>3, <3>4 DEF Minds, HeldIsdu, Tells, Active
  <2>5. CASE x.act /\ x.trig # "MASTER" /\ ~(x.trig = "DEVICE" /\ x.rw \in {"read", "write"})
    <3>1. y = x
      BY <2>1, <2>5 DEF IsduIdle
    <3>2. QED
      BY <1>2, <3>1 DEF Minds
  <2>6. QED
    BY <2>2, <2>3, <2>4, <2>5 DEF Typed
<1>3. ASSUME x.is = "Error" PROVE Minds(x, y)
  <2>1. y = IsduError(x) /\ x.act
    BY <1>3 DEF IsduHandler
  <2>2. Tells(x, y, "isdu") /\ y.is = "Idle"
    BY <2>1, EndTold
  <2> HIDE DEF y
  <2>3. QED
    BY <1>3, <2>2 DEF Minds, Active
<1>4. ASSUME x.is = "Request" PROVE Minds(x, y)
  <2>1. \/ y = EnterError(x) \/ y = x
        \/ y = [Send(x, Msg("Seg", x.seg, x.job)) EXCEPT !.seg = @ + 1]
        \/ y = [x EXCEPT !.seg = 0, !.is = "Wait", !.late = FALSE]
    BY <1>4 DEF IsduHandler, IsduRequest
  <2> HIDE DEF y
  <2>2. y = EnterError(x) \/ y.is \in {"Request", "Wait"}
    BY <1>4, <2>1 DEF Send, Typed, Fields
  <2>3. CASE y = EnterError(x)
    BY <1>4, <2>3, EndMinds DEF Active
  <2>4. CASE y.is \in {"Request", "Wait"}
    BY <1>4, <2>4 DEF Minds, HeldIsdu, Active
  <2>5. QED
    BY <2>2, <2>3, <2>4
<1>5. ASSUME x.is = "Wait" PROVE Minds(x, y)
  <2> DEFINE b == [x.buf EXCEPT ![0] = <<r.at, r.arg>>]
             z == [x EXCEPT !.buf = b, !.seg = 1, !.tot = RespSegs]
             n == [x EXCEPT !.late = FALSE]
             w == [z EXCEPT !.is = "Response"]
  <2>1. [x EXCEPT !.buf[0] = <<r.at, r.arg>>, !.seg = 1, !.tot = RespSegs] = z
    OBVIOUS
  <2>2. Buffer(b)
    BY BufferKept DEF Typed
  <2>3. \/ y = EnterError(x) \/ y = EnterError(n) \/ y = Complete(z)
        \/ y = x \/ y = w \/ y = Send(x, Msg("Get", 0, 0))
    BY <1>5, <2>1 DEF IsduHandler, IsduWait
  <2> HIDE DEF b, y
  <2>4. /\ Typed(z) /\ z.out = x.out /\ z.trig = x.trig
        /\ Typed(n) /\ n.out = x.out /\ n.trig = x.trig
        /\ w.is = "Response" /\ Send(x, Msg("Get", 0, 0)).is = "Wait"
    BY <1>5, <2>2 DEF Send, Typed, Fields
  <2> HIDE DEF z, n, w
  <2>5. CASE y \in {EnterError(x), EnterError(n), Complete(z)}
    BY <1>5, <2>4, <2>5, EndMinds DEF Active
  <2>6. CASE y \in {x, w, Send(x, Msg("Get", 0, 0))}
    <3>1. y.is \in {"Wait", "Response"}
      BY <1>5, <2>4, <2>6
    <3>2. QED
      BY <1>5, <3>1 DEF Minds, HeldIsdu, Active
  <2>7. QED
    BY <2>3, <2>5, <2>6
<1>6. ASSUME x.is = "Response" PROVE Minds(x, y)
  <2> DEFINE b == [x.buf EXCEPT ![x.seg] = <<r.at, r.arg>>]
             z == [x EXCEPT !.buf = b, !.seg = x.seg + 1]
  <2>1. [x EXCEPT !.buf[x.seg] = <<r.at, r.arg>>, !.seg = @ + 1] = z
    OBVIOUS
  <2>2. Buffer(b)
    BY BufferKept DEF Typed
  <2>3. \/ y = EnterError(x) \/ y = Complete(z)
        \/ y = x \/ y = z \/ y = Send(x, Msg("Get", x.seg, 0))
    BY <1>6, <2>1 DEF IsduHandler, IsduResponse
  <2> HIDE DEF b, y
  <2>4. /\ Typed(z) /\ z.out = x.out /\ z.trig = x.trig
        /\ z.is = "Response" /\ Send(x, Msg("Get", x.seg, 0)).is = "Response"
    BY <1>6, <2>2 DEF Send, Typed, Fields
  <2> HIDE DEF z
  <2>5. CASE y \in {EnterError(x), Complete(z)}
    BY <1>6, <2>4, <2>5, EndMinds DEF Active
  <2>6. CASE y \in {x, z, Send(x, Msg("Get", x.seg, 0))}
    <3>1. y.is = "Response"
      BY <1>6, <2>4, <2>6
    <3>2. QED
      BY <1>6, <3>1 DEF Minds, HeldIsdu, Active
  <2>7. QED
    BY <2>3, <2>5, <2>6
<1>7. QED
  BY <1>1, <1>2, <1>3, <1>4, <1>5, <1>6 DEF Typed

\* What a trigger, or the handlers' activation, does to what x holds: it has it still, or y confirms it.
Closed(y, kind) == \E c \in Outs(y) : c.kind = kind
Recalls(x, y) ==
  /\ HeldIsdu(x) => HeldIsdu(y) \/ Closed(y, "isdu")
  /\ x.is \notin Active /\ x.rw \in {"read", "write"} => y.rw = x.rw \/ Closed(y, x.rw)

\* The ISDU handler's step, whoever calls it, and what was confirmed before and comes after it.
LEMMA MindsRecalls == ASSUME NEW x, NEW z, NEW w, NEW y, Typed(z), IsduPart(z) = IsduPart(x), Minds(z, w),
                             IsduPart(y) = IsduPart(w), \A c \in Outs(w) : c \in Outs(y)
  PROVE Recalls(x, y)
<1>1. z.is = x.is /\ z.rw = x.rw /\ z.tot = x.tot /\ y.is = w.is /\ y.rw = w.rw /\ y.tot = w.tot
  BY DEF IsduPart
<1>2. ASSUME NEW kind, Tells(z, w, kind) PROVE Closed(y, kind)
  <2>1. PICK c : c.kind = kind /\ w.out = Append(z.out, c)
    BY <1>2 DEF Tells
  <2>2. Outs(w) = Outs(z) \cup {c}
    BY <2>1, OneMore
  <2>3. QED
    BY <2>1, <2>2 DEF Closed
<1>3. QED
  BY <1>1, <1>2 DEF Minds, Recalls, HeldIsdu

\* A trigger of the OD handler.
LEMMA TriggerRecalls == ASSUME NEW x, NEW t \in {"DEVICE", "MASTER"}, NEW r, Typed(x)
  PROVE LET y == Trigger(x, t, r) IN
        /\ Typed(y) /\ Given(y) = Given(x) /\ Recalls(x, y)
        /\ ~x.act => y.is = x.is
<1> DEFINE y == Trigger(x, t, r)
           z == [x EXCEPT !.trig = t]
           w == IsduHandler(z, r)
<1>1. Elsewhere(x, y) \/ (x.od = "Isdu" /\ x.act /\ Like(y, w))
  BY StepOf
<1>2. Typed(z) /\ IsduPart(z) = IsduPart(x) /\ Given(z) = Given(x)
  BY Triggered
<1> HIDE DEF y, z
<1>3. CASE Elsewhere(x, y)
  <2>1. Typed(y) /\ Given(y) = Given(x) /\ IsduPart(y) = IsduPart(x)
    BY <1>3 DEF Elsewhere
  <2>2. y.is = x.is /\ y.rw = x.rw /\ y.tot = x.tot
    BY <2>1 DEF IsduPart
  <2>3. QED
    BY <2>1, <2>2 DEF Recalls, HeldIsdu, y
<1>4. CASE x.act /\ Like(y, w)
  <2>1. z.act
    BY <1>2, <1>4 DEF Given
  <2>2. Minds(z, w) /\ Given(w) = Given(z)
    BY <1>2, <2>1, IsduMinds, IsduDoes DEF IsduKeeps
  <2>3. Typed(y) /\ IsduPart(y) = IsduPart(w) /\ Given(y) = Given(w) /\ y.out = w.out
    BY <1>4 DEF Like
  <2>4. Recalls(x, y)
    BY <1>2, <2>2, <2>3, MindsRecalls DEF Outs
  <2>5. QED
    BY <1>2, <1>4, <2>2, <2>3, <2>4 DEF y
<1>5. QED
  BY <1>1, <1>3, <1>4

\* With neither commands nor events the OD handler stays with the ISDU, whose errors are dealt
\* with before the next message.
LEMMA LoneTrigger == ASSUME NEW x, NEW t \in {"DEVICE", "MASTER"}, NEW r, Typed(x), x.code = "NONE",
                            ~x.flag, IF x.act THEN x.od = "Isdu" ELSE x.od = "Inactive"
  PROVE LET y == Trigger(x, t, r) IN
        /\ y.od = x.od /\ y.code = "NONE"
        /\ x.act /\ t = "MASTER" => y.is # "Error"
<1> DEFINE y == Trigger(x, t, r)
           z == [x EXCEPT !.trig = t]
           w == IsduHandler(z, r)
<1>1. /\ Typed(z) /\ z.act = x.act /\ z.trig = t /\ z.code = x.code /\ z.flag = x.flag /\ z.od = x.od
      /\ y = OdHandler(z, r)
  BY DEF Trigger, Typed, Fields
<1> HIDE DEF z
<1>2. CASE ~x.act
  <2>1. y = z
    BY <1>1, <1>2 DEF OdHandler
  <2>2. QED
    BY <1>1, <1>2, <2>1
<1>3. CASE x.act
  <2>1. y = Untriggered(w)
    BY <1>1, <1>3 DEF OdHandler, OdIsdu
  <2>2. Typed(w) /\ CmdPart(w) = CmdPart(z) /\ OdPart(w) = OdPart(z) /\ Minds(z, w)
    BY <1>1, <1>3, IsduDoes, IsduMinds DEF IsduKeeps
  <2> HIDE DEF w
  <2>3. w.code = z.code /\ w.od = z.od /\ (w.is = "Error" => z.trig # "MASTER")
    BY <2>2 DEF CmdPart, OdPart, Minds
  <2> HIDE DEF y
  <2>4. y.code = w.code /\ y.od = w.od /\ y.is = w.is
    BY <2>1, <2>2 DEF Untriggered, Typed, Fields
  <2>5. QED
    BY <1>1, <2>3, <2>4 DEF y
<1>4. QED
  BY <1>2, <1>3

\* An event that is told confirms nothing else, and takes nothing back.
LEMMA MoreTold == ASSUME NEW x, NEW y, NEW kinds, Typed(x), MayConfirm(x, y, kinds)
  PROVE \A c \in Outs(x) : c \in Outs(y)
<1>1. CASE y.out = x.out
  BY <1>1 DEF Outs
<1>2. ASSUME NEW d, y.out = Append(x.out, d) PROVE \A c \in Outs(x) : c \in Outs(y)
  <2>1. Outs(y) = Outs(x) \cup {d}
    BY <1>2, OneMore
  <2>2. QED
    BY <2>1
<1>3. QED
  BY <1>1, <1>2 DEF MayConfirm

\* OPERATE begins: an ISDU that was under way goes on.
LEMMA UpRecalls == ASSUME NEW x, Typed(x), ~x.act, x.od = "Inactive", ~x.flag, x.code = "NONE"
  PROVE LET y == Activated(x) IN
        /\ HeldIsdu(x) => HeldIsdu(y) \/ Closed(y, "isdu")
        /\ y.od = "Isdu" /\ ~y.flag /\ y.code = "NONE" /\ y.lost = x.lost
<1> DEFINE x1 == [x EXCEPT !.ch = TRUE, !.rw = "none"]
           c  == CmdHandler(x1)
           c1 == [c EXCEPT !.act = TRUE]
           o  == OdHandler(c1, NoRx)
           i  == IsduHandler(o, NoRx)
           y  == EvHandler(i, NoRx)
<1>1. /\ Typed(x1) /\ x1.is = x.is /\ x1.tot = x.tot /\ x1.od = "Inactive" /\ x1.lost = x.lost
      /\ ~x1.flag /\ x1.code = "NONE"
  BY DEF Typed, Fields
<1> HIDE DEF x1
<1>2. /\ Typed(c) /\ IsduPart(c) = IsduPart(x1) /\ OdPart(c) = OdPart(x1) /\ Given(c) = Given(x1)
  BY <1>1, CmdDoes
<1>3. c.code = "NONE"
  BY <1>1 DEF CmdHandler, Send, Typed, Fields
<1> HIDE DEF c
<1>4. c.is = x.is /\ c.tot = x.tot /\ c.od = "Inactive" /\ c.lost = x.lost /\ ~c.flag
  BY <1>1, <1>2 DEF IsduPart, OdPart, Given
<1>5. /\ Typed(c1) /\ c1.act /\ c1.is = x.is /\ c1.tot = x.tot /\ c1.od = "Inactive"
      /\ c1.code = "NONE" /\ ~c1.flag /\ c1.lost = x.lost
  BY <1>2, <1>3, <1>4 DEF Typed, Fields
<1> HIDE DEF c1
<1>6. o = [c1 EXCEPT !.od = "Isdu"]
  BY <1>5 DEF OdHandler
<1> HIDE DEF o
<1>7. /\ Typed(o) /\ o.act /\ o.is = x.is /\ o.tot = x.tot /\ o.od = "Isdu" /\ o.code = "NONE"
      /\ ~o.flag /\ o.lost = x.lost
  BY <1>5, <1>6 DEF Typed, Fields
<1>8. /\ Typed(i) /\ OdPart(i) = OdPart(o) /\ CmdPart(i) = CmdPart(o) /\ Given(i) = Given(o) /\ Minds(o, i)
  BY <1>7, IsduDoes, IsduMinds DEF IsduKeeps
<1> HIDE DEF i
<1>9. /\ Typed(y) /\ IsduPart(y) = IsduPart(i) /\ OdPart(y) = OdPart(i) /\ CmdPart(y) = CmdPart(i)
      /\ Given(y) = Given(i) /\ MayConfirm(i, y, {"event"})
  BY <1>8, EvDoes
<1>10. y = Activated(x)
  BY DEF Activated, y, i, o, c1, c, x1
<1> HIDE DEF y
<1>11. \A d \in Outs(i) : d \in Outs(y)
  BY <1>8, <1>9, MoreTold
<1>12. Recalls(o, y)
  BY <1>7, <1>8, <1>9, <1>11, MindsRecalls
<1>13. y.od = "Isdu" /\ ~y.flag /\ y.code = "NONE" /\ y.lost = x.lost
  BY <1>7, <1>8, <1>9 DEF OdPart, CmdPart, Given
<1>14. QED
  BY <1>7, <1>10, <1>12, <1>13 DEF Recalls, HeldIsdu

\* OPERATE ends: an ISDU is confirmed, unless its error was still to be dealt with.
LEMMA DownRecalls == ASSUME NEW x, Typed(x), x.od \in {"Inactive", "Isdu"}, x.is # "Error",
                            ~x.flag, x.code = "NONE"
  PROVE LET y == Deactivated(x) IN
        /\ HeldIsdu(x) => HeldIsdu(y) \/ Closed(y, "isdu")
        /\ y.od = "Inactive" /\ ~y.flag /\ y.code = "NONE"
<1> DEFINE x1 == [x EXCEPT !.act = FALSE]
           o  == OdHandler(x1, rx)
           i  == IsduHandler(o, rx)
           e  == EvHandler(i, rx)
           e1 == [e EXCEPT !.ch = FALSE]
           y  == CmdHandler(e1)
<1>1. /\ Typed(x1) /\ ~x1.act /\ x1.is = x.is /\ x1.tot = x.tot /\ x1.od = x.od /\ ~x1.flag
      /\ x1.code = "NONE"
  BY DEF Typed, Fields
<1> HIDE DEF x1
<1>2. o = [x1 EXCEPT !.od = "Inactive"] \/ (x1.od = "Inactive" /\ o = x1)
  BY <1>1 DEF OdHandler, OdIsdu
<1> HIDE DEF o
<1>3. /\ Typed(o) /\ ~o.act /\ o.is = x.is /\ o.tot = x.tot /\ o.od = "Inactive" /\ ~o.flag
      /\ o.code = "NONE"
  BY <1>1, <1>2 DEF Typed, Fields
<1>4. /\ Typed(i) /\ OdPart(i) = OdPart(o) /\ CmdPart(i) = CmdPart(o) /\ Given(i) = Given(o) /\ Minds(o, i)
  BY <1>3, IsduDoes, IsduMinds DEF IsduKeeps
<1> HIDE DEF i
<1>5. /\ Typed(e) /\ IsduPart(e) = IsduPart(i) /\ OdPart(e) = OdPart(i) /\ CmdPart(e) = CmdPart(i)
      /\ Given(e) = Given(i) /\ MayConfirm(i, e, {"event"})
  BY <1>4, EvDoes
<1> HIDE DEF e
<1>6. \A d \in Outs(i) : d \in Outs(e)
  BY <1>4, <1>5, MoreTold
<1>7. e.od = "Inactive" /\ ~e.flag /\ e.code = "NONE"
  BY <1>3, <1>4, <1>5 DEF OdPart, CmdPart, Given
<1>8. /\ Typed(e1) /\ ~e1.ch /\ e1.od = "Inactive" /\ ~e1.flag /\ e1.code = "NONE" /\ e1.out = e.out
      /\ IsduPart(e1) = IsduPart(e)
  BY <1>5, <1>7 DEF Typed, Fields, IsduPart
<1> HIDE DEF e1
<1>9. /\ Typed(y) /\ IsduPart(y) = IsduPart(e1) /\ Given(y) = Given(e1) /\ OdPart(y) = OdPart(e1)
      /\ y.out = e1.out
  BY <1>8, CmdDoes
<1>10. y.code = "NONE"
  BY <1>8 DEF CmdHandler, Send, Typed, Fields
<1>11. y = Deactivated(x)
  BY DEF Deactivated, y, e1, e, i, o, x1
<1> HIDE DEF y
<1>12. Recalls(o, y)
  <2>1. IsduPart(y) = IsduPart(i) /\ \A d \in Outs(i) : d \in Outs(y)
    BY <1>5, <1>6, <1>8, <1>9 DEF Outs
  <2>2. QED
    BY <1>3, <1>4, <2>1, MindsRecalls
<1>13. y.od = "Inactive" /\ ~y.flag
  BY <1>8, <1>9 DEF OdPart, Given
<1>14. QED
  BY <1>3, <1>10, <1>11, <1>12, <1>13 DEF Recalls, HeldIsdu

-----------------------------------------------------------------------------
(* The invariant of what AL waits for.                                      *)

\* The link stays up.
KeptLink == occurs \cap {"Loss", "Reset"} = {}

\* AL's services come without commands and events; a read only where the link stays up, which
\* loses it, and a write where SM does not set the mode INACTIVE.
Alone == /\ occurs \cap {"Event", "Pdout", "Mode"} = {}
         /\ "Read" \in occurs => KeptLink
         /\ "Write" \in occurs => "Reset" \notin occurs
Sheltered == KeptLink \/ Alone

\* While SM leaves the mode alone.
Steady == "Reset" \notin occurs =>
  /\ md.up => md.mode = "OPERATE"
  /\ mh.state = "reply9" => md.up
  /\ h.lost => mh.state = "off" /\ md.mdh /\ md.up

\* While the link stays up.
Linked == KeptLink =>
  /\ ~h.lost /\ (~md.up => al.op = "none" \/ al.amid # "none")
  /\ rx.what = "error" => mh.retry < OPERATE_RETRY

\* Without commands and events.
Lone == Alone =>
  /\ h.od = IF md.up THEN "Isdu" ELSE "Inactive"
  /\ ~h.flag /\ h.code = "NONE" /\ ~caller.pdout /\ caller.sm = "idle"
  /\ dev.ev = 0 /\ ~rx.flag
  /\ pc = "wait" => h.is # "Error"

Asked == (al.op = "read" => "Read" \in occurs) /\ (al.op = "write" => "Write" \in occurs)

\* A request for a parameter that came while the message handler is off will be refused.
Pledged ==
  /\ al.op = "isdu" => HeldIsdu(h)
  /\ al.op \in {"read", "write"} =>
       \/ h.rw = al.op /\ h.is \notin Active /\ mh.state # "off"
       \/ al.amid # "none" /\ mh.state = "off"

Memory ==
  /\ DOMAIN caller = CallerFields
  /\ Steady /\ Linked /\ Lone /\ Asked /\ (Sheltered => Pledged)

\* What a step leaves of AL's service in x.
Remains(x) ==
  /\ al.op = "isdu" => HeldIsdu(x) \/ Closed(x, "isdu")
  /\ al.op \in {"read", "write"} =>
       \/ x.rw = al.op /\ x.is \notin Active /\ mh'.state # "off"
       \/ Closed(x, al.op)
       \/ al.amid # "none" /\ mh'.state = "off"

\* A step that delivers what x confirms.
LEMMA MemoryHanded == ASSUME Inv, Memory, NEW x, NEW c, Typed(x), HandTo(x, c), DOMAIN c = CallerFields,
                             occurs' = occurs
  PROVE /\ h'.is = x.is /\ h'.od = x.od /\ h'.flag = x.flag /\ h'.code = x.code /\ h'.lost = x.lost
        /\ DOMAIN caller' = CallerFields /\ caller'.pdout = c.pdout
        /\ c.sm = "idle" => caller'.sm = "idle"
        /\ al'.op \in {al.op, "none"} /\ al'.amid = al.amid /\ Asked'
        /\ Closed(x, al.op) => al'.op = "none"
        /\ (Sheltered => Remains(x)) => (Sheltered' => Pledged')
<1>0. AlOK
  BY DEF Inv, Types
<1>1. /\ h' = [x EXCEPT !.out = <<>>]
      /\ DOMAIN caller' = CallerFields /\ caller'.pdout = c.pdout
      /\ c.sm = "idle" => caller'.sm = "idle"
      /\ al'.amid = al.amid
  BY <1>0, Handed
<1>2. /\ h'.is = x.is /\ h'.od = x.od /\ h'.flag = x.flag /\ h'.code = x.code /\ h'.lost = x.lost
      /\ h'.tot = x.tot /\ h'.rw = x.rw
  BY <1>1 DEF Typed, Fields
<1>3. IsSeq(x.out)
  BY DEF Typed
<1>4. \/ al'.op = "none"
      \/ al' = al /\ ~Closed(x, al.op)
  <2>1. CASE Of(x, al.op) = <<>>
    <3>1. al' = al
      BY <2>1 DEF HandTo
    <3>2. \A d \in Outs(x) : d.kind # al.op
      BY <1>3, <2>1, OfOuts
    <3>3. QED
      BY <3>1, <3>2 DEF Closed
  <2>2. CASE Of(x, al.op) # <<>>
    BY <1>0, <2>2 DEF HandTo, AlOK
  <2>3. QED
    BY <2>1, <2>2
<1>5. Asked' /\ al'.op \in {al.op, "none"}
  BY <1>4 DEF Memory, Asked
<1>6. Sheltered' = Sheltered
  BY DEF Sheltered, KeptLink, Alone
<1>7. ASSUME Sheltered => Remains(x), Sheltered
      PROVE  Pledged'
  BY <1>1, <1>2, <1>4, <1>7 DEF Remains, Pledged, HeldIsdu
<1>8. QED
  BY <1>1, <1>2, <1>4, <1>5, <1>6, <1>7

\* The facts of the invariant that the steps need.
LEMMA MemoryFacts == ASSUME Inv, Memory
  PROVE /\ Typed(h) /\ h.out = <<>> /\ h.act = md.up /\ Isdu(h, chip, rx) /\ DOMAIN caller = CallerFields
        /\ DOMAIN md = {"up", "mode", "mdh"} /\ DOMAIN mh = {"state", "retry"} /\ mh.retry \in Nat
        /\ DOMAIN dev = DeviceFields /\ AlOK /\ OPERATE_RETRY \in Nat
        /\ md.up => h.is # "Inactive"
        /\ h.is \in Active => al.op = "isdu"
BY RetryAssumption DEF Inv, Types, Turns, DeviceOK, Isdu, Owed, Memory

\* A step of none of the handlers that hold what AL asked for.
LEMMA MemoryAside == ASSUME Inv, Memory, UNCHANGED <<al, occurs>>, DOMAIN caller' = CallerFields,
    h'.is = h.is, h'.tot = h.tot, h'.rw = h.rw, h'.lost = h.lost,
    mh'.state = mh.state, md'.up = md.up, "Reset" \notin occurs => md' = md,
    KeptLink => (rx'.what = "error" => mh'.retry < OPERATE_RETRY),
    Lone'
  PROVE Memory'
<1>1. Steady'
  BY DEF Memory, Steady
<1>2. Linked'
  BY DEF Memory, Linked, KeptLink
<1>3. Asked' /\ (Sheltered' <=> Sheltered)
  BY DEF Memory, Asked, Sheltered, KeptLink, Alone
<1>4. Pledged => Pledged'
  BY DEF Pledged, HeldIsdu
<1>5. QED
  BY <1>1, <1>2, <1>3, <1>4 DEF Memory

\* The message again, a timeout, the device and its messages, SM's mode, and the commands.
LEMMA MemoryAsides == ASSUME Inv, Memory,
    Resend \/ IsduTimeout \/ Exchange \/ Drop \/ Trouble \/ DeviceEvent \/ AskInactive \/ UNCHANGED vars
  PROVE Memory'
<1>0. Typed(h) /\ DOMAIN dev = DeviceFields /\ DOMAIN mh = {"state", "retry"} /\ DOMAIN caller = CallerFields
  BY MemoryFacts
<1>1. CASE Resend
  <2>1. UNCHANGED <<h, md, pc, chip, dev, al, caller, occurs>> /\ rx' = NoRx /\ mh'.state = mh.state
    BY <1>0, <1>1 DEF Resend
  <2>2. Lone'
    BY <2>1, NoRxIs DEF Memory, Lone, Alone, KeptLink
  <2>3. QED
    BY <1>0, <2>1, <2>2, MemoryAside, NoRxIs
<1>2. CASE IsduTimeout
  <2>1. UNCHANGED <<md, mh, pc, chip, rx, dev, al, caller, occurs>> /\ h' = [h EXCEPT !.late = TRUE]
    BY <1>2 DEF IsduTimeout
  <2>2. /\ h'.is = h.is /\ h'.tot = h.tot /\ h'.rw = h.rw /\ h'.lost = h.lost /\ h'.od = h.od
        /\ h'.flag = h.flag /\ h'.code = h.code
    BY <1>0, <2>1 DEF Typed, Fields
  <2>3. Lone' /\ (KeptLink => (rx'.what = "error" => mh'.retry < OPERATE_RETRY))
    BY <2>1, <2>2 DEF Memory, Lone, Alone, KeptLink, Linked
  <2>4. QED
    BY <1>0, <2>1, <2>2, <2>3, MemoryAside
<1>3. ASSUME UNCHANGED <<h, md, mh, pc, al, caller, occurs>>,
             KeptLink => (rx'.what = "error" => mh.retry < OPERATE_RETRY),
             dev.ev = 0 => dev'.ev = 0 /\ ~rx'.flag
      PROVE  Memory'
  <2>1. Lone'
    BY <1>3 DEF Memory, Lone, Alone, KeptLink
  <2>2. QED
    BY <1>0, <1>3, <2>1, MemoryAside
<1>4. CASE Exchange
  <2> DEFINE t == Takes(dev, chip, TRUE)
  <2>1. UNCHANGED <<h, md, mh, pc, al, caller, occurs>> /\ dev' = t[1] /\ rx' = Flagged(t[2], t[1])
    BY <1>4 DEF Exchange
  <2>2. t[1].ev \in {0, dev.ev} /\ t[2].what # "error"
    BY <1>0, EventTaken
  <2> HIDE DEF t
  <2>3. rx'.what # "error" /\ (rx'.flag <=> t[1].ev # 0)
    BY <2>1, <2>2 DEF Flagged
  <2>4. QED
    BY <1>3, <2>1, <2>2, <2>3
<1>5. CASE Drop
  <2> DEFINE t == Takes(dev, chip, TRUE)
  <2>1. /\ UNCHANGED <<h, md, mh, pc, al, caller, occurs>> /\ dev' \in {dev, t[1]}
        /\ rx' = [NoRx EXCEPT !.what = "error"]
        /\ "Loss" \in occurs \/ mh.retry < OPERATE_RETRY
    BY <1>5 DEF Drop
  <2>2. t[1].ev \in {0, dev.ev}
    BY <1>0, EventTaken
  <2> HIDE DEF t
  <2>3. ~rx'.flag
    BY <2>1 DEF NoRx
  <2>4. QED
    BY <1>3, <2>1, <2>2, <2>3 DEF KeptLink
<1>6. CASE Trouble
  <2>1. PICK a \in {"busy", "noservice", "bad"} :
          rx' = Flagged(Answer(a, 0, 0), dev) /\ dev' = IF a = "busy" THEN dev ELSE [dev EXCEPT !.st = "Idle"]
    BY <1>6 DEF Trouble
  <2>2. UNCHANGED <<h, md, mh, pc, al, caller, occurs>> /\ dev'.ev = dev.ev
    BY <1>0, <1>6, <2>1 DEF Trouble, DeviceFields
  <2>3. rx'.what # "error" /\ (rx'.flag <=> dev.ev # 0)
    BY <2>1 DEF Flagged, Answer
  <2>4. QED
    BY <1>3, <2>2, <2>3
<1>7. CASE DeviceEvent
  <2>1. UNCHANGED <<h, md, mh, pc, chip, rx, al, caller, occurs>> /\ ~Alone
    BY <1>7 DEF DeviceEvent, Alone
  <2>2. Lone' /\ (KeptLink => (rx'.what = "error" => mh'.retry < OPERATE_RETRY))
    BY <2>1 DEF Memory, Lone, Alone, KeptLink, Linked
  <2>3. QED
    BY <1>0, <2>1, <2>2, MemoryAside
<1>8. CASE AskInactive
  <2>1. /\ UNCHANGED <<h, mh, pc, chip, rx, dev, al, caller, occurs>> /\ "Reset" \in occurs
        /\ md' = [md EXCEPT !.mode = "INACTIVE", !.mdh = TRUE]
    BY <1>8 DEF AskInactive
  <2>2. md'.up = md.up
    BY <2>1, MemoryFacts
  <2>3. Lone' /\ ~KeptLink
    BY <2>1, <2>2 DEF Memory, Lone, Alone, KeptLink
  <2>4. QED
    BY <1>0, <2>1, <2>2, <2>3, MemoryAside
<1>9. CASE UNCHANGED vars
  <2>1. UNCHANGED <<h, md, mh, pc, rx, dev, al, caller, occurs>>
    BY <1>9 DEF vars
  <2>2. QED
    BY <1>3, <2>1 DEF Memory, Steady, Linked, Lone, Asked, Pledged, HeldIsdu, Sheltered, KeptLink, Alone
<1>10. QED
  BY <1>1, <1>2, <1>4, <1>5, <1>6, <1>7, <1>8, <1>9

\* The commands come only where AL's services are not alone, and leave the ISDU handler as it is.
LEMMA MemoryCommands == ASSUME Inv, Memory, AskPdout \/ RunPdout \/ AskMode \/ RunMode
  PROVE Memory'
<1>0. Typed(h) /\ DOMAIN caller = CallerFields
  BY MemoryFacts
<1>1. UNCHANGED <<md, mh, pc, chip, rx, dev, al, occurs>>
  BY DEF AskPdout, RunPdout, AskMode, RunMode
<1>2. DOMAIN caller' = CallerFields
  BY <1>0 DEF AskPdout, RunPdout, AskMode, RunMode, CallerFields
<1>3. ~Alone
  BY DEF AskPdout, RunPdout, AskMode, RunMode, Memory, Lone, Alone
<1>4. h'.is = h.is /\ h'.tot = h.tot /\ h'.rw = h.rw /\ h'.lost = h.lost
  <2>1. CASE h' = CmdHandler(h)
    <3>1. IsduPart(h') = IsduPart(h) /\ Given(h') = Given(h)
      BY <1>0, <2>1, CmdDoes
    <3>2. QED
      BY <3>1 DEF IsduPart, Given
  <2>2. CASE \/ \E code : h' = [h EXCEPT !.code = code]
             \/ h' = [h EXCEPT !.mcmd = "FALLBACK", !.code = "DEVICEMODE"]
    BY <1>0, <2>2 DEF Typed, Fields
  <2>3. QED
    BY <2>1, <2>2 DEF AskPdout, RunPdout, AskMode, RunMode
<1>5. Lone' /\ (KeptLink => (rx'.what = "error" => mh'.retry < OPERATE_RETRY))
  BY <1>1, <1>3 DEF Memory, Lone, Alone, KeptLink, Linked
<1>6. QED
  BY <1>0, <1>1, <1>2, <1>4, <1>5, MemoryAside

\* A trigger of the OD handler, after an answer or before a message, that delivers its confirmations.
LEMMA MemoryTriggered == ASSUME Inv, Memory, NEW z, NEW t \in {"DEVICE", "MASTER"}, NEW x,
    x = Trigger(z, t, rx), HandTo(x, caller), UNCHANGED <<md, dev, occurs>>,
    Typed(z), IsduPart(z) = IsduPart(h), z.act = h.act, z.lost = h.lost,
    z.od = h.od, z.code = h.code, Alone => ~z.flag,
    mh.state # "off", mh'.state # "off", "Reset" \notin occurs => md.up,
    rx' = NoRx \/ (rx' = rx /\ rx.what # "error"),
    al.op \in {"read", "write"} /\ h.is \notin Active => x.is \notin Active,
    pc' = "wait" => (t = "MASTER" /\ md.up) \/ x.is # "Error"
  PROVE Memory'
<1>0. h.act = md.up /\ DOMAIN caller = CallerFields /\ md.up \in BOOLEAN
  BY MemoryFacts DEF Inv, Types
<1>1. Typed(x) /\ Given(x) = Given(z) /\ Recalls(z, x)
  BY TriggerRecalls
<1>2. z.is = h.is /\ z.rw = h.rw /\ z.tot = h.tot /\ x.lost = h.lost /\ x.flag = z.flag
  BY <1>1 DEF IsduPart, Given
<1>3. Sheltered => Remains(x)
  BY <1>1, <1>2 DEF Memory, Pledged, Remains, Recalls, HeldIsdu
<1>4. /\ h'.is = x.is /\ h'.od = x.od /\ h'.flag = x.flag /\ h'.code = x.code /\ h'.lost = x.lost
      /\ DOMAIN caller' = CallerFields /\ caller'.pdout = caller.pdout
      /\ caller.sm = "idle" => caller'.sm = "idle"
      /\ al'.op \in {al.op, "none"} /\ al'.amid = al.amid /\ Asked'
      /\ Sheltered' => Pledged'
  BY <1>0, <1>1, <1>3, MemoryHanded
<1>5. ASSUME Alone
      PROVE  x.od = h.od /\ x.code = "NONE" /\ (pc' = "wait" => x.is # "Error")
  <2>1. z.code = "NONE" /\ ~z.flag /\ (IF z.act THEN z.od = "Isdu" ELSE z.od = "Inactive")
    BY <1>0, <1>5 DEF Memory, Lone
  <2>2. x.od = z.od /\ x.code = "NONE" /\ (z.act /\ t = "MASTER" => x.is # "Error")
    BY <2>1, LoneTrigger
  <2>3. QED
    BY <1>0, <2>2
<1>6. Lone'
  BY <1>0, <1>2, <1>4, <1>5, NoRxIs DEF Memory, Lone, Alone, KeptLink
<1>7. Steady'
  BY <1>2, <1>4 DEF Memory, Steady
<1>8. Linked'
  BY <1>2, <1>4, NoRxIs DEF Memory, Linked, KeptLink
<1>9. QED
  BY <1>4, <1>6, <1>7, <1>8 DEF Memory

\* AW_REPLY_16: the answer.
LEMMA MemoryReceived == ASSUME Inv, Memory, Received PROVE Memory'
<1> DEFINE z == [h EXCEPT !.flag = rx.flag]
           x == Trigger(z, "DEVICE", rx)
<1>1. /\ HandTo(x, caller) /\ UNCHANGED <<md, mh, chip, rx, dev, left, occurs>> /\ pc' = "prepare"
      /\ mh.state = "reply16" /\ h.rw # "write" /\ IsGood(rx)
  BY DEF Received, Hand, Waiting, Good, IsGood
<1>2. /\ Typed(h) /\ h.out = <<>> /\ h.act = md.up /\ Isdu(h, chip, rx) /\ (md.up => h.is # "Inactive")
      /\ md.up /\ rx.flag \in BOOLEAN
  BY <1>1, MemoryFacts DEF Inv, Turns, Types
<1>3. /\ Typed(z) /\ z.out = <<>> /\ z.act = h.act /\ z.lost = h.lost /\ z.od = h.od /\ z.code = h.code
      /\ IsduPart(z) = IsduPart(h) /\ z.flag = rx.flag
  BY <1>2 DEF Typed, Fields, IsduPart
<1> HIDE DEF z
<1>4. Isdu(z, chip, rx) /\ z.is = h.is
  BY <1>2, <1>3, SameIsdu
<1>5. h.is \notin Active => x.is \notin Active
  BY <1>1, <1>2, <1>3, <1>4, DeviceStep
<1>6. Alone => ~z.flag
  BY <1>3 DEF Memory, Lone
<1>7. rx.what # "error"
  BY <1>1 DEF IsGood
<1> HIDE DEF x
<1>8. x = Trigger(z, "DEVICE", rx)
  BY DEF x
<1>9. QED
  BY <1>1, <1>2, <1>3, <1>5, <1>6, <1>7, <1>8, MemoryTriggered

\* The next message, or the write that AL asked for.
LEMMA MemoryPrepared == ASSUME Inv, Memory, Prepare \/ WriteNow PROVE Memory'
<1> DEFINE x == Trigger(h, "MASTER", rx)
<1>1. /\ HandTo(x, caller) /\ UNCHANGED <<md, dev, occurs>> /\ rx' = NoRx
      /\ mh.state = "reply16" /\ mh'.state \in {"reply16", "reply9"} /\ (h.is = "Request" => Held(h.job))
  <2>1. CASE Prepare
    BY <2>1 DEF Prepare, Hand, Inv, Turns
  <2>2. CASE WriteNow
    <3>1. h.rw = "write"
      BY <2>2 DEF WriteNow
    <3>2. h.is \notin Active
      BY <3>1 DEF Inv, Isdu, Owed
    <3>3. QED
      BY <2>2, <3>2 DEF WriteNow, Hand, Waiting, Active
  <2>3. QED
    BY <2>1, <2>2
<1>2. /\ Typed(h) /\ h.out = <<>> /\ h.act = md.up /\ Isdu(h, chip, rx) /\ (md.up => h.is # "Inactive")
      /\ md.up
  BY <1>1, MemoryFacts DEF Inv, Turns
<1>3. h.tx.kind \in {"Seg", "Get"} => chip = h.tx
  BY <1>2 DEF Inv, Turns
<1>4. h.rw # "isdu" /\ h.is \notin Active => x.is \notin Active
  BY <1>1, <1>2, <1>3, MasterStep
<1> HIDE DEF x
<1>6. x = Trigger(h, "MASTER", rx) /\ (Alone => ~h.flag)
  BY DEF x, Memory, Lone
<1>7. ASSUME al.op \in {"read", "write"}, h.is \notin Active PROVE x.is \notin Active
  <2>1. h.is # "Idle" \/ h.rw # "isdu"
    BY <1>2, <1>7 DEF Isdu, Owed
  <2>2. h.is = "Idle"
    BY <1>2, <1>7 DEF Typed, Active
  <2>3. QED
    BY <1>4, <1>7, <2>1, <2>2
<1>8. QED
  BY <1>1, <1>2, <1>6, <1>7, MemoryTriggered

\* AW_REPLY_9: the answer to a write.
LEMMA MemoryWritten == ASSUME Inv, Memory, Written PROVE Memory'
<1> DEFINE x == Trigger(h, "DEVICE", rx)
<1>1. /\ HandTo(x, caller) /\ UNCHANGED <<md, pc, chip, dev, left, occurs>> /\ rx' = NoRx
      /\ mh.state = "reply9" /\ IsGood(rx)
      /\ mh' = [mh EXCEPT !.state = IF x.is = "Idle" THEN "reply16" ELSE @]
  BY DEF Written, Hand, Waiting, Good, IsGood
<1>2. /\ Typed(h) /\ h.out = <<>> /\ h.act = md.up /\ Isdu(h, chip, rx) /\ (md.up => h.is # "Inactive")
      /\ h.is \notin Active /\ DOMAIN mh = {"state", "retry"}
  BY <1>1, MemoryFacts DEF Inv, Turns
<1>3. x.is \notin Active
  <2>1. CASE h.act
    BY <1>1, <1>2, <2>1, DeviceStep
  <2>2. CASE ~h.act
    BY <1>2, <2>2, TriggerRecalls
  <2>3. QED
    BY <2>1, <2>2
<1> HIDE DEF x
<1>4. x = Trigger(h, "DEVICE", rx) /\ (Alone => ~h.flag)
  BY DEF x, Memory, Lone
<1>5. mh'.state \in {"reply9", "reply16"}
  BY <1>1, <1>2
<1>6. "Reset" \notin occurs => md.up
  BY <1>1 DEF Memory, Steady
<1>7. x.is # "Error"
  BY <1>3 DEF Active
<1>8. QED
  BY <1>1, <1>2, <1>3, <1>4, <1>5, <1>6, <1>7, MemoryTriggered

\* What OPERATE's begin gives the handlers.
LEMMA UpGives == ASSUME NEW x, Typed(x)
  PROVE Given(Activated(x)) = <<TRUE, TRUE, x.lost, x.flag>>
<1> DEFINE x1 == [x EXCEPT !.ch = TRUE, !.rw = "none"]
           c  == CmdHandler(x1)
           c1 == [c EXCEPT !.act = TRUE]
           o  == OdHandler(c1, NoRx)
           i  == IsduHandler(o, NoRx)
           y  == EvHandler(i, NoRx)
<1>1. Typed(x1) /\ x1.ch /\ x1.lost = x.lost /\ x1.flag = x.flag
  BY DEF Typed, Fields
<1> HIDE DEF x1
<1>2. Typed(c) /\ Given(c) = Given(x1)
  BY <1>1, CmdDoes
<1> HIDE DEF c
<1>3. Typed(c1) /\ Given(c1) = <<TRUE, TRUE, x.lost, x.flag>>
  <2>1. Typed(c1) /\ c1.act = TRUE /\ c1.ch = c.ch /\ c1.lost = c.lost /\ c1.flag = c.flag
    BY <1>2 DEF Typed, Fields
  <2>2. c.ch = TRUE /\ c.lost = x.lost /\ c.flag = x.flag
    BY <1>1, <1>2 DEF Given, Typed
  <2>3. QED
    BY <2>1, <2>2 DEF Given
<1> HIDE DEF c1
<1>4. Typed(o) /\ Given(o) = Given(c1)
  <2>1. \A w : Like(o, w) => Typed(o) /\ Given(o) = Given(w)
    BY DEF Like
  <2>2. /\ Given(CmdHandler(c1)) = Given(c1) /\ Given(IsduHandler(c1, NoRx)) = Given(c1)
        /\ Given(EvHandler(c1, NoRx)) = Given(c1) /\ Given(WriteMasterCommand(c1, "OK")) = Given(c1)
    BY <1>3, CmdDoes, IsduDoes, EvDoes, WriteDoes DEF IsduKeeps
  <2>3. QED
    BY <1>3, <2>1, <2>2, OdDoes
<1> HIDE DEF o
<1>5. Typed(i) /\ Given(i) = Given(o)
  BY <1>4, IsduDoes DEF IsduKeeps
<1> HIDE DEF i
<1>6. Given(y) = Given(i)
  BY <1>5, EvDoes
<1>7. y = Activated(x)
  BY DEF Activated, y, i, o, c1, c, x1
<1>8. QED
  BY <1>3, <1>4, <1>5, <1>6, <1>7

\* A lost link, not where it stays up: what waits for a parameter is told so in AW_REPLY_9.
LEMMA MemoryLost == ASSUME Inv, Memory, ComLost PROVE Memory'
<1> DEFINE w == IF mh.state = "reply9" THEN WriteMasterCommand(h, "ERR") ELSE h
           c == Cnf(h.rw, "ERR", 0)
           v == IF mh.state = "reply9" /\ h.rw \in {"read", "write"} THEN Confirm(w, c) ELSE w
           x == [v EXCEPT !.rw = "none", !.lost = TRUE]
<1>1. /\ HandTo(x, caller) /\ UNCHANGED <<pc, chip, dev, left, occurs>> /\ rx' = NoRx
      /\ mh' = [state |-> "off", retry |-> 0] /\ md' = [md EXCEPT !.mdh = TRUE]
      /\ pc = "wait" /\ rx.what = "error" /\ ~(mh.retry < OPERATE_RETRY)
      /\ mh.state = "reply9" \/ (mh.state = "reply16" /\ h.rw # "write")
  <2>1. mh.retry >= OPERATE_RETRY => ~(mh.retry < OPERATE_RETRY)
    BY MemoryFacts
  <2>2. QED
    BY <2>1 DEF ComLost, Hand, Waiting
<1>2. Typed(h) /\ h.out = <<>> /\ DOMAIN md = {"up", "mode", "mdh"} /\ DOMAIN caller = CallerFields
  BY MemoryFacts
<1>3. Typed(w) /\ IsduPart(w) = IsduPart(h) /\ Given(w) = Given(h) /\ OdPart(w) = OdPart(h)
      /\ w.code = h.code
  <2>1. w.code = h.code
    BY <1>2 DEF WriteMasterCommand, Confirm, Typed, Fields
  <2>2. QED
    BY <1>2, <2>1, WriteDoes
<1> HIDE DEF w
<1>4. /\ Typed(v) /\ v.is = h.is /\ v.tot = h.tot /\ v.od = h.od /\ v.code = h.code /\ v.flag = h.flag
      /\ mh.state = "reply9" /\ h.rw \in {"read", "write"} => Closed(v, h.rw)
  <2>1. CASE v = w /\ ~(mh.state = "reply9" /\ h.rw \in {"read", "write"})
    BY <1>3, <2>1 DEF IsduPart, OdPart, Given
  <2>2. CASE v = Confirm(w, c)
    <3>1. v = [w EXCEPT !.out = Append(w.out, c)]
      BY <2>2 DEF Confirm
    <3>2. c.kind = h.rw
      BY DEF Cnf
    <3>3. IsSeq(w.out)
      BY <1>3 DEF Typed
    <3> HIDE DEF c
    <3>4. IsSeq(Append(w.out, c))
      BY <3>3, AppendAdds
    <3> HIDE DEF v
    <3>5. /\ v.out = Append(w.out, c) /\ v.is = w.is /\ v.tot = w.tot /\ v.od = w.od /\ v.code = w.code
          /\ v.flag = w.flag
      BY <1>3, <3>1 DEF Typed, Fields
    <3>6. Typed(v)
      BY <1>3, <3>1, <3>4 DEF Typed, Fields
    <3>7. Outs(v) = Outs(w) \cup {c}
      BY <1>3, <3>5, OneMore
    <3>8. QED
      BY <1>3, <3>2, <3>5, <3>6, <3>7 DEF IsduPart, OdPart, Given, Closed
  <2>3. QED
    BY <2>1, <2>2
<1> HIDE DEF v
<1>5. /\ Typed(x) /\ x.is = h.is /\ x.tot = h.tot /\ x.od = h.od /\ x.code = h.code /\ x.flag = h.flag
      /\ x.lost /\ x.out = v.out
  BY <1>4 DEF Typed, Fields
<1> HIDE DEF x
<1>6. ~KeptLink
  BY <1>1 DEF Memory, Linked
<1>7. ASSUME Sheltered, al.op \in {"read", "write"} PROVE Closed(x, al.op)
  <2>1. "Read" \notin occurs /\ al.op = "write" /\ h.rw = "write"
    BY <1>1, <1>6, <1>7 DEF Sheltered, Alone, Memory, Asked, Pledged
  <2>2. QED
    BY <1>1, <1>4, <1>5, <2>1 DEF Closed, Outs
<1>8. Sheltered => Remains(x)
  BY <1>5, <1>7 DEF Memory, Pledged, Remains, HeldIsdu
<1>9. /\ h'.is = x.is /\ h'.od = x.od /\ h'.flag = x.flag /\ h'.code = x.code /\ h'.lost = x.lost
      /\ DOMAIN caller' = CallerFields /\ caller'.pdout = caller.pdout
      /\ caller.sm = "idle" => caller'.sm = "idle"
      /\ al'.op \in {al.op, "none"} /\ al'.amid = al.amid /\ Asked' /\ (Closed(x, al.op) => al'.op = "none")
      /\ (Sheltered => Remains(x)) => (Sheltered' => Pledged')
  BY <1>1, <1>2, <1>5, MemoryHanded
<1>10. Sheltered' => Pledged'
  BY <1>7, <1>8, <1>9
<1>11. md'.up = md.up /\ md'.mode = md.mode /\ md'.mdh /\ mh'.state = "off"
  BY <1>1, <1>2
<1>12. "Reset" \notin occurs => md.up
  BY <1>1 DEF Memory, Steady, Inv, Turns
<1>13. Steady'
  BY <1>1, <1>11, <1>12 DEF Memory, Steady
<1>14. Linked'
  BY <1>1, <1>6 DEF Linked, KeptLink
<1>15. Lone'
  BY <1>1, <1>5, <1>9, <1>11, NoRxIs DEF Memory, Lone, Alone, KeptLink
<1>16. QED
  BY <1>9, <1>10, <1>13, <1>14, <1>15 DEF Memory

\* The mode handler brings the link down, which confirms an ISDU.
LEMMA MemoryModes == ASSUME Inv, Memory, ModeHandler PROVE Memory'
<1>0. DOMAIN caller = CallerFields /\ Typed(h) /\ h.out = <<>> /\ Isdu(h, chip, rx)
      /\ DOMAIN md = {"up", "mode", "mdh"} /\ DOMAIN mh = {"state", "retry"} /\ md.mdh /\ pc = "wait"
      /\ OPERATE_RETRY \in Nat
  BY MemoryFacts DEF ModeHandler
<1>1. CASE md.up /\ (md.mode = "INACTIVE" \/ h.lost)
  <2> DEFINE y == Deactivated(h)
             x == [y EXCEPT !.lost = FALSE]
             c == Ended(caller)
  <2>1. /\ HandTo(x, c) /\ md' = [md EXCEPT !.up = FALSE, !.mdh = (mh.state = "reply16")]
        /\ mh' = [mh EXCEPT !.state = IF @ = "reply16" THEN "off" ELSE @]
        /\ rx' = NoRx /\ UNCHANGED <<pc, chip, dev, left, occurs>>
    BY <1>1 DEF ModeHandler
  <2>2. Typed(y) /\ y.is \notin {"Idle", "Error"}
    <3>1. h.is \in Active => h.trig # "DEVICE"
      BY <1>0 DEF Inv, Turns
    <3>2. QED
      BY <1>0, <3>1, Downs
  <2>3. DOMAIN c = CallerFields /\ c.pdout = caller.pdout /\ (caller.sm = "idle" => c.sm = "idle")
    BY <1>0 DEF Ended, CallerFields
  <2> HIDE DEF c
  <2>4. ASSUME Alone
        PROVE  /\ HeldIsdu(h) => HeldIsdu(y) \/ Closed(y, "isdu")
               /\ y.od = "Inactive" /\ ~y.flag /\ y.code = "NONE"
    <3>1. h.od = "Isdu" /\ h.is # "Error" /\ ~h.flag /\ h.code = "NONE"
      BY <1>0, <1>1, <2>4 DEF Memory, Lone
    <3>2. QED
      BY <1>0, <3>1, DownRecalls
  <2> HIDE DEF y
  <2>5. /\ Typed(x) /\ x.od = y.od /\ x.code = y.code /\ x.flag = y.flag /\ x.out = y.out
        /\ x.is = y.is /\ x.tot = y.tot /\ ~x.lost
    BY <2>2 DEF Typed, Fields
  <2> HIDE DEF x
  <2>6. ~KeptLink
    BY <1>1 DEF Memory, Steady, Linked, KeptLink
  <2>7. Sheltered => Alone /\ (al.op \in {"read", "write"} => al.amid # "none" /\ mh.state = "off")
    <3>1. ASSUME Alone, al.op \in {"read", "write"}, Pledged PROVE al.amid # "none" /\ mh.state = "off"
      <4>1. "Read" \notin occurs /\ al.op = "write" /\ "Reset" \notin occurs
        BY <2>6, <3>1 DEF Alone, Memory, Asked
      <4>2. mh.state = "off"
        BY <1>1, <4>1 DEF Memory, Steady
      <4>3. QED
        BY <3>1, <4>1, <4>2 DEF Pledged
    <3>2. QED
      BY <2>6, <3>1 DEF Sheltered, Memory
  <2>8. Sheltered => Remains(x)
    <3>1. mh.state = "off" => mh'.state = "off"
      BY <1>0, <2>1
    <3>2. QED
      BY <2>4, <2>5, <2>7, <3>1 DEF Memory, Pledged, Remains, HeldIsdu, Closed, Outs
  <2>9. /\ h'.is = x.is /\ h'.od = x.od /\ h'.flag = x.flag /\ h'.code = x.code /\ h'.lost = x.lost
        /\ DOMAIN caller' = CallerFields /\ caller'.pdout = c.pdout
        /\ c.sm = "idle" => caller'.sm = "idle"
        /\ al'.op \in {al.op, "none"} /\ Asked'
        /\ (Sheltered => Remains(x)) => (Sheltered' => Pledged')
    BY <2>1, <2>3, <2>5, MemoryHanded
  <2>10. Sheltered' => Pledged'
    BY <2>7, <2>8, <2>9
  <2>11. ~md'.up /\ mh'.state = IF mh.state = "reply16" THEN "off" ELSE mh.state
    BY <1>0, <2>1
  <2>12. Steady'
    <3>1. ASSUME "Reset" \notin occurs PROVE mh.state = "off"
      BY <1>1, <3>1 DEF Memory, Steady
    <3>2. QED
      BY <2>1, <2>5, <2>9, <2>11, <3>1 DEF Steady
  <2>13. Linked'
    BY <2>1, <2>6 DEF Linked, KeptLink
  <2>14. Lone'
    BY <1>0, <2>1, <2>2, <2>3, <2>4, <2>5, <2>9, <2>11, NoRxIs DEF Memory, Lone, Alone, KeptLink
  <2>15. QED
    BY <2>9, <2>10, <2>12, <2>13, <2>14 DEF Memory
<1>2. CASE ~(md.up /\ (md.mode = "INACTIVE" \/ h.lost))
  <2>1. UNCHANGED <<h, al, caller, mh, rx, chip, dev, left, occurs, pc>> /\ md' = [md EXCEPT !.mdh = FALSE]
    BY <1>2 DEF ModeHandler
  <2>2. md'.up = md.up /\ md'.mode = md.mode
    BY <1>0, <2>1
  <2>3. Steady'
    BY <1>2, <2>1, <2>2 DEF Memory, Steady
  <2>4. Linked' /\ Lone' /\ Asked' /\ (Sheltered' => Pledged')
    BY <2>1, <2>2 DEF Memory, Linked, Lone, Asked, Sheltered, Pledged, HeldIsdu, KeptLink, Alone
  <2>5. QED
    BY <2>1, <2>3, <2>4 DEF Memory
<1>3. QED
  BY <1>1, <1>2

\* A new session goes on with an ISDU that was under way.
LEMMA MemoryUp == ASSUME Inv, Memory, Up PROVE Memory'
<1> DEFINE y == Activated(h)
           x == Send(y, EnterOperate)
<1>1. /\ ~md.up /\ ~md.mdh /\ al.amid = "none" /\ HandTo(x, caller) /\ rx' = NoRx /\ pc' = "prepare"
      /\ md' = [up |-> TRUE, mode |-> "OPERATE", mdh |-> FALSE]
      /\ mh' = [state |-> "reply16", retry |-> 0] /\ occurs' = occurs
      /\ dev' = [dev EXCEPT !.st = "Idle", !.segs = <<>>, !.mcmd = "OPERATE"]
  BY DEF Up, Hand
<1>2. /\ DOMAIN caller = CallerFields /\ Typed(h) /\ h.out = <<>> /\ Isdu(h, chip, rx)
      /\ ~h.act /\ h.is \notin {"Idle", "Error"} /\ h.od \in {"Inactive", "Command"}
      /\ (h.is \in Active => h.trig # "DEVICE") /\ DOMAIN dev = DeviceFields
  BY <1>1, MemoryFacts DEF Inv, Types, Turns
<1>3. dev'.ev = dev.ev
  BY <1>1, <1>2 DEF DeviceFields
<1>4. Typed(y) /\ Given(y) = <<TRUE, TRUE, h.lost, h.flag>>
  <2>1. Typed(y)
    BY <1>2, Ups
  <2>2. QED
    BY <2>1, <1>2, UpGives
<1>5. ASSUME Alone
      PROVE  /\ HeldIsdu(h) => HeldIsdu(y) \/ Closed(y, "isdu")
             /\ y.od = "Isdu" /\ ~y.flag /\ y.code = "NONE"
  <2>1. h.od = "Inactive" /\ ~h.flag /\ h.code = "NONE"
    BY <1>1, <1>5 DEF Memory, Lone
  <2>2. QED
    BY <1>2, <2>1, UpRecalls
<1> HIDE DEF y
<1>6. EnterOperate.kind = "Cmd"
  BY DEF EnterOperate, Msg
<1>7. /\ Typed(x) /\ x.is = y.is /\ x.tot = y.tot /\ x.od = y.od /\ x.code = y.code /\ x.flag = y.flag
      /\ x.lost = h.lost /\ x.out = y.out
  BY <1>4, <1>6 DEF Typed, Fields, Send, Kinds, Given
<1> HIDE DEF x
<1>8. Sheltered => Remains(x)
  <2>1. CASE KeptLink
    BY <1>1, <2>1 DEF Memory, Linked, Remains
  <2>2. ASSUME Alone, ~KeptLink, Pledged PROVE al.op \notin {"read", "write"}
    BY <1>1, <2>2 DEF Alone, Memory, Asked, Steady, Pledged, Inv, Types, Turns
  <2>3. CASE Alone /\ ~KeptLink
    BY <1>5, <1>7, <2>2, <2>3 DEF Memory, Sheltered, Pledged, Remains, HeldIsdu, Closed, Outs
  <2>4. QED
    BY <2>1, <2>3 DEF Sheltered
<1>9. /\ h'.is = x.is /\ h'.od = x.od /\ h'.flag = x.flag /\ h'.code = x.code /\ h'.lost = x.lost
      /\ DOMAIN caller' = CallerFields /\ caller'.pdout = caller.pdout
      /\ caller.sm = "idle" => caller'.sm = "idle"
      /\ al'.op \in {al.op, "none"} /\ al'.amid = al.amid /\ Asked' /\ (Sheltered' => Pledged')
  <2>1. mh'.state # "off"
    BY <1>1
  <2>2. QED
    BY <1>1, <1>2, <1>7, <1>8, <2>1, MemoryHanded
<1>10. md'.up /\ md'.mode = "OPERATE" /\ mh'.state = "reply16"
  BY <1>1
<1>11. Steady'
  BY <1>1, <1>7, <1>9, <1>10 DEF Memory, Steady
<1>12. Linked'
  BY <1>1, <1>7, <1>9, <1>10, NoRxIs DEF Memory, Linked, KeptLink
<1>13. Lone'
  BY <1>1, <1>3, <1>5, <1>7, <1>9, <1>10, NoRxIs DEF Memory, Lone, Alone, KeptLink
<1>14. QED
  BY <1>9, <1>11, <1>12, <1>13 DEF Memory

\* What AL asks for is held.
LEMMA MemoryAsked == ASSUME Inv, Memory, AskIsdu \/ AskParam PROVE Memory'
<1>1. PICK kind \in {"Isdu", "Read", "Write"} :
        /\ al.op = "none" /\ al.amid = "none" /\ kind \in occurs
        /\ UNCHANGED <<md, mh, pc, chip, rx, dev, caller, occurs>>
        /\ IF kind = "Isdu"
           THEN \/ h' = h /\ al' = al
                \/ /\ md.up /\ h.is = "Idle" /\ al' = [al EXCEPT !.op = "isdu", !.job = NextJob]
                   /\ h' = [h EXCEPT !.rw = "isdu", !.job = NextJob, !.seg = 0, !.tot = ReqSegs,
                                     !.buf = Empty]
           ELSE /\ al' = [al EXCEPT !.op = OpOf[kind], !.job = NextJob, !.amid = OpOf[kind]]
                /\ h' = [h EXCEPT !.rw = OpOf[kind]]
  <2>1. CASE AskIsdu
    BY <2>1 DEF AskIsdu, Asks, IsduAccepted
  <2>2. CASE AskParam
    BY <2>2 DEF AskParam, Asks
  <2>3. QED
    BY <2>1, <2>2
<1>2. Typed(h) /\ AlOK /\ DOMAIN caller = CallerFields /\ h.is \notin Active /\ ReqSegs # 0
  BY <1>1, MemoryFacts, SegmentsAssumption
<1>3. OpOf["Read"] = "read" /\ OpOf["Write"] = "write"
  BY DEF OpOf
<1>4. /\ al'.op \in {"none", "isdu"} => kind = "Isdu" /\ al'.amid = "none"
      /\ al'.op \in {"read", "write"} => al'.op = OpOf[kind] /\ kind # "Isdu" /\ al'.amid # "none"
      /\ al'.op \in {"none", "isdu", "read", "write"}
      /\ al'.op = "isdu" => md.up /\ h.is = "Idle"
  BY <1>1, <1>2, <1>3 DEF AlOK
<1>5. PICK n, b : n = NextJob /\ b = Empty
  OBVIOUS
<1>6. /\ h'.is = h.is /\ h'.od = h.od /\ h'.flag = h.flag /\ h'.code = h.code /\ h'.lost = h.lost
      /\ kind # "Isdu" => h'.rw = OpOf[kind]
      /\ al'.op = "isdu" => h'.rw = "isdu" /\ h'.tot = ReqSegs
  <2>1. \/ kind = "Isdu" /\ h' = h /\ al' = al
        \/ kind = "Isdu"
           /\ h' = [h EXCEPT !.rw = "isdu", !.job = n, !.seg = 0, !.tot = ReqSegs, !.buf = b]
        \/ kind # "Isdu" /\ h' = [h EXCEPT !.rw = OpOf[kind]] /\ al'.op # "isdu"
    BY <1>1, <1>4, <1>5
  <2>2. QED
    BY <1>1, <1>2, <2>1 DEF Typed, Fields
<1>8. Steady'
  BY <1>1, <1>6 DEF Memory, Steady
<1>9. Linked'
  BY <1>1, <1>4, <1>6 DEF Memory, Linked, KeptLink
<1>10. Lone'
  BY <1>1, <1>6 DEF Memory, Lone, Alone, KeptLink
<1>11. Asked'
  BY <1>1, <1>3, <1>4 DEF Asked
<1>12. Pledged'
  BY <1>1, <1>2, <1>3, <1>4, <1>6 DEF Pledged, HeldIsdu
<1>13. QED
  BY <1>1, <1>2, <1>8, <1>9, <1>10, <1>11, <1>12 DEF Memory

\* A parameter is taken, or refused.
LEMMA MemoryStored == ASSUME Inv, Memory, StoreParam PROVE Memory'
<1>1. /\ al.amid # "none" /\ UNCHANGED <<md, mh, pc, chip, rx, dev, caller, occurs>>
      /\ IF mh.state # "reply16" THEN al' = [al EXCEPT !.op = "none", !.job = 0, !.amid = "none"] /\ h' = h
         ELSE al' = [al EXCEPT !.amid = "none"] /\ (h' = h \/ h' = [h EXCEPT !.val = NextJob - 1])
  BY DEF StoreParam
<1>2. Typed(h) /\ AlOK /\ DOMAIN caller = CallerFields /\ al.op # "isdu"
  BY <1>1, MemoryFacts DEF AlOK
<1>3. PICK n : n = NextJob - 1
  OBVIOUS
<1>4. /\ h'.is = h.is /\ h'.od = h.od /\ h'.flag = h.flag /\ h'.code = h.code /\ h'.lost = h.lost
      /\ h'.rw = h.rw
  <2>1. h' = h \/ h' = [h EXCEPT !.val = n]
    BY <1>1, <1>3
  <2>2. QED
    BY <1>2, <2>1 DEF Typed, Fields
<1>5. al'.op = "none" \/ (al'.op = al.op /\ mh.state = "reply16")
  BY <1>1, <1>2 DEF AlOK
<1>6. mh.state = "reply16" => md.up
  BY DEF Inv, Turns
<1>7. Steady'
  BY <1>1, <1>4 DEF Memory, Steady
<1>8. Linked'
  BY <1>1, <1>4, <1>5, <1>6 DEF Memory, Linked, KeptLink
<1>9. Lone'
  BY <1>1, <1>4 DEF Memory, Lone, Alone, KeptLink
<1>10. Asked'
  BY <1>1, <1>5 DEF Memory, Asked
<1>11. Pledged => Pledged'
  BY <1>1, <1>2, <1>4, <1>5 DEF Pledged
<1>12. Sheltered' <=> Sheltered
  BY <1>1 DEF Sheltered, KeptLink, Alone
<1>13. QED
  BY <1>1, <1>2, <1>7, <1>8, <1>9, <1>10, <1>11, <1>12 DEF Memory

\* At the start AL waits for nothing.
LEMMA MemoryInit == ASSUME Init PROVE Memory
<1>1. /\ h.is = "Inactive" /\ h.od = "Inactive" /\ h.flag = FALSE /\ h.code = "NONE" /\ h.lost = FALSE
  BY DEF Init, HandlersInit
<1>2. /\ caller = [pdout |-> FALSE, sm |-> "idle", events |-> <<>>] /\ dev.ev = 0
      /\ al.op = "none" /\ md.up = FALSE /\ mh.state = "off" /\ rx = NoRx
  BY DEF Init, DeviceInit
<1>3. QED
  BY <1>1, <1>2, NoRxIs DEF Memory, CallerFields, Steady, Linked, Lone, Asked, Pledged

\* Every step.
LEMMA MemoryKept == Inv /\ Memory /\ [Next]_vars => Memory'
BY MemoryUp, MemoryModes, MemoryReceived, MemoryPrepared, MemoryWritten, MemoryLost, MemoryAsides,
   MemoryAsked, MemoryStored, MemoryCommands DEF Next, Thread, Callers, Free

\* What AL waits for the data link has not forgotten, where the link stays up, whatever commands
\* and events come between, and where links are lost and set up again without them: handle_com_lost
\* (iolink_dl.c:759) drops a read that waits in AW_REPLY_16, and isdu_error4 with IH_Conf (INACTIVE)
\* (iolink_dl.c:1721) an ISDU whose error waits behind an event or a command, unconfirmed.
THEOREM ServicesRemembered == Spec => [](Sheltered => Remembered)
<1>1. Init => Inv /\ Memory
  BY InitInv, MemoryInit
<1>2. Inv /\ Memory /\ [Next]_vars => (Inv /\ Memory)'
  BY NextKeeps, MemoryKept
<1>3. Inv /\ Memory => (Sheltered => Remembered)
  <2>1. ASSUME HeldIsdu(h) PROVE h.is \notin {"Inactive", "Idle"} \/ h.tot # 0
    BY <2>1 DEF HeldIsdu, Active
  <2>2. QED
    BY <2>1 DEF Memory, Pledged, Remembered
<1>4. QED
  BY <1>1, <1>2, <1>3, PTL DEF Spec

-----------------------------------------------------------------------------
(* How far the segments are counted.                                        *)

\* The segment is one of the request or of the response, or one more; a request that is asked for
\* or begun has its number of segments.
Sound(x) ==
  /\ x.seg <= ReqSegs + RespSegs
  /\ x.is = "Request" \/ (x.is = "Idle" /\ x.rw = "isdu") => x.tot = ReqSegs

\* The ISDU handler counts on before a message, and stops after the answer to the last segment.
Counts(x, y) ==
  /\ Sound(y)
  /\ y.is = "Request" => \/ x.is = "Idle" /\ y.seg = 1
                         \/ x.is = "Request" /\ x.trig = "DEVICE" /\ y.seg < ReqSegs
                         \/ x.is = "Request" /\ x.trig # "DEVICE" /\ y.seg <= x.seg + 1

\* The segments' numbers are positive.
LEMMA SegmentNumbers == ReqSegs \in Nat \ {0} /\ RespSegs \in Nat \ {0}
BY SegmentsAssumption

\* An ISDU that ends leaves the count.
LEMMA EndCounts == ASSUME NEW x, Typed(x)
  PROVE /\ EnterError(x).seg = x.seg /\ IsduError(x).seg = x.seg /\ Complete(x).seg = 0
        /\ EnterError(x).is # "Request" /\ (EnterError(x).is = "Idle" => EnterError(x).rw = "none")
        /\ IsduError(x).is = IF x.act THEN "Idle" ELSE "Inactive"
        /\ IsduError(x).is = "Idle" => IsduError(x).rw = "none"
        /\ Complete(x).is = "Idle" /\ Complete(x).rw = "none"
<1>1. /\ IsduError(x).seg = x.seg /\ IsduError(x).is = IF x.act THEN "Idle" ELSE "Inactive"
      /\ IsduError(x).is = "Idle" => IsduError(x).rw = "none"
  BY DEF IsduError, Confirm, Send, Typed, Fields
<1>2. /\ EnterError(x).seg = x.seg /\ EnterError(x).is # "Request"
      /\ (EnterError(x).is = "Idle" => EnterError(x).rw = "none")
  <2>1. CASE ~x.act
    BY <2>1 DEF EnterError, Confirm, Typed, Fields
  <2>2. CASE x.act /\ x.trig = "MASTER"
    <3>1. EnterError(x) = IsduError(x)
      BY <2>2 DEF EnterError
    <3>2. QED
      BY <1>1, <2>2, <3>1
  <2>3. CASE x.act /\ x.trig # "MASTER"
    BY <2>3 DEF EnterError, Typed, Fields
  <2>4. QED
    BY <2>1, <2>2, <2>3
<1>3. Complete(x).seg = 0 /\ Complete(x).is = "Idle" /\ Complete(x).rw = "none"
  BY DEF Complete, Confirm, Typed, Fields
<1>4. QED
  BY <1>1, <1>2, <1>3

\* In each of its states.
LEMMA IsduCounts == ASSUME NEW x, NEW r, Typed(x), Sound(x), x.act, x.is # "Inactive",
                           x.is = "Request" /\ x.trig = "MASTER" => x.seg <= ReqSegs,
                           x.is = "Response" => x.seg < RespSegs
  PROVE Counts(x, IsduHandler(x, r))
<1> DEFINE y == IsduHandler(x, r)
<1>0. /\ x.seg \in Nat /\ ReqSegs \in Nat \ {0} /\ RespSegs \in Nat \ {0}
      /\ x.trig \in {"NONE", "DEVICE", "MASTER"}
  BY SegmentNumbers DEF Typed
<1>1. ASSUME NEW z, Typed(z), z.seg <= ReqSegs + RespSegs, y \in {EnterError(z), Complete(z)}
      PROVE  Counts(x, y)
  <2>1. /\ y.seg \in {z.seg, 0} /\ y.is # "Request" /\ (y.is = "Idle" => y.rw = "none")
    BY <1>1, EndCounts
  <2> HIDE DEF y
  <2>2. QED
    BY <1>0, <1>1, <2>1 DEF Counts, Sound
<1>2. ASSUME x.is = "Idle" PROVE Counts(x, y)
  <2>1. y = IsduIdle(x, r)
    BY <1>2 DEF IsduHandler
  <2> HIDE DEF y
  <2>2. CASE x.trig = "MASTER"
    <3>1. \/ x.rw = "isdu" /\ y = [Send(x, Msg("Seg", 0, x.job)) EXCEPT !.seg = 1, !.is = "Request"]
          \/ x.rw # "isdu" /\ \E m : y = Send(x, m)
      BY <2>1, <2>2 DEF IsduIdle
    <3>2. \/ x.rw = "isdu" /\ y.seg = 1 /\ y.is = "Request" /\ y.tot = x.tot
          \/ x.rw # "isdu" /\ y.seg = x.seg /\ y.is = "Idle" /\ y.rw = x.rw
      BY <1>2, <3>1 DEF Send, Typed, Fields
    <3>3. QED
      BY <1>0, <1>2, <3>2 DEF Counts, Sound
  <2>3. CASE x.trig # "MASTER"
    <3>1. y = x \/ \E c : y = Confirm([x EXCEPT !.rw = "none"], c)
      BY <2>1, <2>3 DEF IsduIdle
    <3>2. y.seg = x.seg /\ y.is = "Idle" /\ y.tot = x.tot /\ (y.rw = x.rw \/ y.rw = "none")
      BY <1>2, <3>1 DEF Confirm, Typed, Fields
    <3>3. QED
      BY <1>2, <3>2 DEF Counts, Sound
  <2>4. QED
    BY <2>2, <2>3
<1>3. ASSUME x.is = "Error" PROVE Counts(x, y)
  <2>1. y = IsduError(x)
    BY <1>3 DEF IsduHandler
  <2>2. y.seg = x.seg /\ y.is = "Idle" /\ y.rw = "none"
    BY <2>1, EndCounts
  <2> HIDE DEF y
  <2>3. QED
    BY <2>2 DEF Counts, Sound
<1>4. ASSUME x.is = "Request" PROVE Counts(x, y)
  <2>1. \/ y = EnterError(x)
        \/ x.trig # "DEVICE" /\ y = x
        \/ x.trig = "DEVICE" /\ ~(x.seg >= x.tot) /\ y = x
        \/ x.trig = "MASTER" /\ y = [Send(x, Msg("Seg", x.seg, x.job)) EXCEPT !.seg = @ + 1]
        \/ y = [x EXCEPT !.seg = 0, !.is = "Wait", !.late = FALSE]
    BY <1>4 DEF IsduHandler, IsduRequest
  <2>2. x.tot = ReqSegs /\ x.seg <= ReqSegs + RespSegs
    BY <1>4 DEF Sound
  <2>3. CASE y = EnterError(x)
    BY <1>1, <2>2, <2>3
  <2> HIDE DEF y
  <2>4. CASE y = x /\ (x.trig = "DEVICE" => ~(x.seg >= x.tot))
    BY <1>0, <1>4, <2>2, <2>4 DEF Counts, Sound
  <2>5. CASE x.trig = "MASTER" /\ y = [Send(x, Msg("Seg", x.seg, x.job)) EXCEPT !.seg = @ + 1]
    <3>1. y.seg = x.seg + 1 /\ y.is = "Request" /\ y.tot = x.tot
      BY <1>4, <2>5 DEF Send, Typed, Fields
    <3>2. QED
      BY <1>0, <1>4, <2>2, <2>5, <3>1 DEF Counts, Sound
  <2>6. CASE y = [x EXCEPT !.seg = 0, !.is = "Wait", !.late = FALSE]
    <3>1. y.seg = 0 /\ y.is = "Wait"
      BY <2>6 DEF Typed, Fields
    <3>2. QED
      BY <1>0, <3>1 DEF Counts, Sound
  <2>7. QED
    BY <2>1, <2>3, <2>4, <2>5, <2>6
<1>5. ASSUME x.is = "Wait" PROVE Counts(x, y)
  <2> DEFINE b == [x.buf EXCEPT ![0] = <<r.at, r.arg>>]
             z == [x EXCEPT !.buf = b, !.seg = 1, !.tot = RespSegs]
             n == [x EXCEPT !.late = FALSE]
             w == [z EXCEPT !.is = "Response"]
  <2>1. [x EXCEPT !.buf[0] = <<r.at, r.arg>>, !.seg = 1, !.tot = RespSegs] = z
    OBVIOUS
  <2>2. Buffer(b)
    BY BufferKept DEF Typed
  <2>3. \/ y = EnterError(x) \/ y = EnterError(n) \/ y = Complete(z)
        \/ y = x \/ y = w \/ y = Send(x, Msg("Get", 0, 0))
    BY <1>5, <2>1 DEF IsduHandler, IsduWait
  <2> HIDE DEF b
  <2>4. /\ Typed(z) /\ z.seg = 1 /\ Typed(n) /\ n.seg = x.seg
        /\ w.is = "Response" /\ w.seg = 1
        /\ Send(x, Msg("Get", 0, 0)).is = "Wait" /\ Send(x, Msg("Get", 0, 0)).seg = x.seg
    BY <1>5, <2>2 DEF Send, Typed, Fields
  <2> HIDE DEF z, n, w
  <2>5. x.seg <= ReqSegs + RespSegs /\ 1 <= ReqSegs + RespSegs
    BY <1>0 DEF Sound
  <2>6. CASE y \in {EnterError(x), EnterError(n), Complete(z)}
    BY <1>1, <2>4, <2>5, <2>6
  <2> HIDE DEF y
  <2>7. CASE y \in {x, w, Send(x, Msg("Get", 0, 0))}
    <3>1. y.is \in {"Wait", "Response"} /\ y.seg \in {1, x.seg}
      BY <1>5, <2>4, <2>7
    <3>2. QED
      BY <2>5, <3>1 DEF Counts, Sound
  <2>8. QED
    BY <2>3, <2>6, <2>7
<1>6. ASSUME x.is = "Response" PROVE Counts(x, y)
  <2>0. PICK n : n = x.seg + 1
    OBVIOUS
  <2> DEFINE b == [x.buf EXCEPT ![x.seg] = <<r.at, r.arg>>]
             z == [x EXCEPT !.buf = b, !.seg = n]
  <2>1. [x EXCEPT !.buf[x.seg] = <<r.at, r.arg>>, !.seg = @ + 1] = z
    BY <2>0
  <2>2. Buffer(b)
    BY BufferKept DEF Typed
  <2>3. \/ y = EnterError(x) \/ y = Complete(z)
        \/ y = x \/ y = z \/ y = Send(x, Msg("Get", x.seg, 0))
    BY <1>6, <2>1 DEF IsduHandler, IsduResponse
  <2> HIDE DEF b
  <2>4. /\ Typed(z) /\ z.seg = n /\ z.is = "Response"
        /\ Send(x, Msg("Get", x.seg, 0)).is = "Response" /\ Send(x, Msg("Get", x.seg, 0)).seg = x.seg
    <3>1. n \in Nat
      BY <1>0, <2>0
    <3>2. QED
      BY <1>6, <2>2, <3>1 DEF Send, Typed, Fields
  <2> HIDE DEF z
  <2>5. x.seg <= ReqSegs + RespSegs /\ n <= ReqSegs + RespSegs
    BY <1>0, <1>6, <2>0
  <2>6. CASE y \in {EnterError(x), Complete(z)}
    BY <1>1, <2>4, <2>5, <2>6
  <2> HIDE DEF y
  <2>7. CASE y \in {x, z, Send(x, Msg("Get", x.seg, 0))}
    <3>1. y.is = "Response" /\ y.seg \in {x.seg, n}
      BY <1>6, <2>4, <2>7
    <3>2. QED
      BY <2>5, <3>1 DEF Counts, Sound
  <2>8. QED
    BY <2>3, <2>6, <2>7
<1>7. QED
  BY <1>2, <1>3, <1>4, <1>5, <1>6 DEF Typed

\* Whose turn it is after a trigger: the OD handler leaves the ISDU for a command, before a message,
\* or for the events, and does not come back to it, after an answer, while the event flag is up.
LEMMA TurnAfter == ASSUME NEW x, NEW t \in {"DEVICE", "MASTER"}, NEW r, Typed(x), x.act, x.od # "Inactive"
  PROVE LET y == Trigger(x, t, r) IN
        /\ y.od # "Inactive"
        /\ t = "DEVICE" /\ y.od = "Isdu" => ~x.flag
        /\ x.od = "Isdu" /\ y.od # "Isdu" => x.flag \/ (t = "MASTER" /\ IsduPart(y) = IsduPart(x))
        /\ x.od = "Isdu" /\ t = "DEVICE" => IsduPart(y) = IsduPart(IsduHandler([x EXCEPT !.trig = t], r))
<1> DEFINE y == Trigger(x, t, r)
           z == [x EXCEPT !.trig = t]
<1>1. /\ Typed(z) /\ IsduPart(z) = IsduPart(x) /\ Given(z) = Given(x) /\ z.trig = t
      /\ z.tx = x.tx /\ z.out = x.out
  BY Triggered
<1>2. z.act /\ z.flag = x.flag /\ z.od = x.od
  BY DEF Typed, Fields
<1>3. y = OdHandler(z, r)
  BY DEF Trigger
<1> HIDE DEF y, z
<1>4. ASSUME NEW w, Typed(w), NEW od, y = [w EXCEPT !.od = od]
      PROVE  y.od = od /\ IsduPart(y) = IsduPart(w)
  BY <1>4 DEF Typed, Fields, IsduPart
<1>5. ASSUME NEW w, Typed(w), y = Untriggered(w) PROVE y.od = w.od /\ IsduPart(y) = IsduPart(w)
  BY <1>5 DEF Untriggered, Typed, Fields, IsduPart
<1>6. /\ Typed(CmdHandler(z)) /\ IsduPart(CmdHandler(z)) = IsduPart(z)
      /\ Typed(IsduHandler(z, r)) /\ OdPart(IsduHandler(z, r)) = OdPart(z)
      /\ Typed(EvHandler(z, r)) /\ OdPart(EvHandler(z, r)) = OdPart(z)
  BY <1>1, CmdDoes, IsduDoes, EvDoes DEF IsduKeeps
<1>7. PICK i, e, c : i = IsduHandler(z, r) /\ e = EvHandler(z, r) /\ c = CmdHandler(z)
  OBVIOUS
<1>8. i.od = z.od /\ e.od = z.od /\ Typed(i) /\ Typed(e) /\ Typed(c) /\ IsduPart(c) = IsduPart(z)
  BY <1>6, <1>7 DEF OdPart
<1>9. CASE x.od = "Isdu"
  <2>1. \/ t = "MASTER" /\ y = [c EXCEPT !.od = "Command"]
        \/ z.flag /\ y = [i EXCEPT !.od = "Event"]
        \/ ~z.flag /\ y = Untriggered(i)
    BY <1>1, <1>2, <1>3, <1>7, <1>9 DEF OdHandler, OdIsdu
  <2>2. CASE t = "MASTER" /\ y = [c EXCEPT !.od = "Command"]
    <3>1. y.od = "Command" /\ IsduPart(y) = IsduPart(c)
      BY <1>4, <1>8, <2>2
    <3>2. QED
      BY <1>1, <1>8, <2>2, <3>1 DEF y, z
  <2>3. CASE z.flag /\ y = [i EXCEPT !.od = "Event"] /\ ~(t = "MASTER" /\ y = [c EXCEPT !.od = "Command"])
    <3>1. y.od = "Event" /\ IsduPart(y) = IsduPart(i)
      BY <1>4, <1>8, <2>3
    <3>2. QED
      BY <1>2, <1>7, <2>3, <3>1 DEF y, z
  <2>4. CASE ~z.flag /\ y = Untriggered(i)
    <3>1. y.od = "Isdu" /\ IsduPart(y) = IsduPart(i)
      BY <1>2, <1>5, <1>8, <1>9, <2>4
    <3>2. QED
      BY <1>2, <1>7, <2>4, <3>1 DEF y, z
  <2>5. QED
    BY <2>1, <2>2, <2>3, <2>4
<1>10. CASE x.od = "Command"
  <2>1. PICK u : u = Untriggered(z)
    OBVIOUS
  <2>2. Typed(u) /\ u.od = "Command"
    BY <1>1, <1>2, <1>10, <2>1 DEF Untriggered, Typed, Fields
  <2>3. PICK w : w = WriteMasterCommand(u, "OK")
    OBVIOUS
  <2>4. Typed(w)
    BY <2>2, <2>3, WriteDoes
  <2>5. y = u \/ y = [w EXCEPT !.od = IF z.flag THEN "Event" ELSE "Isdu"]
    BY <1>1, <1>2, <1>3, <1>10, <2>1, <2>3 DEF OdHandler, OdCommand
  <2>6. y.od = "Command" \/ y.od = (IF z.flag THEN "Event" ELSE "Isdu")
    BY <1>4, <2>2, <2>4, <2>5
  <2>7. QED
    BY <1>2, <1>10, <2>6 DEF y
<1>11. CASE x.od = "Event"
  <2>1. \/ t = "MASTER" /\ y = [c EXCEPT !.od = "Command"]
        \/ ~z.flag /\ y = [z EXCEPT !.od = "Isdu"]
        \/ y = Untriggered(e)
    BY <1>1, <1>2, <1>3, <1>7, <1>11 DEF OdHandler, OdEvent
  <2>2. CASE t = "MASTER" /\ y = [c EXCEPT !.od = "Command"]
    BY <1>4, <1>8, <1>11, <2>2 DEF y
  <2>3. CASE ~z.flag /\ y = [z EXCEPT !.od = "Isdu"]
    <3>1. y.od = "Isdu"
      BY <1>1, <1>4, <2>3
    <3>2. QED
      BY <1>2, <1>11, <2>3, <3>1 DEF y
  <2>4. CASE y = Untriggered(e)
    <3>1. y.od = "Event"
      BY <1>2, <1>5, <1>8, <1>11, <2>4
    <3>2. QED
      BY <1>11, <3>1 DEF y
  <2>5. QED
    BY <2>1, <2>2, <2>3, <2>4
<1>12. QED
  BY <1>9, <1>10, <1>11 DEF Typed

\* The count after a trigger.
LEMMA TriggerCounts == ASSUME NEW x, NEW t \in {"DEVICE", "MASTER"}, NEW r, Typed(x), Sound(x),
                              x.act, x.od # "Inactive", x.is # "Inactive",
                              x.is = "Response" => x.seg < RespSegs,
                              x.is = "Request" => IF t = "DEVICE" /\ x.od = "Isdu" THEN TRUE
                                                  ELSE x.seg <= ReqSegs /\ ~(x.od = "Isdu" /\ x.flag)
  PROVE LET y == Trigger(x, t, r) IN
        /\ Sound(y) /\ y.od # "Inactive"
        /\ y.is = "Request" =>
             y.seg <= IF t = "MASTER" /\ y.od = "Isdu" THEN ReqSegs + 1 ELSE ReqSegs
        /\ t = "DEVICE" /\ y.od = "Isdu" => ~y.flag
<1> DEFINE y == Trigger(x, t, r)
           z == [x EXCEPT !.trig = t]
           w == IsduHandler(z, r)
<1>0. Elsewhere(x, y) \/ (x.od = "Isdu" /\ Like(y, w))
  BY StepOf
<1>1. /\ y.od # "Inactive"
      /\ t = "DEVICE" /\ y.od = "Isdu" => ~x.flag
      /\ x.od = "Isdu" /\ y.od # "Isdu" => x.flag \/ (t = "MASTER" /\ IsduPart(y) = IsduPart(x))
      /\ x.od = "Isdu" /\ t = "DEVICE" => IsduPart(y) = IsduPart(w)
  BY TurnAfter
<1>2. /\ Typed(z) /\ IsduPart(z) = IsduPart(x) /\ Given(z) = Given(x) /\ z.trig = t
  BY Triggered
<1>3. z.act /\ z.is = x.is /\ z.seg = x.seg /\ z.tot = x.tot /\ z.rw = x.rw
  BY DEF Typed, Fields
<1>4. ReqSegs \in Nat \ {0} /\ x.seg \in Nat
  BY SegmentNumbers DEF Typed
<1>5. \A v : IsduPart(v) = IsduPart(x) => v.is = x.is /\ v.seg = x.seg /\ v.tot = x.tot /\ v.rw = x.rw
  BY DEF IsduPart
<1> HIDE DEF y, z
<1>6. CASE Elsewhere(x, y) /\ ~(t = "DEVICE" /\ x.od = "Isdu")
  <2>1. y.is = x.is /\ y.seg = x.seg /\ y.tot = x.tot /\ y.rw = x.rw /\ y.flag = x.flag
    BY <1>5, <1>6 DEF Elsewhere, Given
  <2>2. QED
    BY <1>1, <1>4, <1>6, <2>1 DEF Sound, y
<1>7. ASSUME x.od = "Isdu", Typed(y), IsduPart(y) = IsduPart(w), Given(y) = Given(x)
      PROVE  /\ Sound(y)
             /\ y.is = "Request" =>
                  y.seg <= IF t = "MASTER" /\ y.od = "Isdu" THEN ReqSegs + 1 ELSE ReqSegs
             /\ y.flag = x.flag
  <2>1. Sound(z)
    BY <1>3 DEF Sound
  <2>2. Counts(z, w)
    BY <1>2, <1>3, <1>7, <2>1, IsduCounts
  <2> HIDE DEF w
  <2>3. y.is = w.is /\ y.seg = w.seg /\ y.tot = w.tot /\ y.rw = w.rw /\ y.flag = x.flag
    BY <1>7 DEF IsduPart, Given
  <2>4. Sound(y)
    BY <2>2, <2>3 DEF Counts, Sound
  <2>5. ASSUME y.is = "Request"
        PROVE  y.seg <= IF t = "MASTER" /\ y.od = "Isdu" THEN ReqSegs + 1 ELSE ReqSegs
    <3>1. \/ x.is = "Idle" /\ y.seg = 1
          \/ x.is = "Request" /\ t = "DEVICE" /\ y.seg < ReqSegs
          \/ x.is = "Request" /\ t = "MASTER" /\ y.seg <= x.seg + 1 /\ x.seg <= ReqSegs /\ ~x.flag
      BY <1>2, <1>3, <1>7, <2>2, <2>3, <2>5 DEF Counts
    <3>2. y.seg \in Nat
      BY <1>7 DEF Typed
    <3>3. CASE x.is = "Idle" /\ y.seg = 1
      BY <1>4, <3>3
    <3>4. CASE x.is = "Request" /\ t = "DEVICE" /\ y.seg < ReqSegs
      BY <1>4, <3>2, <3>4
    <3>5. CASE x.is = "Request" /\ t = "MASTER" /\ y.seg <= x.seg + 1 /\ x.seg <= ReqSegs /\ ~x.flag
      <4>1. y.od = "Isdu" \/ IsduPart(y) = IsduPart(x)
        BY <1>1, <1>7, <3>5
      <4>2. CASE y.od = "Isdu"
        BY <1>4, <3>2, <3>5, <4>2
      <4>3. CASE IsduPart(y) = IsduPart(x)
        BY <1>4, <1>5, <3>5, <4>3
      <4>4. QED
        BY <4>1, <4>2, <4>3
    <3>6. QED
      BY <3>1, <3>3, <3>4, <3>5
  <2>6. QED
    BY <2>3, <2>4, <2>5
<1>8. CASE Elsewhere(x, y) /\ t = "DEVICE" /\ x.od = "Isdu"
  <2>1. Typed(y) /\ IsduPart(y) = IsduPart(w) /\ Given(y) = Given(x)
    BY <1>1, <1>8 DEF Elsewhere
  <2>2. QED
    BY <1>1, <1>7, <1>8, <2>1 DEF y
<1>9. CASE x.od = "Isdu" /\ Like(y, w)
  <2>1. Typed(y) /\ IsduPart(y) = IsduPart(w) /\ Given(y) = Given(x)
    BY <1>2, <1>9, IsduDoes DEF Like, IsduKeeps
  <2>2. QED
    BY <1>1, <1>7, <1>9, <2>1 DEF y
<1>10. QED
  BY <1>0, <1>6, <1>8, <1>9

\* A session that follows one without an ISDU begins with none.
LEMMA UpCounts == ASSUME NEW x, Typed(x), ~x.act, x.is = "Inactive", x.od \in {"Inactive", "Command"}
  PROVE LET y == Activated(x) IN
        /\ y.is = "Idle" /\ y.seg = 0 /\ y.rw = "none" /\ y.od # "Inactive"
<1> DEFINE x1 == [x EXCEPT !.ch = TRUE, !.rw = "none"]
           c  == CmdHandler(x1)
           c1 == [c EXCEPT !.act = TRUE]
           o  == OdHandler(c1, NoRx)
           i  == IsduHandler(o, NoRx)
           y  == EvHandler(i, NoRx)
<1>1. Typed(x1) /\ x1.is = "Inactive" /\ x1.rw = "none" /\ x1.od = x.od
  BY DEF Typed, Fields
<1> HIDE DEF x1
<1>2. Typed(c) /\ IsduPart(c) = IsduPart(x1) /\ OdPart(c) = OdPart(x1)
  BY <1>1, CmdDoes
<1> HIDE DEF c
<1>3. /\ Typed(c1) /\ c1.act /\ c1.is = "Inactive" /\ c1.rw = "none"
      /\ c1.od \in {"Inactive", "Command"}
  BY <1>1, <1>2 DEF Typed, Fields, IsduPart, OdPart
<1> HIDE DEF c1
<1>4. Typed(o) /\ IsduPart(o) = IsduPart(c1) /\ Given(o) = Given(c1)
  <2>1. \A w : Like(o, w) => Typed(o) /\ IsduPart(o) = IsduPart(w) /\ Given(o) = Given(w)
    BY DEF Like
  <2>2. /\ Given(CmdHandler(c1)) = Given(c1) /\ IsduPart(CmdHandler(c1)) = IsduPart(c1)
        /\ Given(EvHandler(c1, NoRx)) = Given(c1) /\ IsduPart(EvHandler(c1, NoRx)) = IsduPart(c1)
        /\ Given(WriteMasterCommand(c1, "OK")) = Given(c1)
        /\ IsduPart(WriteMasterCommand(c1, "OK")) = IsduPart(c1)
    BY <1>3, CmdDoes, EvDoes, WriteDoes
  <2>3. \/ Like(o, c1) \/ Like(o, CmdHandler(c1)) \/ Like(o, EvHandler(c1, NoRx))
        \/ Like(o, WriteMasterCommand(c1, "OK"))
    BY <1>3, OdDoes
  <2>4. QED
    BY <2>1, <2>2, <2>3
<1>5. o.od # "Inactive"
  <2>1. CASE c1.od = "Inactive"
    <3>1. o = [c1 EXCEPT !.od = "Isdu"]
      BY <1>3, <2>1 DEF OdHandler
    <3>2. QED
      BY <1>3, <3>1 DEF Typed, Fields
  <2>2. CASE c1.od = "Command"
    <3>1. PICK u : u = Untriggered(c1)
      OBVIOUS
    <3>2. Typed(u) /\ u.od = "Command"
      BY <1>3, <2>2, <3>1 DEF Untriggered, Typed, Fields
    <3>3. PICK w : w = WriteMasterCommand(u, "OK")
      OBVIOUS
    <3>4. Typed(w)
      BY <3>2, <3>3, WriteDoes
    <3>5. o = c1 \/ o = u \/ o = [w EXCEPT !.od = IF c1.flag THEN "Event" ELSE "Isdu"]
      BY <1>3, <2>2, <3>1, <3>3 DEF OdHandler, OdCommand
    <3>6. QED
      BY <2>2, <3>2, <3>4, <3>5 DEF Typed, Fields
  <2>3. QED
    BY <1>3, <2>1, <2>2
<1> HIDE DEF o
<1>6. o.is = "Inactive" /\ o.rw = "none" /\ o.act
  BY <1>3, <1>4 DEF IsduPart, Given
<1>7. Typed(i) /\ OdPart(i) = OdPart(o)
  BY <1>4, IsduDoes DEF IsduKeeps
<1>8. i.is = "Idle" /\ i.seg = 0 /\ i.rw = "none"
  <2>1. i = [o EXCEPT !.tot = 0, !.seg = 0, !.is = "Idle"]
    BY <1>6 DEF IsduHandler
  <2>2. QED
    BY <1>4, <1>6, <2>1 DEF Typed, Fields
<1> HIDE DEF i
<1>9. IsduPart(y) = IsduPart(i) /\ OdPart(y) = OdPart(i)
  BY <1>7, EvDoes
<1>10. y = Activated(x)
  BY DEF Activated, y, i, o, c1, c, x1
<1>11. QED
  BY <1>5, <1>7, <1>8, <1>9, <1>10 DEF IsduPart, OdPart

\* A link that is lost goes down with no ISDU, and the count stays.
LEMMA DownCounts == ASSUME NEW x, Typed(x), x.lost
  PROVE LET y == Deactivated(x) IN y.is = "Inactive" /\ y.seg = x.seg
<1> DEFINE x1 == [x EXCEPT !.act = FALSE]
           o  == OdHandler(x1, rx)
           i  == IsduHandler(o, rx)
           e  == EvHandler(i, rx)
           e1 == [e EXCEPT !.ch = FALSE]
           y  == CmdHandler(e1)
<1>1. Typed(x1) /\ ~x1.act /\ x1.lost /\ x1.seg = x.seg
  BY DEF Typed, Fields
<1> HIDE DEF x1
<1>2. Typed(o) /\ IsduPart(o) = IsduPart(x1) /\ Given(o) = Given(x1)
  <2>1. Like(o, x1)
    BY <1>1, OdDoes
  <2>2. QED
    BY <2>1 DEF Like
<1> HIDE DEF o
<1>3. ~o.act /\ o.lost /\ o.seg = x.seg
  BY <1>1, <1>2 DEF IsduPart, Given
<1>4. Typed(i)
  BY <1>2, IsduDoes DEF IsduKeeps
<1>5. i.is = "Inactive" /\ i.seg = o.seg
  <2>1. EnterError(o).is = "Inactive" /\ EnterError(o).seg = o.seg
    BY <1>2, <1>3 DEF EnterError, Confirm, Typed, Fields
  <2>2. IsduError(o).is = "Inactive" /\ IsduError(o).seg = o.seg
    BY <1>2, <1>3 DEF IsduError, Typed, Fields
  <2>3. IsduIdle(o, rx).is = "Inactive" /\ IsduIdle(o, rx).seg = o.seg
    BY <1>2, <1>3 DEF IsduIdle, Confirm, Typed, Fields
  <2>4. i \in {EnterError(o), IsduError(o), IsduIdle(o, rx)} \/ (o.is = "Inactive" /\ i = o)
    BY <1>2, <1>3 DEF IsduHandler, IsduRequest, IsduWait, IsduResponse, Typed
  <2> HIDE DEF i
  <2>5. QED
    BY <2>1, <2>2, <2>3, <2>4
<1> HIDE DEF i
<1>6. Typed(e) /\ IsduPart(e) = IsduPart(i)
  BY <1>4, EvDoes
<1> HIDE DEF e
<1>7. Typed(e1) /\ IsduPart(e1) = IsduPart(e)
  BY <1>6 DEF Typed, Fields, IsduPart
<1> HIDE DEF e1
<1>8. IsduPart(y) = IsduPart(e1)
  BY <1>7, CmdDoes
<1>9. y = Deactivated(x)
  BY DEF Deactivated, y, e1, e, i, o, x1
<1>10. QED
  BY <1>3, <1>5, <1>6, <1>7, <1>8, <1>9 DEF IsduPart

\* Where SM does not set the mode INACTIVE: the count; a link that is down has no ISDU under way; the
\* last segment but one is the most before a message, and after it where the ISDU has lost its turn;
\* before a message the ISDU has its turn with the event flag up only when it is new.
Segments == "Reset" \notin occurs =>
  /\ Sound(h)
  /\ IF md.up THEN h.od # "Inactive" ELSE h.is \notin Active
  /\ h.is = "Request" => h.seg <= IF pc = "wait" /\ h.od = "Isdu" THEN ReqSegs + 1 ELSE ReqSegs
  /\ pc = "prepare" /\ h.od = "Isdu" /\ h.flag => h.is # "Request"

\* A step that leaves the ISDU handler, its turn, and the event flag.
LEMMA SegmentsAside == ASSUME Segments, UNCHANGED <<pc, occurs>>,
    h'.is = h.is, h'.tot = h.tot, h'.seg = h.seg, h'.rw \in {h.rw, "none"}, h'.od = h.od, h'.flag = h.flag,
    md'.up = md.up
  PROVE Segments'
BY DEF Segments, Sound

\* The steps that do not run the ISDU handler.
LEMMA SegmentsAsides == ASSUME Inv, Memory, Segments,
    \/ Resend \/ IsduTimeout \/ Exchange \/ Drop \/ Trouble \/ DeviceEvent \/ AskInactive \/ ComLost
    \/ AskPdout \/ RunPdout \/ AskMode \/ RunMode \/ UNCHANGED vars
  PROVE Segments'
<1>0. Typed(h) /\ DOMAIN md = {"up", "mode", "mdh"}
  BY MemoryFacts
<1>1. ASSUME UNCHANGED <<h, md, pc, occurs>> PROVE Segments'
  BY <1>1, SegmentsAside
<1>2. CASE Resend \/ Exchange \/ Drop \/ Trouble \/ DeviceEvent \/ UNCHANGED vars
  BY <1>1, <1>2 DEF Resend, Exchange, Drop, Trouble, DeviceEvent, vars
<1>3. CASE IsduTimeout
  <2>1. UNCHANGED <<md, pc, occurs>> /\ h' = [h EXCEPT !.late = TRUE]
    BY <1>3 DEF IsduTimeout
  <2>2. /\ h'.is = h.is /\ h'.tot = h.tot /\ h'.seg = h.seg /\ h'.rw = h.rw /\ h'.od = h.od
        /\ h'.flag = h.flag
    BY <1>0, <2>1 DEF Typed, Fields
  <2>3. QED
    BY <2>1, <2>2, SegmentsAside
<1>4. CASE AskInactive
  BY <1>0, <1>4, SegmentsAside DEF AskInactive
<1>5. CASE AskPdout \/ RunPdout \/ AskMode \/ RunMode
  <2>1. UNCHANGED <<md, pc, occurs>>
    BY <1>5 DEF AskPdout, RunPdout, AskMode, RunMode
  <2>2. /\ h'.is = h.is /\ h'.tot = h.tot /\ h'.seg = h.seg /\ h'.rw = h.rw /\ h'.od = h.od
        /\ h'.flag = h.flag
    <3>1. CASE h' = CmdHandler(h)
      <4>1. IsduPart(h') = IsduPart(h) /\ Given(h') = Given(h) /\ OdPart(h') = OdPart(h)
        BY <1>0, <3>1, CmdDoes
      <4>2. QED
        BY <4>1 DEF IsduPart, Given, OdPart
    <3>2. ASSUME NEW code, h' = [h EXCEPT !.code = code]
          PROVE  /\ h'.is = h.is /\ h'.tot = h.tot /\ h'.seg = h.seg /\ h'.rw = h.rw /\ h'.od = h.od
                 /\ h'.flag = h.flag
      BY <1>0, <3>2 DEF Typed, Fields
    <3>3. CASE h' = [h EXCEPT !.mcmd = "FALLBACK", !.code = "DEVICEMODE"]
      BY <1>0, <3>3 DEF Typed, Fields
    <3>4. QED
      BY <1>5, <3>1, <3>2, <3>3 DEF AskPdout, RunPdout, AskMode, RunMode
  <2>3. QED
    BY <2>1, <2>2, SegmentsAside
<1>6. CASE ComLost
  <2>1. md' = [md EXCEPT !.mdh = TRUE]
    BY <1>6 DEF ComLost
  <2>2. md'.up = md.up
    BY <1>0, <2>1
  <2> DEFINE w == IF mh.state = "reply9" THEN WriteMasterCommand(h, "ERR") ELSE h
  <2>3. Typed(w) /\ IsduPart(w) = IsduPart(h) /\ Given(w) = Given(h) /\ OdPart(w) = OdPart(h)
    <3>1. CASE mh.state = "reply9"
      BY <1>0, <3>1, WriteDoes
    <3>2. QED
      BY <1>0, <3>1
  <2> DEFINE c == Cnf(h.rw, "ERR", 0)
             v == IF mh.state = "reply9" /\ h.rw \in {"read", "write"} THEN Confirm(w, c) ELSE w
             x == [v EXCEPT !.rw = "none", !.lost = TRUE]
  <2>4. h' = [x EXCEPT !.out = <<>>] /\ UNCHANGED <<pc, occurs>>
    BY <1>6 DEF ComLost, Hand, HandTo, Delivered
  <2> HIDE DEF w, c
  <2>5. DOMAIN w = Fields
    BY <2>3 DEF Typed
  <2>6. /\ h'.is = w.is /\ h'.tot = w.tot /\ h'.seg = w.seg /\ h'.rw = "none" /\ h'.od = w.od
        /\ h'.flag = w.flag
    BY <2>4, <2>5 DEF Confirm, Fields
  <2>7. QED
    BY <2>2, <2>3, <2>4, <2>6, SegmentsAside DEF IsduPart, Given, OdPart
<1>7. QED
  BY <1>2, <1>3, <1>4, <1>5, <1>6

\* A request that is not at the answer to its segment counts no more than its segments.
Within(x, t) == x.is = "Request" /\ ~(t = "DEVICE" /\ x.od = "Isdu") =>
  x.seg <= ReqSegs /\ ~(x.od = "Isdu" /\ x.flag)

\* A trigger of the OD handler, after an answer or before a message.
LEMMA SegmentsTriggered == ASSUME Inv, Memory, NEW z, NEW t \in {"DEVICE", "MASTER"}, NEW x,
    x = Trigger(z, t, rx), HandTo(x, caller), UNCHANGED <<md, occurs>>,
    "Reset" \notin occurs =>
      md.up /\ Sound(h) /\ z.od # "Inactive" /\ Within(z, t),
    Typed(z), IsduPart(z) = IsduPart(h), z.act = h.act,
    pc' # "wait" => t = "DEVICE",
    pc' = "wait" => t = "MASTER" \/ (md.up => x.is \notin Active)
  PROVE Segments'
<1> SUFFICES ASSUME "Reset" \notin occurs PROVE Segments'
  BY DEF Segments
<1>1. /\ DOMAIN caller = CallerFields /\ h.act = md.up /\ h.is # "Inactive" /\ Isdu(h, chip, rx)
  BY MemoryFacts
<1>2. z.is = h.is /\ z.seg = h.seg /\ z.tot = h.tot /\ z.rw = h.rw
  BY DEF IsduPart
<1>3. z.is = "Response" => z.seg < RespSegs
  <2>1. z.is = "Response" => z.seg \in 1..RespSegs - 1
    BY <1>1, <1>2 DEF Isdu, Underway
  <2>2. QED
    BY <2>1, SegmentNumbers
<1>4. Sound(z)
  BY <1>2 DEF Sound
<1>5. /\ Sound(x) /\ x.od # "Inactive"
      /\ x.is = "Request" => x.seg <= IF t = "MASTER" /\ x.od = "Isdu" THEN ReqSegs + 1 ELSE ReqSegs
      /\ t = "DEVICE" /\ x.od = "Isdu" => ~x.flag
  BY <1>1, <1>2, <1>3, <1>4, TriggerCounts DEF Within
<1>6. Typed(x)
  BY TriggerRecalls
<1>7. h' = [x EXCEPT !.out = <<>>]
  BY <1>1, <1>6, Handed, MemoryFacts
<1>8. /\ h'.is = x.is /\ h'.tot = x.tot /\ h'.seg = x.seg /\ h'.rw = x.rw /\ h'.od = x.od
      /\ h'.flag = x.flag
  BY <1>6, <1>7 DEF Typed, Fields
<1>9. QED
  BY <1>5, <1>8 DEF Segments, Sound, Active

\* AW_REPLY_16's answer, and the messages.
LEMMA SegmentsMessages == ASSUME Inv, Memory, Segments, Received \/ Prepare \/ WriteNow \/ Written
  PROVE Segments'
<1>1. /\ Typed(h) /\ h.out = <<>> /\ h.act = md.up /\ Isdu(h, chip, rx) /\ (md.up => h.is # "Inactive")
      /\ rx.flag \in BOOLEAN /\ (h.tx.kind \in {"Seg", "Get"} /\ md.up => chip = h.tx)
  BY MemoryFacts DEF Inv, Types, Turns
<1>2. CASE Received
  <2> DEFINE z == [h EXCEPT !.flag = rx.flag]
             x == Trigger(z, "DEVICE", rx)
  <2>1. /\ HandTo(x, caller) /\ UNCHANGED <<md, occurs>> /\ pc' = "prepare" /\ pc = "wait"
        /\ mh.state = "reply16"
    BY <1>2 DEF Received, Hand, Waiting
  <2>2. /\ Typed(z) /\ IsduPart(z) = IsduPart(h) /\ z.act = h.act /\ z.od = h.od
        /\ z.is = h.is /\ z.seg = h.seg
    BY <1>1 DEF Typed, Fields, IsduPart
  <2> HIDE DEF z
  <2>3. md.up
    BY <2>1 DEF Inv, Turns
  <2>4. "Reset" \notin occurs => md.up /\ Sound(h) /\ z.od # "Inactive" /\ Within(z, "DEVICE")
    BY <2>1, <2>2, <2>3 DEF Segments, Within
  <2> HIDE DEF x
  <2>5. x = Trigger(z, "DEVICE", rx)
    BY DEF x
  <2>6. QED
    BY <2>1, <2>2, <2>4, <2>5, SegmentsTriggered
<1>3. CASE Prepare
  <2> DEFINE x == Trigger(h, "MASTER", rx)
  <2>1. HandTo(x, caller) /\ UNCHANGED <<md, occurs>> /\ pc' = "wait" /\ pc = "prepare"
    BY <1>3 DEF Prepare, Hand
  <2>2. "Reset" \notin occurs => md.up /\ Sound(h) /\ h.od # "Inactive" /\ Within(h, "MASTER")
    BY <2>1 DEF Segments, Within, Inv, Turns
  <2> HIDE DEF x
  <2>3. x = Trigger(h, "MASTER", rx)
    BY DEF x
  <2>4. QED
    BY <1>1, <2>1, <2>2, <2>3, SegmentsTriggered
<1>4. CASE WriteNow
  <2> DEFINE x == Trigger(h, "MASTER", rx)
  <2>1. /\ HandTo(x, caller) /\ UNCHANGED <<md, pc, occurs>> /\ pc = "wait" /\ h.rw = "write"
        /\ mh.state = "reply16"
    BY <1>4 DEF WriteNow, Hand, Waiting
  <2>2. md.up /\ h.is \notin Active
    BY <2>1 DEF Inv, Turns, Isdu, Owed
  <2>3. h.is # "Request"
    BY <2>2 DEF Active
  <2>4. x.is \notin Active
    BY <1>1, <2>1, <2>2, <2>3, MasterStep
  <2> HIDE DEF x
  <2>5. "Reset" \notin occurs => md.up /\ Sound(h) /\ h.od # "Inactive" /\ Within(h, "MASTER")
    BY <2>2, <2>3 DEF Segments, Within
  <2>6. x = Trigger(h, "MASTER", rx)
    BY DEF x
  <2>7. QED
    BY <1>1, <2>1, <2>2, <2>3, <2>4, <2>5, <2>6, SegmentsTriggered
<1>5. CASE Written
  <2> DEFINE x == Trigger(h, "DEVICE", rx)
  <2>1. /\ HandTo(x, caller) /\ UNCHANGED <<md, pc, occurs>> /\ pc = "wait" /\ mh.state = "reply9"
        /\ IsGood(rx)
    BY <1>5 DEF Written, Hand, Waiting, Good, IsGood
  <2>2. ("Reset" \notin occurs => md.up) /\ h.is \notin Active
    BY <2>1 DEF Inv, Turns, Memory, Steady
  <2>3. h.is # "Request"
    BY <2>2 DEF Active
  <2>4. md.up => x.is \notin Active
    BY <1>1, <2>1, <2>2, DeviceStep
  <2> HIDE DEF x
  <2>5. "Reset" \notin occurs => md.up /\ Sound(h) /\ h.od # "Inactive" /\ Within(h, "DEVICE")
    BY <2>2, <2>3 DEF Segments, Within
  <2>6. x = Trigger(h, "DEVICE", rx)
    BY DEF x
  <2>7. QED
    BY <1>1, <2>1, <2>2, <2>3, <2>4, <2>5, <2>6, SegmentsTriggered
<1>6. QED
  BY <1>2, <1>3, <1>4, <1>5

\* The link comes up, and goes down.
LEMMA SegmentsModes == ASSUME Inv, Memory, Segments, Up \/ ModeHandler PROVE Segments'
<1> SUFFICES ASSUME "Reset" \notin occurs PROVE Segments'
  BY DEF Segments, Up, ModeHandler
<1>0. /\ DOMAIN caller = CallerFields /\ Typed(h) /\ h.out = <<>> /\ h.act = md.up
      /\ Isdu(h, chip, rx) /\ DOMAIN md = {"up", "mode", "mdh"}
  BY MemoryFacts
<1>1. CASE Up
  <2> DEFINE y == Activated(h)
             x == Send(y, EnterOperate)
  <2>1. ~md.up /\ HandTo(x, caller) /\ md' = [up |-> TRUE, mode |-> "OPERATE", mdh |-> FALSE]
    BY <1>1 DEF Up, Hand
  <2>2. h.is = "Inactive" /\ h.od \in {"Inactive", "Command"} /\ ~h.act
    BY <1>0, <2>1 DEF Segments, Inv, Turns, Typed, Active
  <2>3. h.is \notin Active
    BY <2>2 DEF Active
  <2>4. Typed(y) /\ y.is = "Idle" /\ y.seg = 0 /\ y.rw = "none" /\ y.od # "Inactive"
    BY <1>0, <2>2, <2>3, Ups, UpCounts
  <2> HIDE DEF y
  <2>5. EnterOperate.kind = "Cmd"
    BY DEF EnterOperate, Msg
  <2>6. Typed(x) /\ x.is = "Idle" /\ x.seg = 0 /\ x.rw = "none" /\ x.od # "Inactive"
    BY <2>4, <2>5 DEF Send, Typed, Fields, Kinds
  <2> HIDE DEF x
  <2>7. h' = [x EXCEPT !.out = <<>>]
    BY <1>0, <2>1, <2>6, Handed, MemoryFacts
  <2>8. h'.is = "Idle" /\ h'.seg = 0 /\ h'.rw = "none" /\ h'.od # "Inactive" /\ md'.up
    BY <2>1, <2>6, <2>7 DEF Typed, Fields
  <2>9. 0 <= ReqSegs + RespSegs
    BY SegmentNumbers
  <2>10. QED
    BY <2>8, <2>9 DEF Segments, Sound
<1>2. CASE ModeHandler /\ md.up /\ (md.mode = "INACTIVE" \/ h.lost)
  <2> DEFINE y == Deactivated(h)
             x == [y EXCEPT !.lost = FALSE]
             c == Ended(caller)
  <2>1. HandTo(x, c) /\ md' = [md EXCEPT !.up = FALSE, !.mdh = (mh.state = "reply16")]
        /\ pc = "wait" /\ h.lost
    BY <1>2 DEF ModeHandler, Memory, Steady
  <2>2. h.is \in Active => h.trig # "DEVICE"
    BY <2>1 DEF Inv, Turns
  <2>3. Typed(y) /\ y.is = "Inactive" /\ y.seg = h.seg
    BY <1>0, <2>1, <2>2, Downs, DownCounts
  <2> HIDE DEF y
  <2>4. Typed(x) /\ x.is = "Inactive" /\ x.seg = h.seg
    BY <2>3 DEF Typed, Fields
  <2> HIDE DEF x
  <2>5. DOMAIN c = CallerFields
    BY <1>0 DEF Ended, CallerFields
  <2> HIDE DEF c
  <2>6. h' = [x EXCEPT !.out = <<>>]
    BY <2>1, <2>4, <2>5, Handed, MemoryFacts
  <2>7. h'.is = "Inactive" /\ h'.seg = h.seg /\ ~md'.up
    BY <1>0, <2>1, <2>4, <2>6 DEF Typed, Fields
  <2>8. QED
    BY <2>7 DEF Segments, Sound, Active
<1>3. CASE ModeHandler /\ ~(md.up /\ (md.mode = "INACTIVE" \/ h.lost))
  <2>1. UNCHANGED <<h, pc, occurs>> /\ md' = [md EXCEPT !.mdh = FALSE]
    BY <1>3 DEF ModeHandler
  <2>2. md'.up = md.up
    BY <1>0, <2>1
  <2>3. QED
    BY <2>1, <2>2, SegmentsAside
<1>4. QED
  BY <1>1, <1>2, <1>3

\* AL asks where no ISDU is under way.
LEMMA SegmentsAsked == ASSUME Inv, Memory, Segments, AskIsdu \/ AskParam \/ StoreParam PROVE Segments'
<1>0. Typed(h) /\ UNCHANGED <<md, pc, occurs>> /\ h.is \notin Active
  BY MemoryFacts DEF AskIsdu, AskParam, StoreParam, Asks, AlOK
<1>1. PICK n, b : n = NextJob - 1 /\ b = [job |-> NextJob, buf |-> Empty]
  OBVIOUS
<1>2. /\ h'.is = h.is /\ h'.od = h.od /\ h'.flag = h.flag
      /\ \/ h'.seg = h.seg /\ h'.tot = h.tot /\ h'.rw \in {h.rw, "read", "write"}
         \/ h'.seg = 0 /\ h'.tot = ReqSegs
  <2>1. CASE AskIsdu
    <3>1. \/ h' = h
          \/ h' = [h EXCEPT !.rw = "isdu", !.job = b.job, !.seg = 0, !.tot = ReqSegs, !.buf = b.buf]
      BY <1>1, <2>1 DEF AskIsdu, Asks
    <3>2. QED
      BY <1>0, <3>1 DEF Typed, Fields
  <2>2. CASE AskParam
    <3>1. PICK rw \in {"read", "write"} : h' = [h EXCEPT !.rw = rw]
      BY <2>2 DEF AskParam, OpOf
    <3>2. QED
      BY <1>0, <3>1 DEF Typed, Fields
  <2>3. CASE StoreParam
    <3>1. h' = h \/ h' = [h EXCEPT !.val = n]
      BY <1>1, <2>3 DEF StoreParam
    <3>2. QED
      BY <1>0, <3>1 DEF Typed, Fields
  <2>4. QED
    BY <2>1, <2>2, <2>3
<1>3. 0 <= ReqSegs + RespSegs
  BY SegmentNumbers
<1>4. h.is # "Request"
  BY <1>0 DEF Active
<1>5. QED
  BY <1>0, <1>2, <1>3, <1>4 DEF Segments, Sound

\* At the start.
LEMMA SegmentsInit == ASSUME Init PROVE Segments
<1>1. h.is = "Inactive" /\ h.seg = 0 /\ md.up = FALSE
  BY DEF Init, HandlersInit
<1>2. QED
  BY <1>1, SegmentNumbers DEF Segments, Sound, Active

\* Every step.
LEMMA SegmentsKept == Inv /\ Memory /\ Segments /\ [Next]_vars => Segments'
BY SegmentsAsides, SegmentsMessages, SegmentsModes, SegmentsAsked DEF Next, Thread, Callers, Free

\* The types of the handlers' and the threads' state; the segments an ISDU counts are those of its
\* request and its response, where SM does not set the mode INACTIVE: after it, an ISDU that was
\* started goes on in the next session with the count it had (iolink_dl.c:1851).
THEOREM OnRequestTypes == Spec => []TypeOK
<1>1. Init => Inv /\ Memory /\ Segments
  BY InitInv, MemoryInit, SegmentsInit
<1>2. Inv /\ Memory /\ Segments /\ [Next]_vars => (Inv /\ Memory /\ Segments)'
  BY NextKeeps, MemoryKept, SegmentsKept
<1>3. Inv /\ Memory /\ Segments => TypeOK
  <2>1. ASSUME Inv, Segments PROVE TypeOK
    <3>1. /\ Typed(h) /\ h.out = <<>> /\ chip.kind \in Kinds /\ al.op \in {"none", "isdu", "read", "write"}
          /\ al.amid \in {"none", "read", "write"}
          /\ occurs \in Mixes /\ dev.st \in {"Idle", "Rx", "Work", "Tx"}
          /\ mh.state \in {"off", "reply9", "reply16"} /\ mh.retry \in 0..OPERATE_RETRY
          /\ pc \in {"wait", "prepare"}
      BY <2>1 DEF Inv, Types, AlOK, DeviceOK
    <3>2. "Reset" \notin occurs => h.seg <= ReqSegs + RespSegs
      BY <2>1 DEF Segments, Sound
    <3>3. QED
      BY <3>1, <3>2 DEF TypeOK, Typed
  <2>2. QED
    BY <2>1
<1>4. QED
  BY <1>1, <1>2, <1>3, PTL DEF Spec

=============================================================================
