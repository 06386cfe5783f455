--------------------------- MODULE IolinkOD_proof ---------------------------
(***************************************************************************)
(* Proofs about IolinkOD, for every number of segments, retries, requests    *)
(* and faults, and for everything that may happen together.                  *)
(***************************************************************************)
EXTENDS IolinkOD, Selection_proof

-----------------------------------------------------------------------------
(* What a step confirms, and whom it reaches.                               *)

IsSeq(s) == \E S : s \in Seq(S)
Outs(x)  == {x.out[i] : i \in DOMAIN x.out}

\* A confirmation is added to those of the step.
LEMMA AppendAdds == ASSUME NEW s, NEW c, IsSeq(s)
  PROVE /\ IsSeq(Append(s, c))
        /\ {Append(s, c)[i] : i \in DOMAIN Append(s, c)} = {s[i] : i \in DOMAIN s} \cup {c}
<1>1. PICK S : s \in Seq(S)
  BY DEF IsSeq
<1>2. s \in Seq(S \cup {c}) /\ c \in S \cup {c}
  BY <1>1
<1> DEFINE t == Append(s, c)
<1>3. t \in Seq(S \cup {c})
  BY <1>2
<1>4. /\ Len(s) \in Nat /\ DOMAIN s = 1..Len(s) /\ DOMAIN t = 1..(Len(s) + 1)
      /\ (\A i \in 1..Len(s) : t[i] = s[i]) /\ t[Len(s) + 1] = c
  BY <1>2
<1> HIDE DEF t
<1>5. {t[i] : i \in DOMAIN t} = {s[i] : i \in DOMAIN s} \cup {c}
  <2>1. ASSUME NEW i \in DOMAIN t PROVE t[i] \in {s[j] : j \in DOMAIN s} \cup {c}
    <3>1. i \in 1..Len(s) \/ i = Len(s) + 1
      BY <1>4
    <3>2. QED
      BY <1>4, <3>1
  <2>2. ASSUME NEW i \in DOMAIN s PROVE s[i] \in {t[j] : j \in DOMAIN t}
    <3>1. i \in DOMAIN t /\ t[i] = s[i]
      BY <1>4
    <3>2. QED
      BY <3>1
  <2>3. c \in {t[j] : j \in DOMAIN t}
    <3>1. Len(s) + 1 \in DOMAIN t
      BY <1>4
    <3>2. QED
      BY <1>4, <3>1
  <2>4. QED
    BY <2>1, <2>2, <2>3
<1>6. QED
  BY <1>3, <1>5 DEF IsSeq, t

\* What is taken of a kind is a confirmation of the step, of that kind.
LEMMA OfOuts == ASSUME NEW x, NEW kind, IsSeq(x.out)
  PROVE \/ Of(x, kind) = <<>> /\ \A c \in Outs(x) : c.kind # kind
        \/ Of(x, kind) # <<>> /\ Of(x, kind)[1] \in Outs(x) /\ Of(x, kind)[1].kind = kind
<1> DEFINE at == {i \in DOMAIN x.out : x.out[i].kind = kind}
           n  == Len(x.out)
<1>1. n \in Nat /\ DOMAIN x.out = 1..n
  BY DEF IsSeq
<1>2. at \in SUBSET (1..n)
  BY <1>1
<1>3. Cardinality(at) \in Nat /\ IsFiniteSet(at)
  BY <1>1, <1>2, Ranks
<1>4. Of(x, kind) = [k \in 1..Cardinality(at) |-> x.out[Nth(at, k)]]
  BY DEF Of, SelectAt
<1> HIDE DEF at
<1>5. CASE at = {}
  <2>1. Cardinality(at) = 0
    BY <1>5, FS_EmptySet
  <2>2. Of(x, kind) = <<>>
    BY <1>4, <2>1
  <2>3. \A c \in Outs(x) : c.kind # kind
    BY <1>5 DEF Outs, at
  <2>4. QED
    BY <2>2, <2>3
<1>6. CASE at # {}
  <2>1. Cardinality(at) # 0
    BY <1>3, <1>6, FS_EmptySet
  <2>2. 1 \in 1..Cardinality(at)
    BY <1>3, <2>1
  <2>3. Nth(at, 1) \in at
    BY <1>1, <1>2, <2>2, NthInside
  <2>4. Of(x, kind)[1] = x.out[Nth(at, 1)] /\ DOMAIN Of(x, kind) = 1..Cardinality(at)
    BY <1>4, <2>2
  <2>5. Of(x, kind) # <<>>
    <3>1. \A q : q = <<>> => 1 \notin DOMAIN q
      OBVIOUS
    <3>2. 1 \in DOMAIN Of(x, kind)
      BY <2>2, <2>4
    <3>3. QED
      BY <3>1, <3>2
  <2>6. QED
    BY <2>3, <2>4, <2>5 DEF Outs, at
<1>7. QED
  BY <1>5, <1>6

-----------------------------------------------------------------------------
(* The handlers: what each may change, and the types it keeps.              *)

Fields == {"od", "is", "cs", "es", "trig", "act", "ch", "rw", "lost", "seg", "tot", "job",
           "buf", "late", "val", "code", "mcmd", "conf", "flag", "addr", "got", "tx", "out"}

\* A buffer has a place for every segment of a response.
Buffer(b) == DOMAIN b = 0..RespSegs - 1 /\ b = [i \in 0..RespSegs - 1 |-> b[i]]

\* A segment is put in its place, when there is one.
LEMMA BufferKept == ASSUME NEW b, NEW k, NEW v, Buffer(b)
  PROVE LET e == [b EXCEPT ![k] = v] IN
        /\ Buffer(e) /\ \A i \in 0..RespSegs - 1 : e[i] = IF i = k THEN v ELSE b[i]
BY DEF Buffer

\* The handlers' state, between two steps and within one.
Typed(x) ==
  /\ DOMAIN x = Fields
  /\ x.od \in {"Inactive", "Isdu", "Command", "Event"}
  /\ x.is \in {"Inactive", "Idle", "Request", "Wait", "Error", "Response"}
  /\ x.cs \in {"Inactive", "Idle", "Master"} /\ x.es \in {"Inactive", "Idle", "Read"}
  /\ x.trig \in {"NONE", "DEVICE", "MASTER"} /\ x.rw \in {"none", "isdu", "read", "write"}
  /\ x.act \in BOOLEAN /\ x.ch \in BOOLEAN /\ x.lost \in BOOLEAN
  /\ x.late \in BOOLEAN /\ x.conf \in BOOLEAN /\ x.flag \in BOOLEAN
  /\ x.seg \in Nat /\ x.tot \in {0, ReqSegs, RespSegs} /\ x.job \in Nat
  /\ Buffer(x.buf)
  /\ x.addr \in 0..EvBytes + 1 /\ (x.es = "Read" => x.addr <= EvBytes)
  /\ x.tx.kind \in Kinds /\ IsSeq(x.out)

\* The parts of it: the ISDU handler's with what its caller sets, the command handler's, the
\* event handler's, and the OD handler's.
IsduPart(x)  == <<x.is, x.rw, x.seg, x.tot, x.job, x.buf, x.late, x.val>>
Given(x)     == <<x.act, x.ch, x.lost, x.flag>>
CmdPart(x)   == <<x.cs, x.code, x.mcmd>>
EventPart(x) == <<x.es, x.conf, x.addr, x.got>>
OdPart(x)    == <<x.od, x.trig>>

\* A confirmation of one of the kinds, or none.
MayConfirm(x, y, kinds) ==
  y.out = x.out \/ \E c : c.kind \in kinds /\ y.out = Append(x.out, c)

\* The command handler changes its own state, and sends the command.
LEMMA CmdDoes == ASSUME NEW x, Typed(x)
  PROVE LET y == CmdHandler(x) IN
        /\ Typed(y) /\ IsduPart(y) = IsduPart(x) /\ Given(y) = Given(x)
        /\ EventPart(y) = EventPart(x) /\ OdPart(y) = OdPart(x) /\ y.out = x.out
        /\ y.tx = x.tx \/ y.tx = Msg("Cmd", 0, x.mcmd)
BY DEF CmdHandler, Typed, Fields, IsduPart, Given, EventPart, OdPart, Send, Msg, Kinds

\* A written command is confirmed to SM, when it is a device mode.
LEMMA WriteDoes == ASSUME NEW x, NEW stat, Typed(x)
  PROVE LET y == WriteMasterCommand(x, stat) IN
        /\ Typed(y) /\ IsduPart(y) = IsduPart(x) /\ Given(y) = Given(x)
        /\ EventPart(y) = EventPart(x) /\ OdPart(y) = OdPart(x) /\ y.tx = x.tx
        /\ MayConfirm(x, y, {"mode"})
<1> DEFINE y == WriteMasterCommand(x, stat)
<1>1. IsSeq(Append(x.out, Cnf("mode", stat, x.mcmd)))
  BY AppendAdds DEF Typed
<1>2. Cnf("mode", stat, x.mcmd).kind = "mode"
  BY DEF Cnf
<1>3. QED
  BY <1>1, <1>2 DEF WriteMasterCommand, Typed, Fields, IsduPart, Given, EventPart, OdPart,
     Confirm, MayConfirm

\* The event handler changes its own state, sends reads and confirmations of events, and
\* indicates the event.
LEMMA EvDoes == ASSUME NEW x, NEW r, Typed(x)
  PROVE LET y == EvHandler(x, r) IN
        /\ Typed(y) /\ IsduPart(y) = IsduPart(x) /\ Given(y) = Given(x)
        /\ CmdPart(y) = CmdPart(x) /\ OdPart(y) = OdPart(x)
        /\ y.tx = x.tx \/ y.tx.kind \in {"EvRead", "EvConf"}
        /\ MayConfirm(x, y, {"event"})
<1>0. EvBytes \in Nat \ {0}
  BY SegmentsAssumption
<1>1. \A c : IsSeq(Append(x.out, c))
  BY AppendAdds DEF Typed
<1>2. \A g : Cnf("event", "OK", g).kind = "event"
  BY DEF Cnf
<1> DEFINE Good2(y) == /\ Typed(y) /\ IsduPart(y) = IsduPart(x) /\ Given(y) = Given(x)
                       /\ CmdPart(y) = CmdPart(x) /\ OdPart(y) = OdPart(x)
                       /\ y.tx = x.tx \/ y.tx.kind \in {"EvRead", "EvConf"}
<1>3. ASSUME x.es = "Read" PROVE Good2(EventRead(x, r)) /\ MayConfirm(x, EventRead(x, r), {"event"})
  <2>1. CASE x.addr < EvBytes
    <3>1. Good2([x EXCEPT !.conf = TRUE, !.es = "Idle"]) /\ Good2([x EXCEPT !.addr = 1])
          /\ [x EXCEPT !.conf = TRUE, !.es = "Idle"].out = x.out /\ [x EXCEPT !.addr = 1].out = x.out
      BY <1>0, <1>3 DEF Typed, Fields, IsduPart, Given, CmdPart, OdPart
    <3>2. Good2([x EXCEPT !.got = Append(@, r.arg), !.addr = @ + 1])
          /\ [x EXCEPT !.got = Append(@, r.arg), !.addr = @ + 1].out = x.out
      BY <1>0, <1>3, <2>1 DEF Typed, Fields, IsduPart, Given, CmdPart, OdPart
    <3>3. EventRead(x, r) \in {[x EXCEPT !.conf = TRUE, !.es = "Idle"], [x EXCEPT !.addr = 1],
                               [x EXCEPT !.got = Append(@, r.arg), !.addr = @ + 1]}
      BY <2>1 DEF EventRead
    <3> QED
      BY <3>1, <3>2, <3>3 DEF MayConfirm
  <2>2. CASE x.addr >= EvBytes
    <3> DEFINE y == [x EXCEPT !.got = Append(@, r.arg), !.addr = @ + 1, !.conf = TRUE, !.es = "Idle"]
               c == Cnf("event", "OK", y.got)
    <3>1. EventRead(x, r) = [y EXCEPT !.out = Append(x.out, c)]
      BY <1>0, <2>2 DEF EventRead, Confirm, Typed, Fields
    <3>2. Good2(y) /\ y.out = x.out
      BY <1>0, <1>3 DEF Typed, Fields, IsduPart, Given, CmdPart, OdPart
    <3>3. c.kind = "event" /\ IsSeq(Append(x.out, c))
      BY <1>1, <1>2
    <3> HIDE DEF y, c
    <3>4. QED
      BY <3>1, <3>2, <3>3 DEF Typed, Fields, IsduPart, Given, CmdPart, OdPart, MayConfirm
  <2>3. QED
    BY <1>0, <2>1, <2>2 DEF Typed
<1>5. \A st \in {"Inactive", "Idle"} : Good2([x EXCEPT !.es = st]) /\ [x EXCEPT !.es = st].out = x.out
  BY DEF Typed, Fields, IsduPart, Given, CmdPart, OdPart
<1>6. Good2(x)
  OBVIOUS
<1>7. \A y : y.out = x.out => MayConfirm(x, y, {"event"})
  BY DEF MayConfirm
<1>8. \A k \in {"EvRead", "EvConf"} : \A a : Msg(k, a, 0).kind = k
  BY DEF Msg
<1>9. x.es \in {"Inactive", "Idle", "Read"}
  BY DEF Typed
<1> DEFINE y == EvHandler(x, r)
<1>10. \/ y = x \/ y = [x EXCEPT !.es = "Idle"] \/ y = [x EXCEPT !.es = "Inactive"]
       \/ \E a : y = Send(x, Msg("EvRead", a, 0))
       \/ y = [Send(x, Msg("EvRead", 0, 0)) EXCEPT !.addr = 0, !.got = <<>>, !.es = "Read"]
       \/ y = [Send(x, Msg("EvConf", 0, 0)) EXCEPT !.conf = FALSE]
       \/ x.es = "Read" /\ y = EventRead(x, r)
  BY <1>9 DEF EvHandler
<1> HIDE DEF y, Good2
<1>11. Good2(y) /\ MayConfirm(x, y, {"event"})
  <2>1. CASE y = x
    BY <1>6, <1>7, <2>1
  <2>2. CASE y = [x EXCEPT !.es = "Idle"] \/ y = [x EXCEPT !.es = "Inactive"]
    BY <1>5, <1>7, <2>2
  <2>3. ASSUME NEW a, y = Send(x, Msg("EvRead", a, 0))
        PROVE  Good2(y) /\ MayConfirm(x, y, {"event"})
    <3>1. Msg("EvRead", a, 0).kind \in {"EvRead", "EvConf"}
      BY <1>8
    <3>2. Good2(y) /\ y.out = x.out
      BY <1>0, <2>3, <3>1 DEF Good2, Typed, Fields, IsduPart, Given, CmdPart, OdPart, Send, Kinds
    <3>3. QED
      BY <1>7, <3>2
  <2>4. CASE y = [Send(x, Msg("EvRead", 0, 0)) EXCEPT !.addr = 0, !.got = <<>>, !.es = "Read"]
    <3>1. Msg("EvRead", 0, 0).kind \in {"EvRead", "EvConf"}
      BY <1>8
    <3>2. Good2(y) /\ y.out = x.out
      BY <1>0, <2>4, <3>1 DEF Good2, Typed, Fields, IsduPart, Given, CmdPart, OdPart, Send, Kinds
    <3>3. QED
      BY <1>7, <3>2
  <2>5. CASE y = [Send(x, Msg("EvConf", 0, 0)) EXCEPT !.conf = FALSE]
    <3>1. Msg("EvConf", 0, 0).kind \in {"EvRead", "EvConf"}
      BY <1>8
    <3>2. Good2(y) /\ y.out = x.out
      BY <1>0, <2>5, <3>1 DEF Good2, Typed, Fields, IsduPart, Given, CmdPart, OdPart, Send, Kinds
    <3>3. QED
      BY <1>7, <3>2
  <2>6. CASE x.es = "Read" /\ y = EventRead(x, r)
    BY <1>3, <2>6
  <2>7. QED
    BY <1>10, <2>1, <2>2, <2>3, <2>4, <2>5, <2>6
<1>12. QED
  BY <1>11 DEF Good2, y

\* What the ISDU handler may do to the rest.
IsduKinds == {"Seg", "Get", "Read", "Write", "Idle", "Abort"}
IsduKeeps(x, y) ==
  /\ Typed(y) /\ Given(y) = Given(x) /\ CmdPart(y) = CmdPart(x) /\ EventPart(y) = EventPart(x)
  /\ OdPart(y) = OdPart(x) /\ MayConfirm(x, y, {"isdu", "read", "write"})
  /\ y.tx = x.tx \/ y.tx.kind \in IsduKinds

\* The ways in which it ends a step.
LEMMA ConfirmKeeps == ASSUME NEW x, NEW y, NEW c, IsduKeeps(x, y), y.out = x.out, Typed(x),
                             c.kind \in {"isdu", "read", "write"}
  PROVE IsduKeeps(x, Confirm(y, c))
<1>1. IsSeq(Append(x.out, c))
  BY AppendAdds DEF Typed
<1>2. QED
  BY <1>1 DEF IsduKeeps, Typed, Fields, Given, CmdPart, EventPart, OdPart, MayConfirm, Confirm

\* The ISDU handler's errors.
LEMMA ErrorKeeps == ASSUME NEW x, Typed(x)
  PROVE IsduKeeps(x, IsduError(x)) /\ IsduKeeps(x, EnterError(x))
<1> DEFINE e == [Send(x, Msg("Abort", 0, 0)) EXCEPT !.tot = 0, !.rw = "none", !.is = "Idle"]
           i == [x EXCEPT !.tot = 0, !.is = "Inactive"]
           c == Cnf("isdu", "ERR", 0)
<1>1. IsduKeeps(x, e) /\ e.out = x.out /\ IsduKeeps(x, i) /\ i.out = x.out
  BY DEF IsduKeeps, Typed, Fields, Given, CmdPart, EventPart, OdPart, MayConfirm, Send, Msg,
     Kinds, IsduKinds
<1>2. c.kind \in {"isdu", "read", "write"}
  BY DEF Cnf
<1>3. IsduKeeps(x, Confirm(e, c)) /\ IsduKeeps(x, Confirm(i, c))
  BY <1>1, <1>2, ConfirmKeeps
<1>4. \A st \in {"Inactive", "Error"} : IsduKeeps(x, [x EXCEPT !.is = st])
  BY DEF IsduKeeps, Typed, Fields, Given, CmdPart, EventPart, OdPart, MayConfirm
<1>5. IsduKeeps(x, IsduError(x))
  BY <1>3, <1>4 DEF IsduError
<1>6. QED
  BY <1>3, <1>4, <1>5 DEF EnterError

\* The end of a response.
LEMMA CompleteKeeps == ASSUME NEW x, Typed(x) PROVE IsduKeeps(x, Complete(x))
<1> DEFINE e == [x EXCEPT !.seg = 0, !.tot = 0, !.rw = "none", !.is = "Idle"]
           c == IF Whole(x.buf) THEN Cnf("isdu", "OK", x.buf) ELSE Cnf("isdu", "CHECKSUM", 0)
<1>1. IsduKeeps(x, e) /\ e.out = x.out
  BY DEF IsduKeeps, Typed, Fields, Given, CmdPart, EventPart, OdPart, MayConfirm
<1>2. c.kind \in {"isdu", "read", "write"}
  BY DEF Cnf
<1>3. Complete(x) = Confirm(e, c)
  BY DEF Complete
<1> HIDE DEF e, c
<1>4. QED
  BY <1>1, <1>2, <1>3, ConfirmKeeps

\* One change after another.
LEMMA ThenKeeps == ASSUME NEW x, NEW y, NEW z, IsduKeeps(x, y), y.out = x.out, IsduKeeps(y, z)
  PROVE IsduKeeps(x, z)
BY DEF IsduKeeps, MayConfirm

\* Each state of the ISDU handler: idle,
LEMMA IdleKeeps == ASSUME NEW x, NEW r, Typed(x) PROVE IsduKeeps(x, IsduIdle(x, r))
<1>1. ASSUME NEW m, m.kind \in IsduKinds PROVE IsduKeeps(x, Send(x, m))
  BY <1>1 DEF IsduKeeps, Typed, Fields, Given, CmdPart, EventPart, OdPart, MayConfirm, Send,
     Kinds, IsduKinds
<1>2. ASSUME NEW m, m.kind \in IsduKinds
      PROVE IsduKeeps(x, [Send(x, m) EXCEPT !.seg = 1, !.is = "Request"])
  BY <1>2 DEF IsduKeeps, Typed, Fields, Given, CmdPart, EventPart, OdPart, MayConfirm, Send,
     Kinds, IsduKinds
<1>3. /\ Msg("Seg", 0, x.job).kind \in IsduKinds /\ Msg("Read", 0, 0).kind \in IsduKinds
      /\ Msg("Write", 0, x.val).kind \in IsduKinds /\ IdleMsg.kind \in IsduKinds
  BY DEF Msg, IdleMsg, IsduKinds
<1> DEFINE n == [x EXCEPT !.rw = "none"]
           i(y) == [y EXCEPT !.tot = 0, !.is = "Inactive"]
           c == Cnf("isdu", "ERR", 0)
<1>4. IsduKeeps(x, n) /\ n.out = x.out /\ IsduKeeps(x, x)
  BY DEF IsduKeeps, Typed, Fields, Given, CmdPart, EventPart, OdPart, MayConfirm
<1>5. \A k, st, d : Cnf(k, st, d).kind = k
  BY DEF Cnf
<1>6. \A k \in {"read", "write"} : \A d : IsduKeeps(x, Confirm(n, Cnf(k, "OK", d)))
  <2> SUFFICES ASSUME NEW k \in {"read", "write"}, NEW d
               PROVE  IsduKeeps(x, Confirm(n, Cnf(k, "OK", d)))
    OBVIOUS
  <2> HIDE DEF n
  <2>1. QED
    BY <1>4, <1>5, ConfirmKeeps
<1>7. IsduKeeps(x, i(x)) /\ IsduKeeps(x, i(Confirm(x, c)))
  <2>1. IsduKeeps(x, Confirm(x, c))
    <3>1. c.kind \in {"isdu", "read", "write"}
      BY <1>5
    <3> HIDE DEF c
    <3>2. QED
      BY <1>4, <3>1, ConfirmKeeps
  <2> DEFINE w == Confirm(x, c)
  <2> HIDE DEF w
  <2>2. ASSUME NEW w1, IsduKeeps(x, w1) PROVE IsduKeeps(x, i(w1))
    BY <2>2 DEF IsduKeeps, Typed, Fields, Given, CmdPart, EventPart, OdPart, MayConfirm
  <2>3. QED
    BY <1>4, <2>1, <2>2
<1> HIDE DEF n, i, c
<1>8. QED
  BY <1>1, <1>2, <1>3, <1>4, <1>6, <1>7 DEF IsduIdle, n, i, c

\* sending a request,
LEMMA RequestKeeps == ASSUME NEW x, Typed(x) PROVE IsduKeeps(x, IsduRequest(x))
<1>1. IsduKeeps(x, EnterError(x))
  BY ErrorKeeps
<1>2. IsduKeeps(x, [Send(x, Msg("Seg", x.seg, x.job)) EXCEPT !.seg = @ + 1])
  BY DEF IsduKeeps, Typed, Fields, Given, CmdPart, EventPart, OdPart, MayConfirm, Send, Msg,
     Kinds, IsduKinds
<1>3. IsduKeeps(x, [x EXCEPT !.seg = 0, !.is = "Wait", !.late = FALSE]) /\ IsduKeeps(x, x)
  BY DEF IsduKeeps, Typed, Fields, Given, CmdPart, EventPart, OdPart, MayConfirm
<1>4. QED
  BY <1>1, <1>2, <1>3 DEF IsduRequest

\* waiting for the response,
LEMMA WaitKeeps == ASSUME NEW x, NEW r, Typed(x) PROVE IsduKeeps(x, IsduWait(x, r))
<1> DEFINE n == [x EXCEPT !.late = FALSE]
           y == [x EXCEPT !.buf[0] = <<r.at, r.arg>>, !.seg = 1, !.tot = RespSegs]
<1>1. IsduKeeps(x, EnterError(x))
  BY ErrorKeeps
<1>2. IsduKeeps(x, Send(x, Msg("Get", 0, 0))) /\ IsduKeeps(x, x)
  BY DEF IsduKeeps, Typed, Fields, Given, CmdPart, EventPart, OdPart, MayConfirm, Send, Msg,
     Kinds, IsduKinds
<1>3. IsduKeeps(x, n) /\ n.out = x.out /\ Typed(n)
  BY DEF IsduKeeps, Typed, Fields, Given, CmdPart, EventPart, OdPart, MayConfirm
<1>0. Buffer([x.buf EXCEPT ![0] = <<r.at, r.arg>>])
  BY BufferKept DEF Typed
<1>4. IsduKeeps(x, y) /\ y.out = x.out /\ Typed(y)
  BY <1>0 DEF IsduKeeps, Typed, Fields, Given, CmdPart, EventPart, OdPart, MayConfirm
<1> HIDE DEF n, y
<1>5. IsduKeeps(x, EnterError(n)) /\ IsduKeeps(x, Complete(y))
  BY <1>3, <1>4, ErrorKeeps, CompleteKeeps, ThenKeeps
<1>6. IsduKeeps(x, [y EXCEPT !.is = "Response"])
  BY <1>4 DEF IsduKeeps, Typed, Fields, Given, CmdPart, EventPart, OdPart, MayConfirm
<1>7. QED
  BY <1>1, <1>2, <1>5, <1>6 DEF IsduWait, n, y

\* and reading it.
LEMMA ResponseKeeps == ASSUME NEW x, NEW r, Typed(x) PROVE IsduKeeps(x, IsduResponse(x, r))
<1> DEFINE y == [x EXCEPT !.buf[x.seg] = <<r.at, r.arg>>, !.seg = @ + 1]
<1>1. IsduKeeps(x, EnterError(x))
  BY ErrorKeeps
<1>2. IsduKeeps(x, Send(x, Msg("Get", x.seg, 0))) /\ IsduKeeps(x, x)
  BY DEF IsduKeeps, Typed, Fields, Given, CmdPart, EventPart, OdPart, MayConfirm, Send, Msg,
     Kinds, IsduKinds
<1>0. Buffer([x.buf EXCEPT ![x.seg] = <<r.at, r.arg>>])
  BY BufferKept DEF Typed
<1>3. IsduKeeps(x, y) /\ y.out = x.out /\ Typed(y)
  BY <1>0 DEF IsduKeeps, Typed, Fields, Given, CmdPart, EventPart, OdPart, MayConfirm
<1> HIDE DEF y
<1>4. IsduKeeps(x, Complete(y))
  BY <1>3, CompleteKeeps, ThenKeeps
<1>5. QED
  BY <1>1, <1>2, <1>3, <1>4 DEF IsduResponse, y

\* All of them: the ISDU handler leaves the other handlers' state alone.
LEMMA IsduDoes == ASSUME NEW x, NEW r, Typed(x) PROVE IsduKeeps(x, IsduHandler(x, r))
<1>1. IsduKeeps(x, [x EXCEPT !.tot = 0, !.seg = 0, !.is = "Idle"]) /\ IsduKeeps(x, x)
  BY DEF IsduKeeps, Typed, Fields, Given, CmdPart, EventPart, OdPart, MayConfirm
<1>2. QED
  BY <1>1, IdleKeeps, RequestKeeps, WaitKeeps, ErrorKeeps, ResponseKeeps DEF IsduHandler, Typed

-----------------------------------------------------------------------------
(* The OD handler hands the step to one of the others, or to none.          *)

\* y is z, but for the state and the trigger of the OD handler and the command handler's state.
Like(y, z) ==
  /\ Typed(y) /\ IsduPart(y) = IsduPart(z) /\ Given(y) = Given(z) /\ EventPart(y) = EventPart(z)
  /\ y.code = z.code /\ y.mcmd = z.mcmd /\ y.tx = z.tx /\ y.out = z.out

\* The OD handler runs one of the three, or none, and leaves the rest.
LEMMA OdDoes == ASSUME NEW x, NEW r, Typed(x)
  PROVE LET y == OdHandler(x, r) IN
     /\ y.trig \in {x.trig, "NONE"}
     /\ \/ Like(y, x)
        \/ x.trig = "MASTER" /\ x.od # "Command" /\ x.act /\ x.code # "NONE" /\ Like(y, CmdHandler(x))
        \/ x.od = "Isdu" /\ x.act /\ Like(y, IsduHandler(x, r))
        \/ x.od = "Event" /\ x.act /\ x.trig # "NONE" /\ Like(y, EvHandler(x, r))
        \/ x.od = "Command" /\ x.act /\ x.trig # "NONE" /\ x.code = "NONE" /\ Like(y, WriteMasterCommand(x, "OK"))
<1> DEFINE y == OdHandler(x, r)
           ways == \/ Like(y, x)
                   \/ x.trig = "MASTER" /\ x.od # "Command" /\ x.act /\ x.code # "NONE" /\ Like(y, CmdHandler(x))
                   \/ x.od = "Isdu" /\ x.act /\ Like(y, IsduHandler(x, r))
                   \/ x.od = "Event" /\ x.act /\ x.trig # "NONE" /\ Like(y, EvHandler(x, r))
                   \/ x.od = "Command" /\ x.act /\ x.trig # "NONE" /\ x.code = "NONE" /\ Like(y, WriteMasterCommand(x, "OK"))
<1>1. ASSUME NEW z, Typed(z),
             NEW o \in {"Inactive", "Isdu", "Command", "Event"}
      PROVE  Like([z EXCEPT !.od = o], z)
  BY <1>1 DEF Like, Typed, Fields, IsduPart, Given, EventPart
<1>2. ASSUME NEW z, Typed(z) PROVE Like(Untriggered(z), z) /\ Like(z, z) /\ Typed(Untriggered(z))
  BY <1>2 DEF Like, Untriggered, Typed, Fields, IsduPart, Given, EventPart
<1>3. Like([x EXCEPT !.cs = "Inactive"], x)
  BY DEF Like, Typed, Fields, IsduPart, Given, EventPart
<1>4. Typed(CmdHandler(x)) /\ Typed(IsduHandler(x, r)) /\ Typed(EvHandler(x, r))
  BY CmdDoes, IsduDoes, EvDoes DEF IsduKeeps
<1>5. ASSUME NEW o \in {"Inactive", "Isdu", "Command", "Event"}
      PROVE  Like([WriteMasterCommand(Untriggered(x), "OK") EXCEPT !.od = o], WriteMasterCommand(x, "OK"))
  <2> DEFINE w == WriteMasterCommand(x, "OK")
             u == WriteMasterCommand(Untriggered(x), "OK")
  <2>1. Typed(w) /\ Typed(u)
    BY <1>2, WriteDoes
  <2>2. Like(u, w)
    BY <2>1 DEF Like, WriteMasterCommand, Untriggered, Confirm, Typed, Fields, IsduPart, Given, EventPart
  <2> HIDE DEF w, u
  <2>3. Like([u EXCEPT !.od = o], w)
    BY <2>1, <2>2 DEF Like, Typed, Fields, IsduPart, Given, EventPart
  <2>4. QED
    BY <2>3 DEF u, w
<1>6. ASSUME x.od = "Inactive" PROVE ways
  BY <1>1, <1>2, <1>6 DEF OdHandler
<1>7. ASSUME x.od = "Isdu" PROVE ways
  BY <1>1, <1>2, <1>4, <1>7 DEF OdHandler, OdIsdu
<1>8. ASSUME x.od = "Command" PROVE ways
  BY <1>2, <1>3, <1>5, <1>8 DEF OdHandler, OdCommand
<1>9. ASSUME x.od = "Event" PROVE ways
  BY <1>1, <1>2, <1>4, <1>9 DEF OdHandler, OdEvent
<1>10. OdHandler(x, r).trig \in {x.trig, "NONE"}
  <2>1. OdPart(CmdHandler(x)) = OdPart(x) /\ OdPart(IsduHandler(x, r)) = OdPart(x)
        /\ OdPart(EvHandler(x, r)) = OdPart(x)
    BY CmdDoes, IsduDoes, EvDoes DEF IsduKeeps
  <2>2. Typed(Untriggered(x)) /\ Untriggered(x).trig = "NONE"
    BY DEF Typed, Fields, Untriggered
  <2>3. Typed(WriteMasterCommand(Untriggered(x), "OK"))
        /\ WriteMasterCommand(Untriggered(x), "OK").trig = "NONE"
    BY <2>2, WriteDoes DEF OdPart
  <2>4. QED
    BY <1>4, <2>1, <2>2, <2>3 DEF OdHandler, OdIsdu, OdCommand, OdEvent, Untriggered, OdPart, Typed, Fields
<1>11. QED
  BY <1>6, <1>7, <1>8, <1>9, <1>10 DEF Typed

-----------------------------------------------------------------------------
(* The ISDU on its way: what its handler, the message in the chip, the answer *)
(* and the device hold of it.                                               *)

Active == {"Request", "Wait", "Response", "Error"}
Older(j)     == \A i \in DOMAIN dev.done : dev.done[i][1] < j
Processed(j) == \E i \in DOMAIN dev.done : dev.done[i][1] = j
\* What the device has begun is the request of job j.
Held(j)      == dev.st # "Idle" => dev.segs[1] = j
IsGood(r)    == r # NoRx /\ r.what # "error"

\* A segment in the chip m continues its own request in the device, or begins a new one.
Segment(x, m) == m.kind = "Seg" =>
  /\ m.at \in Nat /\ m.arg \in 1..x.job
  /\ m.at = 0 => Older(m.arg) \/ (dev.st # "Idle" /\ Len(dev.segs) = 1 /\ dev.segs[1] = m.arg)
  /\ m.at > 0 /\ dev.st = "Rx" /\ Len(dev.segs) = m.at => dev.segs[1] = m.arg
  /\ x.is \in Active => m.arg = x.job

\* AL waits for the ISDU that is under way, and one that was not begun is new to the device.
Owed(x, m) ==
  /\ x.is \in Active => al.op = "isdu" /\ x.job > 0
  /\ al.op = "isdu" => al.job = x.job /\ x.rw \in {"isdu", "none"}
  /\ x.is = "Idle" /\ x.rw = "isdu" =>
       al.op = "isdu" /\ Older(x.job) /\ x.job > 0 /\ (m.kind = "Seg" => m.arg < x.job)

\* From the request's first answer on, the device holds this request and no other, so that
\* the segments it answers with are those of the response.
Underway(x, m, r) ==
  /\ x.is = "Request" => /\ x.seg >= 1 /\ m.kind # "Get" /\ r.what # "seg"
                         /\ (m.kind = "Seg" /\ m.at = 0 /\ ~IsGood(r)) \/ Held(x.job)
  /\ x.is \in {"Wait", "Response"} =>
       Held(x.job) /\ (r.what = "seg" => r.arg = x.job /\ Processed(x.job))
  /\ x.is = "Response" => /\ x.buf[0][2] = x.job /\ Processed(x.job)
                          /\ x.tot = RespSegs /\ x.seg \in 1..RespSegs - 1

Isdu(x, m, r) == Segment(x, m) /\ Owed(x, m) /\ Underway(x, m, r)

\* An ISDU that is confirmed has ended, and as good only with the whole response to it.
Ends(x) == \A c \in Outs(x) : c.kind = "isdu" =>
  /\ x.is \notin Active /\ ~(x.is = "Idle" /\ x.rw = "isdu")
  /\ c.stat = "OK" => c.data = [i \in DOMAIN Empty |-> <<i, x.job>>] /\ Processed(x.job)

\* Nothing of the step confirms an ISDU so far.
Silent(x) == \A c \in Outs(x) : c.kind # "isdu"

\* One more confirmation.
LEMMA OneMore == ASSUME NEW x, NEW y, NEW c, Typed(x), y.out = Append(x.out, c)
  PROVE Outs(y) = Outs(x) \cup {c}
<1>1. {Append(x.out, c)[i] : i \in DOMAIN Append(x.out, c)} = {x.out[i] : i \in DOMAIN x.out} \cup {c}
  BY AppendAdds DEF Typed
<1>2. QED
  BY <1>1 DEF Outs

\* An error ends it, now or with the next message.
LEMMA ErrorEnds == ASSUME NEW x, NEW m, NEW r, NEW n, NEW q, Typed(x), Silent(x), Isdu(x, m, r),
                          x.is \in Active, n.kind # "Seg" \/ n = m
  PROVE /\ x.act => Isdu(IsduError(x), n, q) /\ Ends(IsduError(x)) /\ IsduError(x).is = "Idle"
        /\ ~x.act \/ x.trig # "MASTER" => Isdu(EnterError(x), n, q) /\ Ends(EnterError(x))
        /\ ~x.act => EnterError(x).is = "Inactive"
        /\ x.act /\ x.trig # "MASTER" => EnterError(x).is = "Error" /\ EnterError(x).tx = x.tx
<1> DEFINE c == Cnf("isdu", "ERR", 0)
<1>1. c.kind = "isdu" /\ c.stat = "ERR"
  BY DEF Cnf
<1> HIDE DEF c
<1>2. ASSUME NEW y, (y.is = "Idle" /\ y.rw = "none") \/ y.is = "Inactive", y.job = x.job,
             y.is = "Inactive" => y.rw = x.rw
      PROVE  Isdu(y, n, q)
  BY <1>2 DEF Isdu, Segment, Owed, Underway, Active
<1>3. ASSUME NEW y, (y.is = "Idle" /\ y.rw = "none") \/ y.is = "Inactive", y.out = Append(x.out, c)
      PROVE  Ends(y)
  <2>1. Outs(y) = Outs(x) \cup {c}
    BY <1>3, OneMore
  <2>2. QED
    BY <1>1, <1>3, <2>1 DEF Ends, Silent, Active
<1>4. ASSUME x.act PROVE Isdu(IsduError(x), n, q) /\ Ends(IsduError(x)) /\ IsduError(x).is = "Idle"
  <2> DEFINE y == IsduError(x)
  <2>1. y.is = "Idle" /\ y.rw = "none" /\ y.job = x.job /\ y.out = Append(x.out, c)
    BY <1>4 DEF IsduError, Confirm, Send, Typed, Fields, c
  <2> HIDE DEF y
  <2>2. Isdu(y, n, q) /\ Ends(y)
    BY <2>1, <1>2, <1>3
  <2>3. QED
    BY <2>1, <2>2 DEF y
<1>5. ASSUME ~x.act PROVE Isdu(EnterError(x), n, q) /\ Ends(EnterError(x)) /\ EnterError(x).is = "Inactive"
  <2> DEFINE y == EnterError(x)
  <2>1. y.is = "Inactive" /\ y.rw = x.rw /\ y.job = x.job /\ y.out = Append(x.out, c)
    BY <1>5 DEF EnterError, Confirm, Typed, Fields, c
  <2> HIDE DEF y
  <2>2. Isdu(y, n, q) /\ Ends(y)
    BY <2>1, <1>2, <1>3
  <2>3. QED
    BY <2>1, <2>2 DEF y
<1>6. x.act /\ x.trig # "MASTER" => Isdu(EnterError(x), n, q) /\ Ends(EnterError(x))
                                   /\ EnterError(x).is = "Error" /\ EnterError(x).tx = x.tx
  BY DEF EnterError, Isdu, Segment, Owed, Underway, Ends, Outs, Silent, Typed, Fields, Active
<1>7. QED
  BY <1>4, <1>5, <1>6 DEF Typed

\* A response is complete with the whole of it, or with an error.
LEMMA CompleteEnds == ASSUME NEW x, NEW m, NEW r, NEW n, NEW q, NEW y, Typed(x), x.out = <<>>,
                             Isdu(x, m, r), x.is \in Active, n.kind # "Seg" \/ n = m,
                             Typed(y), y.out = <<>>, y.job = x.job, y.buf[0][2] = x.job, Processed(x.job)
  PROVE Isdu(Complete(y), n, q) /\ Ends(Complete(y)) /\ Complete(y).is = "Idle"
<1> DEFINE c == IF Whole(y.buf) THEN Cnf("isdu", "OK", y.buf) ELSE Cnf("isdu", "CHECKSUM", 0)
<1>1. c.stat = "OK" => c.data = [i \in DOMAIN Empty |-> <<i, x.job>>]
  <2>1. DOMAIN Empty = 0..RespSegs - 1
    BY DEF Empty
  <2>2. Buffer(y.buf)
    BY DEF Typed
  <2>3. Whole(y.buf) => y.buf = [i \in 0..RespSegs - 1 |-> <<i, x.job>>]
    <3>1. Whole(y.buf) => \A i \in 0..RespSegs - 1 : y.buf[i] = <<i, x.job>>
      BY <2>2 DEF Whole, Buffer
    <3>2. y.buf = [i \in 0..RespSegs - 1 |-> y.buf[i]]
      BY <2>2 DEF Buffer
    <3>3. QED
      BY <3>1, <3>2
  <2>4. QED
    BY <2>1, <2>3 DEF Cnf
<1>2. Append(y.out, c) = <<c>> /\ {<<c>>[i] : i \in DOMAIN <<c>>} = {c}
  BY DEF Typed
<1> HIDE DEF c
<1>3. /\ Complete(y).out = <<c>> /\ Complete(y).is = "Idle" /\ Complete(y).rw = "none"
      /\ Complete(y).job = x.job
  BY <1>2 DEF Complete, Confirm, Typed, Fields, c
<1>4. Outs(Complete(y)) = {c}
  BY <1>2, <1>3 DEF Outs
<1>5. Ends(Complete(y))
  BY <1>1, <1>3, <1>4 DEF Ends, Active
<1>6. QED
  BY <1>3, <1>5 DEF Isdu, Segment, Owed, Underway, Active

\* The next message: the segment it asks for or continues is downloaded.
LEMMA IsduMaster == ASSUME NEW x, NEW m, NEW r, Typed(x), x.out = <<>>, Isdu(x, m, r),
                           x.act, x.trig = "MASTER", x.is # "Inactive",
                           x.is = "Request" => Held(x.job)
  PROVE LET y == IsduHandler(x, r) IN
        /\ Isdu(y, y.tx, NoRx) /\ Ends(y) /\ y.is # "Inactive"
        /\ x.rw # "isdu" /\ x.is \notin Active => y.is \notin Active
<1> DEFINE y == IsduHandler(x, r)
           res == /\ Isdu(y, y.tx, NoRx) /\ Ends(y) /\ y.is # "Inactive"
                  /\ x.rw # "isdu" /\ x.is \notin Active => y.is \notin Active
<1>0. NoRx.what = "none" /\ ~IsGood(NoRx)
  BY DEF NoRx, IsGood
<1>1. \A z : z.out = <<>> => Ends(z) /\ Silent(z)
  BY DEF Ends, Silent, Outs
<1>2. ASSUME y = EnterError(x) \/ y = IsduError(x), x.is \in Active
      PROVE  Isdu(y, y.tx, NoRx) /\ Ends(y) /\ y.is = "Idle"
  <2>1. y = IsduError(x)
    BY <1>2 DEF EnterError
  <2>2. y.tx.kind # "Seg"
    BY <2>1 DEF IsduError, Confirm, Send, Msg, Typed, Fields
  <2> HIDE DEF y
  <2>3. QED
    BY <1>1, <1>2, <2>1, <2>2, ErrorEnds
<1>3. ASSUME x.is = "Idle" PROVE res
  <2>1. x.rw \in {"none", "isdu", "read", "write"}
    BY DEF Typed
  <2>2. ASSUME x.rw = "isdu" PROVE res
    <3>1. y = [Send(x, Msg("Seg", 0, x.job)) EXCEPT !.seg = 1, !.is = "Request"]
      BY <1>3, <2>2 DEF IsduHandler, IsduIdle
    <3> HIDE DEF y
    <3>2. y.out = <<>> /\ y.is = "Request" /\ y.tx = Msg("Seg", 0, x.job) /\ y.seg = 1
          /\ y.job = x.job /\ y.rw = "isdu"
      BY <3>1, <2>2 DEF Send, Typed, Fields
    <3>3. /\ Msg("Seg", 0, x.job).kind = "Seg" /\ Msg("Seg", 0, x.job).at = 0
          /\ Msg("Seg", 0, x.job).arg = x.job
      BY DEF Msg
    <3>4. Older(x.job) /\ x.job \in Nat \ {0} /\ al.op = "isdu" /\ al.job = x.job
      BY <1>3, <2>2 DEF Isdu, Owed, Typed
    <3>5. Segment(y, y.tx)
      BY <3>2, <3>3, <3>4 DEF Segment
    <3>6. Owed(y, y.tx)
      BY <3>2, <3>4 DEF Owed
    <3>7. Underway(y, y.tx, NoRx)
      BY <1>0, <3>2, <3>3 DEF Underway
    <3>8. QED
      BY <1>1, <2>2, <3>2, <3>5, <3>6, <3>7 DEF Isdu
  <2>3. ASSUME x.rw # "isdu" PROVE res
    <3>1. \/ y = Send(x, Msg("Read", 0, 0)) \/ y = Send(x, Msg("Write", 0, x.val))
          \/ y = Send(x, IdleMsg)
      BY <1>3, <2>1, <2>3 DEF IsduHandler, IsduIdle
    <3> HIDE DEF y
    <3>2. y.out = <<>> /\ y.is = "Idle" /\ y.tx.kind \in {"Read", "Write", "Idle"}
          /\ y.job = x.job /\ y.rw = x.rw
      BY <3>1, <1>3 DEF Send, Typed, Fields, Msg, IdleMsg
    <3>3. Segment(y, y.tx)
      BY <3>2 DEF Segment
    <3>4. Owed(y, y.tx)
      BY <1>3, <2>3, <3>2 DEF Isdu, Owed, Active
    <3>5. Underway(y, y.tx, NoRx)
      BY <3>2 DEF Underway
    <3>6. QED
      BY <1>1, <3>2, <3>3, <3>4, <3>5 DEF Isdu, Active
  <2>4. QED
    BY <2>2, <2>3
<1>4. ASSUME x.is = "Request" PROVE res
  <2>1. ASSUME x.lost PROVE res
    BY <1>2, <1>4, <2>1 DEF IsduHandler, IsduRequest, Active
  <2>2. ASSUME ~x.lost PROVE res
    <3>1. y = [Send(x, Msg("Seg", x.seg, x.job)) EXCEPT !.seg = @ + 1]
      BY <1>4, <2>2 DEF IsduHandler, IsduRequest
    <3> HIDE DEF y
    <3>2. y.out = <<>> /\ y.is = "Request" /\ y.tx = Msg("Seg", x.seg, x.job) /\ y.seg = x.seg + 1
          /\ y.job = x.job /\ y.rw = x.rw
      BY <3>1, <1>4 DEF Send, Typed, Fields
    <3>3. /\ Msg("Seg", x.seg, x.job).kind = "Seg" /\ Msg("Seg", x.seg, x.job).at = x.seg
          /\ Msg("Seg", x.seg, x.job).arg = x.job
      BY DEF Msg
    <3>4. /\ Held(x.job) /\ x.seg \in Nat /\ x.seg >= 1 /\ x.job \in Nat /\ al.op = "isdu"
          /\ x.job > 0
      BY <1>4 DEF Isdu, Underway, Owed, Active, Typed
    <3>5. Segment(y, y.tx)
      BY <3>2, <3>3, <3>4 DEF Segment, Held
    <3>6. Owed(y, y.tx)
      BY <1>4, <3>2, <3>4 DEF Isdu, Owed
    <3>7. Underway(y, y.tx, NoRx)
      BY <1>0, <3>2, <3>3, <3>4 DEF Underway
    <3>8. QED
      BY <1>1, <1>4, <3>2, <3>5, <3>6, <3>7 DEF Isdu, Active
  <2>3. QED
    BY <2>1, <2>2
<1>5. ASSUME x.is \in {"Wait", "Response"} PROVE res
  <2>1. y = EnterError(x) \/ \E a : y = Send(x, Msg("Get", a, 0))
    BY <1>5 DEF IsduHandler, IsduWait, IsduResponse
  <2>2. ASSUME y = EnterError(x) PROVE res
    BY <1>2, <1>5, <2>2 DEF Active
  <2>3. ASSUME NEW a, y = Send(x, Msg("Get", a, 0)) PROVE res
    <3>1. y.out = <<>> /\ y.is = x.is /\ y.tx.kind = "Get" /\ y.seg = x.seg /\ y.tot = x.tot
          /\ y.job = x.job /\ y.rw = x.rw /\ y.buf = x.buf
      BY <2>3 DEF Send, Typed, Fields, Msg
    <3> HIDE DEF y
    <3>2. QED
      BY <1>0, <1>1, <1>5, <3>1 DEF Isdu, Segment, Owed, Underway, Active
  <2>4. QED
    BY <1>5, <2>1, <2>2, <2>3 DEF Active
<1>6. ASSUME x.is = "Error" PROVE res
  BY <1>2, <1>6 DEF IsduHandler, Active
<1>7. QED
  BY <1>3, <1>4, <1>5, <1>6 DEF Typed

\* An answer: the request goes on, the response is taken, or it ends.
LEMMA IsduDevice == ASSUME NEW x, NEW m, NEW r, Typed(x), x.out = <<>>, Isdu(x, m, r),
                           x.act, x.trig = "DEVICE", x.is # "Inactive", IsGood(r)
  PROVE LET y == IsduHandler(x, r) IN
        /\ Isdu(y, m, r) /\ Ends(y) /\ y.is # "Inactive" /\ (y.is = "Request" => Held(y.job))
        /\ x.is \notin Active => y.is \notin Active
        /\ y.tx = x.tx \/ y.tx.kind = "Abort"
<1> DEFINE y == IsduHandler(x, r)
           res == /\ Isdu(y, m, r) /\ Ends(y) /\ y.is # "Inactive" /\ (y.is = "Request" => Held(y.job))
                  /\ x.is \notin Active => y.is \notin Active
                  /\ y.tx = x.tx \/ y.tx.kind = "Abort"
<1>1. \A z : z.out = <<>> => Ends(z) /\ Silent(z)
  BY DEF Ends, Silent, Outs
<1>2. ASSUME y = EnterError(x), x.is \in Active PROVE res
  <2>1. Isdu(y, m, r) /\ Ends(y) /\ y.is = "Error" /\ y.tx = x.tx
    BY <1>1, <1>2, ErrorEnds
  <2>2. QED
    BY <1>2, <2>1
<1>3. ASSUME x.is = "Idle" PROVE res
  <2>1. CASE x.rw \in {"read", "write"}
    <3>1. PICK c : c.kind = x.rw /\ y = Confirm([x EXCEPT !.rw = "none"], c)
      <4>1. \A k, st, d : Cnf(k, st, d).kind = k
        BY DEF Cnf
      <4>2. QED
        BY <1>3, <2>1, <4>1 DEF IsduHandler, IsduIdle
    <3> HIDE DEF y
    <3>2. y.out = Append(<<>>, c) /\ y.is = "Idle" /\ y.rw = "none" /\ y.job = x.job /\ y.tx = x.tx
      BY <1>3, <3>1 DEF Confirm, Typed, Fields
    <3>3. y.out = <<c>> /\ {<<c>>[i] : i \in DOMAIN <<c>>} = {c}
      BY <3>2
    <3>4. Ends(y)
      BY <2>1, <3>1, <3>3 DEF Ends, Outs
    <3>5. QED
      BY <1>3, <2>1, <3>2, <3>4 DEF Isdu, Segment, Owed, Underway, Active
  <2>2. CASE x.rw \notin {"read", "write"}
    <3>1. y = x
      BY <1>3, <2>2 DEF IsduHandler, IsduIdle
    <3> HIDE DEF y
    <3>2. QED
      BY <1>1, <1>3, <3>1 DEF Active
  <2>3. QED
    BY <2>1, <2>2
<1>4. ASSUME x.is = "Request" PROVE res
  <2>1. Held(x.job)
    BY <1>4 DEF Isdu, Underway
  <2>2. CASE y = EnterError(x)
    BY <1>2, <1>4, <2>2 DEF Active
  <2>3. CASE y = [x EXCEPT !.seg = 0, !.is = "Wait", !.late = FALSE]
    <3> HIDE DEF y
    <3>1. y.out = <<>> /\ y.is = "Wait" /\ y.rw = x.rw /\ y.job = x.job /\ y.tx = x.tx
      BY <2>3 DEF Typed, Fields
    <3>2. QED
      BY <1>1, <1>4, <2>1, <3>1 DEF Isdu, Segment, Owed, Underway, Active, Held
  <2>4. CASE y = x
    <3> HIDE DEF y
    <3>1. QED
      BY <1>1, <1>4, <2>1, <2>4 DEF Active
  <2>5. QED
    BY <1>4, <2>2, <2>3, <2>4 DEF IsduHandler, IsduRequest
<1>5. ASSUME x.is \in {"Wait", "Response"} PROVE res
  <2> DEFINE z == IF x.is = "Wait"
                  THEN [x EXCEPT !.buf[0] = <<r.at, r.arg>>, !.seg = 1, !.tot = RespSegs]
                  ELSE [x EXCEPT !.buf[x.seg] = <<r.at, r.arg>>, !.seg = @ + 1]
             z1 == [z EXCEPT !.is = "Response"]
             n == [x EXCEPT !.late = FALSE]
  <2>0. /\ RespSegs \in Nat \ {0} /\ x.job \in Nat
        /\ x.is = "Response" => x.seg \in 1..RespSegs - 1 /\ x.buf[0][2] = x.job /\ x.tot = RespSegs
    BY SegmentsAssumption DEF Isdu, Underway, Typed
  <2>1. CASE y = EnterError(x)
    BY <1>2, <1>5, <2>1 DEF Active
  <2>2. CASE y = EnterError(n)
    <3>1. Typed(n) /\ n.out = <<>> /\ n.act /\ n.trig = "DEVICE" /\ n.is \in Active /\ n.tx = x.tx
      BY <1>5 DEF Typed, Fields, Active
    <3>2. Isdu(n, m, r)
      BY <1>5 DEF Isdu, Segment, Owed, Underway, Typed, Fields
    <3> HIDE DEF n, y
    <3>3. Isdu(EnterError(n), m, r) /\ Ends(EnterError(n)) /\ EnterError(n).is = "Error"
          /\ EnterError(n).tx = n.tx
      BY <1>1, <3>1, <3>2, ErrorEnds
    <3>4. QED
      BY <1>5, <2>2, <3>1, <3>3 DEF Active
  <2>3. CASE y = x
    <3> HIDE DEF y
    <3>1. QED
      BY <1>1, <1>5, <2>3
  <2>4. ASSUME x.is = "Wait" => r.what = "seg"
        PROVE  /\ Typed(z) /\ z.out = <<>> /\ z.job = x.job /\ z.buf[0][2] = x.job /\ z.tx = x.tx
               /\ z.rw = x.rw /\ z.is = x.is /\ Processed(x.job) /\ z.tot = RespSegs
               /\ z.seg = (IF x.is = "Wait" THEN 1 ELSE x.seg + 1)
    <3>1. CASE x.is = "Wait"
      <4>1. r.arg = x.job /\ Processed(x.job)
        BY <2>4, <3>1 DEF Isdu, Underway
      <4> DEFINE v == <<r.at, r.arg>>
                 b == [x.buf EXCEPT ![0] = v]
      <4>6. Buffer(x.buf) /\ 0 \in 0..RespSegs - 1
        BY <2>0 DEF Typed
      <4>2. Buffer(b) /\ b[0] = v
        <5> HIDE DEF v
        <5>1. Buffer(b) /\ \A i \in 0..RespSegs - 1 : b[i] = IF i = 0 THEN v ELSE x.buf[i]
          BY <4>6 DEF Buffer
        <5> HIDE DEF b
        <5>2. QED
          BY <4>6, <5>1
      <4>3. b[0][2] = x.job
        BY <4>1, <4>2
      <4> HIDE DEF b
      <4>4. z = [x EXCEPT !.buf = b, !.seg = 1, !.tot = RespSegs]
        BY <3>1 DEF b, Typed, Fields
      <4> HIDE DEF z
      <4>5. QED
        BY <3>1, <4>1, <4>2, <4>3, <4>4 DEF Typed, Fields
    <3>2. CASE x.is = "Response"
      <4>1. Processed(x.job)
        BY <3>2 DEF Isdu, Underway
      <4> DEFINE v == <<r.at, r.arg>>
                 k == x.seg
                 b == [x.buf EXCEPT ![k] = v]
      <4>6. Buffer(x.buf) /\ 0 \in 0..RespSegs - 1 /\ k # 0
        BY <2>0, <3>2 DEF Typed
      <4>2. Buffer(b) /\ b[0] = x.buf[0]
        <5> HIDE DEF v, k
        <5>1. Buffer(b) /\ \A i \in 0..RespSegs - 1 : b[i] = IF i = k THEN v ELSE x.buf[i]
          BY <4>6 DEF Buffer
        <5> HIDE DEF b
        <5>2. QED
          BY <4>6, <5>1
      <4>3. b[0][2] = x.job
        BY <2>0, <3>2, <4>2
      <4> HIDE DEF b
      <4>4. z = [x EXCEPT !.buf = b, !.seg = x.seg + 1]
        BY <3>2 DEF b, Typed, Fields
      <4> HIDE DEF z
      <4>7. x.seg + 1 \in Nat /\ x.is # "Wait"
        BY <2>0, <3>2
      <4>5. QED
        BY <2>0, <3>2, <4>1, <4>2, <4>3, <4>4, <4>7 DEF Typed, Fields
    <3>3. QED
      BY <1>5, <3>1, <3>2
  <2>5. CASE y = Complete(z) /\ (x.is = "Wait" => r.what = "seg")
    <3>1. Isdu(Complete(z), m, r) /\ Ends(Complete(z)) /\ Complete(z).is = "Idle"
      <4> HIDE DEF z
      <4>1. QED
        BY <1>5, <2>4, <2>5, CompleteEnds DEF Active
    <3>2. Complete(z).tx = x.tx
      <4> HIDE DEF z
      <4>1. QED
        BY <2>4, <2>5 DEF Complete, Confirm, Typed, Fields
    <3>3. QED
      BY <1>5, <2>5, <3>1, <3>2 DEF Active
  <2>6. CASE y = z1 /\ (x.is = "Wait" => r.what = "seg") /\ z.seg < z.tot
    <3> HIDE DEF z, y
    <3>1. z1.out = <<>> /\ z1.is = "Response" /\ z1.job = x.job /\ z1.buf = z.buf /\ z1.tx = x.tx
          /\ z1.rw = x.rw /\ z1.tot = RespSegs /\ z1.seg = z.seg
      BY <2>4, <2>6 DEF Typed, Fields
    <3> HIDE DEF z1
    <3>2. z1.seg \in 1..RespSegs - 1
      BY <1>5, <2>0, <2>4, <2>6, <3>1
    <3>3. QED
      BY <1>1, <1>5, <2>4, <2>6, <3>1, <3>2 DEF Isdu, Segment, Owed, Underway, Active, Held
  <2>7. CASE x.is = "Wait"
    <3>1. z = [x EXCEPT !.buf[0] = <<r.at, r.arg>>, !.seg = 1, !.tot = RespSegs]
      BY <2>7
    <3>2. \/ y = EnterError(x) \/ y = EnterError(n) \/ y = x
          \/ r.what = "seg" /\ y = IF RespSegs = 1 THEN Complete(z) ELSE z1
      BY <2>7, <3>1 DEF IsduHandler, IsduWait
    <3>3. r.what = "seg" => (RespSegs = 1 \/ z.seg < z.tot)
      BY <2>0, <2>4, <2>7
    <3> HIDE DEF z, z1, y, n
    <3>4. QED
      BY <2>1, <2>2, <2>3, <2>5, <2>6, <3>2, <3>3
  <2>8. CASE x.is = "Response"
    <3>1. z = [x EXCEPT !.buf[x.seg] = <<r.at, r.arg>>, !.seg = @ + 1]
      BY <2>8
    <3>2. \/ y = EnterError(x)
          \/ z.seg >= z.tot /\ y = Complete(z)
          \/ ~(z.seg >= z.tot) /\ y = z
      BY <2>8, <3>1 DEF IsduHandler, IsduResponse
    <3>3. z.seg \in Nat /\ z.tot \in Nat
      BY <2>0, <2>4, <2>8
    <3>4. z1 = z
      <4>1. z.is = "Response" /\ "is" \in DOMAIN z
        BY <2>4, <2>8 DEF Typed, Fields
      <4>2. \A f, k : k \in DOMAIN f /\ f = [i \in DOMAIN f |-> f[i]] => [f EXCEPT ![k] = f[k]] = f
        OBVIOUS
      <4>3. z = [i \in DOMAIN z |-> z[i]]
        BY <3>1
      <4>4. QED
        BY <4>1, <4>2, <4>3
    <3> HIDE DEF z, z1, y, n
    <3>5. QED
      BY <2>1, <2>5, <2>6, <2>8, <3>2, <3>3, <3>4
  <2>9. QED
    BY <1>5, <2>7, <2>8
<1>6. ASSUME x.is = "Error" PROVE res
  <2>1. y = IsduError(x)
    BY <1>6 DEF IsduHandler
  <2>2. Isdu(IsduError(x), m, r) /\ Ends(IsduError(x)) /\ IsduError(x).is = "Idle"
    BY <1>1, <1>6, ErrorEnds DEF Active
  <2>3. IsduError(x).tx.kind = "Abort"
    BY DEF IsduError, Confirm, Send, Msg, Typed, Fields
  <2> HIDE DEF y
  <2>4. QED
    BY <1>6, <2>1, <2>2, <2>3 DEF Active
<1>7. QED
  BY <1>3, <1>4, <1>5, <1>6 DEF Typed

\* The ISDU handler leaves the request and its data alone.
LEMMA JobKept == ASSUME NEW x, NEW r, Typed(x) PROVE IsduHandler(x, r).job = x.job
<1>1. EnterError(x).job = x.job /\ IsduError(x).job = x.job /\ Complete(x).job = x.job
  BY DEF EnterError, IsduError, Complete, Confirm, Send, Typed, Fields
<1>2. IsduIdle(x, r).job = x.job /\ IsduRequest(x).job = x.job
  BY <1>1 DEF IsduIdle, IsduRequest, Confirm, Send, Typed, Fields
<1>4. EnterError([x EXCEPT !.late = FALSE]).job = x.job
  BY DEF EnterError, IsduError, Confirm, Send, Typed, Fields
<1>5. IsduWait(x, r).job = x.job
  <2> DEFINE b == [x.buf EXCEPT ![0] = <<r.at, r.arg>>]
             z == [x EXCEPT !.buf = b, !.seg = 1, !.tot = RespSegs]
  <2>1. z.job = x.job /\ Complete(z).job = x.job /\ [z EXCEPT !.is = "Response"].job = x.job
    <3> HIDE DEF b
    <3>1. QED
      BY DEF Complete, Confirm, Typed, Fields
  <2>2. [x EXCEPT !.buf[0] = <<r.at, r.arg>>, !.seg = 1, !.tot = RespSegs] = z
    OBVIOUS
  <2> HIDE DEF z
  <2>3. QED
    BY <1>1, <1>4, <2>1, <2>2 DEF IsduWait, Send, Typed, Fields
<1>6. IsduResponse(x, r).job = x.job
  <2> DEFINE b == [x.buf EXCEPT ![x.seg] = <<r.at, r.arg>>]
             z == [x EXCEPT !.buf = b, !.seg = x.seg + 1]
  <2>1. z.job = x.job /\ Complete(z).job = x.job
    <3> HIDE DEF b
    <3>1. QED
      BY DEF Complete, Confirm, Typed, Fields
  <2>2. [x EXCEPT !.buf[x.seg] = <<r.at, r.arg>>, !.seg = @ + 1] = z
    OBVIOUS
  <2> HIDE DEF z
  <2>3. QED
    BY <1>1, <2>1, <2>2 DEF IsduResponse, Send, Typed, Fields
<1>7. QED
  BY <1>1, <1>2, <1>5, <1>6 DEF IsduHandler, Typed, Fields

\* What has the ISDU handler's part has its properties.
LEMMA SameIsdu == ASSUME NEW x, NEW y, NEW m, NEW r, IsduPart(y) = IsduPart(x)
  PROVE /\ y.is = x.is /\ y.rw = x.rw /\ y.job = x.job
        /\ Isdu(x, m, r) => Isdu(y, m, r)
        /\ Ends(x) /\ y.out = x.out => Ends(y)
<1>1. /\ y.is = x.is /\ y.rw = x.rw /\ y.job = x.job /\ y.seg = x.seg /\ y.tot = x.tot
      /\ y.buf = x.buf
  BY DEF IsduPart
<1>2. QED
  BY <1>1 DEF Isdu, Segment, Owed, Underway, Ends, Outs

\* So has what confirms more than it, but no ISDU.
LEMMA MoreEnds == ASSUME NEW x, NEW y, NEW kinds, Typed(x), IsduPart(y) = IsduPart(x),
                         MayConfirm(x, y, kinds), "isdu" \notin kinds
  PROVE (Ends(x) => Ends(y)) /\ (Silent(x) => Silent(y))
<1>1. \A c \in Outs(y) : c \in Outs(x) \/ c.kind # "isdu"
  <2>1. CASE y.out = x.out
    BY <2>1 DEF Outs
  <2>2. ASSUME NEW c, c.kind \in kinds, y.out = Append(x.out, c)
        PROVE  \A d \in Outs(y) : d \in Outs(x) \/ d.kind # "isdu"
    <3>1. Outs(y) = Outs(x) \cup {c}
      BY <2>2, OneMore
    <3>2. QED
      BY <2>2, <3>1
  <2>3. QED
    BY <2>1, <2>2 DEF MayConfirm
<1>2. y.is = x.is /\ y.rw = x.rw /\ y.job = x.job
  BY DEF IsduPart
<1>3. QED
  BY <1>1, <1>2 DEF Ends, Silent

-----------------------------------------------------------------------------
(* The steps of the OD handler.                                             *)

\* The trigger is the only thing its caller sets.
LEMMA Triggered == ASSUME NEW x, NEW t \in {"DEVICE", "MASTER"}, Typed(x)
  PROVE LET z == [x EXCEPT !.trig = t] IN
        /\ Typed(z) /\ IsduPart(z) = IsduPart(x) /\ Given(z) = Given(x) /\ z.trig = t
        /\ z.tx = x.tx /\ z.out = x.out
BY DEF Typed, Fields, IsduPart, Given

\* A handler that is not the ISDU handler took the step, or none did.
Elsewhere(x, y) ==
  /\ Typed(y) /\ IsduPart(y) = IsduPart(x) /\ Given(y) = Given(x)
  /\ y.tx = x.tx \/ y.tx.kind \in {"Cmd", "EvRead", "EvConf"}
  /\ MayConfirm(x, y, {"mode", "event"})

\* A trigger is a step of one of the handlers.
LEMMA StepOf == ASSUME NEW x, NEW t \in {"DEVICE", "MASTER"}, NEW r, Typed(x)
  PROVE LET y == Trigger(x, t, r)
            z == [x EXCEPT !.trig = t] IN
        /\ Elsewhere(x, y) \/ (x.od = "Isdu" /\ x.act /\ Like(y, IsduHandler(z, r)))
        /\ y.trig \in {t, "NONE"}
<1> DEFINE y == Trigger(x, t, r)
           z == [x EXCEPT !.trig = t]
<1>1. /\ Typed(z) /\ IsduPart(z) = IsduPart(x) /\ Given(z) = Given(x) /\ z.trig = t
      /\ z.tx = x.tx /\ z.out = x.out
  BY Triggered
<1>2. z.od = x.od /\ z.act = x.act
  BY DEF Typed, Fields
<1>3. y = OdHandler(z, r)
  BY DEF Trigger
<1> HIDE DEF y, z
<1>4. /\ y.trig \in {z.trig, "NONE"}
      /\ \/ Like(y, z) \/ Like(y, CmdHandler(z))
         \/ z.od = "Isdu" /\ z.act /\ Like(y, IsduHandler(z, r))
         \/ Like(y, EvHandler(z, r)) \/ Like(y, WriteMasterCommand(z, "OK"))
  BY <1>1, <1>3, OdDoes
<1>5. \A w : MayConfirm(z, w, {"mode"}) \/ MayConfirm(z, w, {"event"}) \/ w.out = z.out
             => MayConfirm(x, w, {"mode", "event"})
  BY <1>1 DEF MayConfirm
<1>6. ASSUME NEW w, Like(y, w), IsduPart(w) = IsduPart(z), Given(w) = Given(z),
             w.tx = z.tx \/ w.tx.kind \in {"Cmd", "EvRead", "EvConf"},
             MayConfirm(x, w, {"mode", "event"})
      PROVE  Elsewhere(x, y)
  BY <1>1, <1>6 DEF Elsewhere, Like, MayConfirm
<1>7. ASSUME Like(y, z) PROVE Elsewhere(x, y)
  BY <1>1, <1>4, <1>5, <1>6, <1>7
<1>8. ASSUME Like(y, CmdHandler(z)) PROVE Elsewhere(x, y)
  <2> DEFINE w == CmdHandler(z)
  <2>1. /\ IsduPart(w) = IsduPart(z) /\ Given(w) = Given(z) /\ w.out = z.out
        /\ w.tx = z.tx \/ w.tx = Msg("Cmd", 0, z.mcmd)
    BY <1>1, CmdDoes
  <2> HIDE DEF w
  <2>2. w.tx = z.tx \/ w.tx.kind = "Cmd"
    BY <2>1 DEF Msg
  <2>3. QED
    BY <1>1, <1>4, <1>5, <1>6, <1>8, <2>1, <2>2 DEF w
<1>9. ASSUME Like(y, EvHandler(z, r)) PROVE Elsewhere(x, y)
  <2> DEFINE w == EvHandler(z, r)
  <2>1. /\ IsduPart(w) = IsduPart(z) /\ Given(w) = Given(z)
        /\ w.tx = z.tx \/ w.tx.kind \in {"EvRead", "EvConf"}
        /\ MayConfirm(z, w, {"event"})
    BY <1>1, EvDoes
  <2> HIDE DEF w
  <2>2. QED
    BY <1>1, <1>4, <1>5, <1>6, <1>9, <2>1 DEF w
<1>10. ASSUME Like(y, WriteMasterCommand(z, "OK")) PROVE Elsewhere(x, y)
  <2> DEFINE w == WriteMasterCommand(z, "OK")
  <2>1. IsduPart(w) = IsduPart(z) /\ Given(w) = Given(z) /\ w.tx = z.tx /\ MayConfirm(z, w, {"mode"})
    BY <1>1, WriteDoes
  <2> HIDE DEF w
  <2>2. QED
    BY <1>1, <1>4, <1>5, <1>6, <1>10, <2>1 DEF w
<1>11. QED
  BY <1>1, <1>2, <1>4, <1>7, <1>8, <1>9, <1>10 DEF y, z

\* After an answer.
LEMMA DeviceStep == ASSUME NEW x, NEW m, NEW r, Typed(x), x.out = <<>>, Isdu(x, m, r), x.act,
                           x.is # "Inactive", IsGood(r)
  PROVE LET y == Trigger(x, "DEVICE", r) IN
        /\ Typed(y) /\ Given(y) = Given(x) /\ y.job = x.job
        /\ Isdu(y, m, r) /\ Ends(y) /\ y.is # "Inactive" /\ (y.is = "Request" => Held(y.job))
        /\ x.is \notin Active => y.is \notin Active
        /\ y.tx = x.tx \/ y.tx.kind \notin {"Seg", "Get"}
<1> DEFINE y == Trigger(x, "DEVICE", r)
           z == [x EXCEPT !.trig = "DEVICE"]
<1>1. Elsewhere(x, y) \/ Like(y, IsduHandler(z, r))
  BY StepOf
<1>2. /\ Typed(z) /\ IsduPart(z) = IsduPart(x) /\ Given(z) = Given(x) /\ z.trig = "DEVICE"
      /\ z.tx = x.tx /\ z.out = <<>>
  BY Triggered
<1>3. Ends(x) /\ Silent(x)
  BY DEF Ends, Silent, Outs
<1> HIDE DEF y, z
<1>4. CASE Elsewhere(x, y)
  <2>1. /\ Typed(y) /\ IsduPart(y) = IsduPart(x) /\ Given(y) = Given(x)
        /\ y.tx = x.tx \/ y.tx.kind \in {"Cmd", "EvRead", "EvConf"}
        /\ MayConfirm(x, y, {"mode", "event"})
    BY <1>4 DEF Elsewhere
  <2>2. Isdu(y, m, r) /\ y.is = x.is /\ y.job = x.job
    BY <2>1, SameIsdu
  <2>3. Ends(y)
    BY <1>3, <2>1, MoreEnds
  <2>4. y.is = "Request" => Held(y.job)
    BY <2>2 DEF Isdu, Underway
  <2>5. QED
    BY <2>1, <2>2, <2>3, <2>4 DEF y
<1>5. CASE Like(y, IsduHandler(z, r))
  <2> DEFINE w == IsduHandler(z, r)
  <2>1. z.is = x.is /\ z.job = x.job /\ Isdu(z, m, r) /\ z.act
    BY <1>2, SameIsdu DEF Given
  <2>2. /\ Isdu(w, m, r) /\ Ends(w) /\ w.is # "Inactive" /\ (w.is = "Request" => Held(w.job))
        /\ z.is \notin Active => w.is \notin Active
        /\ w.tx = z.tx \/ w.tx.kind = "Abort"
    BY <1>2, <2>1, IsduDevice
  <2>3. w.job = z.job /\ Given(w) = Given(z)
    BY <1>2, JobKept, IsduDoes DEF IsduKeeps
  <2> HIDE DEF w
  <2>4. Typed(y) /\ IsduPart(y) = IsduPart(w) /\ Given(y) = Given(w) /\ y.tx = w.tx /\ y.out = w.out
    BY <1>5 DEF Like, w
  <2>5. Isdu(y, m, r) /\ y.is = w.is /\ y.job = w.job /\ Ends(y)
    BY <2>2, <2>4, SameIsdu
  <2>6. QED
    BY <1>2, <2>1, <2>2, <2>3, <2>4, <2>5 DEF y
<1>6. QED
  BY <1>1, <1>4, <1>5

\* Before the next message, which is what is left in tx.
LEMMA MasterStep == ASSUME NEW x, NEW m, NEW r, Typed(x), x.out = <<>>, Isdu(x, m, r), x.act,
                           x.is # "Inactive", x.is = "Request" => Held(x.job),
                           x.tx.kind \in {"Seg", "Get"} => m = x.tx
  PROVE LET y == Trigger(x, "MASTER", r) IN
        /\ Typed(y) /\ Given(y) = Given(x) /\ y.job = x.job
        /\ Isdu(y, y.tx, NoRx) /\ Ends(y) /\ y.is # "Inactive" /\ y.trig # "DEVICE"
        /\ x.rw # "isdu" /\ x.is \notin Active => y.is \notin Active
<1> DEFINE y == Trigger(x, "MASTER", r)
           z == [x EXCEPT !.trig = "MASTER"]
<1>1. (Elsewhere(x, y) \/ Like(y, IsduHandler(z, r))) /\ y.trig \in {"MASTER", "NONE"}
  BY StepOf
<1>2. /\ Typed(z) /\ IsduPart(z) = IsduPart(x) /\ Given(z) = Given(x) /\ z.trig = "MASTER"
      /\ z.tx = x.tx /\ z.out = <<>>
  BY Triggered
<1>3. Ends(x) /\ Silent(x)
  BY DEF Ends, Silent, Outs
<1> HIDE DEF y, z
<1>4. CASE Elsewhere(x, y)
  <2>1. /\ Typed(y) /\ IsduPart(y) = IsduPart(x) /\ Given(y) = Given(x)
        /\ y.tx = x.tx \/ y.tx.kind \in {"Cmd", "EvRead", "EvConf"}
        /\ MayConfirm(x, y, {"mode", "event"})
    BY <1>4 DEF Elsewhere
  <2>2. Isdu(y, m, r) /\ y.is = x.is /\ y.job = x.job
    BY <2>1, SameIsdu
  <2>3. Ends(y)
    BY <1>3, <2>1, MoreEnds
  <2>4. y.tx = m \/ y.tx.kind \notin {"Seg", "Get"}
    BY <2>1
  <2>5. NoRx.what # "seg"
    BY DEF NoRx
  <2>6. y.is = "Request" => Held(y.job) /\ m.kind # "Get"
    BY <2>2 DEF Isdu, Underway
  <2>7. Isdu(y, y.tx, NoRx)
    BY <2>2, <2>4, <2>5, <2>6 DEF Isdu, Segment, Owed, Underway
  <2>8. QED
    BY <1>1, <2>1, <2>2, <2>3, <2>7 DEF y
<1>5. CASE Like(y, IsduHandler(z, r))
  <2> DEFINE w == IsduHandler(z, r)
  <2>1. z.is = x.is /\ z.job = x.job /\ z.rw = x.rw /\ Isdu(z, m, r) /\ z.act
    BY <1>2, SameIsdu DEF Given
  <2>2. /\ Isdu(w, w.tx, NoRx) /\ Ends(w) /\ w.is # "Inactive"
        /\ z.rw # "isdu" /\ z.is \notin Active => w.is \notin Active
    BY <1>2, <2>1, IsduMaster
  <2>3. w.job = z.job /\ Given(w) = Given(z)
    BY <1>2, JobKept, IsduDoes DEF IsduKeeps
  <2> HIDE DEF w
  <2>4. Typed(y) /\ IsduPart(y) = IsduPart(w) /\ Given(y) = Given(w) /\ y.tx = w.tx /\ y.out = w.out
    BY <1>5 DEF Like, w
  <2>5. Isdu(y, y.tx, NoRx) /\ y.is = w.is /\ y.job = w.job /\ Ends(y)
    BY <2>2, <2>4, SameIsdu
  <2>6. QED
    BY <1>1, <1>2, <2>1, <2>2, <2>3, <2>4, <2>5 DEF y
<1>6. QED
  BY <1>1, <1>4, <1>5

\* When the handlers are activated and deactivated the ISDU handler runs without an answer.
LEMMA IsduAside == ASSUME NEW x, NEW m, NEW r, NEW q, Typed(x), Silent(x), Isdu(x, m, r),
                          x.is \in Active => x.trig # "DEVICE",
                          x.act => x.rw = "none" /\ x.is # "Idle"
  PROVE LET y == IsduHandler(x, q) IN
        /\ Isdu(y, m, r) /\ Ends(y)
        /\ x.is \notin Active => y.is \notin Active
        /\ IF x.act THEN y.is # "Inactive" ELSE y.is \notin {"Idle", "Error"}
<1> DEFINE y == IsduHandler(x, q)
           res == /\ Isdu(y, m, r) /\ Ends(y)
                  /\ x.is \notin Active => y.is \notin Active
                  /\ IF x.act THEN y.is # "Inactive" ELSE y.is \notin {"Idle", "Error"}
<1>0. \A z : z.out = x.out => Outs(z) = Outs(x)
  BY DEF Outs
<1>1. \A z : Outs(z) = Outs(x) => Ends(z) /\ Silent(z)
  BY DEF Ends, Silent
<1>2. ASSUME y = EnterError(x) \/ (y = IsduError(x) /\ x.is = "Error"), x.is \in Active PROVE res
  <2>1. CASE x.act /\ y = IsduError(x)
    <3>1. Isdu(IsduError(x), m, r) /\ Ends(IsduError(x)) /\ IsduError(x).is = "Idle"
      BY <1>2, <2>1, ErrorEnds
    <3> HIDE DEF y
    <3>2. QED
      BY <1>2, <2>1, <3>1
  <2>2. CASE x.act /\ y = EnterError(x)
    <3>1. CASE x.trig = "MASTER"
      <4>1. y = IsduError(x)
        BY <2>2, <3>1 DEF EnterError
      <4> HIDE DEF y
      <4>2. QED
        BY <2>1, <2>2, <4>1 DEF y
    <3>2. CASE x.trig # "MASTER"
      <4>1. Isdu(EnterError(x), m, r) /\ Ends(EnterError(x)) /\ EnterError(x).is = "Error"
        BY <1>2, <2>2, <3>2, ErrorEnds
      <4> HIDE DEF y
      <4>2. QED
        BY <1>2, <2>2, <4>1
    <3>3. QED
      BY <3>1, <3>2
  <2>3. CASE ~x.act /\ y = EnterError(x)
    <3>1. Isdu(EnterError(x), m, r) /\ Ends(EnterError(x)) /\ EnterError(x).is = "Inactive"
      BY <1>2, <2>3, ErrorEnds
    <3> HIDE DEF y
    <3>2. QED
      BY <1>2, <2>3, <3>1
  <2>4. CASE ~x.act /\ y = IsduError(x) /\ x.is = "Error"
    <3>1. y = [x EXCEPT !.is = "Inactive"]
      BY <2>4 DEF IsduError
    <3>2. y.is = "Inactive" /\ y.rw = x.rw /\ y.job = x.job /\ Outs(y) = Outs(x)
      BY <3>1 DEF Typed, Fields, Outs
    <3> HIDE DEF y
    <3>3. QED
      BY <1>1, <1>2, <2>4, <3>2 DEF Isdu, Segment, Owed, Underway, Active
  <2>5. QED
    BY <1>2, <2>1, <2>2, <2>3, <2>4 DEF Typed
<1>3. CASE x.is = "Inactive"
  <2>1. \/ x.act /\ y = [x EXCEPT !.tot = 0, !.seg = 0, !.is = "Idle"]
        \/ ~x.act /\ y = x
    BY <1>3 DEF IsduHandler
  <2>2. /\ y.rw = x.rw /\ y.job = x.job /\ y.out = x.out
        /\ y.is = IF x.act THEN "Idle" ELSE "Inactive"
    BY <1>3, <2>1 DEF Typed, Fields
  <2> HIDE DEF y
  <2>4. Outs(y) = Outs(x)
    BY <1>0, <2>2
  <2>3. QED
    BY <1>1, <1>3, <2>2, <2>4 DEF Isdu, Segment, Owed, Underway, Active, y
<1>4. CASE x.is = "Idle"
  <2> DEFINE c == Cnf("isdu", "ERR", 0)
             w == IF x.tot # 0 THEN Confirm(x, c) ELSE x
  <2>1. ~x.act /\ y = [w EXCEPT !.tot = 0, !.is = "Inactive"]
    BY <1>4 DEF IsduHandler, IsduIdle
  <2>2. /\ y.is = "Inactive" /\ y.rw = x.rw /\ y.job = x.job
        /\ y.out = x.out \/ y.out = Append(x.out, c)
    BY <2>1 DEF Typed, Fields, Confirm
  <2> HIDE DEF y
  <2>3. \A d \in Outs(y) : d \in Outs(x) \/ d = c
    BY <2>2, OneMore DEF Outs
  <2>4. c.stat = "ERR"
    BY DEF Cnf
  <2> HIDE DEF c
  <2>5. Ends(y)
    BY <2>2, <2>3, <2>4 DEF Ends, Silent, Active
  <2>6. QED
    BY <1>4, <2>1, <2>2, <2>5 DEF Isdu, Segment, Owed, Underway, Active, y
<1>5. CASE x.is \in {"Request", "Wait", "Response"}
  <2>1. x.trig \in {"NONE", "MASTER"} /\ x.is \in Active
    BY <1>5 DEF Typed, Active
  <2>2. \/ y = EnterError(x) \/ y = x
        \/ x.is = "Request" /\ y = [Send(x, Msg("Seg", x.seg, x.job)) EXCEPT !.seg = @ + 1]
        \/ x.is # "Request" /\ \E a : y = Send(x, Msg("Get", a, 0))
    BY <1>5, <2>1 DEF IsduHandler, IsduRequest, IsduWait, IsduResponse
  <2>3. CASE y = EnterError(x)
    BY <1>2, <2>1, <2>3
  <2>4. ASSUME y # EnterError(x) PROVE res
    <3>1. /\ y.is = x.is /\ y.rw = x.rw /\ y.job = x.job /\ y.buf = x.buf /\ y.tot = x.tot
          /\ y.out = x.out
          /\ y.seg = x.seg \/ (x.is = "Request" /\ y.seg = x.seg + 1)
      BY <2>2, <2>4 DEF Send, Typed, Fields
    <3> HIDE DEF y
    <3>2. Outs(y) = Outs(x)
      BY <1>0, <3>1
    <3>3. x.seg \in Nat
      BY DEF Typed
    <3>4. Isdu(y, m, r)
      BY <1>5, <3>1, <3>3 DEF Isdu, Segment, Owed, Underway
    <3>5. QED
      BY <1>1, <1>5, <3>1, <3>2, <3>4 DEF Active, y
  <2>5. QED
    BY <2>3, <2>4
<1>6. CASE x.is = "Error"
  <2>1. y = IsduError(x)
    BY <1>6 DEF IsduHandler
  <2>2. QED
    BY <1>2, <1>6, <2>1 DEF Active
<1>7. QED
  BY <1>3, <1>4, <1>5, <1>6 DEF Typed

\* The parameters STARTUP leaves, and the handlers' activation.
LEMMA Ups == ASSUME NEW x, NEW m, NEW r, Typed(x), x.out = <<>>, Isdu(x, m, r), ~x.act,
                    x.is \notin {"Idle", "Error"}, x.is \in Active => x.trig # "DEVICE",
                    x.od \in {"Inactive", "Command"}
  PROVE LET y == Activated(x) IN
        /\ Typed(y) /\ y.act /\ y.ch /\ y.job = x.job /\ Isdu(y, m, r) /\ Ends(y)
        /\ y.is # "Inactive"
<1> DEFINE x1 == [x EXCEPT !.ch = TRUE, !.rw = "none"]
           c  == CmdHandler(x1)
           c1 == [c EXCEPT !.act = TRUE]
           o  == OdHandler(c1, NoRx)
           i  == IsduHandler(o, NoRx)
           y  == EvHandler(i, NoRx)
<1>1. /\ Typed(x1) /\ x1.is = x.is /\ x1.rw = "none" /\ x1.job = x.job /\ x1.ch
      /\ x1.out = <<>> /\ x1.od = x.od /\ x1.trig = x.trig
  BY DEF Typed, Fields
<1>2. Isdu(x1, m, r)
  BY DEF Isdu, Segment, Owed, Underway, Typed, Fields
<1> HIDE DEF x1
<1>3. /\ Typed(c) /\ IsduPart(c) = IsduPart(x1) /\ Given(c) = Given(x1) /\ OdPart(c) = OdPart(x1)
      /\ c.out = <<>>
  BY <1>1, CmdDoes
<1> HIDE DEF c
<1>4. /\ Typed(c1) /\ IsduPart(c1) = IsduPart(x1) /\ c1.act /\ c1.ch /\ OdPart(c1) = OdPart(x1)
      /\ c1.out = <<>>
  BY <1>1, <1>3 DEF Typed, Fields, IsduPart, Given, OdPart
<1> HIDE DEF c1
<1>5. c1.od = x.od /\ c1.trig = x.trig
  BY <1>1, <1>4 DEF OdPart
<1>6. /\ o.trig \in {c1.trig, "NONE"}
      /\ Like(o, c1) \/ Like(o, CmdHandler(c1)) \/ Like(o, WriteMasterCommand(c1, "OK"))
  BY <1>4, <1>5, OdDoes
<1>7. Typed(o) /\ IsduPart(o) = IsduPart(c1) /\ Given(o) = Given(c1) /\ MayConfirm(c1, o, {"mode"})
  <2>1. IsduPart(CmdHandler(c1)) = IsduPart(c1) /\ Given(CmdHandler(c1)) = Given(c1)
        /\ CmdHandler(c1).out = c1.out
    BY <1>4, CmdDoes
  <2>2. /\ IsduPart(WriteMasterCommand(c1, "OK")) = IsduPart(c1)
        /\ Given(WriteMasterCommand(c1, "OK")) = Given(c1)
        /\ MayConfirm(c1, WriteMasterCommand(c1, "OK"), {"mode"})
    BY <1>4, WriteDoes
  <2> HIDE DEF o
  <2>3. QED
    BY <1>6, <2>1, <2>2 DEF Like, MayConfirm
<1> HIDE DEF o
<1>8. Silent(c1)
  BY <1>4 DEF Silent, Outs
<1>9. Silent(o)
  BY <1>4, <1>7, <1>8, MoreEnds
<1>10. /\ o.is = x.is /\ o.rw = "none" /\ o.job = x.job /\ Isdu(o, m, r)
  <2>1. IsduPart(o) = IsduPart(x1)
    BY <1>4, <1>7
  <2>2. QED
    BY <1>1, <1>2, <2>1, SameIsdu
<1>11. o.act /\ o.ch
  BY <1>4, <1>7 DEF Given
<1>12. o.is \in Active => o.trig # "DEVICE"
  BY <1>5, <1>6, <1>10
<1>13. Isdu(i, m, r) /\ Ends(i) /\ i.is # "Inactive"
  BY <1>7, <1>9, <1>10, <1>11, <1>12, IsduAside
<1>14. Typed(i) /\ Given(i) = Given(o) /\ i.job = o.job
  BY <1>7, IsduDoes, JobKept DEF IsduKeeps
<1> HIDE DEF i
<1>15. Typed(y) /\ IsduPart(y) = IsduPart(i) /\ Given(y) = Given(i) /\ MayConfirm(i, y, {"event"})
  BY <1>14, EvDoes
<1>16. y = Activated(x)
  BY DEF Activated, y, i, o, c1, c, x1
<1> HIDE DEF y
<1>17. Isdu(y, m, r) /\ y.is = i.is /\ y.job = i.job
  BY <1>13, <1>15, SameIsdu
<1>18. Ends(y)
  BY <1>13, <1>14, <1>15, MoreEnds
<1>19. y.act /\ y.ch
  BY <1>11, <1>14, <1>15 DEF Given
<1>20. QED
  BY <1>10, <1>13, <1>14, <1>15, <1>16, <1>17, <1>18, <1>19

\* The handlers' deactivation, whatever they were at.
LEMMA Downs == ASSUME NEW x, NEW m, NEW r, Typed(x), x.out = <<>>, Isdu(x, m, r),
                      x.is \in Active => x.trig # "DEVICE"
  PROVE LET y == Deactivated(x) IN
        /\ Typed(y) /\ ~y.act /\ ~y.ch /\ y.job = x.job /\ Isdu(y, m, r) /\ Ends(y)
        /\ y.is \notin {"Idle", "Error"} /\ (x.is \notin Active => y.is \notin Active)
        /\ y.od \in {"Inactive", "Command"} /\ y.trig \in {x.trig, "NONE"}
<1> DEFINE x1 == [x EXCEPT !.act = FALSE]
           o  == OdHandler(x1, rx)
           i  == IsduHandler(o, rx)
           e  == EvHandler(i, rx)
           e1 == [e EXCEPT !.ch = FALSE]
           y  == CmdHandler(e1)
<1>1. /\ Typed(x1) /\ IsduPart(x1) = IsduPart(x) /\ ~x1.act /\ x1.out = <<>> /\ OdPart(x1) = OdPart(x)
  BY DEF Typed, Fields, IsduPart, OdPart
<1>2. o.od \in {"Inactive", "Command"}
  BY <1>1 DEF OdHandler, OdIsdu, OdCommand, OdEvent, Typed, Fields
<1> HIDE DEF x1
<1>3. o.trig \in {x1.trig, "NONE"} /\ Like(o, x1)
  BY <1>1, OdDoes
<1> HIDE DEF o
<1>4. Typed(o) /\ IsduPart(o) = IsduPart(x) /\ ~o.act /\ o.out = <<>> /\ o.trig \in {x.trig, "NONE"}
  BY <1>1, <1>3 DEF Like, Given, OdPart
<1>5. o.is = x.is /\ o.job = x.job /\ Isdu(o, m, r) /\ Silent(o)
  BY <1>4, SameIsdu DEF Silent, Outs
<1>6. /\ Isdu(i, m, r) /\ Ends(i) /\ i.is \notin {"Idle", "Error"}
      /\ o.is \notin Active => i.is \notin Active
  BY <1>4, <1>5, IsduAside
<1>7. Typed(i) /\ Given(i) = Given(o) /\ OdPart(i) = OdPart(o) /\ i.job = o.job
  BY <1>4, IsduDoes, JobKept DEF IsduKeeps
<1> HIDE DEF i
<1>8. Typed(e) /\ IsduPart(e) = IsduPart(i) /\ Given(e) = Given(i) /\ OdPart(e) = OdPart(i)
      /\ MayConfirm(i, e, {"event"})
  BY <1>7, EvDoes
<1> HIDE DEF e
<1>9. Isdu(e, m, r) /\ e.is = i.is /\ e.job = i.job
  BY <1>6, <1>8, SameIsdu
<1>10. Ends(e)
  BY <1>6, <1>7, <1>8, MoreEnds
<1>11. Typed(e1) /\ IsduPart(e1) = IsduPart(e) /\ ~e1.ch /\ e1.act = e.act /\ OdPart(e1) = OdPart(e)
       /\ e1.out = e.out
  BY <1>8 DEF Typed, Fields, IsduPart, OdPart
<1> HIDE DEF e1
<1>12. Typed(y) /\ IsduPart(y) = IsduPart(e1) /\ Given(y) = Given(e1) /\ OdPart(y) = OdPart(e1)
       /\ y.out = e1.out
  BY <1>11, CmdDoes
<1>13. y = Deactivated(x)
  BY DEF Deactivated, y, e1, e, i, o, x1
<1> HIDE DEF y
<1>14. Isdu(y, m, r) /\ y.is = i.is /\ y.job = i.job /\ Ends(y)
  <2>1. IsduPart(y) = IsduPart(e) /\ y.out = e.out
    BY <1>11, <1>12
  <2>2. QED
    BY <1>9, <1>10, <2>1, SameIsdu
<1>15. ~y.act /\ ~y.ch
  BY <1>4, <1>7, <1>8, <1>11, <1>12 DEF Given
<1>16. y.od = o.od /\ y.trig = o.trig
  BY <1>7, <1>8, <1>11, <1>12 DEF OdPart
<1>17. QED
  BY <1>2, <1>4, <1>5, <1>6, <1>7, <1>12, <1>13, <1>14, <1>15, <1>16

-----------------------------------------------------------------------------
(* The device and its requests.                                             *)

DeviceFields == {"st", "segs", "done", "par", "mcmd", "ev", "cleared"}

\* What the device holds are the segments of one request, new until it has all of them.
DeviceOK ==
  /\ DOMAIN dev = DeviceFields /\ dev.st \in {"Idle", "Rx", "Work", "Tx"}
  /\ dev.segs \in Seq(Nat) /\ dev.done \in Seq(Seq(Nat))
  /\ dev.st # "Idle" => /\ Len(dev.segs) \in 1..ReqSegs /\ dev.segs[1] \in 1..h.job
                        /\ \A k \in 1..Len(dev.segs) : dev.segs[k] = dev.segs[1]
  /\ dev.st = "Rx" => Len(dev.segs) < ReqSegs /\ Older(dev.segs[1])
  /\ dev.st \in {"Work", "Tx"} => Len(dev.segs) = ReqSegs /\ Processed(dev.segs[1])
  /\ \A i \in DOMAIN dev.done : dev.done[i][1] \in 1..h.job
  /\ AtMostOnce

\* A request the device has taken whole is appended to those it has processed.
LEMMA DoneAppended == ASSUME DeviceOK, NEW s \in Seq(Nat), Len(s) = ReqSegs, Older(s[1]),
                             \A k \in 1..ReqSegs : s[k] = s[1], s[1] \in 1..h.job, UNCHANGED h,
                             dev'.done = Append(dev.done, s)
  PROVE /\ dev'.done \in Seq(Seq(Nat)) /\ AtMostOnce'
        /\ \A i \in DOMAIN dev'.done : dev'.done[i][1] \in 1..h'.job
        /\ Processed(s[1])' /\ (\A j : Processed(j) => Processed(j)')
        /\ \A j \in Nat : Older(j) /\ s[1] < j => Older(j)'
<1>0. ReqSegs \in Nat \ {0} /\ s[1] \in Nat
  BY SegmentsAssumption
<1> DEFINE n == Len(dev.done)
<1>1. /\ n \in Nat /\ DOMAIN dev.done = 1..n /\ DOMAIN dev'.done = 1..(n + 1)
      /\ \A i \in 1..n : dev'.done[i] = dev.done[i]
      /\ dev'.done[n + 1] = s /\ dev'.done \in Seq(Seq(Nat))
  BY DEF DeviceOK
<1>2. \A i \in 1..(n + 1) : i \in 1..n \/ i = n + 1
  BY <1>1
<1>3. AtMostOnce'
  <2>1. ASSUME NEW i \in 1..(n + 1), NEW k \in 1..ReqSegs PROVE dev'.done[i][k] = dev'.done[i][1]
    BY <1>1, <1>2 DEF DeviceOK, AtMostOnce
  <2>2. ASSUME NEW i \in 1..(n + 1), NEW j \in 1..(n + 1), i < j PROVE dev'.done[i][1] < dev'.done[j][1]
    <3>1. CASE j \in 1..n
      <4>1. i \in 1..n
        BY <1>1, <2>2, <3>1
      <4>2. QED
        BY <1>1, <2>2, <3>1, <4>1 DEF DeviceOK, AtMostOnce
    <3>2. CASE j = n + 1
      <4>1. i \in 1..n
        BY <1>1, <2>2, <3>2
      <4>2. QED
        BY <1>1, <3>2, <4>1 DEF Older
    <3>3. QED
      BY <1>2, <3>1, <3>2
  <2>3. QED
    BY <1>1, <2>1, <2>2 DEF AtMostOnce
<1>4. \A i \in DOMAIN dev'.done : dev'.done[i][1] \in 1..h'.job
  BY <1>1, <1>2 DEF DeviceOK
<1>5. Processed(s[1])' /\ (\A j : Processed(j) => Processed(j)')
  <2>1. n + 1 \in 1..(n + 1) /\ \A i \in 1..n : i \in 1..(n + 1)
    BY <1>1
  <2>2. QED
    BY <1>1, <2>1 DEF Processed
<1>6. \A j \in Nat : Older(j) /\ s[1] < j => Older(j)'
  BY <1>1, <1>2 DEF Older
<1>7. QED
  BY <1>1, <1>3, <1>4, <1>5, <1>6

\* A segment of the request.
LEMMA SegmentTaken == ASSUME DeviceOK, Typed(h), Segment(h, chip), chip.kind = "Seg",
                             UNCHANGED <<h, chip>>, dev' = TakeSegment(dev, chip)
  PROVE /\ DeviceOK' /\ (dev'.st # "Idle" => dev'.segs[1] = chip.arg)
        /\ chip.at = 0 => \/ Older(chip.arg)'
                          \/ dev'.st # "Idle" /\ Len(dev'.segs) = 1
        /\ \A j : Processed(j) => Processed(j)'
        /\ \A j \in Nat : Older(j) /\ chip.arg < j => Older(j)'
<1> DEFINE m == chip
           segs == IF m.at = 0 THEN <<m.arg>>
                   ELSE IF m.at = Len(dev.segs) THEN Append(dev.segs, m.arg) ELSE dev.segs
           begun == m.at = 0 \/ (dev.st = "Rx" /\ m.at = Len(dev.segs))
           again == dev.st # "Idle" /\ m.at = Len(dev.segs) - 1 /\ dev.segs[m.at + 1] = m.arg
<1>0. ReqSegs \in Nat \ {0} /\ h.job \in Nat /\ m.at \in Nat /\ m.arg \in 1..h.job
  BY SegmentsAssumption DEF Segment, Typed
<1>1. dev' = IF again THEN dev
             ELSE IF ~begun THEN [dev EXCEPT !.st = "Idle"]
             ELSE IF Len(segs) < ReqSegs THEN [dev EXCEPT !.st = "Rx", !.segs = segs]
             ELSE [dev EXCEPT !.st = "Work", !.segs = segs, !.done = Append(@, segs)]
  BY DEF TakeSegment
<1>2. CASE again
  <2>1. dev' = dev
    BY <1>1, <1>2
  <2>2. DeviceOK' /\ (\A j : Processed(j) => Processed(j)') /\ \A j : Older(j) => Older(j)'
    BY <2>1 DEF DeviceOK, Older, Processed, AtMostOnce
  <2>3. Len(dev.segs) \in 1..ReqSegs /\ dev.segs[1] = m.arg
    <3>1. Len(dev.segs) \in 1..ReqSegs /\ \A k \in 1..Len(dev.segs) : dev.segs[k] = dev.segs[1]
      BY <1>2 DEF DeviceOK
    <3>2. m.at + 1 \in 1..Len(dev.segs)
      BY <1>0, <1>2, <3>1
    <3>3. QED
      BY <1>2, <3>1, <3>2
  <2>4. m.at = 0 => Len(dev.segs) = 1
    <3>1. dev.segs \in Seq(Nat) /\ m.at = Len(dev.segs) - 1
      BY <1>2 DEF DeviceOK
    <3>2. PICK n : n = Len(dev.segs)
      OBVIOUS
    <3>3. n \in Nat /\ m.at = n - 1
      BY <3>1, <3>2
    <3>4. m.at = 0 => n = 1
      BY <1>0, <3>3
    <3>5. QED
      BY <3>2, <3>4
  <2>5. QED
    BY <1>2, <2>1, <2>2, <2>3, <2>4
<1>3. CASE ~again /\ ~begun
  <2>1. dev' = [dev EXCEPT !.st = "Idle"] /\ m.at # 0
    BY <1>1, <1>3
  <2>2. dev'.st = "Idle" /\ dev'.segs = dev.segs /\ dev'.done = dev.done /\ DOMAIN dev' = DeviceFields
    BY <2>1 DEF DeviceOK, DeviceFields
  <2>3. QED
    BY <2>1, <2>2 DEF DeviceOK, Older, Processed, AtMostOnce
<1>4. CASE ~again /\ begun
  <2>1. /\ segs \in Seq(Nat) /\ Len(segs) = m.at + 1 /\ segs[1] = m.arg
        /\ \A k \in 1..Len(segs) : segs[k] = segs[1]
        /\ m.at < ReqSegs /\ Older(m.arg)
    <3>1. CASE m.at = 0
      <4>1. segs = <<m.arg>>
        BY <3>1
      <4>2. Older(m.arg)
        BY <1>4, <3>1 DEF Segment
      <4> HIDE DEF segs
      <4>3. QED
        BY <1>0, <3>1, <4>1, <4>2
    <3>2. CASE m.at # 0
      <4>1. /\ segs = Append(dev.segs, m.arg) /\ dev.st = "Rx" /\ m.at = Len(dev.segs)
        BY <1>4, <3>2
      <4>2. dev.segs[1] = m.arg
        BY <1>0, <3>2, <4>1 DEF Segment
      <4>3. /\ dev.segs \in Seq(Nat) /\ Len(dev.segs) \in 1..ReqSegs /\ Len(dev.segs) < ReqSegs
            /\ \A k \in 1..Len(dev.segs) : dev.segs[k] = dev.segs[1]
            /\ Older(m.arg)
        BY <4>1, <4>2 DEF DeviceOK
      <4> HIDE DEF segs
      <4>4. QED
        BY <1>0, <4>1, <4>2, <4>3
    <3>3. QED
      BY <3>1, <3>2
  <2> HIDE DEF segs, begun, again
  <2>5. PICK s : s = segs
    OBVIOUS
  <2>2. CASE Len(s) < ReqSegs
    <3>1. dev' = [dev EXCEPT !.st = "Rx", !.segs = s]
      BY <1>1, <1>4, <2>2, <2>5
    <3>2. dev'.st = "Rx" /\ dev'.segs = s /\ dev'.done = dev.done /\ DOMAIN dev' = DeviceFields
      BY <3>1 DEF DeviceOK, DeviceFields
    <3>3. \A j : (Processed(j) => Processed(j)') /\ (Older(j) => Older(j)')
      BY <3>2 DEF Processed, Older
    <3>4. Len(s) \in 1..ReqSegs
      BY <1>0, <2>1, <2>2, <2>5
    <3>7. Older(s[1])'
      BY <2>1, <2>5, <3>3
    <3>8. Older(dev.segs[1])'
      BY <3>2, <3>7 DEF Older
    <3>9. s \in Seq(Nat) /\ s[1] \in 1..h.job /\ \A k \in 1..Len(s) : s[k] = s[1]
      BY <1>0, <2>1, <2>5
    <3>5. DeviceOK'
      BY <2>2, <3>2, <3>4, <3>8, <3>9 DEF DeviceOK, AtMostOnce
    <3>10. chip.at = 0 => Len(s) = 1
      BY <2>1, <2>5
    <3>6. QED
      BY <2>1, <2>5, <3>2, <3>3, <3>5, <3>10
  <2>3. CASE ~(Len(s) < ReqSegs)
    <3>1. dev' = [dev EXCEPT !.st = "Work", !.segs = s, !.done = Append(@, s)]
      BY <1>1, <1>4, <2>3, <2>5
    <3>2. /\ dev'.st = "Work" /\ dev'.segs = s /\ dev'.done = Append(dev.done, s)
          /\ DOMAIN dev' = DeviceFields
      BY <3>1 DEF DeviceOK, DeviceFields
    <3>3. Len(s) = ReqSegs /\ s \in Seq(Nat) /\ Older(s[1]) /\ s[1] \in 1..h.job
      BY <1>0, <2>1, <2>3, <2>5
    <3>4. \A k \in 1..ReqSegs : s[k] = s[1]
      BY <2>1, <2>5, <3>3
    <3>6. /\ dev'.done \in Seq(Seq(Nat)) /\ AtMostOnce'
          /\ \A i \in DOMAIN dev'.done : dev'.done[i][1] \in 1..h'.job
          /\ Processed(s[1])' /\ (\A j : Processed(j) => Processed(j)')
          /\ \A j \in Nat : Older(j) /\ s[1] < j => Older(j)'
      BY <3>2, <3>3, <3>4, DoneAppended
    <3>7. Processed(dev.segs[1])'
      BY <3>2, <3>6 DEF Processed
    <3>8. DeviceOK'
      BY <1>0, <3>2, <3>3, <3>4, <3>6, <3>7 DEF DeviceOK
    <3>10. chip.at = 0 => Len(s) = 1
      BY <2>1, <2>5
    <3>9. QED
      BY <2>1, <2>5, <3>2, <3>3, <3>6, <3>8, <3>10
  <2>4. QED
    BY <2>2, <2>3
<1>5. QED
  BY <1>2, <1>3, <1>4

\* Every other message, a new session and a new request leave what it holds.
LEMMA DeviceKept == ASSUME DeviceOK, DOMAIN dev' = DeviceFields, dev'.done = dev.done,
                           h.job \in Nat, h'.job \in Nat, h.job <= h'.job,
                           \/ dev'.st = "Idle" /\ dev'.segs \in {dev.segs, <<>>}
                           \/ dev'.segs = dev.segs /\ dev'.st = dev.st
                           \/ dev'.segs = dev.segs /\ dev.st = "Work" /\ dev'.st = "Tx"
  PROVE DeviceOK' /\ \A j : (Older(j) <=> Older(j)') /\ (Processed(j) <=> Processed(j)')
<1>1. \A j : (Older(j) <=> Older(j)') /\ (Processed(j) <=> Processed(j)')
  BY DEF Older, Processed
<1>2. AtMostOnce'
  BY DEF DeviceOK, AtMostOnce
<1>3. \A i \in DOMAIN dev'.done : dev'.done[i][1] \in 1..h'.job
  BY DEF DeviceOK
<1>4. dev'.segs \in Seq(Nat)
  <2>1. <<>> \in Seq(Nat) /\ dev.segs \in Seq(Nat)
    BY DEF DeviceOK
  <2>2. dev'.segs \in {dev.segs, <<>>}
    OBVIOUS
  <2>3. QED
    BY <2>1, <2>2
<1>5. CASE dev'.st = "Idle"
  BY <1>1, <1>2, <1>3, <1>4, <1>5 DEF DeviceOK
<1>6. CASE dev'.st # "Idle"
  <2>1. dev'.segs = dev.segs /\ (dev'.st = dev.st \/ (dev.st = "Work" /\ dev'.st = "Tx"))
    BY <1>6
  <2>5. PICK s : s = dev.segs
    OBVIOUS
  <2>4. (dev'.st = "Rx" => Older(s[1])') /\ (dev'.st \in {"Work", "Tx"} => Processed(s[1])')
    BY <1>1, <2>1, <2>5 DEF DeviceOK
  <2>2. (dev'.st = "Rx" => Older(dev.segs[1])') /\ (dev'.st \in {"Work", "Tx"} => Processed(dev.segs[1])')
    BY <2>1, <2>4, <2>5 DEF Older, Processed
  <2>3. QED
    BY <1>1, <1>2, <1>3, <1>4, <1>6, <2>1, <2>2 DEF DeviceOK
<1>7. QED
  BY <1>1, <1>5, <1>6

\* A message that is no segment changes neither what the device holds nor what it has done.
LEMMA TakesOther == ASSUME DeviceOK, NEW m, m.kind # "Seg"
  PROVE LET d == Takes(dev, m, TRUE)[1] IN
        /\ DOMAIN d = DeviceFields /\ d.done = dev.done /\ d.segs = dev.segs
        /\ d.st = "Idle" \/ d.st = dev.st \/ (dev.st = "Work" /\ d.st = "Tx")
<1> DEFINE t == Takes(dev, m, TRUE)
<1>1. \E a : \/ t = <<dev, a>> \/ t = <<[dev EXCEPT !.st = "Idle"], a>>
             \/ dev.st = "Work" /\ t = <<[dev EXCEPT !.st = "Tx"], a>>
             \/ t = <<[dev EXCEPT !.par = m.arg], a>> \/ t = <<[dev EXCEPT !.mcmd = m.arg], a>>
             \/ t = <<[dev EXCEPT !.ev = 0, !.cleared = (@ \cup {dev.ev}) \ {0}], a>>
  BY DEF Takes
<1> HIDE DEF t
<1>2. \/ t[1] = dev \/ t[1] = [dev EXCEPT !.st = "Idle"]
      \/ dev.st = "Work" /\ t[1] = [dev EXCEPT !.st = "Tx"]
      \/ t[1] = [dev EXCEPT !.par = m.arg] \/ t[1] = [dev EXCEPT !.mcmd = m.arg]
      \/ t[1] = [dev EXCEPT !.ev = 0, !.cleared = (@ \cup {dev.ev}) \ {0}]
  BY <1>1
<1>3. DOMAIN dev = DeviceFields
  BY DEF DeviceOK
<1>4. QED
  BY <1>2, <1>3 DEF DeviceFields, t

\* It answers with a segment only when asked for one, and with one of the request it has done.
LEMMA AnswerOf == ASSUME NEW m
  PROVE LET a == Takes(dev, m, TRUE)[2] IN
        a.what = "seg" => m.kind = "Get" /\ dev.st \in {"Work", "Tx"} /\ a.arg = dev.segs[1]
<1> DEFINE t == Takes(dev, m, TRUE)
<1>1. \/ \E w \in {"any", "noservice", "busy", "par", "event"} : \E d, i, j : t = <<d, Answer(w, i, j)>>
      \/ m.kind = "Get" /\ dev.st \in {"Work", "Tx"} /\ \E d, i : t = <<d, Answer("seg", i, dev.segs[1])>>
  BY DEF Takes
<1> HIDE DEF t
<1>2. \A w, i, j : Answer(w, i, j).what = w /\ Answer(w, i, j).arg = j
  BY DEF Answer
<1>3. \/ \E w \in {"any", "noservice", "busy", "par", "event"} : \E i, j : t[2] = Answer(w, i, j)
      \/ m.kind = "Get" /\ dev.st \in {"Work", "Tx"} /\ \E i : t[2] = Answer("seg", i, dev.segs[1])
  BY <1>1
<1> DEFINE goal == m.kind = "Get" /\ dev.st \in {"Work", "Tx"} /\ t[2].arg = dev.segs[1]
<1>4. t[2].what # "seg" \/ goal
  <2>1. ASSUME NEW w \in {"any", "noservice", "busy", "par", "event"}, NEW i, NEW j, t[2] = Answer(w, i, j)
        PROVE  t[2].what # "seg"
    BY <1>2, <2>1
  <2>2. ASSUME m.kind = "Get", dev.st \in {"Work", "Tx"}, NEW i, t[2] = Answer("seg", i, dev.segs[1])
        PROVE  goal
    BY <1>2, <2>2
  <2> HIDE DEF goal
  <2>3. QED
    BY <1>3, <2>1, <2>2
<1>5. QED
  BY <1>4 DEF t

\* A cycle of the chip: what the handler, the device and the answer hold of the ISDU agrees.
LEMMA DeviceMoves == ASSUME DeviceOK, Typed(h), Isdu(h, chip, rx), UNCHANGED <<h, chip, al>>,
    rx'.what = "seg" => chip.kind = "Get" /\ dev.st \in {"Work", "Tx"} /\ rx'.arg = dev.segs[1],
    \/ dev' = dev /\ ~IsGood(rx')
    \/ dev' = Takes(dev, chip, TRUE)[1]
    \/ chip.kind = "Get" /\ dev' \in {dev, [dev EXCEPT !.st = "Idle"]}
  PROVE DeviceOK' /\ Isdu(h, chip, rx)' /\ (OwnResponse => OwnResponse')
<1>0. h.job \in Nat
  BY DEF Typed
<1>1. CASE chip.kind = "Seg" /\ dev' = Takes(dev, chip, TRUE)[1]
  <2>1. dev' = TakeSegment(dev, chip)
    BY <1>1 DEF Takes
  <2>2. Segment(h, chip)
    BY DEF Isdu
  <2>3. /\ DeviceOK' /\ (dev'.st # "Idle" => dev'.segs[1] = chip.arg)
        /\ chip.at = 0 => Older(chip.arg)' \/ (dev'.st # "Idle" /\ Len(dev'.segs) = 1)
        /\ \A j : Processed(j) => Processed(j)'
        /\ \A j \in Nat : Older(j) /\ chip.arg < j => Older(j)'
    BY <1>1, <2>1, <2>2, SegmentTaken
  <2>4. Segment(h, chip)'
    BY <1>1, <2>2, <2>3 DEF Segment
  <2>5. Owed(h, chip)'
    <3>1. PICK j : j = h.job
      OBVIOUS
    <3>2. h.is = "Idle" /\ h.rw = "isdu" => Older(j)'
      BY <1>0, <1>1, <2>3, <3>1 DEF Isdu, Owed
    <3>3. Older(h.job)' <=> Older(j)'
      BY <3>1 DEF Older
    <3>4. QED
      BY <3>2, <3>3 DEF Isdu, Owed
  <2>6. h.is \in Active => Held(h.job)'
    BY <1>1, <2>2, <2>3 DEF Segment, Held
  <2>7. PICK j : j = h.job
    OBVIOUS
  <2>8. Processed(h.job)' <=> Processed(j)'
    BY <2>7 DEF Processed
  <2>9. Underway(h, chip, rx)'
    BY <1>1, <2>3, <2>6, <2>7, <2>8 DEF Isdu, Underway, Active
  <2>10. OwnResponse => OwnResponse'
    <3>1. PICK k : k = al.told[1]
      OBVIOUS
    <3>2. Processed(k) => Processed(k)'
      BY <2>3
    <3>3. QED
      BY <3>1, <3>2 DEF OwnResponse, ToldIsdu, Processed
  <2>11. QED
    BY <2>3, <2>4, <2>5, <2>9, <2>10 DEF Isdu
<1>2. CASE ~(chip.kind = "Seg" /\ dev' = Takes(dev, chip, TRUE)[1])
  <2>1. /\ DOMAIN dev' = DeviceFields /\ dev'.done = dev.done /\ dev'.segs = dev.segs
        /\ dev'.st = "Idle" \/ dev'.st = dev.st \/ (dev.st = "Work" /\ dev'.st = "Tx")
    <3>1. DOMAIN dev = DeviceFields
      BY DEF DeviceOK
    <3>2. CASE dev' \in {dev, [dev EXCEPT !.st = "Idle"]}
      BY <3>1, <3>2 DEF DeviceFields
    <3>3. CASE chip.kind # "Seg" /\ dev' = Takes(dev, chip, TRUE)[1]
      BY <3>3, TakesOther
    <3>4. QED
      BY <1>2, <3>2, <3>3
  <2>2. DeviceOK' /\ \A j : (Older(j) <=> Older(j)') /\ (Processed(j) <=> Processed(j)')
    BY <1>0, <2>1, DeviceKept
  <2>3. Segment(h, chip)'
    <3>1. PICK j : j = chip.arg
      OBVIOUS
    <3>2. Older(chip.arg)' <=> Older(chip.arg)
      BY <2>1 DEF Older
    <3>3. CASE chip.kind # "Seg"
      BY <3>3 DEF Segment
    <3>4. CASE dev' = dev
      BY <3>2, <3>4 DEF Isdu, Segment
    <3>5. QED
      BY <1>2, <3>3, <3>4
  <2>4. Owed(h, chip)'
    <3>1. Older(h.job)' <=> Older(h.job)
      BY <2>1 DEF Older
    <3>2. QED
      BY <3>1 DEF Isdu, Owed
  <2>5. Held(h.job) => Held(h.job)'
    BY <2>1 DEF Held
  <2>6. Processed(h.job)' <=> Processed(h.job)
    BY <2>1 DEF Processed
  <2>7. dev.st \in {"Work", "Tx"} => Processed(dev.segs[1])
    BY DEF DeviceOK
  <2>8. Underway(h, chip, rx)'
    <3>1. CASE h.is = "Request"
      <4>1. chip.kind # "Get" /\ h.seg >= 1
            /\ ((chip.kind = "Seg" /\ chip.at = 0 /\ ~IsGood(rx)) \/ Held(h.job))
        BY <3>1 DEF Isdu, Underway
      <4>2. rx'.what # "seg"
        BY <4>1
      <4>3. (chip.kind = "Seg" /\ chip.at = 0 /\ ~IsGood(rx')) \/ Held(h.job)'
        BY <1>2, <2>5, <4>1
      <4>4. QED
        BY <3>1, <4>1, <4>2, <4>3 DEF Underway, IsGood
    <3>2. CASE h.is \in {"Wait", "Response"}
      <4>1. Held(h.job)
        BY <3>2 DEF Isdu, Underway
      <4>2. rx'.what = "seg" => rx'.arg = h.job /\ Processed(h.job)
        BY <2>7, <4>1 DEF Held, Processed
      <4>3. QED
        BY <2>5, <2>6, <3>2, <4>1, <4>2 DEF Isdu, Underway
    <3>3. CASE h.is \notin {"Request", "Wait", "Response"}
      BY <3>3 DEF Underway
    <3>4. QED
      BY <3>1, <3>2, <3>3
  <2>9. OwnResponse => OwnResponse'
    BY <2>1 DEF OwnResponse, ToldIsdu
  <2>10. QED
    BY <2>2, <2>3, <2>4, <2>8, <2>9 DEF Isdu
<1>3. QED
  BY <1>1, <1>2

-----------------------------------------------------------------------------
(* What a step confirms reaches AL.                                         *)

AlOK ==
  /\ DOMAIN al = {"op", "job", "amid", "told"} /\ al.op \in {"none", "isdu", "read", "write"}
  /\ al.amid \in {"none", "read", "write"} /\ (al.amid # "none" => al.op \in {"none", al.amid})

\* A step whose confirmations are delivered keeps what is known of the ISDU.
LEMMA Deliver == ASSUME NEW x, NEW c, NEW m, NEW r, Typed(x), Isdu(x, m, r), Ends(x), HandTo(x, c),
                        AlOK, OwnResponse, dev'.done = dev.done,
                        \/ chip' = m /\ rx' = r /\ dev'.st = dev.st /\ dev'.segs = dev.segs
                        \/ chip'.kind = "Cmd" /\ rx' = NoRx /\ dev'.st = "Idle"
  PROVE /\ Typed(h') /\ h'.out = <<>> /\ IsduPart(h') = IsduPart(x) /\ Given(h') = Given(x)
        /\ OdPart(h') = OdPart(x) /\ h'.tx = x.tx
        /\ AlOK' /\ OwnResponse' /\ Isdu(h, chip, rx)'
<1> DEFINE mine == Of(x, al.op)
<1>1. h' = [x EXCEPT !.out = <<>>]
  BY DEF HandTo, Delivered
<1>2. IsSeq(<<>>)
  <2>1. <<>> \in Seq({})
    OBVIOUS
  <2>2. QED
    BY <2>1 DEF IsSeq
<1>3. /\ Typed(h') /\ h'.out = <<>> /\ IsduPart(h') = IsduPart(x) /\ Given(h') = Given(x)
      /\ OdPart(h') = OdPart(x) /\ h'.tx = x.tx
  BY <1>1, <1>2 DEF Typed, Fields, IsduPart, Given, OdPart
<1>4. /\ h'.is = x.is /\ h'.rw = x.rw /\ h'.job = x.job /\ h'.seg = x.seg /\ h'.tot = x.tot
      /\ h'.buf = x.buf
  BY <1>3 DEF IsduPart
<1>5. \/ mine = <<>> /\ al' = al
      \/ /\ mine # <<>> /\ al'.op = "none" /\ al'.told = <<al.job, mine[1]>> /\ al'.amid = al.amid
         /\ DOMAIN al' = DOMAIN al /\ mine[1] \in Outs(x) /\ mine[1].kind = al.op
  <2>1. \/ mine = <<>> \/ (mine # <<>> /\ mine[1] \in Outs(x) /\ mine[1].kind = al.op)
    BY OfOuts DEF Typed
  <2>2. al' = IF mine = <<>> THEN al
              ELSE [al EXCEPT !.op = "none", !.job = 0, !.told = <<al.job, mine[1]>>]
    BY DEF HandTo
  <2> HIDE DEF mine
  <2>3. QED
    BY <2>1, <2>2 DEF AlOK
<1> HIDE DEF mine
<1>6. AlOK'
  BY <1>5 DEF AlOK
<1>7. al' = al \/ (al'.op = "none" /\ x.is \notin Active /\ ~(x.is = "Idle" /\ x.rw = "isdu"))
  <2>1. CASE mine = <<>>
    BY <1>5, <2>1
  <2>2. CASE mine # <<>> /\ al.op = "isdu"
    <3>1. PICK e : e = mine[1]
      OBVIOUS
    <3>2. e \in Outs(x) /\ e.kind = "isdu" /\ al'.op = "none"
      BY <1>5, <2>2, <3>1
    <3>3. x.is \notin Active /\ ~(x.is = "Idle" /\ x.rw = "isdu")
      BY <3>2 DEF Ends
    <3>4. QED
      BY <3>2, <3>3
  <2>3. CASE mine # <<>> /\ al.op # "isdu"
    BY <1>5, <2>3 DEF Isdu, Owed
  <2>4. QED
    BY <2>1, <2>2, <2>3
<1>8. OwnResponse'
  <2>1. CASE al' = al
    BY <2>1 DEF OwnResponse, ToldIsdu
  <2>2. CASE al' # al
    <3>1. /\ mine[1] \in Outs(x) /\ mine[1].kind = al.op
          /\ al'.told[1] = al.job /\ al'.told[2] = mine[1]
      BY <1>5, <2>2
    <3>2. ASSUME mine[1].kind = "isdu", mine[1].stat = "OK"
          PROVE  mine[1].data = [i \in DOMAIN Empty |-> <<i, al.job>>] /\ Processed(al.job)
      <4>1. al.op = "isdu" /\ al.job = x.job
        BY <3>1, <3>2 DEF Isdu, Owed
      <4>2. mine[1].data = [i \in DOMAIN Empty |-> <<i, x.job>>] /\ Processed(x.job)
        BY <3>1, <3>2 DEF Ends
      <4>3. QED
        BY <4>1, <4>2
    <3>3. QED
      BY <3>1, <3>2 DEF OwnResponse, ToldIsdu, Processed
  <2>3. QED
    BY <2>1, <2>2
<1>9. (Older(h.job)' <=> Older(x.job)) /\ (Processed(h.job)' <=> Processed(x.job))
  BY <1>4 DEF Older, Processed
<1>10. Owed(h, chip)'
  BY <1>4, <1>7, <1>9 DEF Isdu, Owed, Active
<1>11. Segment(h, chip)' /\ Underway(h, chip, rx)'
  <2>1. CASE chip' = m /\ rx' = r /\ dev'.st = dev.st /\ dev'.segs = dev.segs
    <3>1. Older(chip.arg)' <=> Older(m.arg)
      BY <2>1 DEF Older
    <3>2. Held(h.job)' <=> Held(x.job)
      BY <1>4, <2>1 DEF Held
    <3>3. Segment(h, chip)'
      BY <1>4, <2>1, <3>1 DEF Isdu, Segment
    <3>4. Underway(h, chip, rx)'
      BY <1>4, <1>9, <2>1, <3>2 DEF Isdu, Underway, IsGood, NoRx
    <3>5. QED
      BY <3>3, <3>4
  <2>2. CASE chip'.kind = "Cmd" /\ rx' = NoRx /\ dev'.st = "Idle"
    <3>1. NoRx.what = "none" /\ Held(h.job)'
      BY <2>2 DEF NoRx, Held
    <3>2. QED
      BY <1>4, <1>9, <2>2, <3>1 DEF Isdu, Segment, Underway
  <2>3. QED
    BY <2>1, <2>2
<1>12. QED
  BY <1>3, <1>6, <1>8, <1>10, <1>11 DEF Isdu

-----------------------------------------------------------------------------
(* The inductive invariant.                                                 *)

LeftFields == {"jobs", "faults", "events", "commands", "sessions"}

Types ==
  /\ Typed(h) /\ h.out = <<>> /\ chip.kind \in Kinds /\ AlOK /\ occurs \in Mixes
  /\ DOMAIN md = {"up", "mode", "mdh"} /\ md.up \in BOOLEAN
  /\ mh \in [state : {"off", "reply9", "reply16"}, retry : 0..OPERATE_RETRY]
  /\ pc \in {"wait", "prepare"} /\ rx.flag \in BOOLEAN
  /\ DOMAIN left = LeftFields /\ left.jobs \in 0..MaxJobs /\ h.job \in 0..MaxJobs - left.jobs

\* Whose turn it is.  A trigger that was not consumed finds no ISDU under way; what is in tx
\* from an earlier message is in the chip, too; a link that is down has no idle ISDU handler.
Turns ==
  /\ pc = "prepare" => md.up /\ mh.state = "reply16" /\ (h.is = "Request" => Held(h.job))
  /\ mh.state = "reply9" => h.is \notin Active
  /\ mh.state = "reply16" => md.up
  /\ h.trig = "DEVICE" /\ pc = "wait" => h.is \notin Active
  /\ h.act = md.up /\ h.ch = md.up
  /\ md.up => h.is # "Inactive" /\ (h.tx.kind \in {"Seg", "Get"} => chip = h.tx)
  /\ ~md.up => h.is \notin {"Idle", "Error"} /\ h.od \in {"Inactive", "Command"}

Inv == Types /\ DeviceOK /\ Isdu(h, chip, rx) /\ Turns /\ OwnResponse

\* No answer is not a good one.
LEMMA NoRxIs == NoRx.what = "none" /\ NoRx.flag = FALSE /\ ~IsGood(NoRx)
BY DEF NoRx, IsGood

\* The invariant holds at the start,
LEMMA InitInv == Init => Inv
<1> SUFFICES ASSUME Init PROVE Inv
  OBVIOUS
<1>0. /\ ReqSegs \in Nat \ {0} /\ RespSegs \in Nat \ {0} /\ EvBytes \in Nat \ {0}
      /\ OPERATE_RETRY \in Nat /\ MaxJobs \in Nat
  BY SegmentsAssumption, RetryAssumption, BudgetAssumption
<1>1. IsSeq(<<>>)
  <2>1. <<>> \in Seq({})
    OBVIOUS
  <2>2. QED
    BY <2>1 DEF IsSeq
<1>2. Buffer(Empty)
  BY DEF Buffer, Empty
<1>3. Typed(h) /\ h.out = <<>>
  BY <1>0, <1>1, <1>2 DEF Init, HandlersInit, Typed, Fields, IdleMsg, Msg, Kinds
<1>4. Types
  <2>1. rx.flag \in BOOLEAN /\ occurs \in Mixes
    BY NoRxIs DEF Init
  <2>2. chip.kind \in Kinds
    BY DEF Init, IdleMsg, Msg, Kinds
  <2>3. AlOK
    BY DEF Init, AlOK
  <2>4. DOMAIN left = LeftFields /\ left.jobs = MaxJobs
    BY DEF Init, LeftFields
  <2>5. h.job = 0
    BY DEF Init, HandlersInit
  <2>6. /\ DOMAIN md = {"up", "mode", "mdh"} /\ md.up \in BOOLEAN /\ pc = "wait"
        /\ mh \in [state : {"off", "reply9", "reply16"}, retry : 0..OPERATE_RETRY]
    BY <1>0 DEF Init
  <2>7. QED
    BY <1>0, <1>3, <2>1, <2>2, <2>3, <2>4, <2>5, <2>6 DEF Types
<1>5. DeviceOK
  <2>1. dev = DeviceInit /\ dev.done = <<>> /\ dev.st = "Idle" /\ dev.segs = <<>>
        /\ DOMAIN dev = DeviceFields
    BY DEF Init, DeviceInit, DeviceFields
  <2>2. <<>> \in Seq(Nat) /\ <<>> \in Seq(Seq(Nat)) /\ DOMAIN <<>> = {}
    OBVIOUS
  <2>3. QED
    BY <2>1, <2>2 DEF DeviceOK, AtMostOnce
<1>6. Isdu(h, chip, rx)
  BY DEF Init, HandlersInit, Isdu, Segment, Owed, Underway, IdleMsg, Msg, Active
<1>7. Turns
  BY DEF Init, HandlersInit, Turns
<1>8. OwnResponse
  BY DEF Init, OwnResponse, ToldIsdu, Cnf
<1>9. QED
  BY <1>4, <1>5, <1>6, <1>7, <1>8 DEF Inv

\* A step that leaves the ISDU where it is.
LEMMA Still == ASSUME Inv, UNCHANGED <<chip, al>>, rx' \in {rx, NoRx},
                      h'.is = h.is, h'.rw = h.rw, h'.job = h.job, h'.seg = h.seg, h'.tot = h.tot,
                      h'.buf = h.buf, DOMAIN dev' = DeviceFields,
                      dev'.st = dev.st, dev'.segs = dev.segs, dev'.done = dev.done
  PROVE DeviceOK' /\ Isdu(h, chip, rx)' /\ OwnResponse' /\ (Held(h.job)' <=> Held(h.job))
<1>1. h.job \in Nat
  BY DEF Inv, Types, Typed
<1>2. DeviceOK'
  BY <1>1, DeviceKept DEF Inv
<1>3. OwnResponse'
  BY DEF Inv, OwnResponse, ToldIsdu
<1>4. /\ Older(chip.arg)' <=> Older(chip.arg)
      /\ Older(h.job)' <=> Older(h.job)
      /\ Processed(h.job)' <=> Processed(h.job)
      /\ Held(h.job)' <=> Held(h.job)
  BY DEF Older, Processed, Held
<1>5. NoRx.what # "seg" /\ ~IsGood(NoRx)
  BY DEF NoRx, IsGood
<1>6. (rx'.what = "seg" => rx.what = "seg" /\ rx' = rx) /\ (IsGood(rx') => IsGood(rx))
  BY <1>5
<1>7. Segment(h, chip)' /\ Owed(h, chip)'
  BY <1>4 DEF Inv, Isdu, Segment, Owed
<1>8. Underway(h, chip, rx)'
  BY <1>4, <1>6 DEF Inv, Isdu, Underway, IsGood
<1>9. QED
  BY <1>2, <1>3, <1>4, <1>7, <1>8 DEF Isdu

\* when OPERATE begins,
LEMMA UpKeeps == Inv /\ Up => Inv'
<1> SUFFICES ASSUME Inv, Up PROVE Inv'
  OBVIOUS
<1> DEFINE y == Activated(h)
           x == Send(y, EnterOperate)
<1>1. /\ ~md.up /\ HandTo(x, caller) /\ chip' = EnterOperate /\ md'.up /\ mh'.state = "reply16"
      /\ mh'.retry = 0 /\ pc' = "prepare" /\ rx' = NoRx /\ left'.jobs = left.jobs /\ occurs' = occurs
      /\ DOMAIN left' = LeftFields /\ DOMAIN md' = {"up", "mode", "mdh"} /\ DOMAIN dev' = DeviceFields
      /\ dev'.st = "Idle" /\ dev'.segs = <<>> /\ dev'.done = dev.done
  BY DEF Up, Hand, Inv, Types, DeviceOK, LeftFields, DeviceFields
<1>2. pc = "wait" /\ ~h.act /\ h.is \notin {"Idle", "Error"} /\ h.od \in {"Inactive", "Command"}
      /\ (h.is \in Active => h.trig # "DEVICE")
  BY <1>1 DEF Inv, Types, Turns
<1>3. Typed(y) /\ y.act /\ y.ch /\ y.job = h.job /\ Isdu(y, chip, rx) /\ Ends(y) /\ y.is # "Inactive"
  BY <1>2, Ups DEF Inv, Types
<1> HIDE DEF y
<1>4. EnterOperate.kind = "Cmd"
  BY DEF EnterOperate, Msg
<1>5. Typed(x) /\ IsduPart(x) = IsduPart(y) /\ Given(x) = Given(y) /\ x.out = y.out /\ x.tx = EnterOperate
  BY <1>3, <1>4 DEF Send, Typed, Fields, IsduPart, Given, Kinds
<1> HIDE DEF x
<1>6. Isdu(x, chip, rx) /\ Ends(x) /\ x.is = y.is /\ x.job = y.job
  BY <1>3, <1>5, SameIsdu
<1>7. /\ Typed(h') /\ h'.out = <<>> /\ IsduPart(h') = IsduPart(x) /\ Given(h') = Given(x)
      /\ h'.tx = x.tx /\ AlOK' /\ OwnResponse' /\ Isdu(h, chip, rx)'
  BY <1>1, <1>4, <1>5, <1>6, Deliver DEF Inv, Types
<1>8. h'.is = x.is /\ h'.job = h.job /\ h'.act /\ h'.ch
  BY <1>3, <1>5, <1>6, <1>7 DEF IsduPart, Given
<1>9. h.job \in Nat
  BY DEF Inv, Types, Typed
<1>10. DeviceOK'
  BY <1>1, <1>8, <1>9, DeviceKept DEF Inv
<1>11. Types'
  <2>1. mh' \in [state : {"off", "reply9", "reply16"}, retry : 0..OPERATE_RETRY]
    BY RetryAssumption DEF Up
  <2>2. chip'.kind \in Kinds
    BY <1>1, <1>4 DEF Kinds
  <2>3. QED
    BY <1>1, <1>7, <1>8, <2>1, <2>2, NoRxIs DEF Inv, Types
<1>12. Turns'
  BY <1>1, <1>3, <1>5, <1>6, <1>7, <1>8 DEF Turns, Held, Typed
<1>13. QED
  BY <1>7, <1>10, <1>11, <1>12 DEF Inv

\* when the mode handler runs and the link goes down,
LEMMA ModeHandlerKeeps == Inv /\ ModeHandler => Inv'
<1> SUFFICES ASSUME Inv, ModeHandler PROVE Inv'
  OBVIOUS
<1>1. CASE md.up /\ (md.mode = "INACTIVE" \/ h.lost)
  <2> DEFINE y == Deactivated(h)
             x == [y EXCEPT !.lost = FALSE]
  <2>1. /\ HandTo(x, Ended(caller)) /\ md'.up = FALSE /\ rx' = NoRx /\ pc' = "wait" /\ pc = "wait"
        /\ chip' = chip /\ dev' = dev /\ left' = left /\ occurs' = occurs
        /\ DOMAIN md' = {"up", "mode", "mdh"}
        /\ mh' = [mh EXCEPT !.state = IF @ = "reply16" THEN "off" ELSE @]
    BY <1>1 DEF ModeHandler, Inv, Types
  <2>2. h.is \in Active => h.trig # "DEVICE"
    BY <2>1 DEF Inv, Turns
  <2>3. /\ Typed(y) /\ ~y.act /\ ~y.ch /\ y.job = h.job /\ Isdu(y, chip, rx) /\ Ends(y)
        /\ y.is \notin {"Idle", "Error"} /\ (h.is \notin Active => y.is \notin Active)
        /\ y.od \in {"Inactive", "Command"} /\ y.trig \in {h.trig, "NONE"}
    BY <2>2, Downs DEF Inv, Types
  <2> HIDE DEF y
  <2>4. /\ Typed(x) /\ IsduPart(x) = IsduPart(y) /\ x.act = y.act /\ x.ch = y.ch
        /\ OdPart(x) = OdPart(y) /\ x.out = y.out
    BY <2>3 DEF Typed, Fields, IsduPart, OdPart
  <2> HIDE DEF x
  <2>5. Isdu(x, chip, rx) /\ Ends(x) /\ x.is = y.is /\ x.job = y.job
    BY <2>3, <2>4, SameIsdu
  <2>10. Isdu(x, chip, NoRx)
    <3>1. NoRx.what = "none" /\ ~IsGood(NoRx)
      BY DEF NoRx, IsGood
    <3>2. QED
      BY <2>5, <3>1 DEF Isdu, Underway
  <2>6. /\ Typed(h') /\ h'.out = <<>> /\ IsduPart(h') = IsduPart(x) /\ Given(h') = Given(x)
        /\ OdPart(h') = OdPart(x) /\ AlOK' /\ OwnResponse' /\ Isdu(h, chip, rx)'
    BY <2>1, <2>4, <2>5, <2>10, Deliver DEF Inv, Types
  <2>14. ~h'.act /\ ~h'.ch
    BY <2>3, <2>4, <2>6 DEF Given
  <2>7. /\ h'.is = y.is /\ h'.job = h.job /\ h'.act = FALSE /\ h'.ch = FALSE /\ h'.od = y.od
        /\ h'.trig = y.trig
    BY <2>3, <2>4, <2>5, <2>6, <2>14 DEF IsduPart, OdPart, Typed
  <2>8. DeviceOK'
    BY <2>1, <2>7 DEF Inv, DeviceOK, Older, Processed, AtMostOnce
  <2>9. mh' \in [state : {"off", "reply9", "reply16"}, retry : 0..OPERATE_RETRY]
        /\ mh'.state # "reply16" /\ (mh'.state = "reply9" => mh.state = "reply9")
    BY <2>1 DEF Inv, Types
  <2>11. Types'
    BY <2>1, <2>6, <2>7, <2>9, NoRxIs DEF Inv, Types
  <2>12. Turns'
    BY ZenonT(40), <2>1, <2>3, <2>6, <2>7, <2>9 DEF Inv, Turns, Typed
  <2>13. QED
    BY <2>6, <2>8, <2>11, <2>12 DEF Inv
<1>2. CASE ~(md.up /\ (md.mode = "INACTIVE" \/ h.lost))
  <2>1. UNCHANGED <<h, al, mh, rx, pc, chip, dev, left, occurs>> /\ md' = [md EXCEPT !.mdh = FALSE]
    BY <1>2 DEF ModeHandler
  <2>2. md'.up = md.up /\ DOMAIN md' = DOMAIN md
    BY <2>1 DEF Inv, Types
  <2>3. DOMAIN dev = DeviceFields
    BY DEF Inv, DeviceOK
  <2>4. DeviceOK' /\ Isdu(h, chip, rx)' /\ OwnResponse' /\ (Held(h.job)' <=> Held(h.job))
    BY <2>1, <2>3, Still
  <2>5. QED
    BY <2>1, <2>2, <2>4 DEF Inv, Types, AlOK, Turns
<1>3. QED
  BY <1>1, <1>2

\* The event flag is the answer's.
LEMMA FlagSet == ASSUME Inv
  PROVE LET x == [h EXCEPT !.flag = rx.flag] IN
        /\ Typed(x) /\ x.out = <<>> /\ IsduPart(x) = IsduPart(h) /\ x.act = h.act /\ x.ch = h.ch
        /\ x.tx = h.tx /\ x.od = h.od /\ x.is = h.is /\ x.job = h.job /\ Isdu(x, chip, rx)
<1> DEFINE x == [h EXCEPT !.flag = rx.flag]
<1>1. /\ Typed(x) /\ x.out = <<>> /\ IsduPart(x) = IsduPart(h) /\ x.act = h.act /\ x.ch = h.ch
      /\ x.tx = h.tx /\ x.od = h.od /\ x.is = h.is /\ x.job = h.job
  BY DEF Inv, Types, Typed, Fields, IsduPart
<1> HIDE DEF x
<1>2. Isdu(x, chip, rx)
  BY <1>1, SameIsdu DEF Inv
<1>3. QED
  BY <1>1, <1>2 DEF x

\* The DEVICE trigger of AW_REPLY_16.
LEMMA ReceivedKeeps == Inv /\ Received => Inv'
<1> SUFFICES ASSUME Inv, Received PROVE Inv'
  OBVIOUS
<1> DEFINE z == [h EXCEPT !.flag = rx.flag]
           x == Trigger(z, "DEVICE", rx)
<1>1. /\ HandTo(x, caller) /\ pc' = "prepare" /\ UNCHANGED <<md, mh, chip, rx, dev, left, occurs>>
      /\ mh.state = "reply16" /\ IsGood(rx)
  BY DEF Received, Hand, Waiting, Good, IsGood
<1>2. /\ md.up /\ h.act = md.up /\ h.ch = md.up /\ h.is # "Inactive"
      /\ h.tx.kind \in {"Seg", "Get"} => chip = h.tx
  BY <1>1 DEF Inv, Turns
<1>3. /\ Typed(z) /\ z.out = <<>> /\ IsduPart(z) = IsduPart(h) /\ z.act = h.act /\ z.ch = h.ch
      /\ z.tx = h.tx /\ z.od = h.od /\ z.is = h.is /\ z.job = h.job /\ Isdu(z, chip, rx)
  BY <1>1, FlagSet DEF Inv
<1> HIDE DEF z
<1>4. /\ Typed(x) /\ Given(x) = Given(z) /\ x.job = z.job
      /\ Isdu(x, chip, rx) /\ Ends(x) /\ x.is # "Inactive" /\ (x.is = "Request" => Held(x.job))
      /\ x.tx = z.tx \/ x.tx.kind \notin {"Seg", "Get"}
  BY <1>1, <1>2, <1>3, DeviceStep
<1> HIDE DEF x
<1>5. /\ Typed(h') /\ h'.out = <<>> /\ IsduPart(h') = IsduPart(x) /\ Given(h') = Given(x)
      /\ OdPart(h') = OdPart(x) /\ h'.tx = x.tx
      /\ AlOK' /\ OwnResponse' /\ Isdu(h, chip, rx)'
  BY <1>1, <1>4, Deliver DEF Inv, Types
<1>6. h'.is = x.is /\ h'.job = h.job /\ h'.act = md.up /\ h'.ch = md.up
  BY <1>2, <1>3, <1>4, <1>5 DEF IsduPart, Given
<1>7. DeviceOK'
  BY <1>1, <1>6 DEF Inv, DeviceOK, Older, Processed, AtMostOnce
<1>8. Types'
  BY <1>1, <1>5, <1>6 DEF Inv, Types
<1>9. Held(h.job)' <=> Held(x.job)
  BY <1>1, <1>3, <1>4, <1>6 DEF Held
<1>10. Turns'
  BY <1>1, <1>2, <1>3, <1>4, <1>5, <1>6, <1>9 DEF Turns
<1>11. QED
  BY <1>5, <1>7, <1>8, <1>10 DEF Inv

\* What Prepare and WriteNow have in common.
LEMMA Downloads == ASSUME Inv, md.up, h.is = "Request" => Held(h.job),
                          HandTo(Trigger(h, "MASTER", rx), caller),
                          chip' = Trigger(h, "MASTER", rx).tx, rx' = NoRx, dev' = dev,
                          UNCHANGED <<md, left, occurs>>
  PROVE /\ Typed(h') /\ h'.out = <<>> /\ AlOK' /\ OwnResponse' /\ Isdu(h, chip, rx)' /\ DeviceOK'
        /\ h'.job = h.job /\ h'.act = md.up /\ h'.ch = md.up /\ h'.tx = chip' /\ chip'.kind \in Kinds
        /\ h'.is # "Inactive" /\ h'.trig # "DEVICE"
        /\ h.rw # "isdu" /\ h.is \notin Active => h'.is \notin Active
<1> DEFINE x == Trigger(h, "MASTER", rx)
<1>1. /\ Typed(h) /\ h.out = <<>> /\ Isdu(h, chip, rx) /\ h.act = md.up /\ h.ch = md.up
      /\ h.is # "Inactive" /\ (h.tx.kind \in {"Seg", "Get"} => chip = h.tx)
  BY DEF Inv, Types, Turns
<1>2. /\ Typed(x) /\ Given(x) = Given(h) /\ x.job = h.job
      /\ Isdu(x, x.tx, NoRx) /\ Ends(x) /\ x.is # "Inactive" /\ x.trig # "DEVICE"
      /\ h.rw # "isdu" /\ h.is \notin Active => x.is \notin Active
  BY <1>1, MasterStep
<1>3. HandTo(x, caller) /\ chip' = x.tx
  OBVIOUS
<1> HIDE DEF x
<1>4. /\ Typed(h') /\ h'.out = <<>> /\ IsduPart(h') = IsduPart(x) /\ Given(h') = Given(x)
      /\ OdPart(h') = OdPart(x) /\ h'.tx = x.tx
      /\ AlOK' /\ OwnResponse' /\ Isdu(h, chip, rx)'
  BY <1>2, <1>3, Deliver DEF Inv, Types
<1>5. /\ h'.is = x.is /\ h'.job = h.job /\ h'.act = md.up /\ h'.ch = md.up /\ h'.trig = x.trig
  BY <1>1, <1>2, <1>4 DEF IsduPart, Given, OdPart
<1>6. DeviceOK'
  BY <1>5 DEF Inv, DeviceOK, Older, Processed, AtMostOnce
<1>7. chip'.kind \in Kinds
  BY <1>3, <1>4 DEF Typed
<1>8. QED
  BY <1>2, <1>3, <1>4, <1>5, <1>6, <1>7

\* The MASTER trigger of AW_REPLY_16,
LEMMA PrepareKeeps == Inv /\ Prepare => Inv'
<1> SUFFICES ASSUME Inv, Prepare PROVE Inv'
  OBVIOUS
<1>1. /\ HandTo(Trigger(h, "MASTER", rx), caller) /\ chip' = Trigger(h, "MASTER", rx).tx
      /\ pc' = "wait" /\ rx' = NoRx /\ UNCHANGED <<md, mh, dev, left, occurs>> /\ pc = "prepare"
  BY DEF Prepare, Hand
<1>2. md.up /\ (h.is = "Request" => Held(h.job)) /\ mh.state = "reply16"
  BY <1>1 DEF Inv, Turns
<1>3. /\ Typed(h') /\ h'.out = <<>> /\ AlOK' /\ OwnResponse' /\ Isdu(h, chip, rx)' /\ DeviceOK'
      /\ h'.job = h.job /\ h'.act = md.up /\ h'.ch = md.up /\ h'.tx = chip' /\ chip'.kind \in Kinds
      /\ h'.is # "Inactive" /\ h'.trig # "DEVICE"
  BY <1>1, <1>2, Downloads
<1>4. Types'
  BY <1>1, <1>3, NoRxIs DEF Inv, Types
<1>5. Turns'
  BY <1>1, <1>2, <1>3 DEF Turns
<1>6. QED
  BY <1>3, <1>4, <1>5 DEF Inv

\* the one of a write that is asked for,
LEMMA WriteNowKeeps == Inv /\ WriteNow => Inv'
<1> SUFFICES ASSUME Inv, WriteNow PROVE Inv'
  OBVIOUS
<1>1. /\ HandTo(Trigger(h, "MASTER", rx), caller) /\ chip' = Trigger(h, "MASTER", rx).tx
      /\ rx' = NoRx /\ UNCHANGED <<md, pc, dev, left, occurs>> /\ pc = "wait"
      /\ mh.state = "reply16" /\ mh' = [state |-> "reply9", retry |-> 0] /\ h.rw = "write"
  BY DEF WriteNow, Waiting, Hand
<1>2. md.up /\ h.is \notin Active
  BY <1>1 DEF Inv, Turns, Isdu, Owed
<1>3. /\ Typed(h') /\ h'.out = <<>> /\ AlOK' /\ OwnResponse' /\ Isdu(h, chip, rx)' /\ DeviceOK'
      /\ h'.job = h.job /\ h'.act = md.up /\ h'.ch = md.up /\ h'.tx = chip' /\ chip'.kind \in Kinds
      /\ h'.is # "Inactive" /\ h'.trig # "DEVICE" /\ h'.is \notin Active
  <2>1. h.is = "Request" => Held(h.job)
    BY <1>2 DEF Active
  <2>2. QED
    BY <1>1, <1>2, <2>1, Downloads
<1>4. Types'
  <2>1. mh' \in [state : {"off", "reply9", "reply16"}, retry : 0..OPERATE_RETRY]
    BY <1>1, RetryAssumption
  <2>2. QED
    BY <1>1, <1>3, <2>1, NoRxIs DEF Inv, Types
<1>5. Turns'
  BY <1>1, <1>2, <1>3 DEF Turns
<1>6. QED
  BY <1>3, <1>4, <1>5 DEF Inv

\* and the answer to the write in AW_REPLY_9.
LEMMA WrittenKeeps == Inv /\ Written => Inv'
<1> SUFFICES ASSUME Inv, Written PROVE Inv'
  OBVIOUS
<1> DEFINE x == Trigger(h, "DEVICE", rx)
<1>1. /\ HandTo(x, caller) /\ UNCHANGED <<md, pc, chip, dev, left, occurs>> /\ rx' = NoRx
      /\ mh.state = "reply9" /\ IsGood(rx) /\ pc = "wait"
      /\ mh' = [mh EXCEPT !.state = IF x.is = "Idle" THEN "reply16" ELSE @]
  BY DEF Written, Hand, Waiting, Good, IsGood
<1>2. h.is \notin Active /\ h.act = md.up /\ h.ch = md.up
  BY <1>1 DEF Inv, Turns
<1>3. Typed(h) /\ h.out = <<>> /\ Isdu(h, chip, rx)
  BY DEF Inv, Types
<1>4. /\ Typed(x) /\ Given(x) = Given(h) /\ x.job = h.job /\ Isdu(x, chip, rx) /\ Ends(x)
      /\ x.is \notin Active
      /\ md.up => x.is # "Inactive" /\ (x.tx = h.tx \/ x.tx.kind \notin {"Seg", "Get"})
      /\ ~md.up => x.is = h.is /\ x.od \in {"Inactive", "Command"}
  <2>1. CASE md.up
    <3>1. h.act /\ h.is # "Inactive"
      BY <1>2, <1>3, <2>1 DEF Inv, Turns
    <3> HIDE DEF x
    <3>2. /\ Typed(x) /\ Given(x) = Given(h) /\ x.job = h.job
          /\ Isdu(x, chip, rx) /\ Ends(x) /\ x.is # "Inactive"
          /\ h.is \notin Active => x.is \notin Active
          /\ x.tx = h.tx \/ x.tx.kind \notin {"Seg", "Get"}
      BY <1>1, <1>3, <3>1, DeviceStep DEF x
    <3>3. QED
      BY <1>2, <1>3, <2>1, <3>2
  <2>2. CASE ~md.up
    <3>1. ~h.act /\ h.od \in {"Inactive", "Command"}
      BY <1>2, <1>3, <2>2 DEF Inv, Turns
    <3>2. x.od \in {"Inactive", "Command"}
      BY <1>3, <3>1 DEF Trigger, OdHandler, OdCommand, Typed, Fields
    <3>3. Elsewhere(h, x)
      BY <1>3, <3>1, StepOf
    <3> HIDE DEF x
    <3>4. Typed(x) /\ IsduPart(x) = IsduPart(h) /\ Given(x) = Given(h) /\ MayConfirm(h, x, {"mode", "event"})
      BY <3>3 DEF Elsewhere
    <3>5. Isdu(x, chip, rx) /\ x.is = h.is /\ x.job = h.job
      BY <1>3, <3>4, SameIsdu
    <3>6. Ends(h)
      BY <1>3 DEF Ends, Outs
    <3>7. Ends(x)
      BY <1>3, <3>4, <3>6, MoreEnds
    <3>8. QED
      BY <1>2, <1>3, <2>2, <3>2, <3>4, <3>5, <3>7
  <2>3. QED
    BY <2>1, <2>2
<1> HIDE DEF x
<1>5. Isdu(x, chip, NoRx)
  BY <1>4 DEF Isdu, Underway, Active
<1>6. /\ Typed(h') /\ h'.out = <<>> /\ IsduPart(h') = IsduPart(x) /\ Given(h') = Given(x)
      /\ OdPart(h') = OdPart(x) /\ h'.tx = x.tx
      /\ AlOK' /\ OwnResponse' /\ Isdu(h, chip, rx)'
  BY <1>1, <1>4, <1>5, Deliver DEF Inv, Types
<1>7. h'.is = x.is /\ h'.job = h.job /\ h'.act = md.up /\ h'.ch = md.up /\ h'.od = x.od
  BY <1>2, <1>3, <1>4, <1>6 DEF IsduPart, Given, OdPart
<1>8. DeviceOK'
  BY <1>1, <1>7 DEF Inv, DeviceOK, Older, Processed, AtMostOnce
<1>9. mh' \in [state : {"off", "reply9", "reply16"}, retry : 0..OPERATE_RETRY]
      /\ mh'.state = (IF x.is = "Idle" THEN "reply16" ELSE "reply9")
  BY <1>1 DEF Inv, Types
<1>10. Types'
  BY <1>1, <1>6, <1>7, <1>9, NoRxIs DEF Inv, Types
<1>11. ~md.up => x.is \notin {"Idle", "Error"}
  BY <1>3, <1>4 DEF Inv, Turns
<1>12. Turns'
  BY <1>1, <1>3, <1>4, <1>6, <1>7, <1>9, <1>11 DEF Inv, Turns
<1>13. QED
  BY <1>6, <1>8, <1>10, <1>12 DEF Inv

\* A message that is sent again,
LEMMA ResendKeeps == Inv /\ Resend => Inv'
<1> SUFFICES ASSUME Inv, Resend PROVE Inv'
  OBVIOUS
<1>1. UNCHANGED <<h, md, pc, chip, dev, al, left, occurs>> /\ rx' = NoRx
      /\ mh' = [mh EXCEPT !.retry = @ + 1] /\ mh.retry < OPERATE_RETRY
  BY DEF Resend
<1>2. DOMAIN dev = DeviceFields
  BY DEF Inv, DeviceOK
<1>3. DeviceOK' /\ Isdu(h, chip, rx)' /\ OwnResponse' /\ (Held(h.job)' <=> Held(h.job))
  BY <1>1, <1>2, Still
<1>4. mh' \in [state : {"off", "reply9", "reply16"}, retry : 0..OPERATE_RETRY] /\ mh'.state = mh.state
  BY <1>1, RetryAssumption DEF Inv, Types
<1>5. Types'
  BY <1>1, <1>4, NoRxIs DEF Inv, Types, AlOK
<1>6. QED
  BY <1>1, <1>3, <1>4, <1>5 DEF Inv, Turns

\* a lost link,
LEMMA ComLostKeeps == Inv /\ ComLost => Inv'
<1> SUFFICES ASSUME Inv, ComLost PROVE Inv'
  OBVIOUS
<1> DEFINE w == IF mh.state = "reply9" THEN WriteMasterCommand(h, "ERR") ELSE h
           c == Cnf(h.rw, "ERR", 0)
           v == IF mh.state = "reply9" /\ h.rw \in {"read", "write"} THEN Confirm(w, c) ELSE w
           x == [v EXCEPT !.rw = "none", !.lost = TRUE]
<1>1. /\ HandTo(x, caller) /\ UNCHANGED <<pc, chip, dev, left, occurs>> /\ rx' = NoRx
      /\ mh' = [state |-> "off", retry |-> 0] /\ md' = [md EXCEPT !.mdh = TRUE] /\ pc = "wait"
  BY DEF ComLost, Hand, Waiting
<1>2. Typed(h) /\ h.out = <<>> /\ Silent(h) /\ Isdu(h, chip, rx)
  BY DEF Inv, Types, Silent, Outs
<1>3. /\ Typed(w) /\ IsduPart(w) = IsduPart(h) /\ Given(w) = Given(h) /\ OdPart(w) = OdPart(h)
      /\ w.tx = h.tx /\ MayConfirm(h, w, {"mode"})
  <2>1. MayConfirm(h, h, {"mode"})
    BY DEF MayConfirm
  <2>2. QED
    BY <1>2, <2>1, WriteDoes
<1> HIDE DEF w
<1>4. Silent(w) /\ Isdu(w, chip, rx)
  BY <1>2, <1>3, SameIsdu, MoreEnds
<1>5. /\ Typed(v) /\ IsduPart(v) = IsduPart(w) /\ Given(v) = Given(w) /\ OdPart(v) = OdPart(w)
      /\ v.tx = w.tx /\ MayConfirm(w, v, {"read", "write"})
  <2>1. IsSeq(Append(w.out, c))
    BY <1>3, AppendAdds DEF Typed
  <2>2. c.kind = h.rw
    BY DEF Cnf
  <2> HIDE DEF c
  <2>3. CASE v = w
    BY <1>3, <2>3 DEF MayConfirm
  <2>4. CASE v = Confirm(w, c) /\ h.rw \in {"read", "write"}
    BY <1>3, <2>1, <2>2, <2>4 DEF Confirm, Typed, Fields, IsduPart, Given, OdPart, MayConfirm
  <2>5. QED
    BY <2>3, <2>4
<1> HIDE DEF v
<1>6. Silent(v) /\ Isdu(v, chip, rx)
  BY <1>3, <1>4, <1>5, SameIsdu, MoreEnds
<1>7. /\ Typed(x) /\ x.is = v.is /\ x.job = v.job /\ x.rw = "none" /\ x.act = v.act /\ x.ch = v.ch
      /\ OdPart(x) = OdPart(v) /\ x.tx = v.tx /\ x.out = v.out
      /\ x.seg = v.seg /\ x.tot = v.tot /\ x.buf = v.buf
  BY <1>5 DEF Typed, Fields, OdPart
<1> HIDE DEF x
<1>8. Isdu(x, chip, rx)
  BY <1>6, <1>7 DEF Isdu, Segment, Owed, Underway
<1>9. Isdu(x, chip, NoRx)
  BY <1>8, NoRxIs DEF Isdu, Underway
<1>10. Ends(x)
  BY <1>6, <1>7 DEF Ends, Silent, Outs
<1>11. /\ Typed(h') /\ h'.out = <<>> /\ IsduPart(h') = IsduPart(x) /\ Given(h') = Given(x)
       /\ OdPart(h') = OdPart(x) /\ h'.tx = x.tx
       /\ AlOK' /\ OwnResponse' /\ Isdu(h, chip, rx)'
  BY <1>1, <1>7, <1>9, <1>10, Deliver DEF Inv, Types
<1>12. /\ h'.is = h.is /\ h'.job = h.job /\ h'.act = h.act /\ h'.ch = h.ch /\ h'.tx = h.tx
       /\ h'.od = h.od /\ h'.trig = h.trig
  BY <1>3, <1>5, <1>7, <1>11 DEF IsduPart, Given, OdPart
<1>13. DeviceOK'
  BY <1>1, <1>12 DEF Inv, DeviceOK, Older, Processed, AtMostOnce
<1>14. mh' \in [state : {"off", "reply9", "reply16"}, retry : 0..OPERATE_RETRY] /\ mh'.state = "off"
       /\ md'.up = md.up /\ DOMAIN md' = DOMAIN md
  BY <1>1, RetryAssumption DEF Inv, Types
<1>15. Types'
  BY <1>1, <1>11, <1>12, <1>14, NoRxIs DEF Inv, Types
<1>16. Turns'
  BY <1>1, <1>12, <1>14 DEF Inv, Turns
<1>17. QED
  BY <1>11, <1>13, <1>15, <1>16 DEF Inv

\* and the ISDU's timer.
LEMMA IsduTimeoutKeeps == Inv /\ IsduTimeout => Inv'
<1> SUFFICES ASSUME Inv, IsduTimeout PROVE Inv'
  OBVIOUS
<1>1. h' = [h EXCEPT !.late = TRUE] /\ UNCHANGED <<md, mh, pc, chip, rx, dev, al, occurs>>
      /\ left' = [left EXCEPT !.faults = @ - 1]
  BY DEF IsduTimeout
<1>2. /\ Typed(h') /\ h'.out = h.out /\ h'.is = h.is /\ h'.rw = h.rw /\ h'.job = h.job
      /\ h'.seg = h.seg /\ h'.tot = h.tot /\ h'.buf = h.buf /\ h'.act = h.act /\ h'.ch = h.ch
      /\ h'.tx = h.tx /\ h'.od = h.od /\ h'.trig = h.trig
  BY <1>1 DEF Inv, Types, Typed, Fields
<1>3. DOMAIN dev = DeviceFields
  BY DEF Inv, DeviceOK
<1>4. DeviceOK' /\ Isdu(h, chip, rx)' /\ OwnResponse' /\ (Held(h.job)' <=> Held(h.job))
  BY <1>1, <1>2, <1>3, Still
<1>5. left'.jobs = left.jobs /\ DOMAIN left' = LeftFields
  BY <1>1 DEF Inv, Types, LeftFields
<1>6. Types'
  BY <1>1, <1>2, <1>5 DEF Inv, Types, AlOK
<1>7. QED
  BY <1>1, <1>2, <1>4, <1>6 DEF Inv, Turns

\* The chip and the device: an exchange,
LEMMA ExchangeKeeps == Inv /\ Exchange => Inv'
<1> SUFFICES ASSUME Inv, Exchange PROVE Inv'
  OBVIOUS
<1> DEFINE t == Takes(dev, chip, TRUE)
<1>1. /\ dev' = t[1] /\ rx' = Flagged(t[2], t[1]) /\ pc = "wait"
      /\ UNCHANGED <<h, md, mh, pc, chip, al, left, occurs>>
  BY DEF Exchange, Exchanging
<1>2. rx'.what = t[2].what /\ rx'.arg = t[2].arg /\ rx'.flag \in BOOLEAN
  BY <1>1 DEF Flagged
<1>3. t[2].what = "seg" => chip.kind = "Get" /\ dev.st \in {"Work", "Tx"} /\ t[2].arg = dev.segs[1]
  BY AnswerOf
<1> HIDE DEF t
<1>4. DeviceOK' /\ Isdu(h, chip, rx)' /\ OwnResponse'
  BY <1>1, <1>2, <1>3, DeviceMoves DEF Inv, Types, t
<1>5. QED
  BY <1>1, <1>2, <1>4 DEF Inv, Types, AlOK, Turns

\* a lost one,
LEMMA DropKeeps == Inv /\ Drop => Inv'
<1> SUFFICES ASSUME Inv, Drop PROVE Inv'
  OBVIOUS
<1>1. /\ dev' \in {dev, Takes(dev, chip, TRUE)[1]} /\ rx' = [NoRx EXCEPT !.what = "error"]
      /\ left' = [left EXCEPT !.faults = @ - 1] /\ pc = "wait"
      /\ UNCHANGED <<h, md, mh, pc, chip, al, occurs>>
  BY DEF Drop, Exchanging
<1>2. rx'.what = "error" /\ rx'.flag = FALSE /\ ~IsGood(rx')
  BY <1>1 DEF NoRx, IsGood
<1>3. DeviceOK' /\ Isdu(h, chip, rx)' /\ OwnResponse'
  BY <1>1, <1>2, DeviceMoves DEF Inv, Types
<1>4. left'.jobs = left.jobs /\ DOMAIN left' = LeftFields
  BY <1>1 DEF Inv, Types, LeftFields
<1>5. QED
  BY <1>1, <1>2, <1>3, <1>4 DEF Inv, Types, AlOK, Turns

\* an ISDU's trouble,
LEMMA TroubleKeeps == Inv /\ Trouble => Inv'
<1> SUFFICES ASSUME Inv, Trouble PROVE Inv'
  OBVIOUS
<1>1. PICK a \in {"busy", "noservice", "bad"} :
        /\ rx' = Flagged(Answer(a, 0, 0), dev)
        /\ dev' = IF a = "busy" THEN dev ELSE [dev EXCEPT !.st = "Idle"]
  BY DEF Trouble
<1>2. /\ left' = [left EXCEPT !.faults = @ - 1] /\ pc = "wait" /\ chip.kind = "Get"
      /\ UNCHANGED <<h, md, mh, pc, chip, al, occurs>>
  BY DEF Trouble, Exchanging
<1>3. rx'.what # "seg" /\ rx'.flag \in BOOLEAN
  BY <1>1 DEF Flagged, Answer
<1>4. DeviceOK' /\ Isdu(h, chip, rx)' /\ OwnResponse'
  BY <1>1, <1>2, <1>3, DeviceMoves DEF Inv, Types
<1>5. left'.jobs = left.jobs /\ DOMAIN left' = LeftFields
  BY <1>2 DEF Inv, Types, LeftFields
<1>6. QED
  BY <1>2, <1>3, <1>4, <1>5 DEF Inv, Types, AlOK, Turns

\* an event.
LEMMA DeviceEventKeeps == Inv /\ DeviceEvent => Inv'
<1> SUFFICES ASSUME Inv, DeviceEvent PROVE Inv'
  OBVIOUS
<1>1. /\ dev' = [dev EXCEPT !.ev = left.events] /\ left' = [left EXCEPT !.events = @ - 1]
      /\ UNCHANGED <<h, md, mh, pc, chip, rx, al, occurs>>
  BY DEF DeviceEvent
<1>2. DOMAIN dev' = DeviceFields /\ dev'.st = dev.st /\ dev'.segs = dev.segs /\ dev'.done = dev.done
  BY <1>1 DEF Inv, DeviceOK, DeviceFields
<1>3. DeviceOK' /\ Isdu(h, chip, rx)' /\ OwnResponse' /\ (Held(h.job)' <=> Held(h.job))
  BY <1>1, <1>2, Still
<1>4. left'.jobs = left.jobs /\ DOMAIN left' = LeftFields
  BY <1>1 DEF Inv, Types, LeftFields
<1>5. QED
  BY <1>1, <1>3, <1>4 DEF Inv, Types, AlOK, Turns

\* The requests of AL, granted and refused.
LEMMA AskIsduKeeps == Inv /\ AskIsdu => Inv'
<1> SUFFICES ASSUME Inv, AskIsdu PROVE Inv'
  OBVIOUS
<1> DEFINE q == [h EXCEPT !.rw = "isdu", !.job = NextJob, !.seg = 0, !.tot = ReqSegs, !.buf = Empty]
<1>1. /\ al.op = "none" /\ al.amid = "none"
      /\ left' = [left EXCEPT !.jobs = @ - 1] /\ left.jobs > 0
      /\ h' = IF IsduAccepted(h) THEN q ELSE h
      /\ al' = IF IsduAccepted(h) THEN [al EXCEPT !.op = "isdu", !.job = NextJob] ELSE al
      /\ UNCHANGED <<md, mh, pc, chip, rx, dev, occurs>>
  BY DEF AskIsdu, Asks
<1>2. /\ DOMAIN dev = DeviceFields /\ MaxJobs \in Nat /\ left.jobs \in 1..MaxJobs
      /\ h.job \in 0..MaxJobs - left.jobs
  BY <1>1, BudgetAssumption DEF Inv, DeviceOK, Types
<1>3. /\ DOMAIN left' = LeftFields /\ left'.jobs = left.jobs - 1 /\ left'.jobs \in 0..MaxJobs
      /\ NextJob = MaxJobs - left'.jobs /\ NextJob \in Nat /\ h.job < NextJob
  BY <1>1, <1>2 DEF Inv, Types, LeftFields, NextJob
<1>4. CASE ~IsduAccepted(h)
  <2>1. h' = h /\ al' = al
    BY <1>1, <1>4
  <2>2. DeviceOK' /\ Isdu(h, chip, rx)' /\ OwnResponse' /\ (Held(h.job)' <=> Held(h.job))
    BY <1>1, <1>2, <2>1, Still
  <2>3. h'.job \in 0..MaxJobs - left'.jobs
    BY <1>2, <1>3, <2>1
  <2>4. Types'
    BY <1>1, <1>3, <2>1, <2>3 DEF Inv, Types, AlOK
  <2>5. QED
    BY <1>1, <2>1, <2>2, <2>4 DEF Inv, Turns
<1>5. CASE IsduAccepted(h)
  <2>1. h.is = "Idle" /\ md.up /\ h' = q
    BY <1>1, <1>5 DEF IsduAccepted
  <2>2. Buffer(Empty) /\ ReqSegs \in Nat
    BY SegmentsAssumption DEF Buffer, Empty
  <2>3. /\ Typed(h') /\ h'.out = h.out /\ h'.is = "Idle" /\ h'.rw = "isdu" /\ h'.job = NextJob
        /\ h'.act = h.act /\ h'.ch = h.ch /\ h'.tx = h.tx /\ h'.od = h.od /\ h'.trig = h.trig
    <3>1. PICK b, n : b = Empty /\ n = NextJob
      OBVIOUS
    <3>2. h' = [h EXCEPT !.rw = "isdu", !.job = n, !.seg = 0, !.tot = ReqSegs, !.buf = b]
      BY <2>1, <3>1
    <3>3. Buffer(b) /\ n \in Nat
      BY <1>3, <2>2, <3>1
    <3>4. Typed(h) /\ h.is = "Idle"
      BY <2>1 DEF Inv, Types
    <3>5. QED
      BY <2>2, <3>1, <3>2, <3>3, <3>4 DEF Typed, Fields
  <2>4. /\ DOMAIN al' = {"op", "job", "amid", "told"} /\ al'.op = "isdu" /\ al'.job = NextJob
        /\ al'.told = al.told /\ al'.amid = "none"
    BY <1>1, <1>5 DEF Inv, Types, AlOK, OpOf
  <2>5. DeviceOK' /\ \A j : (Older(j) <=> Older(j)') /\ (Processed(j) <=> Processed(j)')
    <3>1. h.job \in Nat /\ h'.job \in Nat /\ h.job <= h'.job
      BY <1>2, <1>3, <2>3
    <3>2. QED
      BY <1>1, <1>2, <3>1, DeviceKept DEF Inv
  <2>6. PICK n : n = NextJob
    OBVIOUS
  <2>7. Older(n)
    <3>1. n \in Nat /\ h.job \in Nat /\ h.job < n
      BY <1>2, <1>3, <2>6
    <3>2. \A i \in DOMAIN dev.done : dev.done[i][1] \in 1..h.job
      BY DEF Inv, DeviceOK
    <3>3. QED
      BY <3>1, <3>2 DEF Older
  <2>8. Older(h.job)'
    BY <1>1, <2>3, <2>6, <2>7 DEF Older
  <2>9. Segment(h, chip)'
    <3>1. chip.kind = "Seg" => chip.arg \in 1..h'.job
      BY <1>2, <1>3, <2>3 DEF Inv, Isdu, Segment
    <3>2. Older(chip.arg)' <=> Older(chip.arg)
      BY <1>1 DEF Older
    <3>3. QED
      BY <1>1, <2>3, <3>1, <3>2 DEF Inv, Isdu, Segment, Active
  <2>10. Owed(h, chip)'
    <3>1. chip.kind = "Seg" => chip.arg < h'.job
      BY <1>2, <1>3, <2>3 DEF Inv, Isdu, Segment
    <3>2. h'.job > 0
      BY <1>2, <1>3, <2>3
    <3>3. QED
      BY <1>1, <2>3, <2>4, <2>8, <3>1, <3>2 DEF Owed, Active
  <2>11. Underway(h, chip, rx)'
    BY <2>3 DEF Underway
  <2>12. OwnResponse'
    BY <1>1, <2>4 DEF Inv, OwnResponse, ToldIsdu
  <2>13. Types'
    <3>1. h'.job \in 0..MaxJobs - left'.jobs
      BY <1>2, <1>3, <2>3
    <3>2. QED
      BY <1>1, <1>3, <2>3, <2>4, <3>1 DEF Inv, Types, AlOK
  <2>14. Turns'
    BY <1>1, <2>1, <2>3 DEF Inv, Turns, Active
  <2>15. QED
    BY <2>5, <2>9, <2>10, <2>11, <2>12, <2>13, <2>14 DEF Inv, Isdu
<1>6. QED
  BY <1>4, <1>5

\* AL asks for a parameter.
LEMMA AskParamKeeps == Inv /\ AskParam => Inv'
<1> SUFFICES ASSUME Inv, AskParam PROVE Inv'
  OBVIOUS
<1>0. OpOf["Read"] = "read" /\ OpOf["Write"] = "write"
  BY DEF OpOf
<1>1. PICK rw \in {"read", "write"} :
        /\ al.op = "none" /\ left' = [left EXCEPT !.jobs = @ - 1] /\ left.jobs > 0
        /\ h' = [h EXCEPT !.rw = rw]
        /\ al' = [al EXCEPT !.op = rw, !.job = NextJob, !.amid = rw]
        /\ UNCHANGED <<md, mh, pc, chip, rx, dev, occurs>>
  BY <1>0 DEF AskParam, Asks
<1>2. /\ DOMAIN dev = DeviceFields /\ MaxJobs \in Nat /\ left.jobs \in 1..MaxJobs
      /\ h.job \in 0..MaxJobs - left.jobs
  BY <1>1, BudgetAssumption DEF Inv, DeviceOK, Types
<1>3. /\ DOMAIN left' = LeftFields /\ left'.jobs = left.jobs - 1 /\ left'.jobs \in 0..MaxJobs
      /\ h.job \in 0..MaxJobs - left'.jobs
  BY <1>1, <1>2 DEF Inv, Types, LeftFields
<1>4. /\ Typed(h') /\ h'.out = h.out /\ h'.is = h.is /\ h'.rw = rw /\ h'.job = h.job
      /\ h'.seg = h.seg /\ h'.tot = h.tot /\ h'.buf = h.buf /\ h'.act = h.act /\ h'.ch = h.ch
      /\ h'.tx = h.tx /\ h'.od = h.od /\ h'.trig = h.trig
  <2>1. Typed(h)
    BY DEF Inv, Types
  <2>2. QED
    BY <1>1, <2>1 DEF Typed, Fields
<1>5. AlOK' /\ al'.op # "isdu" /\ al'.told = al.told
  BY <1>1 DEF Inv, Types, AlOK
<1>6. h.is \notin Active
  BY <1>1 DEF Inv, Isdu, Owed
<1>7. DeviceOK'
  BY <1>1, <1>4 DEF Inv, DeviceOK, Older, Processed, AtMostOnce
<1>8. Segment(h, chip)'
  <2>1. Older(chip.arg)' <=> Older(chip.arg)
    BY <1>1 DEF Older
  <2>2. QED
    BY <1>1, <1>4, <2>1 DEF Inv, Isdu, Segment
<1>9. Owed(h, chip)' /\ Underway(h, chip, rx)'
  BY <1>4, <1>5, <1>6 DEF Owed, Underway, Active
<1>10. OwnResponse'
  BY <1>1, <1>5 DEF Inv, OwnResponse, ToldIsdu
<1>11. Types'
  BY <1>1, <1>3, <1>4, <1>5 DEF Inv, Types
<1>12. Turns'
  BY <1>1, <1>4, <1>6 DEF Inv, Turns, Active
<1>13. QED
  BY <1>7, <1>8, <1>9, <1>10, <1>11, <1>12 DEF Inv, Isdu

\* The rest of the call: AL waits no more, or the data is stored.
LEMMA StoreParamKeeps == Inv /\ StoreParam => Inv'
<1> SUFFICES ASSUME Inv, StoreParam PROVE Inv'
  OBVIOUS
<1>1. /\ al.amid # "none" /\ UNCHANGED <<md, mh, pc, chip, rx, dev, left, occurs>>
      /\ \/ al' = [al EXCEPT !.op = "none", !.job = 0, !.amid = "none"]
         \/ al' = [al EXCEPT !.amid = "none"]
      /\ h' = h \/ h' = [h EXCEPT !.val = NextJob - 1]
  BY DEF StoreParam
<1>2. AlOK' /\ al.op # "isdu" /\ al'.op # "isdu" /\ al'.told = al.told
  BY <1>1 DEF Inv, Types, AlOK
<1>3. /\ Typed(h') /\ h'.out = h.out /\ h'.is = h.is /\ h'.rw = h.rw /\ h'.job = h.job
      /\ h'.seg = h.seg /\ h'.tot = h.tot /\ h'.buf = h.buf /\ h'.act = h.act /\ h'.ch = h.ch
      /\ h'.tx = h.tx /\ h'.od = h.od /\ h'.trig = h.trig
  <2>1. Typed(h)
    BY DEF Inv, Types
  <2>2. PICK n : n = NextJob - 1
    OBVIOUS
  <2>3. h' = h \/ h' = [h EXCEPT !.val = n]
    BY <1>1, <2>2
  <2>4. QED
    BY <2>1, <2>3 DEF Typed, Fields
<1>4. h.is \notin Active /\ ~(h.is = "Idle" /\ h.rw = "isdu")
  BY <1>2 DEF Inv, Isdu, Owed
<1>5. DeviceOK'
  BY <1>1, <1>3 DEF Inv, DeviceOK, Older, Processed, AtMostOnce
<1>6. Segment(h, chip)'
  <2>1. Older(chip.arg)' <=> Older(chip.arg)
    BY <1>1 DEF Older
  <2>2. QED
    BY <1>1, <1>3, <2>1 DEF Inv, Isdu, Segment
<1>7. Owed(h, chip)' /\ Underway(h, chip, rx)'
  BY <1>2, <1>3, <1>4 DEF Owed, Underway, Active
<1>8. OwnResponse'
  BY <1>1, <1>2 DEF Inv, OwnResponse, ToldIsdu
<1>9. Types'
  BY <1>1, <1>2, <1>3 DEF Inv, Types
<1>10. Turns'
  BY <1>1, <1>3, <1>4 DEF Inv, Turns, Active
<1>11. QED
  BY <1>5, <1>6, <1>7, <1>8, <1>9, <1>10 DEF Inv, Isdu

\* The control code of the command handler, and its run in the caller's thread.
LEMMA CallersKeep == Inv /\ (AskPdout \/ RunPdout \/ AskMode \/ RunMode \/ AskInactive) => Inv'
<1> SUFFICES ASSUME Inv, AskPdout \/ RunPdout \/ AskMode \/ RunMode \/ AskInactive PROVE Inv'
  OBVIOUS
<1>1. /\ UNCHANGED <<mh, pc, chip, rx, dev, al, occurs>>
      /\ md' = md \/ md' = [md EXCEPT !.mode = "INACTIVE", !.mdh = TRUE]
      /\ left' = left \/ left' = [left EXCEPT !.commands = @ - 1]
      /\ \/ h' = h \/ h' = CmdHandler(h) \/ \E code : h' = [h EXCEPT !.code = code]
         \/ h' = [h EXCEPT !.mcmd = "FALLBACK", !.code = "DEVICEMODE"]
  BY DEF AskPdout, RunPdout, AskMode, RunMode, AskInactive
<1>2. /\ Typed(h') /\ h'.out = h.out /\ IsduPart(h') = IsduPart(h) /\ h'.act = h.act
      /\ h'.ch = h.ch /\ (h'.tx = h.tx \/ h'.tx.kind = "Cmd") /\ h'.od = h.od /\ h'.trig = h.trig
  <2>1. Typed(h)
    BY DEF Inv, Types
  <2>2. CASE h' = CmdHandler(h)
    <3>1. /\ Typed(h') /\ IsduPart(h') = IsduPart(h) /\ Given(h') = Given(h)
          /\ OdPart(h') = OdPart(h) /\ h'.out = h.out
          /\ h'.tx = h.tx \/ h'.tx = Msg("Cmd", 0, h.mcmd)
      BY <2>1, <2>2, CmdDoes
    <3>2. QED
      BY <3>1 DEF Given, OdPart, Msg
  <2>3. CASE h' = h
    BY <2>1, <2>3
  <2>4. ASSUME NEW code, h' = [h EXCEPT !.code = code]
        PROVE  /\ Typed(h') /\ h'.out = h.out /\ IsduPart(h') = IsduPart(h) /\ h'.act = h.act
               /\ h'.ch = h.ch /\ h'.tx = h.tx /\ h'.od = h.od /\ h'.trig = h.trig
    BY <2>1, <2>4 DEF Typed, Fields, IsduPart
  <2>5. CASE h' = [h EXCEPT !.mcmd = "FALLBACK", !.code = "DEVICEMODE"]
    BY <2>1, <2>5 DEF Typed, Fields, IsduPart
  <2>6. QED
    BY <1>1, <2>2, <2>3, <2>4, <2>5
<1>3. /\ h'.is = h.is /\ h'.rw = h.rw /\ h'.job = h.job /\ h'.seg = h.seg /\ h'.tot = h.tot
      /\ h'.buf = h.buf
  BY <1>2 DEF IsduPart
<1>4. DOMAIN dev = DeviceFields
  BY DEF Inv, DeviceOK
<1>5. DeviceOK' /\ Isdu(h, chip, rx)' /\ OwnResponse' /\ (Held(h.job)' <=> Held(h.job))
  BY <1>1, <1>3, <1>4, Still
<1>6. left'.jobs = left.jobs /\ DOMAIN left' = LeftFields /\ md'.up = md.up /\ DOMAIN md' = DOMAIN md
  BY <1>1 DEF Inv, Types, LeftFields
<1>7. Types'
  BY <1>1, <1>2, <1>3, <1>6 DEF Inv, Types, AlOK
<1>8. QED
  BY <1>1, <1>2, <1>3, <1>5, <1>6, <1>7 DEF Inv, Turns

\* Nothing happens.
LEMMA StutterKeeps == Inv /\ UNCHANGED vars => Inv'
<1> SUFFICES ASSUME Inv, UNCHANGED vars PROVE Inv'
  OBVIOUS
<1>1. UNCHANGED <<h, md, mh, pc, chip, rx, dev, al, left, occurs>>
  BY DEF vars
<1>2. DOMAIN dev = DeviceFields
  BY DEF Inv, DeviceOK
<1>3. DeviceOK' /\ Isdu(h, chip, rx)' /\ OwnResponse' /\ (Held(h.job)' <=> Held(h.job))
  BY <1>1, <1>2, Still
<1>4. QED
  BY <1>1, <1>3 DEF Inv, Types, AlOK, Turns

\* Every step.
LEMMA NextKeeps == Inv /\ [Next]_vars => Inv'
BY UpKeeps, ModeHandlerKeeps, ReceivedKeeps, PrepareKeeps, WriteNowKeeps, WrittenKeeps, ResendKeeps,
   ComLostKeeps, IsduTimeoutKeeps, ExchangeKeeps, DropKeeps, TroubleKeeps, DeviceEventKeeps,
   AskIsduKeeps, AskParamKeeps, StoreParamKeeps, CallersKeep, StutterKeeps DEF Next, Thread, Callers, Free

\* The inductive invariant holds in every state.
THEOREM OnRequest == Spec => []Inv
<1>1. Init => Inv
  BY InitInv
<1>2. Inv /\ [Next]_vars => Inv'
  BY NextKeeps
<1>3. QED
  BY <1>1, <1>2, PTL DEF Spec

\* A response that AL is given as good is the whole response to the request it asked, and the
\* device has processed that request: whatever messages are lost and sent again, whatever the
\* device answers, and in whatever order the events, commands, parameters, timeouts, lost and
\* restarted links come (iolink_dl_isdu_h_sm_* and DL_ISDUTransport_req).
THEOREM ResponsesAreOwn == Spec => []OwnResponse
<1>1. Inv => OwnResponse
  BY DEF Inv
<1>2. QED
  BY <1>1, OnRequest, PTL

\* The device processes whole requests, each at most once and in the order AL asked
\* (the segments that ISDUREQUEST_2 sends, and AW_REPLY_16 sends again).
THEOREM RequestsAtMostOnce == Spec => []AtMostOnce
<1>1. Inv => AtMostOnce
  BY DEF Inv, DeviceOK
<1>2. QED
  BY <1>1, OnRequest, PTL
=============================================================================
