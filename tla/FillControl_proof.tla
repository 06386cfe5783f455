-------------------------- MODULE FillControl_proof --------------------------
(***************************************************************************)
(* Proofs about FillControl, for every bound, step, coast and choice of     *)
(* what may occur.                                                          *)
(***************************************************************************)
EXTENDS FillControl, TLAPS

\* What the water and the update loop can disturb.
TypeWater ==
  /\ flow \in BOOLEAN /\ tot \in Gallons /\ link \in BOOLEAN
  /\ lastFlow \in BOOLEAN /\ lastTot \in Gallons /\ lastRead \in {"recent", "old"}
  /\ wasFlowing \in BOOLEAN /\ latched \in BOOLEAN /\ pending \in Gallons
  /\ daily \in Nat /\ resetFor \in {"none", "this", "earlier"} /\ timers \in Nat

\* What the commands can disturb.
TypeGoal ==
  /\ override \in BOOLEAN /\ overrideTime \in {"none", "recent", "old"}
  /\ requested \in Int /\ preset \in [Modes -> Int] /\ mode \in Modes
  /\ batch \in BOOLEAN /\ layout \in BOOLEAN /\ screen \in Screens
  /\ pc \in [Listeners -> Places] /\ reg \in [Listeners -> Int]
  /\ into \in [Listeners -> Modes] /\ held \in Int

\* What the queue of Tk and the relay threads can disturb.
TypeTk ==
  /\ tkpc \in {"idle", "update", "relay"} \cup Switching
  /\ tasks \in Seq(Tasks) /\ alive \in BOOLEAN
  /\ pin \in BOOLEAN /\ starting \in Nat /\ holding \in Nat /\ budget \in 0..MaxCommands

\* While switch_mode runs, its task is at the head of the queue.
SwitchHead == tkpc \in Switching => tasks # <<>> /\ Head(tasks) \in Modes

\* A task that can be taken, or is done, leaves a queue; a task can always be queued, and
\* does not displace the first one.
LEMMA TakeType ==
  ASSUME TypeTk
  PROVE  /\ tasks # <<>> => Tail(tasks) \in Seq(Tasks)
         /\ \A task \in Tasks : Append(tasks, task) \in Seq(Tasks)
         /\ \A task \in Tasks : tasks # <<>> =>
              Append(tasks, task) # <<>> /\ Head(Append(tasks, task)) = Head(tasks)
BY DEF TypeTk

\* Every action keeps every variable in its domain.
THEOREM FillTypeCorrect == Spec => []TypeOK
<1>1. Init => TypeOK /\ SwitchHead
  <2> SUFFICES ASSUME Init PROVE TypeOK /\ SwitchHead
    OBVIOUS
  <2>1. MaxGallons \in Nat /\ MaxCommands \in Nat /\ 0 \in Gallons
    BY FillAssumption DEF Gallons
  <2>2. preset \in [Modes -> Int] /\ mode \in Modes
    BY <2>1 DEF Init, Modes
  <2>3. requested \in Int
    BY <2>2 DEF Init
  <2>4. /\ pc \in [Listeners -> Places] /\ reg \in [Listeners -> Int]
        /\ into \in [Listeners -> Modes] /\ held \in Int /\ screen \in Screens
    BY DEF Init, Places, Modes, Screens
  <2>5. tasks \in Seq(Tasks) /\ budget \in 0..MaxCommands
    BY <2>1 DEF Init
  <2>6. QED
    BY <2>1, <2>2, <2>3, <2>4, <2>5 DEF Init, TypeOK, SwitchHead, Switching
<1>2. TypeOK /\ SwitchHead /\ [Next]_vars => TypeOK'
  <2> SUFFICES ASSUME TypeWater, TypeGoal, TypeTk, SwitchHead, [Next]_vars
               PROVE  TypeWater' /\ TypeGoal' /\ TypeTk'
    BY DEF TypeOK, TypeWater, TypeGoal, TypeTk
  <2>g. 0 \in Gallons /\ tot \in Gallons /\ (tot < MaxGallons => tot + 1 \in Gallons)
    BY FillAssumption DEF TypeWater, Gallons
  <2>b. budget > 0 => budget - 1 \in 0..MaxCommands
    BY FillAssumption DEF TypeTk
  <2>q. /\ tasks # <<>> => Tail(tasks) \in Seq(Tasks)
        /\ \A task \in Tasks : Append(tasks, task) \in Seq(Tasks)
    BY TakeType
  <2>k. /\ Modes \subseteq Tasks
        /\ {"thumbs", "relay", "reset", "force", "overlay", "clear", "menu"} \subseteq Tasks
    BY DEF Modes, Tasks
  <2>w. waterVars' = waterVars /\ readVars' = readVars /\ cycleVars' = cycleVars
          => TypeWater'
    BY DEF waterVars, readVars, cycleVars, TypeWater
  <2>o. ovVars' = ovVars /\ goalVars' = goalVars /\ thrVars' = thrVars => TypeGoal'
    BY DEF ovVars, goalVars, thrVars, TypeGoal
  <2>t. tkVars' = tkVars /\ relayVars' = relayVars /\ budget' = budget => TypeTk'
    BY DEF tkVars, relayVars, TypeTk
  <2>1. CASE Pump
    BY <2>1, <2>g, <2>o, <2>t
    DEF Pump, othersThanWater, readVars, cycleVars, TypeWater
  <2>2. CASE FlowChanges
    BY <2>2, <2>o, <2>t
    DEF FlowChanges, othersThanWater, readVars, cycleVars, TypeWater
  <2>3. CASE LinkChanges
    BY <2>3, <2>o, <2>t
    DEF LinkChanges, othersThanWater, readVars, cycleVars, TypeWater
  <2>4. CASE ReadingAges
    BY <2>4, <2>o, <2>t DEF ReadingAges, waterVars, cycleVars, TypeWater
  <2>5. CASE OverrideAges
    BY <2>5, <2>w, <2>t DEF OverrideAges, othersThanWater, goalVars, thrVars, TypeGoal
  <2>6. CASE Poll
    <3>1. TypeWater'
      BY <2>6 DEF Poll, NextCycle, waterVars, TypeWater
    <3>2. TypeTk'
      BY <2>6 DEF Poll, relayVars, TypeTk
    <3>3. QED
      BY <2>6, <2>o, <3>1, <3>2 DEF Poll
  <2>7. CASE Update
    <3>1. TypeError => latched' \in BOOLEAN /\ TypeGoal' /\ TypeTk'
      <4> SUFFICES ASSUME TypeError
                   PROVE  latched' \in BOOLEAN /\ TypeGoal' /\ TypeTk'
        OBVIOUS
      <4>1. latched' \in BOOLEAN
        BY <2>7 DEF Update, Latch
      <4>2. TypeGoal'
        BY <2>7, <2>o DEF Update
      <4>3. TypeTk'
        BY <2>7 DEF Update, TypeTk
      <4>4. QED
        BY <4>1, <4>2, <4>3
    <3>2. OverrideExpiry => override' \in BOOLEAN /\ overrideTime' \in {"none", "recent", "old"}
      BY DEF OverrideExpiry, ovVars, TypeGoal
    <3>3. AutoAlert => latched' \in BOOLEAN /\ starting' \in Nat
      <4>1. Latch \in BOOLEAN /\ starting \in Nat /\ starting + 1 \in Nat
        BY DEF Latch, TypeTk
      <4>2. QED
        BY <4>1 DEF AutoAlert
    <3>4. ~TypeError => latched' \in BOOLEAN /\ TypeGoal' /\ TypeTk'
      BY <2>7, <3>2, <3>3 DEF Update, goalVars, thrVars, TypeGoal, TypeTk
    <3>5. TypeWater'
      BY <2>7, <2>g, <3>1, <3>4
      DEF Update, FlowEdges, NextCycle, waterVars, readVars, TypeWater
    <3>6. QED
      BY <3>1, <3>4, <3>5
  <2>8. CASE DoThumbsUp
    <3>1. daily + pending \in Nat /\ timers + 1 \in Nat
      BY DEF TypeWater, Gallons
    <3>2. TypeWater'
      BY <2>8, <2>g, <3>1 DEF DoThumbsUp, ThumbsUp, waterVars, readVars, cycleVars, TypeWater
    <3>3. TypeTk'
      BY <2>8, <2>q, <2>k DEF DoThumbsUp, Take, relayVars, TypeTk
    <3>4. QED
      BY <2>8, <2>o, <3>2, <3>3 DEF DoThumbsUp
  <2>9. CASE SwitchBegins \/ SwitchMode
    <3>1. UNCHANGED <<waterVars, readVars, cycleVars, batch, screen, pc, reg, into, alive,
                      relayVars, budget>>
      BY <2>9 DEF SwitchBegins, SwitchMode, SwitchSaves, SwitchClears, SwitchTurns,
                  SwitchLoads, SwitchStores, switchUnchanged, goalVars
    <3>2. tasks' \in Seq(Tasks)
      BY <2>9, <2>q, <2>k
      DEF SwitchBegins, SwitchMode, SwitchSaves, SwitchClears, SwitchTurns, SwitchLoads,
          SwitchStores, Take, TypeTk, SwitchHead, Switching
    <3>3. tkpc' \in {"idle", "update", "relay"} \cup Switching
      BY <2>9
      DEF SwitchBegins, SwitchMode, SwitchSaves, SwitchClears, SwitchTurns, SwitchLoads,
          SwitchStores, TypeTk, Switching
    <3>4. override' \in BOOLEAN /\ overrideTime' \in {"none", "recent", "old"}
      BY <2>9
      DEF SwitchBegins, SwitchMode, SwitchSaves, SwitchClears, SwitchTurns, SwitchLoads,
          SwitchStores, ClearTime, ovVars, TypeGoal
    <3>5. mode' \in Modes /\ layout' \in BOOLEAN
      BY <2>9
      DEF SwitchBegins, SwitchMode, SwitchSaves, SwitchClears, SwitchTurns, SwitchLoads,
          SwitchStores, SwitchHead, Switching, goalVars, TypeGoal
    <3>6. requested' \in Int /\ held' \in Int /\ preset' \in [Modes -> Int]
      BY <2>9
      DEF SwitchBegins, SwitchMode, SwitchSaves, SwitchClears, SwitchTurns, SwitchLoads,
          SwitchStores, goalVars, TypeGoal
    <3>7. TypeGoal'
      BY <3>1, <3>4, <3>5, <3>6 DEF TypeGoal
    <3>8. TypeTk'
      BY <3>1, <3>2, <3>3 DEF relayVars, TypeTk
    <3>9. QED
      BY <3>1, <2>w, <3>7, <3>8
  <2>10. CASE DoStop
    <3>1. TypeTk'
      BY <2>10, <2>q, <2>k DEF DoStop, StopByTk, Take, TypeTk
    <3>2. QED
      BY <2>10, <2>w, <2>o, <3>1 DEF DoStop
  <2>11. CASE DoReset
    <3>1. TypeWater'
      BY <2>11, <2>g DEF DoReset, Pulse, resetUnchanged, readVars, TypeWater
    <3>2. TypeTk'
      BY <2>11, <2>q, <2>k DEF DoReset, Take, resetUnchanged, relayVars, TypeTk
    <3>3. QED
      BY <2>11, <2>o, <3>1, <3>2 DEF DoReset, resetUnchanged
  <2>12. CASE DoForceReset
    <3>1. TypeWater'
      BY <2>12, <2>g DEF DoForceReset, resetUnchanged, readVars, TypeWater
    <3>2. TypeTk'
      BY <2>12, <2>q, <2>k DEF DoForceReset, Take, resetUnchanged, relayVars, TypeTk
    <3>3. QED
      BY <2>12, <2>o, <3>1, <3>2 DEF DoForceReset, resetUnchanged
  <2>13. CASE DoOverlay \/ DoMenu
    <3>1. TypeTk'
      BY <2>13, <2>q, <2>k DEF DoOverlay, DoMenu, Take, relayVars, TypeTk
    <3>2. TypeGoal'
      BY <2>13 DEF DoOverlay, DoMenu, ovVars, thrVars, Screens, TypeGoal
    <3>3. QED
      BY <2>13, <2>w, <3>1, <3>2 DEF DoOverlay, DoMenu
  <2>14. CASE StopDone
    <3>1. TypeTk'
      BY <2>14 DEF StopDone, TypeTk
    <3>2. QED
      BY <2>14, <2>w, <2>o, <3>1 DEF StopDone
  <2>15. CASE ResetTimer
    <3>1. TypeWater'
      BY <2>15, <2>g DEF ResetTimer, Pulse, resetUnchanged, readVars, TypeWater
    <3>2. TypeTk'
      BY <2>15 DEF ResetTimer, resetUnchanged, relayVars, TypeTk
    <3>3. QED
      BY <2>15, <2>o, <3>1, <3>2 DEF ResetTimer, resetUnchanged
  <2>16. CASE StopBegins
    <3>1. TypeTk'
      BY <2>16 DEF StopBegins, tkVars, TypeTk
    <3>2. QED
      BY <2>16, <2>w, <2>o, <3>1 DEF StopBegins
  <2>17. CASE StopEnds
    <3>1. holding' \in Nat
      BY <2>17 DEF StopEnds, TypeTk
    <3>2. TypeTk'
      BY <2>17, <3>1 DEF StopEnds, tkVars, TypeTk
    <3>3. QED
      BY <2>17, <2>w, <2>o, <3>2 DEF StopEnds
  <2>18. CASE ScreenChanges
    <3>1. TypeTk'
      BY <2>18, <2>b DEF ScreenChanges, Command, tkVars, relayVars, TypeTk
    <3>2. TypeGoal'
      BY <2>18 DEF ScreenChanges, ovVars, thrVars, TypeGoal
    <3>3. QED
      BY <2>18, <2>w, <3>1, <3>2 DEF ScreenChanges
  <2>19. ASSUME NEW t \in Listeners, Listener(t)
         PROVE  TypeWater' /\ TypeGoal' /\ TypeTk'
    <3>1. CASE AdjustStores(t) \/ AdjustLimits(t) \/ AdjustTests(t) \/ AdjustSaves(t)
      <4>1. UNCHANGED <<goalStep, budget>>
        BY <3>1 DEF AdjustStores, AdjustLimits, AdjustTests, AdjustSaves
      <4>2. pc' \in [Listeners -> Places]
        BY <3>1 DEF AdjustStores, AdjustLimits, AdjustTests, AdjustSaves, Places, Adjusting,
                    TypeGoal
      <4>3. reg' \in [Listeners -> Int] /\ requested' \in Int
        BY <3>1 DEF AdjustStores, AdjustLimits, AdjustTests, AdjustSaves, TypeGoal
      <4>4. into' \in [Listeners -> Modes] /\ preset' \in [Modes -> Int]
        BY <3>1 DEF AdjustStores, AdjustLimits, AdjustTests, AdjustSaves, Modes, TypeGoal
      <4>5. TypeGoal'
        BY <4>1, <4>2, <4>3, <4>4 DEF goalStep, ovVars, TypeGoal
      <4>6. QED
        BY <4>1, <2>w, <2>t, <4>5 DEF goalStep
    <3>2. CASE FlipOverride
      <4>1. pc' \in [Listeners -> Places]
        BY <3>2 DEF FlipOverride, Places, TypeGoal
      <4>2. override' \in BOOLEAN /\ overrideTime' \in {"none", "recent", "old"}
        BY <3>2 DEF FlipOverride, ovVars, TypeGoal
      <4>3. TypeGoal'
        BY <3>2, <4>1, <4>2 DEF FlipOverride, goalVars, TypeGoal
      <4>4. QED
        BY <3>2, <2>w, <2>t, <4>3 DEF FlipOverride
    <3>3. CASE BatchWater
      <4>1. pc' \in [Listeners -> Places]
        BY <3>3 DEF BatchWater, Places, TypeGoal
      <4>2. reg' \in [Listeners -> Int] /\ preset' \in [Modes -> Int]
        <5>1. "socket" \in Listeners /\ reg["socket"] \in Int
          BY DEF Listeners, TypeGoal
        <5>2. reg' \in [Listeners -> Int]
          <6>1. reg' = [reg EXCEPT !["socket"] = 0]
            BY <3>3 DEF BatchWater
          <6>2. QED
            BY <5>1, <6>1 DEF TypeGoal
        <5>3. preset' \in [Modes -> Int]
          BY <3>3, <5>1 DEF BatchWater, TypeGoal
        <5>4. QED
          BY <5>2, <5>3
      <4>3. TypeGoal'
        BY <3>3, <4>1, <4>2 DEF BatchWater, ovVars, TypeGoal
      <4>4. TypeTk'
        BY <3>3, <2>q, <2>k DEF BatchWater, Queue, relayVars, TypeTk
      <4>5. QED
        BY <3>3, <2>w, <4>3, <4>4 DEF BatchWater
    <3>4. QED
      BY <2>19, <3>1, <3>2, <3>3 DEF Listener
  <2>20. CASE AsksTk
    <3>1. TypeTk'
      BY <2>20, <2>b, <2>q, <2>k DEF AsksTk, Reads, Command, Queue, relayVars, TypeTk
    <3>2. QED
      BY <2>20, <2>w, <2>o, <3>1 DEF AsksTk
  <2>21. CASE SerialStop
    <3>1. TypeTk'
      BY <2>21, <2>b DEF SerialStop, Command, tkVars, TypeTk
    <3>2. QED
      BY <2>21, <2>w, <2>o, <3>1 DEF SerialStop
  <2>22. CASE ToggleOverride
    <3>1. TypeTk'
      BY <2>22, <2>b, <2>q, <2>k
      DEF ToggleOverride, Reads, Command, Queue, relayVars, TypeTk
    <3>2. pc' \in [Listeners -> Places]
      BY <2>22 DEF ToggleOverride, Places, TypeGoal
    <3>3. TypeGoal'
      BY <2>22, <3>2 DEF ToggleOverride, ovVars, goalVars, TypeGoal
    <3>4. QED
      BY <2>22, <2>w, <3>1, <3>3 DEF ToggleOverride
  <2>23. CASE BatchArrives
    <3>1. TypeTk'
      BY <2>23, <2>b DEF BatchArrives, Reads, Command, tkVars, relayVars, TypeTk
    <3>2. reg' \in [Listeners -> Int]
      <4>1. PICK water \in Gallons : reg' = [reg EXCEPT !["socket"] = water]
        BY <2>23 DEF BatchArrives
      <4>2. water \in Int
        BY FillAssumption DEF Gallons
      <4>3. QED
        BY <4>1, <4>2 DEF TypeGoal
    <3>3. pc' \in [Listeners -> Places]
      BY <2>23 DEF BatchArrives, Places, TypeGoal
    <3>4. TypeGoal'
      BY <2>23, <3>2, <3>3 DEF BatchArrives, ovVars, TypeGoal
    <3>5. QED
      BY <2>23, <2>w, <3>1, <3>4 DEF BatchArrives
  <2>24. ASSUME NEW t \in Listeners, AdjustLoads(t)
         PROVE  TypeWater' /\ TypeGoal' /\ TypeTk'
    <3>1. \A by \in Steps \cup {-s : s \in Steps} : requested + by \in Int
      BY FillAssumption DEF TypeGoal
    <3>2. reg' \in [Listeners -> Int]
      BY <2>24, <3>1 DEF AdjustLoads, TypeGoal
    <3>3. TypeGoal'
      BY <2>24, <3>2 DEF AdjustLoads, goalStep, ovVars, Places, Adjusting, TypeGoal
    <3>4. TypeTk'
      BY <2>24, <2>b DEF AdjustLoads, Reads, Command, goalStep, tkVars, relayVars, TypeTk
    <3>5. QED
      BY <2>24, <2>w, <3>3, <3>4 DEF AdjustLoads, goalStep
  <2>25. CASE UNCHANGED vars
    BY <2>25, <2>w, <2>o, <2>t DEF vars
  <2>26. QED
    BY <2>1, <2>2, <2>3, <2>4, <2>5, <2>6, <2>7, <2>8, <2>9, <2>10, <2>11, <2>12, <2>13,
       <2>14, <2>15, <2>16, <2>17, <2>18, <2>19, <2>20, <2>21, <2>22, <2>23, <2>24, <2>25
    DEF Next, TkTask, People
<1>3. TypeOK /\ SwitchHead /\ [Next]_vars => SwitchHead'
  <2> SUFFICES ASSUME TypeOK, SwitchHead, [Next]_vars
               PROVE  SwitchHead'
    OBVIOUS
  <2>q. \A task \in Tasks : tasks # <<>> =>
          Append(tasks, task) # <<>> /\ Head(Append(tasks, task)) = Head(tasks)
    BY TakeType DEF TypeOK, TypeTk
  <2>k. /\ Modes \subseteq Tasks
        /\ {"thumbs", "relay", "reset", "force", "overlay", "clear", "menu"} \subseteq Tasks
        /\ {"idle", "update", "relay"} \cap Switching = {}
    BY DEF Modes, Tasks, Switching
  <2>u. UNCHANGED <<tkpc, tasks>> => SwitchHead'
    BY DEF SwitchHead
  <2>a. UNCHANGED tkpc /\ (\E task \in Tasks : Queue(task)) => SwitchHead'
    BY <2>q DEF Queue, SwitchHead
  <2>n. tkpc' \in {"idle", "update", "relay"} => SwitchHead'
    BY <2>k DEF SwitchHead
  <2>1. CASE \/ Pump \/ FlowChanges \/ LinkChanges \/ ReadingAges \/ OverrideAges
    BY <2>1, <2>u
    DEF Pump, FlowChanges, LinkChanges, ReadingAges, OverrideAges, othersThanWater, tkVars
  <2>2. CASE Poll \/ Update \/ StopDone \/ ResetTimer
    BY <2>2, <2>n, <2>u DEF Poll, Update, StopDone, ResetTimer, resetUnchanged
  <2>3. CASE \/ DoThumbsUp \/ DoStop \/ DoReset \/ DoForceReset \/ DoOverlay \/ DoMenu
    BY <2>3, <2>n
    DEF DoThumbsUp, DoStop, StopByTk, DoReset, DoForceReset, DoOverlay, DoMenu, Take,
        resetUnchanged
  <2>4. CASE SwitchBegins
    <3>1. PICK m \in Modes : /\ Take(m)
                             /\ IF m = mode THEN UNCHANGED tkpc ELSE UNCHANGED tasks
      BY <2>4 DEF SwitchBegins
    <3>2. QED
      BY <3>1, <2>n DEF Take, SwitchHead
  <2>5. CASE SwitchMode
    <3>1. CASE SwitchStores
      BY <3>1, <2>n DEF SwitchStores
    <3>2. CASE SwitchSaves \/ SwitchClears \/ SwitchLoads
      BY <3>2 DEF SwitchSaves, SwitchClears, SwitchLoads, SwitchHead, Switching
    <3>3. CASE SwitchTurns
      <4>1. tasks # <<>> /\ Head(tasks) \in Modes
        BY <3>3 DEF SwitchTurns, SwitchHead, Switching
      <4>2. tasks' = tasks \/ tasks' = Append(tasks, "force")
        BY <3>3 DEF SwitchTurns
      <4>3. QED
        BY <4>1, <4>2, <2>q, <2>k DEF SwitchHead
    <3>4. QED
      BY <2>5, <3>1, <3>2, <3>3 DEF SwitchMode
  <2>6. CASE StopBegins \/ StopEnds \/ SerialStop \/ ScreenChanges \/ BatchArrives
    BY <2>6, <2>u DEF StopBegins, StopEnds, SerialStop, ScreenChanges, BatchArrives, tkVars
  <2>7. CASE AsksTk
    BY <2>7, <2>a, <2>k DEF AsksTk
  <2>8. CASE ToggleOverride
    BY <2>8, <2>a, <2>u, <2>k DEF ToggleOverride
  <2>9. ASSUME NEW t \in Listeners, Listener(t) \/ AdjustLoads(t)
        PROVE  SwitchHead'
    <3>1. CASE BatchWater
      BY <3>1, <2>a, <2>k DEF BatchWater
    <3>2. CASE FlipOverride
      BY <3>2, <2>u DEF FlipOverride, tkVars
    <3>3. CASE ~BatchWater /\ ~FlipOverride
      BY <2>9, <3>3, <2>u
      DEF Listener, AdjustStores, AdjustLimits, AdjustTests, AdjustSaves, AdjustLoads,
          goalStep, tkVars
    <3>4. QED
      BY <3>1, <3>2, <3>3
  <2>10. CASE UNCHANGED vars
    BY <2>10, <2>u DEF vars, tkVars
  <2>11. QED
    BY <2>1, <2>2, <2>3, <2>4, <2>5, <2>6, <2>7, <2>8, <2>9, <2>10
    DEF Next, TkTask, People
<1>4. QED
  BY <1>1, <1>2, <1>3, PTL DEF Spec

-----------------------------------------------------------------------------
(* The target.                                                              *)

\* The listener will load the target in use and store it as the preset of fill mode, or
\* test the mode first.
Owes(t) == \/ pc[t] \in {"store", "limit", "zero", "mode"}
           \/ pc[t] \in {"load", "save"} /\ into[t] = "fill"

\* Whoever changes the target owes its preset; a listener that saves has loaded the target
\* in use; Tk stores the preset that it has loaded.
TargetInv ==
  /\ mode = "fill" /\ tkpc \notin Switching /\ (\A t \in Listeners : ~Owes(t)) =>
       requested = preset["fill"]
  /\ \A t \in Listeners : pc[t] = "save" => reg[t] = requested
  /\ tkpc = "show" /\ mode = "fill" => held = preset["fill"]

\* A step that leaves the target, the presets and the mode, and what Tk and a listener
\* have loaded, leaves the invariant what it was.
LEMMA TargetUntouched ==
  ASSUME TargetInv, UNCHANGED <<requested, preset, mode, into, held>>,
         tkpc' = tkpc \/ {tkpc, tkpc'} \subseteq {"idle", "update", "relay"},
         \A t \in Listeners : Owes(t) => Owes(t)',
         \A t \in Listeners : pc'[t] = "save" => pc[t] = "save" /\ reg'[t] = reg[t]
  PROVE  TargetInv'
<1>1. tkpc' \notin Switching => tkpc \notin Switching
  BY DEF Switching
<1>2. tkpc' = "show" => tkpc = "show"
  OBVIOUS
<1>3. QED
  BY <1>1, <1>2 DEF TargetInv

\* However the two listeners and the mode switch of Tk interleave, the target in use is
\* the preset of fill mode, unless a store of the target falls into a listener's save.
THEOREM FillTargetKept == Spec => TargetKept
<1>1. Init => TargetInv
  <2> SUFFICES ASSUME Init PROVE TargetInv
    OBVIOUS
  <2>1. mode = "fill" => requested = preset["fill"]
    BY DEF Init
  <2>2. QED
    BY <2>1 DEF Init, TargetInv
<1>2. TypeOK /\ Undisturbed /\ TargetInv /\ [Next]_vars => TargetInv'
  <2> SUFFICES ASSUME TypeOK, Undisturbed, TargetInv, [Next]_vars
               PROVE  TargetInv'
    OBVIOUS
  <2>u. /\ UNCHANGED <<goalVars, thrVars>>
        /\ tkpc' = tkpc \/ {tkpc, tkpc'} \subseteq {"idle", "update", "relay"}
        => TargetInv'
    <3> SUFFICES ASSUME UNCHANGED <<goalVars, thrVars>>,
                        tkpc' = tkpc \/ {tkpc, tkpc'} \subseteq {"idle", "update", "relay"}
                 PROVE  TargetInv'
      OBVIOUS
    <3>1. UNCHANGED <<requested, preset, mode, into, held, pc, reg>>
      BY DEF goalVars, thrVars
    <3>2. QED
      BY <3>1, TargetUntouched DEF Owes
  <2>p. /\ preset \in [Modes -> Int] /\ mode \in Modes /\ Modes = {"fill", "mix"}
        /\ pc \in [Listeners -> Places] /\ reg \in [Listeners -> Int]
        /\ into \in [Listeners -> Modes] /\ Listeners = {"serial", "socket"}
    BY DEF TypeOK, Modes, Listeners
  <2>s. {"idle", "update", "relay"} \cap Switching = {} /\ "show" \in Switching
    BY DEF Switching
  <2>1. CASE \/ Pump \/ FlowChanges \/ LinkChanges \/ ReadingAges \/ OverrideAges
    BY <2>1, <2>u
    DEF Pump, FlowChanges, LinkChanges, ReadingAges, OverrideAges, othersThanWater, tkVars
  <2>2. CASE Poll \/ Update \/ StopDone \/ StopBegins \/ StopEnds
    BY <2>2, <2>u DEF Poll, Update, StopDone, StopBegins, StopEnds, tkVars
  <2>3. CASE ResetTimer \/ DoReset \/ DoForceReset \/ DoThumbsUp \/ DoStop
    BY <2>3, <2>u
    DEF ResetTimer, DoReset, DoForceReset, DoThumbsUp, DoStop, StopByTk, Take,
        resetUnchanged
  <2>4. CASE AsksTk \/ SerialStop
    BY <2>4, <2>u DEF AsksTk, SerialStop, tkVars
  <2>5. CASE DoOverlay \/ DoMenu \/ ScreenChanges
    <3>1. UNCHANGED <<requested, preset, mode, pc, reg, into, held, tkpc>>
      BY <2>5 DEF DoOverlay, DoMenu, ScreenChanges, thrVars, tkVars
    <3>2. QED
      BY <3>1, TargetUntouched DEF Owes
  <2>6. CASE BatchArrives \/ ToggleOverride
    <3>1. UNCHANGED <<requested, preset, mode, into, held, tkpc>>
      BY <2>6 DEF BatchArrives, ToggleOverride, goalVars, tkVars
    <3>2. \E t \in Listeners, v \in {"idle", "water", "flip"} :
            /\ pc[t] = "idle" /\ pc' = [pc EXCEPT ![t] = v]
            /\ \A u \in Listeners : u # t => reg'[u] = reg[u]
      <4>1. CASE BatchArrives
        BY <4>1, <2>p DEF BatchArrives, Reads
      <4>2. CASE ToggleOverride
        <5>1. pc["serial"] = "idle" /\ UNCHANGED reg
          BY <4>2 DEF ToggleOverride, Reads
        <5>2. pc' = [pc EXCEPT !["serial"] = "idle"] \/ pc' = [pc EXCEPT !["serial"] = "flip"]
          BY <4>2, <5>1, <2>p DEF ToggleOverride
        <5>3. QED
          BY <5>1, <5>2, <2>p
      <4>3. QED
        BY <2>6, <4>1, <4>2
    <3>3. \A t \in Listeners : Owes(t) => Owes(t)'
      BY <3>1, <3>2, <2>p DEF Owes
    <3>4. \A t \in Listeners : pc'[t] = "save" => pc[t] = "save" /\ reg'[t] = reg[t]
      BY <3>2, <2>p
    <3>5. QED
      BY <3>1, <3>3, <3>4, TargetUntouched
  <2>7. CASE FlipOverride
    <3>1. UNCHANGED <<requested, preset, mode, into, held, tkpc, reg>>
      BY <2>7 DEF FlipOverride, goalVars, tkVars
    <3>2. /\ pc["serial"] \in {"flip", "on", "off", "armed", "stamp"}
          /\ \E v \in {"on", "off", "armed", "stamp", "idle"} :
               pc' = [pc EXCEPT !["serial"] = v]
      BY <2>7 DEF FlipOverride
    <3>3. \A t \in Listeners : Owes(t) => Owes(t)'
      BY <3>1, <3>2, <2>p DEF Owes
    <3>4. \A t \in Listeners : pc'[t] = "save" => pc[t] = "save"
      BY <3>2, <2>p
    <3>5. QED
      BY <3>1, <3>3, <3>4, TargetUntouched
  <2>8. CASE BatchWater
    <3>1. UNCHANGED <<requested, mode, into, held, tkpc>> /\ preset'["fill"] = preset["fill"]
      BY <2>8, <2>p DEF BatchWater
    <3>2. /\ pc["socket"] = "water" /\ pc' = [pc EXCEPT !["socket"] = "idle"]
          /\ reg' = [reg EXCEPT !["socket"] = 0]
      BY <2>8 DEF BatchWater
    <3>3. \A t \in Listeners : Owes(t) => Owes(t)'
      BY <3>1, <3>2, <2>p DEF Owes
    <3>4. \A t \in Listeners : pc'[t] = "save" => pc[t] = "save" /\ reg'[t] = reg[t]
      BY <3>2, <2>p
    <3>5. QED
      BY <3>1, <3>3, <3>4 DEF TargetInv
  <2>9. ASSUME NEW t \in Listeners, AdjustLoads(t)
        PROVE  TargetInv'
    <3>1. UNCHANGED <<requested, preset, mode, into, held, tkpc>>
      BY <2>9 DEF AdjustLoads, goalStep, tkVars
    <3>2. /\ pc[t] = "idle" /\ pc' = [pc EXCEPT ![t] = "store"]
          /\ \A u \in Listeners : u # t => reg'[u] = reg[u]
      BY <2>9, <2>p DEF AdjustLoads, Reads
    <3>3. \A u \in Listeners : Owes(u) => Owes(u)'
      BY <3>1, <3>2, <2>p DEF Owes
    <3>4. \A u \in Listeners : pc'[u] = "save" => pc[u] = "save" /\ reg'[u] = reg[u]
      BY <3>2, <2>p
    <3>5. QED
      BY <3>1, <3>3, <3>4, TargetUntouched
  <2>10. ASSUME NEW t \in Listeners, AdjustStores(t) \/ AdjustLimits(t)
         PROVE  TargetInv'
    <3>1. UNCHANGED <<preset, mode, into, held, tkpc>>
      BY <2>10 DEF AdjustStores, AdjustLimits, goalStep, tkVars
    <3>2. /\ pc[t] \in {"store", "limit", "zero"}
          /\ \E v \in {"limit", "zero", "mode"} : pc' = [pc EXCEPT ![t] = v]
          /\ \A u \in Listeners : u # t => reg'[u] = reg[u]
      BY <2>10, <2>p DEF AdjustStores, AdjustLimits
    <3>3. Owes(t)'
      BY <3>2, <2>p DEF Owes
    <3>4. \A u \in Listeners : pc'[u] = "save" => u # t /\ pc[u] = "save" /\ reg'[u] = reg[u]
      BY <3>2, <2>p
    <3>5. \A u \in Listeners : pc'[u] = "save" => requested' = requested
      BY <3>2, <3>4, <2>10 DEF AdjustStores, AdjustLimits, Undisturbed
    <3>6. QED
      BY <3>1, <3>3, <3>4, <3>5 DEF TargetInv
  <2>11. ASSUME NEW t \in Listeners, AdjustTests(t)
         PROVE  TargetInv'
    <3>1. UNCHANGED <<requested, preset, mode, held, tkpc>>
      BY <2>11 DEF AdjustTests, goalStep, tkVars
    <3>2. CASE pc[t] = "mode"
      <4>1. /\ pc' = [pc EXCEPT ![t] = "load"] /\ into' = [into EXCEPT ![t] = mode]
            /\ UNCHANGED reg
        BY <2>11, <3>2 DEF AdjustTests
      <4>2. mode = "fill" => \A u \in Listeners : Owes(u) => Owes(u)'
        BY <4>1, <3>2, <2>p DEF Owes
      <4>3. \A u \in Listeners : pc'[u] = "save" => pc[u] = "save"
        BY <4>1, <2>p
      <4>4. QED
        BY <3>1, <4>1, <4>2, <4>3 DEF TargetInv
    <3>3. CASE pc[t] = "load"
      <4>1. /\ pc' = [pc EXCEPT ![t] = "save"] /\ reg' = [reg EXCEPT ![t] = requested]
            /\ UNCHANGED into
        BY <2>11, <3>3 DEF AdjustTests
      <4>2. \A u \in Listeners : Owes(u) => Owes(u)'
        BY <4>1, <3>3, <2>p DEF Owes
      <4>3. \A u \in Listeners : pc'[u] = "save" => reg'[u] = requested
        BY <4>1, <2>p DEF TargetInv
      <4>4. QED
        BY <3>1, <4>2, <4>3 DEF TargetInv
    <3>4. QED
      BY <2>11, <3>2, <3>3 DEF AdjustTests
  <2>12. ASSUME NEW t \in Listeners, AdjustSaves(t)
         PROVE  TargetInv'
    <3>1. UNCHANGED <<requested, mode, held, tkpc>>
      BY <2>12 DEF AdjustSaves, goalStep, tkVars
    <3>2. /\ pc[t] = "save" /\ pc' = [pc EXCEPT ![t] = "idle"]
          /\ preset' = [preset EXCEPT ![into[t]] = reg[t]]
          /\ \A u \in Listeners : u # t => reg'[u] = reg[u] /\ into'[u] = into[u]
      BY <2>12, <2>p DEF AdjustSaves
    <3>3. tkpc' # "show" /\ reg[t] = requested
      BY <3>1, <3>2 DEF Undisturbed, TargetInv
    <3>4. \A u \in Listeners : pc'[u] = "save" => reg'[u] = requested
      BY <3>2, <2>p DEF TargetInv
    <3>5. \A u \in Listeners : u # t /\ Owes(u) => Owes(u)'
      BY <3>2, <2>p DEF Owes
    <3>6. CASE into[t] = "fill"
      <4>1. preset'["fill"] = requested
        BY <3>2, <3>3, <3>6, <2>p
      <4>2. QED
        BY <3>1, <3>3, <3>4, <4>1 DEF TargetInv
    <3>7. CASE into[t] # "fill"
      <4>1. ~Owes(t) /\ preset'["fill"] = preset["fill"]
        BY <3>2, <3>7, <2>p DEF Owes
      <4>2. QED
        BY <3>1, <3>3, <3>4, <3>5, <4>1 DEF TargetInv
    <3>8. QED
      BY <3>6, <3>7
  <2>13. CASE SwitchBegins
    <3>1. UNCHANGED <<requested, preset, mode, pc, reg, into>>
      BY <2>13 DEF SwitchBegins, goalVars
    <3>2. tkpc = "idle" /\ (UNCHANGED <<tkpc, held>> \/ tkpc' = "keep")
      BY <2>13 DEF SwitchBegins, Take
    <3>3. \A t \in Listeners : Owes(t)' <=> Owes(t)
      BY <3>1 DEF Owes
    <3>4. QED
      BY <3>1, <3>2, <3>3 DEF TargetInv, Switching
  <2>14. CASE SwitchMode
    <3>1. UNCHANGED <<pc, reg, into>>
      BY <2>14 DEF SwitchMode, SwitchSaves, SwitchClears, SwitchTurns, SwitchLoads,
                   SwitchStores, switchUnchanged
    <3>2. CASE SwitchSaves \/ SwitchClears \/ SwitchTurns
      <4>1. UNCHANGED requested /\ tkpc' \in Switching \ {"show"}
        BY <3>2 DEF SwitchSaves, SwitchClears, SwitchTurns, Switching
      <4>2. QED
        BY <3>1, <4>1 DEF TargetInv
    <3>3. CASE SwitchLoads
      <4>1. UNCHANGED <<requested, preset, mode>> /\ tkpc' = "show" /\ held' = preset[mode]
        BY <3>3 DEF SwitchLoads
      <4>2. QED
        BY <3>1, <4>1, <2>s DEF TargetInv
    <3>4. CASE SwitchStores
      <4>1. /\ tkpc = "show" /\ tkpc' = "idle" /\ requested' = held
            /\ UNCHANGED <<preset, mode>>
        BY <3>4 DEF SwitchStores
      <4>2. \A t \in Listeners : pc[t] # "save"
        BY <4>1 DEF Undisturbed
      <4>3. QED
        BY <3>1, <4>1, <4>2 DEF TargetInv
    <3>5. QED
      BY <2>14, <3>2, <3>3, <3>4 DEF SwitchMode
  <2>15. CASE UNCHANGED vars
    BY <2>15, <2>u DEF vars, tkVars
  <2>16. QED
    BY <2>1, <2>2, <2>3, <2>4, <2>5, <2>6, <2>7, <2>8, <2>9, <2>10, <2>11, <2>12, <2>13,
       <2>14, <2>15
    DEF Next, TkTask, People, Listener
<1>3. TargetInv => FillTarget
  BY DEF TargetInv, FillTarget, Owes, Adjusting
<1>4. QED
  BY <1>1, <1>2, <1>3, FillTypeCorrect, PTL DEF Spec, TargetKept

-----------------------------------------------------------------------------
(* The reset of the totalizer.                                              *)

\* A reset that is due in this cycle finds the fill confirmed and no flow in the
\* books; and only between a poll and its update are the books behind the meter.
ResetInv ==
  /\ resetFor = "this" => pending = 0 /\ ~wasFlowing
  /\ tkpc # "update" => wasFlowing = lastFlow

\* ResetInv holds in every state.
LEMMA ResetInvKept == Spec => []ResetInv
<1>1. Init => ResetInv
  BY DEF Init, ResetInv
<1>2. TypeOK /\ ResetInv /\ [Next]_vars => ResetInv'
  <2> SUFFICES ASSUME TypeOK, ResetInv, [Next]_vars
               PROVE  ResetInv'
    OBVIOUS
  <2>k. UNCHANGED <<cycleVars, lastFlow, tkpc>> => ResetInv'
    BY DEF cycleVars, ResetInv
  <2>1. CASE \/ Pump \/ FlowChanges \/ LinkChanges \/ ReadingAges \/ OverrideAges
    BY <2>1, <2>k
    DEF Pump, FlowChanges, LinkChanges, ReadingAges, OverrideAges, othersThanWater,
        readVars, tkVars
  <2>2. CASE StopBegins \/ StopEnds \/ ScreenChanges \/ AsksTk \/ SerialStop
    BY <2>2, <2>k
    DEF StopBegins, StopEnds, ScreenChanges, AsksTk, SerialStop, readVars, tkVars
  <2>3. CASE ToggleOverride \/ BatchArrives \/ DoOverlay \/ DoMenu
    BY <2>3, <2>k DEF ToggleOverride, BatchArrives, DoOverlay, DoMenu, readVars, tkVars
  <2>12. CASE SwitchBegins \/ SwitchMode
    <3>1. UNCHANGED <<cycleVars, lastFlow>> /\ tkpc # "update"
      BY <2>12
      DEF SwitchBegins, SwitchMode, SwitchSaves, SwitchClears, SwitchTurns, SwitchLoads,
          SwitchStores, switchUnchanged, Take, readVars
    <3>2. QED
      BY <3>1 DEF cycleVars, ResetInv
  <2>4. ASSUME NEW t \in Listeners, Listener(t) \/ AdjustLoads(t)
        PROVE  ResetInv'
    BY <2>4, <2>k
    DEF Listener, AdjustStores, AdjustLimits, AdjustTests, AdjustSaves, AdjustLoads,
        FlipOverride, BatchWater, goalStep, readVars, tkVars
  <2>5. CASE Poll
    BY <2>5 DEF Poll, NextCycle, ResetInv
  <2>6. CASE Update
    <3>1. UNCHANGED lastFlow /\ FlowEdges
      BY <2>6 DEF Update, readVars
    <3>2. resetFor' = "this" => pending' = 0 /\ ~wasFlowing'
      BY <3>1 DEF FlowEdges, NextCycle, ResetInv
    <3>3. wasFlowing' = lastFlow'
      BY <3>1 DEF FlowEdges
    <3>4. QED
      BY <3>2, <3>3 DEF ResetInv
  <2>7. CASE DoThumbsUp
    <3>1. tkpc = "idle" /\ UNCHANGED <<tkpc, lastFlow>> /\ ThumbsUp
      BY <2>7 DEF DoThumbsUp, Take, readVars
    <3>2. wasFlowing' = lastFlow'
      BY <3>1 DEF ThumbsUp, cycleVars, ResetInv
    <3>3. resetFor' = "this" => pending' = 0 /\ ~wasFlowing'
      BY <3>1, <3>2 DEF ThumbsUp, cycleVars, ResetInv
    <3>4. QED
      BY <3>2, <3>3 DEF ResetInv
  <2>8. CASE ResetTimer \/ DoReset \/ DoForceReset
    BY <2>8
    DEF ResetTimer, DoReset, DoForceReset, Pulse, resetUnchanged, readVars, ResetInv
  <2>9. CASE DoStop \/ StopDone
    <3>1. UNCHANGED <<cycleVars, lastFlow>> /\ tkpc # "update"
      BY <2>9 DEF DoStop, StopDone, Take, readVars
    <3>2. QED
      BY <3>1 DEF cycleVars, ResetInv
  <2>10. CASE UNCHANGED vars
    BY <2>10, <2>k DEF vars, readVars, tkVars
  <2>11. QED
    BY <2>1, <2>2, <2>3, <2>4, <2>5, <2>6, <2>7, <2>8, <2>9, <2>10, <2>12
    DEF Next, TkTask, People
<1>3. QED
  BY <1>1, <1>2, FillTypeCorrect, PTL DEF Spec

\* The delayed reset never zeroes the totalizer over a fill that waits for its
\* thumbs up, however often the flow has started and stopped since it was asked for.
THEOREM ResetOnlyConfirmed == Spec => ConfirmedBeforeReset
<1>1. ResetInv /\ [Next]_vars => [(ResetTimer \/ DoReset) /\ tot' # tot => pending = 0]_vars
  <2> SUFFICES ASSUME ResetInv, ResetTimer \/ DoReset, tot' # tot
               PROVE  pending = 0
    OBVIOUS
  <2>1. Pulse
    BY DEF ResetTimer, DoReset
  <2>2. QED
    BY <2>1 DEF Pulse, ResetInv
<1>2. QED
  BY <1>1, ResetInvKept, PTL DEF Spec, ConfirmedBeforeReset
====
