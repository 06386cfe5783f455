------------------------------ MODULE FillControl ------------------------------
(***************************************************************************)
(* The fill of a load, dashboard.py: the flow meter is polled, the pump is  *)
(* stopped at the requested gallons, the crew confirms the fill and the     *)
(* totalizer is reset.  The Tk thread runs update_dashboard every 150 ms    *)
(* and the callbacks that the serial listener (switch box), the socket      *)
(* listener (BLE gateway) and the button monitor queue with root.after; the *)
(* listeners also write the same globals themselves, with no lock: what a   *)
(* listener does to the target, the presets and the override, and what      *)
(* switch_mode does to them on the Tk thread, is one step for each global   *)
(* that is read or written.                                                 *)
(*                                                                         *)
(* Gallons are small numbers.  Times are abstracted to "recent" and "old":  *)
(* older than FLOW_METER_TIMEOUT for a reading, than a minute for the       *)
(* override.  Of the screens over the dashboard (menu, logs, tests,         *)
(* dialogs) there is that the serial commands are theirs while one is up;   *)
(* what they do, calibration mode, drawing, tank levels and files are left  *)
(* out.                                                                     *)
(***************************************************************************)
EXTENDS Integers, Sequences

CONSTANTS MaxGallons,   \* the most the totalizer and the target come to
          MaxCommands,  \* how many commands the crew and the pilot give
          MaxStops,     \* relay calls under way when water starts to flow
          Steps,        \* what the buttons +1, -1, +10, -10 add or take
          Coasts,       \* trigger thresholds: gallons that still flow after the stop
          Occurs        \* what happens: the kinds of command, water, disconnections

ASSUME FillAssumption ==
  /\ MaxGallons \in Nat \ {0} /\ MaxCommands \in Nat /\ MaxStops \in Nat
  /\ Steps \subseteq Nat /\ Coasts \subseteq Nat
  /\ Occurs \subseteq {"Water", "Disconnect", "Thumbs", "Mode", "Adjust", "Reset", "Stop",
                      "Override", "Batch", "Screens"}

VARIABLES
  flow, tot, link,             \* water runs; the meter's totalizer; meter connected
  lastFlow, lastTot, lastRead, \* last_flow_rate, last_totalizer_liters, time of it
  wasFlowing, latched,         \* was_flowing, auto_shutoff_latched
  pending, daily,              \* pending_fill_gallons, daily_total
  resetFor, timers,            \* flow_reset_cycle_id, its root.after timers
  override, overrideTime,      \* override_mode, override_enabled_time
  requested, preset, mode,     \* requested_gallons, the presets, current_mode
  batch, layout,               \* batch_mix_data, batch_mix_layout_active
  screen,                      \* what is up: the dashboard, or a menu, test or dialog
  pc, reg, into,               \* the two listeners: where they are, what they have
                               \* loaded, the mode they have tested
  held,                        \* what switch_mode has loaded
  tkpc, tasks, alive,          \* Tk: where it is, its queue, update_dashboard repeats
  pin, starting, holding,      \* the relay; pump_stop_relay threads before and in sleep
  budget                       \* commands left

waterVars == <<flow, tot, link>>
readVars  == <<lastFlow, lastTot, lastRead>>
cycleVars == <<wasFlowing, latched, pending, daily, resetFor, timers>>
ovVars    == <<override, overrideTime>>
goalVars  == <<requested, preset, mode, batch, layout, screen>>
thrVars   == <<pc, reg, into, held>>
tkVars    == <<tkpc, tasks, alive>>
relayVars == <<pin, starting, holding>>
vars == <<waterVars, readVars, cycleVars, ovVars, goalVars, thrVars, tkVars,
          relayVars, budget>>

Gallons   == 0..MaxGallons
Modes     == {"fill", "mix"}
Listeners == {"serial", "socket"}
Tasks     == {"thumbs", "fill", "mix", "relay", "reset", "force", "overlay", "clear",
              "menu"}
Screens   == {"dashboard", "other"}

\* Where a listener is in an adjustment, a formula and OV; where Tk is in switch_mode.
Adjusting == {"store", "limit", "zero", "mode", "load", "save"}
Places    == {"idle", "water", "flip", "on", "off", "armed", "stamp"} \cup Adjusting
Switching == {"keep", "test", "off", "none", "turn", "fetch", "show"}

Init ==
  /\ flow = FALSE /\ tot = 0 /\ link = TRUE
  /\ lastFlow = FALSE /\ lastTot = 0 /\ lastRead = "recent"
  /\ wasFlowing = FALSE /\ latched = FALSE /\ pending = 0 /\ daily = 0
  /\ resetFor = "none" /\ timers = 0
  /\ override = FALSE /\ overrideTime = "old"
  /\ preset = [fill |-> MaxGallons, mix |-> MaxGallons - 1]
  /\ mode \in (IF "Mode" \in Occurs THEN Modes ELSE {"fill"})
  /\ requested = preset[mode]
  /\ batch = FALSE /\ layout = FALSE /\ screen = "dashboard"
  /\ pc = [t \in Listeners |-> "idle"] /\ reg = [t \in Listeners |-> 0]
  /\ into = [t \in Listeners |-> "fill"] /\ held = 0
  /\ tkpc = "idle" /\ tasks = <<>> /\ alive = TRUE
  /\ pin = FALSE /\ starting = 0 /\ holding = 0
  /\ budget = MaxCommands

-----------------------------------------------------------------------------
(* Water and time.                                                          *)

othersThanWater == <<readVars, cycleVars, goalVars, thrVars, tkVars, relayVars, budget>>

Pump ==
  /\ flow /\ tot < MaxGallons /\ tot' = tot + 1
  /\ UNCHANGED <<flow, link, ovVars, othersThanWater>>

\* The operator starts the pump; it stops by hand, or by the relay and after a
\* coast, which is left open.
FlowChanges ==
  /\ "Water" \in Occurs
  /\ flow \/ starting + holding < MaxStops      \* bound
  /\ flow' = ~flow /\ UNCHANGED <<tot, link, ovVars, othersThanWater>>
LinkChanges ==
  /\ "Disconnect" \in Occurs
  /\ link' = ~link /\ UNCHANGED <<flow, tot, ovVars, othersThanWater>>

ReadingAges ==
  /\ ~link /\ lastRead = "recent" /\ lastRead' = "old"
  /\ UNCHANGED <<waterVars, lastFlow, lastTot, cycleVars, ovVars, goalVars, thrVars,
                 tkVars, relayVars, budget>>

OverrideAges ==
  /\ overrideTime = "recent" /\ overrideTime' = "old"
  /\ UNCHANGED <<waterVars, override, othersThanWater>>

-----------------------------------------------------------------------------
(* update_dashboard.                                                        *)

\* flow_cycle_counter is one higher: a reset that was scheduled is not for it.
NextCycle == resetFor' = IF resetFor = "this" THEN "earlier" ELSE resetFor

\* read_flow_meter.  A totalizer that fell to zero starts a new cycle; without a
\* connection the last values stay, and frozen data counts as read for a while.
Poll ==
  /\ tkpc = "idle" /\ alive /\ tkpc' = "update"
  /\ \/ /\ link
        /\ lastFlow' = flow /\ lastTot' = tot /\ lastRead' = "recent"
        /\ IF lastTot > 0 /\ tot = 0
             THEN NextCycle /\ latched' = FALSE
             ELSE UNCHANGED <<resetFor, latched>>
     \/ /\ ~link /\ lastRead' \in {lastRead, "recent"}
        /\ UNCHANGED <<lastFlow, lastTot, resetFor, latched>>
  /\ UNCHANGED <<waterVars, wasFlowing, pending, daily, timers, ovVars, goalVars,
                 thrVars, tasks, alive, relayVars, budget>>

\* Flow stopped: the fill waits for thumbs up.  Flow started: a new cycle.
FlowEdges ==
  /\ wasFlowing' = lastFlow
  /\ \/ wasFlowing /\ ~lastFlow /\ pending' = lastTot /\ UNCHANGED resetFor
     \/ ~wasFlowing /\ lastFlow /\ pending' = 0 /\ NextCycle
     \/ wasFlowing = lastFlow /\ UNCHANGED <<pending, resetFor>>

\* Mutant: the latch of the last cycle is kept.
Latch_Kept == latched

\* A new cycle may trigger the automatic stop again.
Latch == latched /\ (wasFlowing \/ ~lastFlow)

\* Mutant: the time is taken at every update.
OverrideExpiry_Restarts ==
  IF override /\ lastRead = "recent"
    THEN overrideTime' = "recent" /\ UNCHANGED override
    ELSE UNCHANGED ovVars

\* Override ends after a minute without flow, while the meter is connected.
OverrideExpiry ==
  IF override /\ lastRead = "recent"
    THEN IF lastFlow
           THEN overrideTime' = "recent" /\ UNCHANGED override
           ELSE override' = (overrideTime # "old") /\ UNCHANGED overrideTime
    ELSE UNCHANGED ovVars

\* The automatic stop, once per cycle: a thread of pump_stop_relay starts.
AutoAlert ==
  \E coast \in Coasts :
    IF /\ lastFlow /\ ~override' /\ lastRead = "recent"
       /\ lastTot >= requested - coast /\ ~Latch
      THEN latched' = TRUE /\ starting' = starting + 1
      ELSE latched' = Latch /\ UNCHANGED starting

\* time.time() - override_enabled_time, where override_enabled_time is None
TypeError == override /\ lastRead = "recent" /\ ~lastFlow /\ overrideTime = "none"

\* The rest of update_dashboard, which schedules its next run in its last line:
\* an exception on the way ends it for good.
Update ==
  /\ tkpc = "update" /\ tkpc' = "idle"
  /\ FlowEdges
  /\ \/ TypeError /\ alive' = FALSE /\ latched' = Latch /\ UNCHANGED <<ovVars, starting>>
     \/ ~TypeError /\ OverrideExpiry /\ AutoAlert /\ UNCHANGED alive
  /\ UNCHANGED <<waterVars, readVars, daily, timers, goalVars, thrVars, tasks, pin,
                 holding, budget>>

-----------------------------------------------------------------------------
(* Callbacks of the Tk thread.                                              *)

\* Mutant: the cycle the reset was asked for is not looked at.
Pulse_AnyCycle ==
  /\ resetFor' = "none"
  /\ tot' = IF ~lastFlow THEN 0 ELSE tot

\* pulse_flow_reset: only for the cycle it was scheduled in, and not in a flow.
Pulse ==
  /\ resetFor' = "none"
  /\ tot' = IF resetFor = "this" /\ ~lastFlow THEN 0 ELSE tot

\* handle_thumbs_up_press: schedule_flow_reset (not on the batch screen), then
\* record_pending_fill.
ThumbsUp ==
  IF lastFlow
    THEN UNCHANGED cycleVars
    ELSE /\ IF ~layout /\ resetFor = "none"
              THEN resetFor' = "this" /\ timers' = timers + 1
              ELSE UNCHANGED <<resetFor, timers>>
         /\ daily' = daily + pending /\ pending' = 0
         /\ UNCHANGED <<wasFlowing, latched>>

\* Mutant: nothing flows, so there is nothing to stop.
StopByTk_WhileFlowing ==
  IF lastFlow THEN pin' = TRUE /\ tkpc' = "relay" ELSE UNCHANGED <<pin, tkpc>>

\* pump_stop_relay on the Tk thread: it sleeps for the five seconds.
StopByTk == pin' = TRUE /\ tkpc' = "relay"

Take(task) == tkpc = "idle" /\ tasks # <<>> /\ Head(tasks) = task

DoThumbsUp ==
  /\ Take("thumbs") /\ ThumbsUp /\ tasks' = Tail(tasks)
  /\ UNCHANGED <<waterVars, readVars, ovVars, goalVars, thrVars, tkpc, alive,
                 relayVars, budget>>

DoStop ==
  /\ Take("relay") /\ StopByTk /\ tasks' = Tail(tasks)
  /\ UNCHANGED <<waterVars, readVars, cycleVars, ovVars, goalVars, thrVars, alive,
                 starting, holding, budget>>

\* switch_mode, whose task stays at the head of the queue until it returns: a mode that
\* is on already is left alone, else the target in use is loaded.
SwitchBegins ==
  /\ \E m \in Modes :
       /\ Take(m)
       /\ IF m = mode
            THEN tasks' = Tail(tasks) /\ UNCHANGED <<tkpc, held>>
            ELSE tkpc' = "keep" /\ held' = requested /\ UNCHANGED tasks
  /\ UNCHANGED <<waterVars, readVars, cycleVars, ovVars, goalVars, pc, reg, into, alive,
                 relayVars, budget>>

switchUnchanged == <<waterVars, readVars, cycleVars, batch, screen, pc, reg, into, alive,
                     relayVars, budget>>

\* The target is saved as the preset of the mode that ends.
SwitchSaves ==
  /\ tkpc = "keep" /\ tkpc' = "test"
  /\ preset' = [preset EXCEPT ![mode] = held]
  /\ UNCHANGED <<switchUnchanged, ovVars, requested, mode, layout, held, tasks>>

\* Mutant: the time is cleared with the word for the mode.
ClearTime_Off == overrideTime' = "off"

ClearTime == overrideTime' = "none"

\* From mix to fill the override ends, and its time is forgotten.
SwitchClears ==
  /\ \/ /\ tkpc = "test" /\ UNCHANGED ovVars
        /\ tkpc' = IF Head(tasks) = "fill" /\ override THEN "off" ELSE "turn"
     \/ tkpc = "off" /\ override' = FALSE /\ tkpc' = "none" /\ UNCHANGED overrideTime
     \/ tkpc = "none" /\ ClearTime /\ tkpc' = "turn" /\ UNCHANGED override
  /\ UNCHANGED <<switchUnchanged, requested, preset, mode, layout, held, tasks>>

\* The totalizer is to be reset (a flow below 10 GPM does not keep it from that), and
\* the mode changes.
SwitchTurns ==
  /\ tkpc = "turn" /\ tkpc' = "fetch" /\ mode' = Head(tasks)
  /\ \/ mode' = "fill" /\ lastTot > 0 /\ tasks' = Append(tasks, "force")
     \/ (mode' = "mix" \/ lastTot = 0 \/ lastFlow) /\ UNCHANGED tasks
  /\ UNCHANGED <<switchUnchanged, ovVars, requested, preset, layout, held>>

\* Mutant: the preset of the mode that ended is loaded.
SwitchLoads_OtherMode ==
  /\ tkpc = "fetch" /\ tkpc' = "show"
  /\ \E m \in Modes \ {mode} : held' = preset[m]
  /\ UNCHANGED <<switchUnchanged, ovVars, requested, preset, mode, layout, tasks>>

\* Its preset is loaded ...
SwitchLoads ==
  /\ tkpc = "fetch" /\ tkpc' = "show" /\ held' = preset[mode]
  /\ UNCHANGED <<switchUnchanged, ovVars, requested, preset, mode, layout, tasks>>

\* ... and becomes the target in use.
SwitchStores ==
  /\ tkpc = "show" /\ tkpc' = "idle" /\ tasks' = Tail(tasks)
  /\ requested' = held /\ held' = 0 /\ layout' = (mode = "mix" /\ batch)
  /\ UNCHANGED <<switchUnchanged, ovVars, preset, mode>>

SwitchMode == SwitchSaves \/ SwitchClears \/ SwitchTurns \/ SwitchLoads \/ SwitchStores

\* The relay is released, whoever else still wants it held.
StopDone ==
  /\ tkpc = "relay" /\ tkpc' = "idle" /\ pin' = FALSE
  /\ UNCHANGED <<waterVars, readVars, cycleVars, ovVars, goalVars, thrVars, tasks,
                 alive, starting, holding, budget>>

resetUnchanged == <<flow, link, readVars, wasFlowing, pending, daily, ovVars, goalVars,
                    thrVars, tkpc, alive, relayVars, budget>>

\* RESET of the socket calls pulse_flow_reset at once.
DoReset ==
  /\ Take("reset") /\ Pulse /\ tasks' = Tail(tasks)
  /\ UNCHANGED <<latched, timers, resetUnchanged>>

ResetTimer ==
  /\ tkpc = "idle" /\ timers > 0 /\ timers' = timers - 1 /\ Pulse
  /\ UNCHANGED <<latched, tasks, resetUnchanged>>

\* force_flow_reset
DoForceReset ==
  /\ Take("force") /\ tasks' = Tail(tasks)
  /\ latched' = FALSE /\ tot' = 0 /\ resetFor' = "none"
  /\ UNCHANGED <<timers, resetUnchanged>>

\* show_menu
DoMenu ==
  /\ Take("menu") /\ tasks' = Tail(tasks) /\ screen' = "other"
  /\ UNCHANGED <<waterVars, readVars, cycleVars, ovVars, requested, preset, mode, batch,
                 layout, thrVars, tkpc, alive, relayVars, budget>>

\* update_batch_mix_overlay, and clear_batch_mix_screen
DoOverlay ==
  /\ \/ Take("overlay") /\ layout' = (mode = "mix" /\ batch) /\ UNCHANGED batch
     \/ Take("clear") /\ batch' = FALSE /\ layout' = FALSE
  /\ tasks' = Tail(tasks)
  /\ UNCHANGED <<waterVars, readVars, cycleVars, ovVars, requested, preset, mode,
                 screen, thrVars, tkpc, alive, relayVars, budget>>

TkTask == \/ DoThumbsUp \/ SwitchBegins \/ DoStop \/ DoReset \/ DoForceReset \/ DoOverlay
          \/ DoMenu

-----------------------------------------------------------------------------
(* The relay threads, the listeners and the button monitor.                 *)

StopBegins ==
  /\ starting > 0 /\ starting' = starting - 1
  /\ holding' = holding + 1 /\ pin' = TRUE
  /\ UNCHANGED <<waterVars, readVars, cycleVars, ovVars, goalVars, thrVars, tkVars, budget>>

StopEnds ==
  /\ holding > 0 /\ holding' = holding - 1 /\ pin' = FALSE
  /\ UNCHANGED <<waterVars, readVars, cycleVars, ovVars, goalVars, thrVars, tkVars,
                 starting, budget>>

\* A command is read by listener t, or by the button monitor.  The serial listener gives
\* it to the screen that is up, and only the dashboard's commands are about the fill.
Command(kind)  == kind \in Occurs /\ budget > 0 /\ budget' = budget - 1
Reads(t, kind) == pc[t] = "idle" /\ (t = "serial" => screen = "dashboard") /\ Command(kind)
Queue(task) == tasks' = Append(tasks, task)

\* Thumbs up (button, serial TU), MIX and FILL of both listeners, RESET and PS of
\* the socket: root.after(0, ...).
AsksTk ==
  /\ \/ Command("Thumbs") /\ Queue("thumbs")
     \/ \E t \in Listeners, m \in Modes : Reads(t, "Mode") /\ Queue(m)
     \/ Reads("socket", "Reset") /\ Queue("reset")
     \/ Reads("socket", "Stop") /\ Queue("relay")
  /\ UNCHANGED <<waterVars, readVars, cycleVars, ovVars, goalVars, thrVars, tkpc,
                 alive, relayVars>>

\* A screen is opened from the menu or comes up by itself (the reminders at two in the
\* morning), or is left again: a callback of Tk.
ScreenChanges ==
  /\ Command("Screens") /\ tkpc = "idle" /\ screen' \in Screens \ {screen}
  /\ UNCHANGED <<waterVars, readVars, cycleVars, ovVars, requested, preset, mode, batch,
                 layout, thrVars, tkVars, relayVars>>

\* PS of the serial line has a thread of its own.  Over another screen it is ignored, or
\* cancels a dialog or marks a test, and stops nothing.
SerialStop ==
  /\ pc["serial"] = "idle" /\ Command("Stop")
  /\ starting' = IF screen = "dashboard" THEN starting + 1 ELSE starting
  /\ UNCHANGED <<waterVars, readVars, cycleVars, ovVars, goalVars, thrVars, tkVars,
                 pin, holding>>

\* OV toggles the override; at zero requested gallons it leaves the batch screen or
\* opens the menu.
ToggleOverride ==
  /\ Reads("serial", "Override")
  /\ IF requested = 0
       THEN Queue(IF mode = "mix" /\ batch THEN "clear" ELSE "menu") /\ UNCHANGED pc
       ELSE pc' = [pc EXCEPT !["serial"] = "flip"] /\ UNCHANGED tasks
  /\ UNCHANGED <<waterVars, readVars, cycleVars, ovVars, goalVars, reg, into, held, tkpc,
                 alive, relayVars>>

\* override_mode = not override_mode, a load and a store; the test of what it is now;
\* the time.
FlipOverride ==
  /\ \/ /\ pc["serial"] = "flip" /\ UNCHANGED ovVars
        /\ pc' = [pc EXCEPT !["serial"] = IF override THEN "off" ELSE "on"]
     \/ /\ pc["serial"] \in {"on", "off"} /\ pc' = [pc EXCEPT !["serial"] = "armed"]
        /\ override' = (pc["serial"] = "on") /\ UNCHANGED overrideTime
     \/ /\ pc["serial"] = "armed" /\ UNCHANGED ovVars
        /\ pc' = [pc EXCEPT !["serial"] = IF override THEN "stamp" ELSE "idle"]
     \/ /\ pc["serial"] = "stamp" /\ pc' = [pc EXCEPT !["serial"] = "idle"]
        /\ overrideTime' = "recent" /\ UNCHANGED override
  /\ UNCHANGED <<waterVars, readVars, cycleVars, goalVars, reg, into, held, tkVars,
                 relayVars, budget>>

goalStep == <<waterVars, readVars, cycleVars, ovVars, mode, batch, layout, screen, held,
              tkVars, relayVars>>

\* requested_gallons += adjustment is a load and a store.
AdjustLoads(t) ==
  /\ Reads(t, "Adjust") /\ pc' = [pc EXCEPT ![t] = "store"]
  /\ \E by \in Steps \cup {-s : s \in Steps} :
       /\ requested + by <= MaxGallons      \* bound
       /\ reg' = [reg EXCEPT ![t] = requested + by]
  /\ UNCHANGED <<requested, preset, into, goalStep>>

AdjustStores(t) ==
  /\ pc[t] = "store" /\ pc' = [pc EXCEPT ![t] = "limit"]
  /\ requested' = reg[t] /\ reg' = [reg EXCEPT ![t] = 0]
  /\ UNCHANGED <<preset, into, goalStep, budget>>

\* A target below zero is set to zero.
AdjustLimits(t) ==
  /\ \/ /\ pc[t] = "limit" /\ UNCHANGED requested
        /\ pc' = [pc EXCEPT ![t] = IF requested < 0 THEN "zero" ELSE "mode"]
     \/ pc[t] = "zero" /\ requested' = 0 /\ pc' = [pc EXCEPT ![t] = "mode"]
  /\ UNCHANGED <<preset, reg, into, goalStep, budget>>

\* The mode is tested; the target, whatever it is by now, is loaded ...
AdjustTests(t) ==
  /\ \/ pc[t] = "mode" /\ pc' = [pc EXCEPT ![t] = "load"]
        /\ into' = [into EXCEPT ![t] = mode] /\ UNCHANGED reg
     \/ pc[t] = "load" /\ pc' = [pc EXCEPT ![t] = "save"]
        /\ reg' = [reg EXCEPT ![t] = requested] /\ UNCHANGED into
  /\ UNCHANGED <<requested, preset, goalStep, budget>>

\* ... and stored as the preset of the mode tested.
AdjustSaves(t) ==
  /\ pc[t] = "save" /\ pc' = [pc EXCEPT ![t] = "idle"]
  /\ preset' = [preset EXCEPT ![into[t]] = reg[t]]
  /\ reg' = [reg EXCEPT ![t] = 0] /\ into' = [into EXCEPT ![t] = "fill"]
  /\ UNCHANGED <<requested, goalStep, budget>>

\* BATCHMIX: the water of the formula becomes the target of mix mode, but not the
\* target in use, which takes it over when mix mode is entered.
BatchArrives ==
  /\ Reads("socket", "Batch") /\ batch' = TRUE
  /\ pc' = [pc EXCEPT !["socket"] = "water"]
  /\ \E water \in Gallons : reg' = [reg EXCEPT !["socket"] = water]
  /\ UNCHANGED <<waterVars, readVars, cycleVars, ovVars, requested, preset, mode, layout,
                 screen, into, held, tkVars, relayVars>>

BatchWater ==
  /\ pc["socket"] = "water" /\ pc' = [pc EXCEPT !["socket"] = "idle"]
  /\ preset' = IF reg["socket"] > 0 THEN [preset EXCEPT !["mix"] = reg["socket"]] ELSE preset
  /\ reg' = [reg EXCEPT !["socket"] = 0] /\ Queue("overlay")
  /\ UNCHANGED <<waterVars, readVars, cycleVars, ovVars, requested, mode, batch, layout,
                 screen, into, held, tkpc, alive, relayVars, budget>>

Listener(t) == \/ AdjustStores(t) \/ AdjustLimits(t) \/ AdjustTests(t) \/ AdjustSaves(t)
               \/ t = "serial" /\ FlipOverride
               \/ t = "socket" /\ BatchWater
People == \/ AsksTk \/ SerialStop \/ ToggleOverride \/ BatchArrives
          \/ \E t \in Listeners : AdjustLoads(t)

Next == \/ Pump \/ FlowChanges \/ LinkChanges \/ ReadingAges \/ OverrideAges
        \/ Poll \/ Update \/ TkTask \/ SwitchMode \/ StopDone \/ ResetTimer
        \/ ScreenChanges \/ StopBegins \/ StopEnds
        \/ \E t \in Listeners : Listener(t)
        \/ People

\* Time passes, the threads run, and Tk runs what is due in the order of time:
\* neither its queue nor update_dashboard is passed over for ever.  Water, crew and
\* pilot owe nothing.
Fairness ==
  /\ WF_vars(OverrideAges) /\ SF_vars(Poll) /\ WF_vars(Update) /\ SF_vars(TkTask)
  /\ WF_vars(SwitchMode) /\ WF_vars(StopDone) /\ WF_vars(StopBegins) /\ WF_vars(StopEnds)
  /\ \A t \in Listeners : WF_vars(Listener(t))

Spec == Init /\ [][Next]_vars
FairSpec == Spec /\ Fairness

-----------------------------------------------------------------------------
(* Properties.                                                              *)

\* Every variable stays in its domain.
TypeOK ==
  /\ flow \in BOOLEAN /\ tot \in Gallons /\ link \in BOOLEAN
  /\ lastFlow \in BOOLEAN /\ lastTot \in Gallons /\ lastRead \in {"recent", "old"}
  /\ wasFlowing \in BOOLEAN /\ latched \in BOOLEAN /\ pending \in Gallons
  /\ daily \in Nat /\ resetFor \in {"none", "this", "earlier"} /\ timers \in Nat
  /\ override \in BOOLEAN /\ overrideTime \in {"none", "recent", "old"}
  /\ requested \in Int /\ preset \in [Modes -> Int] /\ mode \in Modes
  /\ batch \in BOOLEAN /\ layout \in BOOLEAN /\ screen \in Screens
  /\ pc \in [Listeners -> Places] /\ reg \in [Listeners -> Int]
  /\ into \in [Listeners -> Modes] /\ held \in Int
  /\ tkpc \in {"idle", "update", "relay"} \cup Switching
  /\ tasks \in Seq(Tasks) /\ alive \in BOOLEAN
  /\ pin \in BOOLEAN /\ starting \in Nat /\ holding \in Nat /\ budget \in 0..MaxCommands

\* When neither a listener adjusts nor Tk switches, the target in use is the preset of
\* fill mode.  (In mix mode a formula may arrive that is not in use yet.)
FillTarget ==
  mode = "fill" /\ tkpc \notin Switching /\ (\A t \in Listeners : pc[t] \notin Adjusting) =>
    requested = preset["fill"]

\* Nobody stores the target in use between a listener's load of it and its store of the
\* preset: not the other listener, nor Tk with a preset it has loaded before.
Undisturbed ==
  \A t \in Listeners : pc[t] = "save" =>
    tkpc # "show" /\ \A u \in Listeners : pc[u] \notin {"store", "zero"}

\* Of all the points at which two listeners and a mode switch may interleave, only the
\* save of an adjustment lets target and preset part: unless another store of the target
\* falls into it, adjustments may be lost, but what is shown and stopped at is what is
\* saved and will be the target after the next mode switch or start.
TargetKept == []Undisturbed => []FillTarget

\* The delayed reset never zeroes the totalizer while a fill waits for its thumbs
\* up, however often the flow has started and stopped since it was asked for.
ConfirmedBeforeReset ==
  [][(ResetTimer \/ DoReset) /\ tot' # tot => pending = 0]_vars

Due == flow /\ link /\ tot >= requested /\ ~override

\* Water that flows at or past the target stops the pump: the relay is switched, in
\* every flow the dashboard has not stopped yet, while its loop runs.
AutoStop == Due /\ (~latched \/ ~wasFlowing) ~> pin \/ ~Due \/ ~alive

\* An override that was forgotten ends when no water flows.
OverrideExpires ==
  override /\ ~flow /\ link ~> ~override \/ flow \/ ~link \/ ~alive

\* A pump stop that is accepted (PS from the app, PS from the switch box over the
\* dashboard, the automatic stop) reaches the relay, whatever is in the queue before it
\* and whatever mode or screen comes up meanwhile.
StopHeard ==
  starting > 0 \/ (\E i \in DOMAIN tasks : tasks[i] = "relay") ~> pin
====
