# Verification of the trailer monitor and its IO-Link master

This directory holds TLA+ models of the load monitor (`dashboard.py`), of the IO-Link
master that reads its flow meter (`iol-hat/src-master-application`), the TLC runs that
check them, and TLAPS proofs about them. Paths below are relative to the repository.
`PROJECT.json` lists the runs, the source lines each definition models, the mutants that
show each property can fail, the hazards, the findings and the theorems.

    tlc -workers 2 -config MCFillControl_safety.cfg MCFillControl    # a run
    tlapm FillControl_proof.tla                                      # a proof

## 1. The system

An operator fills a trailer with water (and, in mix mode, a batch of chemicals) through a
flow meter. A Raspberry Pi shows the gallons pumped, stops the pump at the requested
gallons, and takes commands from a switch box on a serial line, from a green button, and
from the pilot's phone over Bluetooth.

    phone --BLE--> rotorsync_bumble.py --TCP--> dashboard.py <--serial-- switch box
                                                  |  ^  \--GPIO--> pump relay, meter reset
                                              TCP |  | GPIO <-- green button
                                                  v  |
                       server.cc -> iolink_handler.cc -> SM -> DL -> PL (MAX14819) -> meter

### Components

| component | state it keeps | operations | what is hard | what makes it correct |
|---|---|---|---|---|
| fill control, `dashboard.py` | last reading, flow cycle, latch, pending fill, totals, targets and mode, override, scheduled reset | `update_dashboard` every 150 ms; callbacks of Tk; commands of two listeners and a button | three threads write the same globals with no lock; delayed resets; a loop that reschedules itself; a relay shared by threads | the pump is stopped at the target; no unconfirmed fill is erased; no gallon is counted twice; override ends |
| totals and presets, `dashboard.py` 235-330 | files of daily and season totals, presets | load, save, midnight reset | files rewritten in place; a power cut in between | totals never shrink within a day; a file is never half a total |
| BLE gateway, `rotorsync_bumble.py` | connections, chunk buffer of a batch mix, command relay | characteristic reads and writes, dashboard socket | chunks lost or repeated; socket failing in between | only a complete formula is forwarded; a command is forwarded at most once |
| BLE watchdog, `rotorsync_watchdog.py` | failure counter, time of last restart | periodic check, restart of the service | restart storms; a counter that is never reset | a healthy gateway is not restarted, a dead one is |
| master application, `src/*.cc` | state of each port | events from SM/AL, recovery of a lost port, requests of the TCP server | a mailbox thread, a handler thread and a server thread | a lost port comes back; a port is only used while operational |
| IO-Link SM, `ilink/iolink_sm.c` | state of each port, parameters read from the device | port configuration, mode indications, confirmations | asynchronous confirmations; losses in every state | every request is confirmed; no confirmation arrives unasked |
| IO-Link CM, `ilink/iolink_cm.c` | state and configuration of each port | port configuration, port modes, faults | waits for SM and for DS in turn, either of which may never answer | its waits end; it agrees with SM and the link on whether data is exchanged |
| IO-Link DS, `ilink/iolink_ds.c` | the stored parameters, their checksum and device, upload or download under way | identity and checksum checks, upload, download | a transfer takes many messages, each may fail or be the last; devices are exchanged meanwhile | the stored set is whole and one device's; a device never gets another's parameters |
| IO-Link AL, `ilink/iolink_al.c` | the one service under way, its user, its buffer, the event memory | read, write, event | three users share one service and one buffer | each request is answered once, with its own data |
| IO-Link ODE, PDE, `ilink/iolink_ode.c`, `iolink_pde.c` | active or not, the application's request | read, write, start, stop | requests outlive the session they were made in | a blocked exchange is answered; it stops when CM says so |
| IO-Link DL, `ilink/iolink_dl.c` | mode handler, message handler, OD, ISDU, command, event, PD handlers | event bits, timer, requests of SM and AL, `iolink_dl_reset` | two state machines that call each other; bits set by other threads; retries and watchdogs; a reset from another thread | handlers agree; losses are noticed and reported; each access is confirmed once |
| IO-Link PL and MAX14819 driver | FIFO mark `data_ready`, wake-up, cycle timer, error registers | transfer, resend, interrupt | interrupt against thread; one interrupt for two channels | no answer is lost for ever |
| master main, OSAL | pool of 40 jobs, mailboxes, event bits, timers, mutexes | post, fetch, wait, start and stop | fixed pool with an assertion; timer that fires after it was stopped | the pool is never empty |

The DL thread, the timer thread, the interrupt thread, the job mailbox thread (SM, CM and AL
run on it) and the application's handler thread talk through event bits, the timer and the
job queue. SM and AL call into DL directly, from the mailbox thread; everything else between
CM, SM, DS, AL and ODE goes through the job queue, so that each layer acts on what another
was some jobs ago. In `dashboard.py` the serial
listener, the socket listener and the button monitor are threads; they either set the
globals themselves or queue a callback with `root.after(0, ...)` on the Tk thread, which is
also the thread of `update_dashboard`. Relays are driven by short-lived threads.

### Not modelled

- Of process data: interleaved mode, which no M-sequence type reaches (every type has a bit of
  TYPE_2_X, iolink_dl.c:516), the server thread's SIO branch, and the mailbox thread's copy
  of the input, which the next run of the handler writes again.
- On-request data of PREOPERATE in `IolinkOD`.
- Two ports: the cycle time and the interrupt they share, the job pool they take from. One
  port is in use in this system (README.md:312).
- SPI failures, threads and semaphores of the OSAL, leaks and logging.
- The application's event queue and its waits (`iolink_handler.cc`) apart from what
  `IolinkDL` and `PortStack` have of them; the TCP server (no state beyond a connection).
- `dashboard.py`'s drawing, menus, self-test, calibration, WiFi and update tools, and its
  files of totals and presets, which would need a model of the file system.
- The BLE gateway, whose threads are those of a Bluetooth library outside the repository,
  and the BLE watchdog (a failure counter of one thread).
- `dashboard.py.bak*` and `dashboard_original.py` (old copies); the Flutter reference
  application and `examples/` (other programs); the library under `src/src/` (the dashboard
  has its own copies); vendored headers; installers, service files, tests.

## 2. Plan

Done, in this order:

1. `LinkService` (what DL promises to SM), `IolinkDL` (mode and message handler with the
   transceiver under them and phases of SM above), `MCIolinkDL`, `IolinkDL_proof`.
2. `FillControl`, `MCFillControl`, `FillControl_proof`.
3. `IolinkOD`, `MCIolinkOD`: the OD, ISDU, command and event handlers with the two states
   of the message handler that drive them.
4. The layers above the data link, one module for each, which extend each other from the
   bottom: `PortMailbox`, `PortDataLink` (the data link and the device, message by message
   abstracted, shown to implement `LinkService` too), `PortAppLayer`,
   `PortSystemManagement`, `PortDataStorage`, `PortOnRequest`, `PortConfigManager`;
   `PortStack` composes them, `MCPortStack` instantiates it, `PortStack_proof` proves three
   of its invariants and that its link implements `LinkService`.
5. `Selection` (the entries of a queue at a set of positions, without recursion), with its
   lemmas in `Selection_proof`; both refinements of `LinkService` are stated with it, and
   proved in `IolinkDL_proof` and `PortStack_proof`.
6. The second half of `IolinkDL_proof`: the session invariant, `OneAccess`, `ModeAgreement`,
   `NoStrandedLoss`. `IolinkOD_proof`: whose data an ISDU carries; `IolinkODServices_proof`,
   on top of it: that a confirmed write has reached the device, that an event is told
   before it is cleared, that what AL waits for is remembered, and the types.
7. `ProcessData`, `MCProcessData`, `ProcessData_proof`: process data from the device to the
   application's run and back, with the recovery of a lost port in the application's handler.
8. `PortStart_proof`, on top of `PortStack_proof`: the types of the whole port, the
   handshake of SM with the data link and AL while a device starts, the services of AL, and
   that CM's idea of a running device is true.

Left, most important first: two ports (shared interrupt, cycle time and pool); the files of
totals with power cuts; the chunks of BatchMix. Proofs left: `StoredWhole`,
`OperatesRestored`, `OwnAnswer`.

## 3. Modules and code

How the modules of the IO-Link master divide the work:

    PortStack    application, CM, ODE, PDE, DS, SM, AL | mailbox | PortDataLink + device
                                                                   |  implements
    LinkService  mode of the link, indications on their way  <-----+
                                                                   |  implements
    IolinkDL     mode and message handler, timers, chip, resets  --+
    IolinkOD     OPERATE: OD, ISDU, command, event handlers; AW_REPLY_9 and 16; device
    ProcessData  OPERATE: input and outputs, AL, PDE, CM's port status, iolink_handler.cc

`IolinkDL` shows how a message exchange can end; `PortDataLink` takes these outcomes for
steps. `IolinkOD` shows how an ISDU, a parameter, a command and an event can end in OPERATE;
`PortDataLink` has these as `IsduDone`, `IsduFails`, `ParamDone`, `ModeDone`, `DeviceEvent`
and `Lose`.

### IolinkDL: one port of the data link

| model | code |
|---|---|
| `events`, `todo` | bits of `dl->event`; `dl->triggered_events` not handled yet |
| `mdState`, `dlMode`, `mhInfo` | `dl->mode_handler` |
| `mhState`, `mhcmd`, `rwcmd`, `retry` | `dl->message_handler` |
| `busy`, `mcmd`, `eventFlag` | ISDU in progress, pending master command, event flag |
| `timerOn`, `timerType` | `dl->timer`, `dl->timer_type` |
| `wurq`, `cyc`, `line`, `dataReady` | channel of the MAX14819 and its driver |
| `jobs`, `sm`, `req`, `dlAddr`, `app` | queue of jobs, phase of SM, request it waits for, recovery in `iolink_handler.cc` |

One action is one handler of the loop of `dl_main`, in the order of the source (`Turn`).
Where the mode handler calls `MH_Conf` and goes on after it, the step is cut (`pc = "conf"`,
`"finish"`), because other threads act in between: that is where the two state machines can
disagree. Each state function of the message handler is one definition (`MH_Startup` ...
`MH_AwaitReply16`), its argument the flag it runs for. `App_Retry` is `iolink_dl_reset`, from
another thread, at any of those points.

Abstractions: the contents of messages, process data and interleave mode; the OD handlers
are reduced to which kind of access is pending; the receive and the transmit error bit are
one; the reset happens at the cut points and not between two assignments of one handler;
the application's handler thread is merged into SM's step that tells it of a loss. The pause
of 500 ms (`App_Tsd`) ends only when the threads have nothing left to do, which is how long
it takes in the program by orders of magnitude.

`LinkService` is what SM may rely on: the mode of the link and the indications on their
way. `Link == INSTANCE LinkService WITH link <- LinkOf[mdState], ind <- ModeIndsOf(jobs)` is
the refinement mapping; `ModeIndsOf` is `SelectAt` of `Selection` at the queue's mode
indications.

### IolinkOD: on-request data in OPERATE

| model | code |
|---|---|
| `h.od`, `h.is`, `h.cs`, `h.es`, `h.trig` | states of `od_handler`, `isdu_handler`, `cmd_handler`, `event_handler`; `od_handler.trigger` |
| `h.rw`, `h.code`, `h.mcmd`, `h.lost` | `rwcmd`, `control_code`, `master_command`, `mhinfo` |
| `h.seg`, `h.tot`, `h.job`, `h.buf`, `h.late` | the ISDU's segments, request, response buffer and timer |
| `h.conf`, `h.flag`, `h.addr`, `h.got` | the event handler's confirmation, flag, address and bytes |
| `h.tx`, `chip`, `rx` | `txbuffer`; the message the chip repeats; what it has for the DL thread |
| `md`, `mh`, `pc` | mode handler (up or down), AW_REPLY_9 or 16 and its retry counter, between DEVICE and MASTER trigger |
| `dev` | the device: ISDU service, what it processed, parameter, events (external) |
| `al`, `caller`, `left`, `occurs` | AL's service, the other threads' calls cut in two, budgets, the mix |

`Up` is the activation of the handlers and the last message before OPERATE, the master command
that enters it (iolink_dl.c, goto_operate); AW_REPLY_9 does not read the answer's checksum
byte, so `Written` keeps the event flag of the message before.

A handler is an operator from the record of the handlers to the next one, and
`Confirm` collects what it posts; a message's answer runs OD_Handler (DEVICE), the other
threads get a turn, then OD_Handler (MASTER) prepares the next message. The data of an ISDU
are segments marked with the request they belong to: that is all `OwnResponse` and
`AtMostOnce` need.

`Mixes` names what happens together in a behaviour. Not every mix of the occurrences is
there, because some combinations break a property for reasons that lie in the code; each
is a hazard of `PROJECT.json` or one of these:

- `Read` with `Loss`: handle_com_lost (iolink_dl.c:759) drops the read; AL waits.
- `Event` with `Loss`: event_confirmation survives (2248, 2547); the next session confirms
  events nobody was told of.
- `Pdout`, `Event` and `Race`: control_code is set before cmd_h_sm (3265, 3315).
- `Write` with `Drop` or a command: the WRITEPARAM branch precedes the check for errors (1247).
- `Write` with `Event`: a write that finds an event under way is prepared again with each
  message, and none of their answers reaches the event handler (1247, 1266, 2697): the OD
  handler does not come back from the event, and `OdReturns` fails.
- `Errors`, `Event` and `Loss`: an ISDU in ISDUERROR_4 is not confirmed when the link goes
  down while an event or a command holds the OD handler (1721-1723).
- more than one command at a time: the second, made in COMMAND_2, is never sent (2653, 2198);
  `MaxCommands = 1`.

DL_Control_req, DL_Write_Devicemode_req and DL_ReadWriteParam_req change what the DL thread
reads in several assignments with no lock around them; each is two actions (`AskPdout` and
`RunPdout`, `AskMode` and `RunMode`, `AskParam` and `StoreParam`). With `Race` the DL thread
runs in between, too; it is in the mixes whose properties survive that. A write that the DL
thread takes after its `rwcmd` (3058) and before its address and value are stored (3104-3112)
goes out with those of the access before, and is confirmed as good. The mix Write, Race, Drop
reaches this; `WritesReach` excepts it by name (`InTime`: the DL thread does not wait for a
write's answer while its data is yet to be stored) and claims every other write. A read is
taken in the same way, and given another address's byte.

`Answered` excepts the mode INACTIVE, after which a started ISDU keeps its state until the
next session (1851).

### PortMailbox to PortStack: a port above the data link

| module | state | code |
|---|---|---|
| `PortMailbox` | `jobs`, the mailbox of the master thread, oldest first | `iolink_main.c`, `iolink_post_job` |
| `PortDataLink` | `dl` (link, requested mode, MDH event, pending access, ISDU, parameter, `mcmd` the master command and `code` its control code), `dev`, `bufr` (AL's buffer), `faults` | the calls and indications of `iolink_dl.c`; the device (external) |
| `PortAppLayer` | `al`: service, user, request, event slots | `iolink_al.c` |
| `PortSystemManagement` | `sm`: state, configuration, error, retry, identity and revision read | `iolink_sm.c`; `SmTable` is its sixteen transition tables |
| `PortDataStorage` | `ds`: state, flags, data set with device and checksum, position; `info` | `iolink_ds.c` |
| `PortOnRequest` | `ode`, `pde`, `app` | `iolink_ode.c`, `iolink_pde.c` |
| `PortConfigManager` | `cm`: state and configuration | `iolink_cm.c` |

A callback is one action, enabled when its job is the head of the mailbox: `Handled(posts)`
takes the job and appends what the callback posts. The data link thread and the application
append by `Posted`. A service's data travel as the code has them: the request in the job,
the answer in AL's one buffer, to which the confirmation points; a command of DS as a pointer
to a byte in `ds` that is read only when AL handles the request (`Resolved`). The
application's configurations and requests are in `PortStack` (`Configure`, `Request`), as is
`GiveUp`, after which `wait_for_cnf` waits no more (one second for a configuration, ten for a
read or write of the device: iolink_smi.cc:66,119).

The master command outlives the session it was asked in, as in the code: only the command
handler's state and its control code go (`Shed`). A command that is asked for without a link
finds the command handler inactive: its control code stays, and the OD handler of the next
session waits in COMMAND_2 for what nothing will send (`code = "jam"`), until
`iolink_dl_reset` clears it (iolink_handler.cc:477).

The assumption to know: the application configures the port when neither SM nor DS has
anything under way, with nothing in the port at all (`Quiet`) or with requests of its own to
the on-request exchange on their way through ODE, AL and the data link (`OnlyExchange`). In the
program it configures at the start and after a loss, 500 ms later if the port was starting
and at once if it was running (iolink_handler.cc:503-522); nothing makes the second wait for
SM. A configuration handled amid an access of SM's, or before the serial number it has asked
for, meets the `CC_ASSERT (0)` of SM's confirmations, and one amid an upload that DS has begun
makes `StoredWhole` false (TLC's traces, with a weaker guard): they are outside the model, and what is
checked and proved of the port (`SmExpects`, `StoredWhole` among it) is under that assumption.
`iolink_dl_reset` before the second configuration is left out: without a link it drops
requests that wait for one, and the jam.

Behaviours the modules show and no run forbids: a partial upload leaves `valid` TRUE with the
old checksum (which then does not match, so that it is repeated); an event that reports
DS_UPLOAD_REQ is found again in a slot of an earlier event (iolink_al.c:1203-1240); a
configuration that SM receives during a start-up is dropped while CM believes in it
(iolink_sm.c:1935-2003); a short answer to the checksum of StoreDataSet makes DS write two
commands over one byte (iolink_ds.c:995-1002). CheckUpload reads the data of a read that was
refused, a null pointer, when events and the application's requests come together
(iolink_ds.c:983-1012): DS has no step there (`NullRead`), and no run has both. Nor has AL a
step for an event that finds its six slots full (`CC_ASSERT (event_cnt < 6)`).

A port whose device is of revision 1.0 and cannot keep the configured cycle time has fallen
back to an idle link; when it is then deactivated, SM goes to waitForFallback and waits for a
confirmation of a device mode that nobody will send (iolink_dl.c:3271-3341), drops every
later configuration (sm_setportcfg_req_cb), and CM stays in SM_Startup. `Settles` therefore
excepts waitForFallback. With losses of the link `Settles` is false for two more reasons,
which is why `port_start` has none: DS lets go of a lost device without a word (`port_stuck`),
and a link lost in RestartDevice leaves SM in CheckComp with no access under way
(iolink_sm.c:1245-1249). `Active` is false of a revision 1.0 device with losses: SM ignores a
lost link in checkSerNum (iolink_sm.c:746-749), and where the serial number's answer is in
the mailbox already it goes on to operate a port whose link is idle. `StoredWhole` and
`DownloadOwn` are false of a configuration that names another device and no backup, behind one
with backup: ds_init_cb sets `ds_enable` and never clears it (iolink_ds.c:1114-1135), so that
DS goes on with another device's identity and flags than those its data set was stored under.

### ProcessData: input and outputs in OPERATE

| model | code |
|---|---|
| `link`, `ses` | mode of the link as SM and the mode handler have it; sessions so far |
| `mh`, `tx` | AW_REPLY_16 of the message handler; the message in the chip |
| `pd`, `code`, `cmd` | `pd_handler` state and `pdoutdata`; `control_code` and state of `cmd_handler` |
| `dev` | the device's outputs, and whether it was told that they are valid (external) |
| `al` | `pdin_data` of AL |
| `jobs`, `port`, `pde` | the mailbox; CM's `port_info` (status and quality); PDE's `active` and `output_enable` |
| `app`, `ev`, `cur`, `timer` | `app_port_state`, `app_event`, the bits taken by the handler, `iolink_tsd_tmr` |
| `run`, `pdInValid` | where `generic_run` is, with its local `pdin_valid`; `status.pdInValid` |
| `race` | whether the DL thread may run between DL_Control_req's two halves |

The data are session numbers: what is asked of input and outputs is from which session they
are. SM is in CM's actions; DS is one step of `CM_StartDs`; what CM and SM do in other
configurations, the COMLOST that CM ignores included, is `PortStack`'s. The message
handler's retries are `IolinkDL`'s, and so a lost link is one step. `LoseLink`
leaves the command handler either way the OD handler may be stopped (`IolinkOD`).

### FillControl: the fill of a load

| model | code |
|---|---|
| `flow`, `tot`, `link` | the pump, the meter's totalizer, its connection (external) |
| `lastFlow`, `lastTot`, `lastRead` | `last_flow_rate`, `last_totalizer_liters`, `last_successful_read_time` |
| `wasFlowing`, `latched`, `pending`, `daily` | `was_flowing`, `auto_shutoff_latched` (and `last_alert_triggered`), `pending_fill_gallons`, `daily_total` |
| `resetFor`, `timers` | `flow_reset_cycle_id` against `flow_cycle_counter`; its `root.after` timers |
| `override`, `overrideTime` | `override_mode`, `override_enabled_time` |
| `requested`, `preset`, `mode`, `batch`, `layout` | `requested_gallons`, `fill_` and `mix_requested_gallons`, `current_mode`, `batch_mix_data`, `batch_mix_layout_active` |
| `screen` | whether the dashboard is up, or a menu, log, test or dialog (`ui_mode_active`, `calibration_mode`) |
| `tasks`, `tkpc`, `alive` | queue of the Tk thread, where it is, whether `update_dashboard` will run again |
| `pc`, `reg`, `into` | the two listeners: where they are in an adjustment, a formula and OV; what they have loaded; the mode they have tested |
| `held` | what `switch_mode` has loaded of the target or of a preset |
| `pin`, `starting`, `holding` | the relay; threads of `pump_stop_relay` before and in their sleep |

A listener has no lock and may lose the interpreter between any two loads and stores of a
global. What the listeners and `switch_mode` do to the target, the presets, the mode and the
override is therefore one action for each such load and store: an adjustment is a load and a
store of the target, its limit at zero, the test of the mode, a second load of the target and
the store of the preset (`AdjustLoads` ... `AdjustSaves`); `switch_mode` is up to eight steps
(`SwitchBegins` ... `SwitchStores`), OV up to four (`FlipOverride`), a formula two.
`Poll` and `Update` are the two halves of `update_dashboard`; a listener acts between them.
The other callbacks of Tk are atomic, except `pump_stop_relay`, which sleeps on the Tk thread
when the socket asks for it; among themselves the callbacks never interleave.

The cycle counter is replaced by how the scheduled reset relates to it (`"this"` or an
`"earlier"` cycle), and times by `"recent"` and `"old"`. The serial listener gives its command
to the screen that is up; over any but the dashboard PS stops nothing (`SerialStop`), and the
other commands are not the fill's (`Reads`). The socket listener asks for no screen. Left
out: what the screens themselves do, calibration mode, tank levels, files, the midnight reset.
`Update` is one step against the listeners: it reads target and override as of one moment.

### Behaviours that no run forbids

The modules reach these; `PROJECT.json` lists them as hazards:

- a timeout clears the timer its handlers have just armed, so that the watchdog is gone
  (iolink_dl.c:3533);
- a reset of the port drops an RXRDY that the DL thread has taken, `data_ready` stays set and
  the port never signals again (iolink_dl.c:3650); a wake-up outlives the reset of its port
  and confirms what nobody asked;
- with resets `OneAccess` is false: a good confirmation at the head of the queue finds an SM
  that does not read and meets `CC_ASSERT (0)` (TLC finds it in `IolinkDL` with `Occurs`
  `{"Retry", "Devmode"}`);
- a direct read that is accepted while another message is under way is given that message's
  byte (iolink_dl.c:1909);
- the command PDOUTVALID is lost where the DL thread runs between the control code and the
  command handler (iolink_dl.c:3265): the device never learns that its outputs are valid;
- a direct read or write that the DL thread takes between its `rwcmd` and its data is one of
  the address, and of the value, of the access before it (iolink_dl.c:3058-3112);
- a link that is lost before SM asks for a device mode, when the news is still on its way,
  leaves the port dead: DL_Write_Devicemode_req confirms nothing (iolink_dl.c:3271), SM ignores
  the COMLOST in wait_devmode_cnf (iolink_sm.c:1279), although its comment (746-749) counts on
  the confirmation. `LossReported` excepts exactly that wait (`Unconfirmed`: no link, and the
  command still pending);
- a device mode asked for without a link jams the OD handler of the next session
  (iolink_dl.c:3271-3341, 2653), until the port is reset;
- a store of the target between a listener's load of it for the preset and its store of the
  preset (dashboard.py:3405-3408, 3732-3735) leaves the preset on the target before, and a save
  between `switch_mode`'s load of a preset and its store of the target (355-358) leaves the
  target on the preset before; the next mode switch or start of the program makes them one. The
  same window, in `requested_gallons += adjustment` itself, loses adjustments, and between its
  store and its limit at zero (3726-3729) a mode switch saves a negative preset;
- PS of the switch box over the menu, logs, history, self-test, update or reminders is
  ignored (dashboard.py:3482-3718), in calibration (3567) and confirm dialogs it cancels, in the
  full test (3663) it marks a test. README.md:83 calls it "Emergency pump stop";
- two overlapping calls of `pump_stop_relay` end the stop early (dashboard.py:999).

## 4. Runs

| run | instance | checks | result |
|---|---|---|---|
| `dl_session` | `MCIolinkDL_session.cfg`, 120,242 states | `TypeOK`, `OneAccess`, `ModeAgreement`, `NoStrandedLoss`, `RxReported`, `LinkRefinement`, `AccessConfirmed`, `LossReported` | hold |
| `dl_retry` | `MCIolinkDL_retry.cfg`, 1,267,823 states | `OneDevmodeConf` with resets | holds |
| `fill_safety` | `MCFillControl_safety.cfg`, 2,498,748 states | `TypeOK`, `TargetKept`, `ConfirmedBeforeReset` | hold |
| `fill_live` | `MCFillControl_live.cfg`, 268,976 states | `AutoStop`, `OverrideExpires`, `StopHeard` | hold |
| `fill_frozen` | `FillControl_frozen.cfg` | `AutoStopAlways` | violated: a `TypeError` ends `update_dashboard` |
| `od_served` | `MCIolinkOD_served.cfg`, 102,723 states | `TypeOK`, `Remembered`, `OwnResponse`, `AtMostOnce`, `EventsTold`, `WritesReach`, `Answered`, `OdReturns`, `EventCleared`, `ModeAnswered` | hold |
| `pd_fresh` | `MCProcessData_fresh.cfg`, 121,160 states | `InputFresh`, `OutputsOwn` | hold |
| `pd_valid` | `MCProcessData_valid.cfg` | `InputNotValid` | violated: a port whose device is gone keeps the status of its last run |
| `port_start` | `MCPortStack_start.cfg`, 166,972 states | `TypeOK`, `SmExpects`, `Settles`, `DownloadOwn`, `LinkRefinement` | hold |
| `port_backup` | `MCPortStack_backup.cfg`, 896,599 states | `StoredWhole`, `OperatesRestored`, `IsduUnderWay` | hold |
| `port_exchange` | `MCPortStack_exchange.cfg`, 1,010,826 states | `Active`, `Stopped`, `OneEach`, `BlockedAnswered`, `OwnAnswer` | hold |
| `port_stuck` | `PortStack_stuck.cfg` | `DsLetsGo` | violated: CM waits for a fault that DS never reports |

The violated ones each check a sentence of the repository's own documentation; the findings
of `PROJECT.json` quote it and tell the trace.

What the properties say of the data link. `OneAccess`: exactly one direct parameter access
is under way, in the message handler or as a confirmation in the queue, while SM reads, and
none otherwise. `ModeAgreement` and `NoStrandedLoss` relate the two state
machines, the chip's cycle timer and the note of a loss between two handlers. `RxReported`
says the driver's mark is up only while its signal is on its way. All four hold without
resets of the port and are false with them (section 3); that is why the session run has no
`"Retry"`. `AccessConfirmed` and `LossReported`
are the liveness side. `AccessConfirmed`: an access of SM ends, or the message handler is in
RESPONSE_3 or AW_REPLY_4 with nothing armed, which the chip owes a report (`Silent`); a retry
the timer owes is not excepted. `LossReported`: a loss reaches SM, except where it is lost to
a device mode that was asked for too late (`Unconfirmed`, above). `OneDevmodeConf`
holds with resets.

What they say of on-request data. `Remembered`: what AL waits for is with the handler that will
answer it. `OwnResponse` and `AtMostOnce` look at an ISDU from both ends: AL gets the segments
of the response to its own request, the device carries a request out once, over resent
messages, events in between, timeouts and lost links. `EventsTold`: an event is cleared in the
device only after it was indicated. `WritesReach`: a confirmed write has reached the device,
unless the DL thread has taken a write before its data was stored. The four liveness properties
say that no command, event or service keeps the OD handler or its caller for ever; `OdReturns`
is the source's own "Event ended. Back to ISDU." for commands and events.

What they say of process data. `pdin_data` is never cleared and the requests for a run wait in
the mailbox and in `app_event` while a link is lost and another begins; `InputFresh` says that
nevertheless no run reads the input of an earlier session, because the new session cannot
begin before the handler has passed what was on its way. `OutputsOwn` says the same of the
outputs, which survive in `pdoutdata`, and of `output_enable`, which survives in PDE: when it
spares the device the command PDOUTVALID, the device was told in this session. Its second
part excepts behaviours with the race (`race`). `InputNotValid` is what the Python client's
documentation says of `pd_in_valid`, which is false of a port without a link.

What they say of the port. `port_start`: three kinds of device (revision 1.0, a data storage
too large, no serial number) are exchanged while the port is without communication, under every
port mode and validation; CM's waits end, and SM is told of no access but the one its state
waits for (`SmExpects`), or it would meet the `CC_ASSERT (0)` of its confirmations.
`port_backup`: parameters are changed at the device, devices exchanged, links lost and requests
answered short or not at all while data sets are uploaded and restored. `port_exchange`: the
application reads and writes, and configures with its requests still under way, while events,
errors and losses happen; the layers agree on whether data is exchanged, and each request is
answered once and with its own data. `IsduUnderWay` has no counterpart for direct parameters:
one is dropped when the link is lost in OPERATE (iolink_dl.c:759). `OwnAnswer` is not asked
with changes of parameters (`"Param"`): an upload's read then writes over AL's one buffer
before the application's answer is copied from it.

What they say of the fill. `FillTarget`: in fill mode, when no listener is in the middle of an
adjustment and Tk in none of a mode switch, the target in use is the preset that is saved.
Three threads write both, and it is not an invariant: TLC finds the save of an adjustment that
another listener overtakes. `TargetKept` says that this is the one way to it: in a behaviour
in which no listener is about to save a preset while another thread is about to store the
target (`Undisturbed`) `FillTarget` always holds, whatever else the listeners and `switch_mode`
do in between. `ConfirmedBeforeReset` is
about the thirty seconds between thumbs up and
the reset. `AutoStop` claims what the dashboard does claim, each flow that has not been
stopped before; after an automatic stop the latch keeps it from stopping the same flow again
(a flow the coast or the operator keeps up past the five seconds of the relay is not stopped
twice). `OverrideExpires` allows for a queue in
between. `StopHeard` begins where a stop is accepted: by the socket, by the automatic stop, or by
the serial listener with the dashboard up; what comes up or is queued after that does not
matter. It says nothing of a PS over another screen, which stops nothing.
`AutoStop` and `OverrideExpires` except a loop that has ended (`~alive`), which `fill_frozen`
shows to be possible; `StopHeard` needs no such exception.

### Bounds and why they are enough

- `IOLINK_MAX_RETRY` 1 or 2 and `OPERATE_RETRY` 1 to 3: a retry count matters by being
  below or at its limit; `dl_session` has the 3 of the source.
- `Occurs` picks the kinds of trouble and traffic, so that each run stays small; the session
  run has all of them but the reset. `dl_retry` leaves out parameter, ISDU and event
  traffic: with them the job queue reaches 7, which the pool of 40 jobs still covers for two
  ports.
- `ReqSegs`, `RespSegs`, `EvBytes` 2: a first and a last segment, and each of them resent or
  missing. `MaxJobs = 2` of `IolinkOD`: the response to the first must not pass for the second's.
  `MaxFaults = 3` with `OPERATE_RETRY = 2` reaches the loss; `MaxEvents`, `MaxSessions` 2:
  what is left over meets what comes next.
- `MaxSessions = 3`, `MaxJobs = 5` of `ProcessData`: what is left of one session meets the next
  and the one after it; the mailbox holds the two jobs of an answer behind those of a loss.
  The proofs have neither bound.
- `NEntries` 1 or 2: a data set that is half one device's needs two. `EventSlots` is the 6 of
  the source. `MaxCfgs` 2 or 3 with as many troubles and exchanges: a first configuration
  stores, a second restores or finds another device, a third follows a failure. `MaxReqs = 2`:
  an answer can meet the next request. The proofs of `PortStack_proof` have none of these bounds.
- `MaxGallons = 2`: zero, below the target, at the target; the presets differ, and a batch
  may bring any of the values. `Steps = {1}`, `Coasts = {0}` or `{0, 1}` (the trigger
  threshold is taken from a table; any of them may apply).
- `MaxCommands` (2 to 4) counts commands of crew and pilot. Two let a listener
  adjust while a mode switch passes it. The proofs remove this bound for the invariants.
- `MaxStops = 1`: a new flow starts with at most that many stops under way. It only bounds
  `FlowChanges`; commands may add more.

`CHECK_DEADLOCK FALSE` is used where the system may come to rest: commands used up, nothing
flowing; a port whose application waits with no reset enabled; a port with its budgets of
configurations, requests and troubles used up.

### Fairness

`IolinkDL`: the DL thread, the timer thread and the mailbox thread run (weak fairness); the
transceiver ends a wake-up and reports on each message it does not lose (`Answer` includes the
receive error the chip raises by itself when no device answers). Device, wire and application
owe nothing. In STARTUP and PREOPERATE no timer guards a message, and a chip that reports
nothing in any way would stop the port for good, which `AccessConfirmed` excepts (`Silent`).

`IolinkOD`: the DL thread and the callers that have begun go on, and the chip exchanges its
message every cycle, which it does by itself; timeouts, errors, losses, and requests owe
nothing. `PortStack`: the master thread and the data link's progress (weak fairness); `Lose`,
`IsduFails`, events and the exchange of devices may or may not happen, and the application
owes nothing.

`ProcessData`: the DL thread, the master thread, the handler thread, the timer and the chip go
on; links need not be lost. `pd_valid` is refuted under this fairness.

`FillControl`: time passes; relay threads, listeners and a `switch_mode` that have begun go on
(weak fairness). Tk's queue and `update_dashboard` have strong fairness: both are enabled only
while the Tk thread is not busy, and Tk runs its callbacks in the order in which they
fall due, so that neither is passed over for ever by the other. Water, crew and pilot owe
nothing.

## 5. Proofs

All theorems hold for every value of the constants that satisfies the assumptions named in
the modules (`RetryAssumption`, `OccursAssumption`, `FillAssumption`, `RequestsAssumption`,
`ConfigsAssumption`, `DeviceAssumption`, `SlotsAssumption`, `SegmentsAssumption`, `MixAssumption`,
`BudgetAssumption`, `BoundsAssumption`); those of a session without resets also assume
`NoRetry`.

`IolinkDL_proof`
- `TypeCorrect`: `Spec => []TypeOK`; one step per action, the message handler's ten state
  functions in a lemma of their own.
- `DevmodeConfirmedOnce`: `Spec => []OneDevmodeConf`, resets included. The property counts
  confirmations in the queue, so lemmas say what `Append` and `Tail` do to the positions of
  a kind of job. It is not inductive alone: `ReqPhase` adds that a request for the device
  mode is pending only in the phase of SM that made it.
- `AnswersReported`: without resets, `Spec => []RxReported`.

`FillControl_proof`
- `FillTypeCorrect`: `Spec => []TypeOK`.
- `FillTargetKept`: `Spec => TargetKept`, that is, `[]Undisturbed => []FillTarget`. The invariant
  `TargetInv` is kept by every step from an undisturbed state: a listener that has changed the
  target *owes* the preset of fill mode (`Owes`) until it has tested another mode or saved; one
  that saves has loaded the target in use; what `switch_mode` is about to store is the preset of
  fill mode. `FillTarget` alone is not inductive: between two listeners only one of which is
  amid an adjustment it says nothing of the other's load. The condition is needed, as TLC's
  trace shows without it.
- `ResetOnlyConfirmed`: `Spec => ConfirmedBeforeReset`, from `ResetInv`: a reset due in this
  cycle finds nothing pending and no flow in the books, and the books (`wasFlowing`) are
  behind the reading only between a poll and its update. The second conjunct is why the
  first survives a thumbs up: it is accepted by the reading, not by the books.

`PortStack_proof`: any devices, configurations, requests, numbers of troubles
- The mailbox is the hard part: nothing bounds it, and a property says something of a job
  that is somewhere in it. The first part of the module therefore goes through all callbacks
  and says what each posts: everything but CM's is *calm* (no OD_START among it, and every
  request in it a read or a write), and CM's is calm, or begins with OD_STOP, or is OD_START
  alone. Lemmas on `Tail` and `\o` carry that over to the mailbox.
- `ExchangeStopped`: `Spec => []Stopped`. Not inductive: an OD_START that is in the mailbox
  when CM leaves would start the exchange later. `ExchangeInv` says that the exchange is
  *quelled*: an OD_STOP is in the mailbox with no OD_START behind it, or the exchange is
  inactive and no OD_START is in the mailbox.
- `ExchangeAnswered`: `Spec => []BlockedAnswered`, from `RequestInv`: a blocked exchange has
  AL's service or a job of its own in the mailbox, and an idle service has no owner.
- `IsduAnswered`: `Spec => []IsduUnderWay`, from `IsduInv` and `JobsInv`: SM's calls keep the
  ISDU handler's request, every step of the link keeps it or posts its confirmation, and
  what AL hands over is a request and not `NoOp`, because every request in the mailbox is a
  read or a write. The last is why `RequestsAssumption` is needed.
- `PortLinkImplemented`: the port model's link implements `LinkService`, with no assumption
  beyond the constants'. The first part says of each callback that it posts no mode
  indication, except the link's own steps, which post one; the mapping then only needs the
  lemmas of `Selection_proof`.

`IolinkDL_proof`, second half: one session, that is, `"Retry" \notin Occurs`
- `SessionKept`: the invariant `Session`. SM's phases (at rest, waking, reading, on the way
  to PREOPERATE or OPERATE, in them) each fix what SM has asked, the mode of the link and the
  jobs that may be in the queue, as an enumeration of short queues; beside it, how the mode
  handler's state, the message handler's, the cycle timer, the note of a loss and the event
  bits go together between two handlers and at the cut points. No part is inductive alone:
  which queue is possible depends on the handlers, and which mode is asked for on the queue.
- `OneAccessAtATime`, `HandlersAgree`, `LossNotStranded` follow from it.
- `LinkImplemented`: `Spec => LinkRefinement`. Each step of the link appends at most one
  indication, and SM's steps take the oldest; `Selection_proof` has what `Append` and `Tail`
  do to the entries selected from a queue.

`PortStart_proof`: on top of it, any budgets of faults, events, requests and configurations
- `PortTypes`: `Spec => []TypeOK`, from `TypeInv`, which types what the jobs carry as well:
  a read of the data set names an entry of it, a list's length is within it, a configuration
  is one of the application's. Each layer has a lemma on what it posts.
- `PortExpects`: `Spec => []SmExpects`, under the assumption on `Configure` of section 3. The
  property looks at one job at the head of the mailbox; what makes it true is the *handshake*
  `HandInv`, a relation between SM's state, the data link and everything in the mailbox, in
  which the order of the jobs counts. A job is of one or more *kinds* (`Kind`), and `No` and
  `Apart` say that no job of a kind is there, and that none of one kind is behind one of
  another. A configuration finds no job of a kind (`AtRest`). `LinkRules`: how mode, link and
  message handler go together. `StartRules`: while a session is starting SM is in PortInactive
  and nothing else is on its way to it. `TokenRules`: an access under way or its confirmation,
  the *token*, is one at a time, only while SM is in a state that waits for one, and no mode,
  configuration or device mode is behind or before it. `AskRules`: the same between SM and AL.
  `ConfigRules`: while a configuration is on its way SM has asked for nothing. `WaitRules`: in
  the two states that wait for a mode, that mode can still be reached. None of these is
  inductive alone: that no second access is made rests on the mode indications, which rest on
  the link's session, which rests on what SM last asked. `FitInv` then says which access the
  token is of. The proof goes through SM's table row by row, and has one lemma for each way a
  handler can change the handshake (`HandAccess`, `HandAsk`, `HandLeave`, `HandPost`, ...). TLC
  checked `HandInv` and `FitInv` on the instances of `port_start` and `port_exchange` and on
  others with losses and with all kinds of trouble before they were proved.
- `ExchangeOne`: `Spec => []OneEach`. For SM it is `AskRules`. The exchange is stopped and
  started again by jobs that it may have a request in front of, and an exchange that is started
  again may ask at once: nothing in ODE or AL says that the request from before the stop has
  been answered. `ServiceInv` says why it has. `OneRules`, `BeginRules`: the exchange is
  inactive and without a service when it is started. `StopRules`: a stop is in front of its
  configuration, and SM's word of a ready device never in the mailbox with a configuration.
  `SessionRules`: while a device starts, an old request of the exchange has come to AL before
  SM's accesses begin, hence before SM asks for the serial number, so that its answer is in
  front of SM's; when SM is told of the serial number and says that the device is ready, the
  exchange is free. It needs `HandInv`, and `ExchangeInv` for what a configuration finds. Again
  the order of the jobs counts (`Sort`, `Without`, `Behind`), and TLC checked the invariant on
  four instances before the proof.
- `PortRuns`: `V10 = {}` proves `Spec => []Active`. CM calls the port active on SM's word, SM
  operates on the data link's, and each word may be in the mailbox while what it says is over
  already; the news that takes it back must then be behind it. `RunInv` says so of each level.
  `ModeRules`: the mode SM has set, by its state, and that no indication of OPERATE is in the
  mailbox before SM has asked for it, so that the one it finds is of this session. `PortRules`:
  a configuration of the application never shares the mailbox with CM's word to operate.
  `StageRules`: which words of DS and SM may be in the mailbox in each of CM's states: CM does
  not wait for OPERATE with the report of a former device on its way. `ActiveRules` is the
  property, with the word that makes CM active counted as if it had come. The jobs are told
  apart by marks (`Mark`, `Off`, `After`), and the proof composes what SM's, CM's and DS's
  steps do to them; it needs `HandInv` (an access of SM and the mode SM asks for are never on
  their way together) and `ServiceInv` (a stop is in front of its configuration). The
  hypothesis is the one section 3 asks for: `Modern` says that SM never comes to the states of
  a revision 1.0 device, whose loss it ignores. It holds of a port that is used with devices of
  revision 1.1 only, with any losses. TLC checked `RunInv` on four instances, the largest of
  11.35 million states, before it was proved.

`IolinkOD_proof`: any segments, retries, losses, resets, commands and events together
- `OnRequest`: the invariant `Inv`. `Types` and `Turns` are the shape and whose turn it is;
  `Isdu` follows a request: `Segment` says what the segment in the chip is of, `Owed` what the
  handler still has to send, `Underway` what the device has of it when a response is being
  collected. A message may be repeated at any time, and the handler's state may be a message
  ahead of the device, so the invariant speaks of the handlers, the message in the chip and
  the answer together. Each handler has a lemma that says what it leaves alone, and the OD
  handler's steps are composed of them.
- `ResponsesAreOwn`, `RequestsAtMostOnce` follow.

`IolinkODServices_proof`: the same, for the other services of the OD handler
- `WritesHaveReached`: `Spec => (WritesApart => WritesReach)`, where `WritesApart` says that a
  behaviour with writes has no master commands (any ISDUs, reads, events, losses, resets beside
  them), and `WritesReach` is `[]InTime => []WriteReached`: the DL thread takes no write
  between its `rwcmd` and its data, or it would send what was stored before. Its invariant
  `WriteInv`: the values follow each other, the device's not above the chip's and the chip's
  not above the handler's; and when the message handler is in AW_REPLY_9 with the OD handler at
  the ISDU's turn, what the chip sends is the write. The condition is needed: with a command
  prepared and a write asked for behind it, the MASTER trigger of AW_REPLY_16 goes to
  COMMAND_2, which prepares nothing, the DEVICE trigger of AW_REPLY_9 then confirms the write,
  and nothing was sent (hazard at iolink_dl.c:1247).
- `EventsAreTold`: `Spec => [](EventsApart => EventsTold)`. The invariant is `Eventful`: what
  was read so far is of the device's event (`ReadSoFar`), a confirmation in the chip clears an
  event that was told (`Confirmed`), an event that is read or to be confirmed keeps the event
  flag up and the OD handler at the events (`Flags`), and a command is with its caller, with
  the command handler, or written (`Commanded`), so that no command's answer is taken for a
  byte of an event. `EventsApart` names what the code does not survive: a lost link or a reset
  leaves `event_confirmation` set for the next session (hazard at iolink_dl.c:2248), a write
  drops an answer of the event memory (AW_REPLY_16 with a WRITEPARAM), and two threads in the
  command handler, or a third command while the OD handler is in COMMAND_2, clear the control
  code behind the OD handler's back, whose next DEVICE trigger then goes to the events with the
  command's answer (iolink_dl.c:2653). With three commands TLC finds that trace; hence at most
  two of them (`MaxCommands <= 2`), or none and any bound. TLC checked `Eventful` on an
  instance with two commands before it was proved.
- `ServicesRemembered`: `Spec => [](Sheltered => Remembered)`. The invariant is `Memory`:
  `Pledged` is the property with where the message handler is; `Steady` says how a loss and
  the mode go together while SM leaves the mode alone, `Linked` that a link without losses
  never goes down, `Lone` where the OD handler is when no command and no event comes.
  `Sheltered` says that the link stays up (`KeptLink`: no loss, no reset, anything else), or
  that it is lost and set up again but no commands and events come beside the services
  (`Alone`; a read only on a link that stays up, a write only without resets). Both parts are
  needed, which the failed attempts at the proof and TLC's traces showed: handle_com_lost
  (iolink_dl.c:759) drops a READPARAM that waits in AW_REPLY_16; the start of a session
  clears `rwcmd`; and an ISDU that failed at a DEVICE trigger (iolink_dl.c:1783) and waits in
  ERROR_5 behind an event or a command goes inactive unconfirmed when the link goes down
  (IH_Conf (INACTIVE), iolink_dl.c:1721-1724; 18 steps with the mix Isdu, Event, Errors, Loss).
  Of the mixes of `od_served`, Isdu with Pdout and Loss, and Isdu with Mode and Loss, are not
  sheltered and stay with TLC. TLC checked `Memory` on all mixes before it was proved.
- `OnRequestTypes`: `Spec => []TypeOK`. The one type that needs an argument is the ISDU's count
  of segments. `Segments` bounds it: a request counts to one past its last segment, and only
  between the message with that segment and its answer, which must then go to the ISDU handler
  and not to the events, or the count would go on; the event flag is looked at after the
  answer, so the handler keeps its turn. It rests on `Memory`, which says that a link that goes
  down without a reset was lost, and takes the ISDU with it.

`ProcessData_proof`: any number of sessions, any length of the mailbox
- `ExchangeKept`: the invariant `Inv`. `OneRecovery`: from a lost link to the next session the
  recovery is in exactly one place: the mailbox (the loss, SM's word, the configuration), the
  application's event word, the handler's copy of it, or the timer. `Fresh`: what asks for a
  run is behind it in none of these, so that the new session finds no run of the old one.
  `Outputs` and `Commands` say what the message in the chip has of the outputs and of the
  command while the exchange counts on it.
- `InputIsFresh`, `OutputsAreOwn` follow, and the types (`TypeCorrect`).

Only model-checked: liveness (the prover has no rules for fairness and `ENABLED` here);
`Remembered` where commands or events come with lost links; `StoredWhole`, `OperatesRestored`,
`DownloadOwn`, `OwnAnswer`; and `Active` where there are devices of revision 1.0. `StoredWhole`,
`OperatesRestored`, `DownloadOwn` and `OwnAnswer` are not true of every configuration, request
and trouble (section 3 names the ones they fail with), so that a theorem of them needs
hypotheses on the constants and an invariant of DS or AL under them.
