# URTC: a formal model of the firmware

URTC is a universal tool head for robots and machines: a master board (STM32F303CC) that speaks
CAN with its host and drives some twenty kinds of tool, and an optional expansion slave
(STM32F303CB) on a private I2C link.  Each chip has a bootloader of its own, with signed updates
received into a backup slot and copied over the main slot.  This directory holds TLA+ models of
that code, the TLC runs that check them and the TLAPS proofs about them.

Paths below are those of the repository.

## 1. Inventory

| Component | State it keeps | Operations | Talks to |
|---|---|---|---|
| Master bootloader (`src/F303-master/boot/bootloader_main.c`, `bootloader_protocol.c`) | the update in course (`update_*`), the page buffer, the listening window | START, signature chunks, DATA, END, authorise downgrade, the 10 s abort, the start-up decision, the jump | host over CAN, flash |
| Master flash and log (`bootloader_flash.c`) | main slot, backup slot, metadata page | erase, program and verify, copy, append a record, recycle the page | the bootloader |
| Authentication (`bootloader_crypto.c`, `bootloader_trust.c`, `src/common/urtc_auth.h`, `urtc_ed25519.c`) | trust table (constant) | decide on a record, digest and counter | the bootloader, the attestation of the slave |
| Version and session words (`urtc_version_wire.h`, `urtc_boot_session.h`) | a backup register | order of versions, word left for the bootloader | application and bootloader |
| Head addressing in the bootloader (`urtc_bl_select.h`, `urtc_bl_serial.h`) | selected or not, deadlines | SELECT, DESELECT, lapse | host |
| Key rotation (`urtc_key_rotation*.h`) | records of rotated keys | rotate, revoke (off by default) | host |
| Slave bootloader (`src/F303-slave/boot`) | as the master, plus nonce, awaited confirmation, deferred step | START/DATA in the I2C interrupt, END/CONFIRM deferred to the main loop | master over I2C |
| Slave update bridge (`firmware_can_slavebridge.c`, `firmware_slave_attest.c`) | session of the update it relays, the hash it computes itself | relay START/DATA/END, verify the record, confirm | host over CAN, slave over I2C |
| Slave application (`src/F303-slave/*.c`) | outputs, write assembler | register writes, sensors, PWM | master over I2C |
| Multinode addressing (`multinode.c`, `firmware_multinode.c`) | selected node, mode | listen, select, conflict, legacy | host, other heads |
| CAN dispatch (`firmware_can_dispatch*.c`, `firmware_can_global_*.c`) | error flags, current tool | route a frame through global and tool handlers | CAN interrupt |
| Command watchdogs (`firmware_telemetry_watchdog.c`) | a time stamp per output | zero an output that is not renewed | main loop against the CAN interrupt |
| Thermal control (`firmware_control_thermal.c`, `thermal_guard.c`, `pid_control.c`) | targets, integral, guard | control period, guard, cut-off | sensors, CAN interrupt |
| Tools (`firmware_can_*.c`) | an output each | set, stop, interlocks | CAN interrupt |
| Weld pulse (`firmware_can_weldpulse.c`) | pulse in course | start, tick, stop | CAN interrupt, one-pulse timer |
| Step motor and probe (`firmware_can_motion.c`, `motion_profile.c`, `firmware_interrupts_{timer,gpio}.c`) | steps remaining, profile, probe mailbox | move, step, impact | three interrupts |
| Settings (`firmware_persistence.c`, `firmware_fram.c`) | the F-RAM image | load, save with rate limit, erase | main loop |
| Black box and crash dump (`firmware_blackbox.c`, `crash_dump.c`) | ring in RAM, dump | record, flush on fault, read after reset | fault handlers |
| Features and identity (`firmware_features.c`, `fw_features.c`, `firmware_identify.c`) | switches, profile of the head | set, read, store | CAN interrupt, F-RAM |
| Expansion buses and sensors (`firmware_expansion_i2c.c`, `firmware_ads1115.c`, `F303-slave/slave_i2c_sensors.c`) | the configuration a converter may have lost | transactions on a bit-banged I2C | main loop, CAN interrupt |
| Thermal cameras (`melexis_mlx9064*`) | calibration, frame, status of the capture | trigger, capture, read out by chunks | main loop, CAN interrupt |
| Statistics and health (`thermal_stats.c`, `health_profile.c`, `hsi_trim.c`) | saturating counters, samples of a clock | accumulate, report, trim | main loop |
| Screen and lamps (`firmware_render.c`, `firmware_led.c`) | pixels, colour of the host | draw, precedence of colours | main loop |
| Start-up of the application (`STM32F303CC_main.c`, `firmware_init_*.c`, `can_bit_timing.h`) | everything above | buses, timing of the CAN, splash, main loop | IWDG |
| Host tools (`tools/`, `firmware_signing.py`, Python) | none here | flash, sign, release | CAN |

What makes these parts right, and what is hard about them:

* **Bootloaders.** No sequence of frames, flash errors and power cuts may run an image that was
  not verified whole, lose the only whole image, or take the rollback counter back.  The hard part
  is that every flash operation is a point where power can be lost.
* **Slave bootloader.** The same, while an interrupt serves the link and the main loop hashes,
  copies and decides when to start the application.
* **Update bridge.** The master may only confirm what it hashed, and the slave may only install
  what was confirmed in this session, over a CAN bus that loses frames and a link that fails.
* **Watchdogs, weld pulse, step motor.** Time stamps and counters shared by interrupts and the
  main loop with no lock.
* **Thermal control.** A fault latches the heater off, whatever the order of command, sensor
  failure and control period; a sensor that freezes must be noticed by what the heater does.
* **Several heads on one bus.** No head obeys that was not selected, though frames are lost,
  heads restart and two of them may have the same address.
* **Settings, black box, serial, rotation.** What survives a reset in the middle of a write, and what an
  interrupt on the same bus does to it; no command that was replaced is obeyed again.
* **Cameras.** A frame is told ready to a host that then reads a hundred chunks on trust, while captures
  go on in the main loop.

`PROJECT.json` lists each hazard at its line, with the properties that cover it or the module that
will.

## 2. Plan

1. `MasterBoot` (with `FirmwareImage` and `MetaLog`): the update of the master under power cuts and
   flash errors; `AtomicInstall` is the abstract specification it implements; proofs. *Done.*
2. `SlaveBoot`: the interrupt against the main loop, the deferred steps, the confirmation; same flash
   and log modules; proofs. *Done.*
3. `SlaveUpdate`: the bridge and its attestation composed with the slave and with a bus that loses
   frames; it implements `SlaveBoot`, whose master is the abstract specification of the bridge. *Done.*
4. `Application` (with `ThermalGuard`, `AppState`, `AppHandlers`): the main loop against the
   CAN and step interrupts; what stops an output, and when; proofs. *Done.*
5. `Heads` (with `Multinode`): several heads on one bus. *Done.*
6. `Records` and `BootPage`: what survives a power cut. *Done.*
7. `SlaveApp` and `DirectCamera`: the application of the slave, and the cameras on either board. *Done.*
8. The arithmetic and the drivers, as operators checked over bounded inputs: `UnitChecks`
   and the modules it instantiates. *Done.*

Proved: every safety property of the passing runs, and both refinements (section 5).  No module has a RECURSIVE operator.

## 3. The modules

### Bootloaders

* **`FirmwareImage`** - flash as cells, pages and slots, an image as the content of its cells, the
  digest of a region (hashes are perfect: a digest is the content), the order of versions on the wire.
* **`MetaLog`** - the metadata page: an append-only log of records with a generation; torn and blank
  slots; the newest record; recycling.  **`BootFlash_proof`** - the lemmas about pages, digests and the log that the proofs
  of both bootloaders cite.
* **`MasterBoot`** - one thread with a program counter.  Every erase and program of a page or a record is
  a step, with three outcomes: done, an error with the page as it was or torn, a power cut with the same.

  | `pc` | Where the code stands |
  |---|---|
  | `boot` | `ApplicationIsValid` before its first flash operation |
  | `window` | the 600 ms listening window of `main` |
  | `listen` | the `while (1)` of `main`, between frames |
  | `startErase` | `Flash_ErasePages` of `HandleStartUpdate` |
  | `flush` | `FlushPageBuffer`, called by DATA or END |
  | `verify` | `HandleEndUpdate` once the last page is written |
  | `metaBegin`, `metaErase`, `metaWrite` | `Metadata_EraseAndWrite`; `then` says who called it |
  | `copyErase`, `copyWrite` | `Flash_CopyRegion`, page `cp` |
  | `app` | the application runs |

  Frames are chosen from a small set: sizes of the images and zero, two hardware ids, cells of the images or noise,
  an END that may name the CRC of one image and the version of another, with or without its patch.
* **`AtomicInstall`** - the abstract specification: the board is committed to one image; a commitment
  changes in one step, only to a signed image; what runs is the whole of that image.
* The last section of `MasterBoot` holds the inductive invariants; **`MasterBoot_proof`** - the theorems that hold whatever
  errs, and behind them those of a flash without errors, with the refinement of `AtomicInstall`.
* **`MCMasterBoot`** - three small images: `a` of a page and a half (newest), `b` of one page (older
  patch, patch 0), `c` of half a page (newest version, lower counter).

* **`SlaveBoot`** - two threads: `pc` is the main loop, `isr` the interrupt of the link.  The interrupt preempts
  the main loop between any two of its steps and runs to its end; the main loop stands still meanwhile.

  | `pc` | Where the main loop stands |
  |---|---|
  | `boot` | `ApplicationIsValid` before its first flash operation; the link is already served |
  | `windowBody`, `window` | the body of the listening window, and its condition `ListenWindowExpired` |
  | `jump` | the window is over, `JumpToApplication` not yet entered |
  | `loop` | the `while (1)` of `main`, before `ServiceDeferred` or the check of the silence |
  | `endFlush`, `endVerify` | `HandleEndUpdate`, deferred |
  | `metaBegin`, `metaErase`, `metaWrite`, `copyErase`, `copyWrite` | as in `MasterBoot`; `then` says for whom: `adopt`, `resume`, `resumed`, `pending`, `install`, `done` |
  | `clear` | the deferred step is over, `deferred_op` not yet cleared |
  | `tick`, `abort` | `HAL_GetTick` is read; the ten seconds were found over |
  | `app` | the application runs |

  | `isr` | Where the interrupt stands |
  |---|---|
  | `idle` | not in a handler, or in one that touches no flash and is one step |
  | `erase` | `HandleStartUpdate`, page `ip` of the backup slot |
  | `flush` | `HandleData`, a page buffer that filled |

  The flash controller is shared: an operation of the interrupt within one of the main loop (`disturbed`) finds
  `HAL_BUSY` and leaves the controller locked, so that what the main loop was doing errs, or, for an erase, is lost
  without an error.  The nonce of a session is its number.  `silent` is the ten seconds since
  `update_last_activity_tick`; `stamped` says that the interrupt wrote it after the main loop read the tick, in which
  case the unsigned difference wraps.  Two reductions keep it small: `TimePasses` happens at `loop` (nothing else
  compares the tick), and `Over` resets what nothing reads before the next START sets it.
* **`MCSlaveBoot`** - two small images: `a` of a page and a half with the higher counter, `c` of half a page with the
  newer version, so that the digest, the version and the counter of one session can each belong to another image.
* **`SlaveBoot_proof`** - the theorems about the slave, from the invariant in the last section of `SlaveBoot`.
* **`SlaveUpdate`** - the whole chain: host, bridge, attestation, slave.  It extends `SlaveBoot`, whose `MasterWrite` is
  replaced by the bridge: `br.pc` is where `Handle_CAN_SlaveBridge` stands, `att` the static variables of
  `firmware_slave_attest.c`, `digestChunks` the buffer of the bridge.  One action is one I2C transaction, and the slave runs
  between any two.

  | `br.pc` | Where the bridge stands |
  |---|---|
  | `idle` | between two frames |
  | `start` | START: the floor is read, the START not yet written |
  | `counter`, `end` | END: the record is verified, the counter or the END frame not yet written |
  | `poll`, `delay` | `ConfirmToSlave`: before a read of the status; in `HAL_Delay(10)` |
  | `nonce`, `tag` | before the read of the challenge; before the write of the confirmation |

  A write fails when the slave is in its interrupt (it stretches the clock for longer than the 2000 turns of
  `ExpansionI2C_SetSCL_WaitHigh`), or when a loss is spent on it, and then the slave may have carried it out or not.  A
  slave that is busy or in its application acknowledges and does nothing.  The host sends an attempt's frames in order: the
  data of image `i` with the record and version of image `j`; it may stop and start again anywhere; a frame may
  be lost or arrive twice; the master may reset.  The attestation follows an update by any
  combination of these: that what it vouches for is also what the slave holds is not built in, the slave's own digest decides.
* **`MCSlaveUpdate`** - slots of one page, which image `a` fills and image `c` does not; only `a` is signed.
  **`SlaveUpdate_proof`** - the theorems about the chain, from the invariant in the last section of `SlaveUpdate`.
* **`BootPage`** - what a signed command may change in a master bootloader built with it: the serial number
  (`bootloader_flash.c`, two slots of four words after the log, on the same page, the magic last) and the key that signs
  (`urtc_key_rotation*.h`).  `todo` is what is left of the call under way: a list of erasures and words, each a step that may
  err or be cut.  `MetadataCommand` lets the log of an update recycle the same page.  For the properties, `told` is the
  command confirmed last, and `lost` says that a recycling was broken off when the page had no slot.

### Several heads

* **`Multinode`** - the pure logic of `multinode.c` as operators on the record `MnNode_t`.  Instants are kept as the time
  left until them.
* **`Heads`** - the same of `urtc_bl_select.h` and `urtc_bl_node_t` in its first section; then heads on one bus, each in its bootloader, its splash screen or its application (`mode`), and the host.  A
  frame is an action with the set of heads that lose it; a head may lose power at any time.  `driving` stands for whatever
  the tool does, and is cut by a SAFE_STOP and by a conflict.  For the properties, `wanted` is the head the host selected last,
  and `missed` says which heads lost that frame.
* **`MCHeads`** - two heads with two addresses, or with the same one.  **`Heads_proof`** - the theorems, from the invariant
  in the last section of `Heads`.

### The application of the master

* **`ThermalGuard`** - `thermal_guard.c` as operators on `ThermalGuard_t`.
* **`AppState`** - the profiles, the handlers each is routed to and the channels and pins it uses; the variables of the application and what a start leaves in them.  A stamp of `HAL_GetTick()` is kept as
  its age: a subtraction of an older tick is a comparison of ages, and `seen` is the age of a tick that was read earlier in the
  same function.
* **`AppHandlers`** - the interrupts.  The CAN receive interrupt (priority 1) is one step, between any two of the main loop
  and of the step interrupt (TIM3, priority 2), whose reads of `steps_remaining` and writes are steps of their own.
* **`Application`** - the main loop as a program counter over `Stages`, the calls of one round in their order; inside a call,
  each read and each write of what an interrupt also writes is a step.  `Tick` advances every age; the IWDG resets a loop that
  takes longer than `LoopMax`.

  | `pc` | Where the main loop stands |
  |---|---|
  | `top`, `delay` | the end of a round; the splash screen's delay |
  | `sense`, `decide`, `check`, `drive` | `Control_*`: the reading and its refusals; runaway, off-timer and heater; `ThermalGuard_Apply`; the pin |
  | `pwm`, `pwmCompare`, `pwmZero`, `pwmCut`, `pwmLatch` | `Safety_*Watchdog`: the tick is read, compared, then the cut, one store at a time |
  | `heater`, `heaterCompare`, `heaterZero`, `heaterLatch` | the same for the set point |
  | `stall`, `telemetry` | the stall of the hotend fan and the block that counts its pulses |
  | `weld`, `weldOff`, `strobe`, `strobeEnd` | the pulse and the strobe timed by the loop |

  The last sections of the module are `AppInv`, the inductive invariant, and `SensorInv`, which rests on it;
  **`Application_proof`** holds the theorems.
* **`MCApplication`** - sixteen heads: each profile with the frames of its own, with and without multinode and PID.  The iron
  has a reading that is one step above another, so that a window of the guard may begin again before the reading freezes.
* **`Records`** - the F-RAM: `main.at` is where the chain of saves stands.  A transfer is begun and ended by two
  steps; power fails in between and leaves the old value, the new one or `Torn`, which no checksum accepts; an interrupt that
  wants the bus in between is refused by the HAL.  The switches are written and read back in the interrupt, and either may
  fail; `heard` is what the host was last told is stored, `doubt` that a transfer of the switches failed since the start.
* **`MCRecords`** - `Records` and `BootPage` side by side: the application and the bootloader of one head do not run together and
  write different memories, so a behaviour is one of either (`side`).
* **`Records_proof`** - the theorems about both modules, from the invariants at their ends.

### The slave's application and the cameras

* **`SlaveApp`** - outputs of so many milliseconds, cameras read in the main loop, and the link interrupt between any two
  accesses of the loop (load, decrement and store of the counter of a pulse are three steps).  Time passes in
  the delay of the loop and while a camera is read.  What the master writes is what the handlers of its tools and the closed
  list of the bridge let through.
* **`DirectCamera`** - the same cameras wired to the master: trigger in the CAN interrupt, capture in the main loop, chunks
  answered by the interrupt on trust.  A 90640 brings one sub-page of its chessboard per capture.
* **`MCSlaveApp`** - the two as two boards (`board`), which share the text of the camera drivers and no state.
  **`SlaveApp_proof`** - the theorems about both, and that of the boards together.

### Operators

These modules are functions of their arguments, with no behaviour of their own.  `UnitChecks` states what
they compute as assumptions over bounded inputs, which TLC evaluates at the start of `slave_app`.

| Module | Code | Checked |
|---|---|---|
| `BoardHealth` | `hsi_trim.c`, `health_profile.c`, `thermal_stats.c`, `firmware_led.c` | the trim settles within its range and within six steps of where it began; the temperature is the nearest degree and bytes saturate; the seconds counted are those of the heater, across the wrap of the tick; the lamp is red under an error, and of the host's colour for its window only |
| `MotionProfile` | `motion_profile.c` | ramps are symmetric and within speed and acceleration |
| `HeaterPid` | `pid_control.c`, part of `firmware_features.c` | no wind-up; a tune ends; the state told is the state that runs |
| `WireFrames` | `slave_write_assembler.h`, `urtc_version_wire.h` and the queries of the bridge, the readback of `bootloader_protocol.c`, `can_bit_timing.h` | a write is taken whole or not at all within its time; what is packed is read back and only listed registers are read; every byte is read back once and in order, up to the size that was told; a bit timing that is found gives the rate exactly, fits the registers and samples nearest |
| `ExpansionBus` | `firmware_expansion_i2c.c`, the I2C of the slave's sensors, the ADS1115 | what a transaction reports, against every pattern of late clocks and missing acknowledgements |
| `CameraFrame` | the transports and the frame part of the three camera libraries | a good frame is whole and of one sub-page; every failure is told |
| `CameraWords`, `Camera90640`, `Camera90641` | the calibration from the words of the EEPROM | fields, offsets, scales, bad pixels, the Hamming code |

## 4. The runs

The bootloader runs use pages of two cells and slots of two pages (`update`: one page), and those of the master two record
chunks.  This is the smallest geometry with a partial last page, a page boundary inside an image, and an image that fits one
page; two chunks are enough for a record to be incomplete or mixed.  Two updates or sessions are the fewest at which state leaks
from one attempt to the next, and with which a confirmation or a START of one can meet the other; a log of two slots is
recycled in the first update of a board that has a record; two cuts are the fewest that cut a copy and the copy that resumes it.

| Run | Bounds | What it shows |
|---|---|---|
| `master_safety` | images `a`, `c`; 2 hardware ids; 2 updates, 1 flash error, 1 cut | records are about one signed image each; the application that runs is the one recorded; nothing is programmed before it is erased; main changes only under a pending record; the counter never falls; a downgrade was authorised in its own attempt; the backup of a pending image is lost to nothing but a START; and the invariant of the proofs |
| `master_liveness` | 2 updates, no flash error, 2 cuts, fairness | `MasterBoot` implements `AtomicInstall`; a recorded copy is finished; no attempt stays open |
| `slave_safety` | 2 sessions; without a mishap both images, mixed; with a flash error or up to two cuts, the image `a` (constraint `OneImage`) | every record is about one image that the master vouched for; what is copied is what was verified, whatever the interrupt does meanwhile; a confirmation serves its own session only; the counter never falls; what is entered is what the newest record describes, although the link is served before it is validated |
| `slave_liveness` | image `a`, 1 session, 2 cuts, fairness | a recorded copy is finished, an abandoned session ends, a board that is ready starts its application; and the invariant of the slave's proofs |
| `slave_resume` (violated) | 2 sessions, 1 cut | a START served during the resumed copy erases what is being copied |
| `update` | 2 attempts (`a`, `c`, or `c` with the record of `a`), 1 loss, 2 images of which one is signed, 2 digest chunks, 1 poll after the first | the bridge keeps the promise `SlaveBoot` assumes (`BridgeKeepsPromise` is `Spec` of `SlaveBoot`); an attempt with no loss is vouched for and held whole by the slave, whatever the attempt before left |
| `update_wait` (violated) | 1 attempt, no loss, the SysTick below the CAN interrupt | the wait for the slave never ends and the watchdog resets the master |
| `heads` | 2 heads with two addresses or one, 3 frames of the host, 1 mishap (a lost frame or a restart); listening window and selection 2 ticks, status period 1, bootloader window 1, splash 1, lapses 1 and 2 | a selection that is not renewed lapses; a head that starts beside one that announces itself is not its own master and knows a twin, unless it lost an announcement; a twin does not drive; an update opens only at the head the host selected last, or at one that lost the frame that selected another |
| `app` | 16 heads; watchdogs 1 and 3 ticks, rounds up to 2, stall 4, guard 3 and 3, pulses up to 3 of which 2 are allowed, moves up to 2 steps of a counter of 8 | no output outlives its limit; a fault stops everything and nothing starts under it; a SAFE_STOP holds but for two outputs; a sensor that freezes and a fan that stands still are found out; the motor makes no step too many |
| `app_stop` (violated) | a screwdriver, moves up to 2 steps of a counter of 8 | a stop served inside the step interrupt is decremented past zero |
| `slave_app` | 2 channels, pulses up to 2 of a counter of 4, silence 1, watchdog 2; cameras of each kind, 2 captures, three masters | READY is one whole frame; silence stops every output; a capture that was taken on is made.  Also the assumptions of `UnitChecks` |
| `records` | 2 configurations and the defaults, 2 cuts, 1 F-RAM error; 3 bootloader builds, 2 mishaps, 5 s of uptime, log of 2 | a cut never leaves a head without configuration; the switches a head starts with are those it last said were stored, but for transfers that fail; a serial that was confirmed is not undone, but for a cut or an error while its page is recycled; a replaced key expires |

Bounds of the application runs are ratios, not times: a limit of `n` ticks against rounds of up to `LoopMax` ticks keeps the
cases apart that the code can be in (a limit shorter than a round, equal, longer), and every action of the modules fires in a
passing run.  In `heads` the status period is shorter than the listening window, as in the code; without that no newcomer
would hear anything.  A mishap is charged to each head that loses a frame.  `slave_safety` without `OneImage` is the same
model with more interleavings of two images under faults; a fault and a mixed session are thus each explored, their product is not.

Deadlock is not checked in the bootloader runs: one that has used its bounded updates and cuts and whose host is silent
waits, as it should.  It is checked in the others.

**Fairness.**  `FairSpec` of `MasterBoot` asks weak fairness of `BootStep` only: the processor runs while it is powered and
its two clocks advance.  Frames, resets and cuts are owed by nobody, and flash errors are bounded (none in the
liveness run: an erase that always fails never completes a copy, and the code does not claim it would).
`AttemptEnds` supposes a host that falls silent.

`FairSpec` of `SlaveBoot` asks weak fairness of the main loop and of the interrupt, each of which runs while the board is
powered, and strong fairness of three things the main loop passes again and again without waiting for them:
`ServiceDeferred` (it is called once per turn of the loop, so a step that stays deferred is served, although the turn
also looks at the silence), the end of the 600 ms window (the condition is evaluated again after each body), and the
passing of ten seconds in a session that nobody renews.  Nothing is asked of the master: `SessionEnds` supposes that it
falls silent, and `StartsApplication` allows for a session that comes instead.

`BoardSpec` of `MCSlaveApp` asks weak fairness of the slave's main loop (`SlaveMainStep`), which the hardware runs whatever the
master sends: `RequestServed` holds although captures are asked for again and again.  The safety runs ask for none.

## 5. What is proved

Eight modules hold theorems, which TLAPS checks for every value of the constants that meets the assumptions of the
modules they are about.  TLC evaluates all of these in the runs:

* bootloaders: `ImageAssumption` (sizes fit a slot of at least one page, an image is no special value of a cell, versions
  that are signed have a patch), `LogAssumption`, `RecordAssumption` (at least one slot, blank and torn slots are no records),
  `HostAssumption` or `LinkAssumption` (frames carry cells of images or noise; bounds are numbers); for the chain also
  `BridgeAssumption` (there is an image, the cells of any can be sent, the host's attempts are pairs of images and no more than
  the sessions that `SlaveBoot` counts, the buffer of the digest and the polls are not 0);
* application: `AppAssumption` and `GuardAssumption` (limits and periods are numbers, those that are divided or awaited are not
  0, a move leaves room in its counter, and the rise that the guard waits for is at least a degree: 10 and 2 in the code);
* slave's application and cameras: `SlaveAppAssumption` (channels are numbered from 0, a pulse fits its counter, limits are not
  0, the kinds of camera are apart and "no sensor" is none), `DirectCameraAssumption` (the same of the cameras of the head);
* records: `RecordsAssumption` (the defaults are a configuration, blank and torn cells are no records), `BootPageAssumption`
  (bounds and windows are numbers, the uptime stays below the wrap of the clock);
* heads: `HeadsAssumption` (finitely many heads, addresses are numbers), `MnAssumption` (the period of the status is shorter than the
  listening window: 1000 ms against 1500 ms), `BlAssumption`.

| Module | Theorem | What holds of `Spec` |
|---|---|---|
| `MasterBoot_proof` | `Invariance`, `TypeCorrect` | `IInv` of `MasterBoot` |
| | `Vouching`, `StartsWhatIsRecorded`, `ErasedBeforeWritten`, `CopyOnlyWhenPending`, `CounterIsMonotonic`, `DowngradeNeedsAuthorization` | the properties of `master_safety` |
| | `BackupLostOnlyThere` | `BackupLostOnlyToStart`, with flash errors too |
| | `Atomicity`, `AtomicUpdate` | with `MaxFaults = 0`: `PendingInv`, and that `MasterBoot` implements `AtomicInstall` |
| `SlaveBoot_proof` | `Invariance` | `IInv` of `SlaveBoot` |
| | `Vouching`, `StartsWhatIsRecorded`, `InstallsVerified`, `OneUsePerSession`, `CounterIsMonotonic` | the properties of `slave_safety` |
| `SlaveUpdate_proof` | `UpdateInvariance` | `UpdateInv`, of `UpdateSpec` |
| | `PromiseKept` | `BridgeKeepsPromise`: `UpdateSpec` implements `Spec` of `SlaveBoot` |
| | `UpdatesAreVouched` | `RecordsAreVouched` and `RunsWhatIsRecorded` of the slave, of `UpdateSpec` |
| | `CleanAttempts` | `CleanAttemptArrivesWhole` |
| `Application_proof` | `AppInvariance` | `AppInv` of `Application` |
| | `OutputsBounded`, `FaultQuiets`, `NothingStarts`, `StepsAreAsked` | `OutputsAreBounded`, `ErrorQuiets`, `NothingStartsUnderError`, `NoStepBeyondCommand` |
| | `StopHolds` | `SafeStopHolds` |
| | `SensorInvariance`, `SilentSensors` | `SensorInv`, `SilentSensorCaught` |
| `SlaveApp_proof` | `SlaveAppInvariance` | `SlaveAppInv` of `SlaveApp` |
| | `OutputsStop` | `SilenceStops` |
| | `FramesAreWhole` | `ReadyIsOneFrame`, of `BoardSpec` |
| `Records_proof` | `RecordsInvariance` | `RecordsInv` of `Records` |
| | `ReportsWhatIsStored`, `ConfigurationSurvives` | `SwitchesReported`, `ConfigurationKept` |
| | `SerialsAreKept`, `PreviousKeyExpires` | `SerialKept`, `PreviousExpires`, of `PageSpec` |
| `Heads_proof` | `HeadsInvariance` | `HeadsInv` of `Heads` |
| | `SelectionsLapse`, `NewcomersWait`, `ClashesStop`, `TwinsAreKnown`, `StartsAreForMe` | the properties of `heads` |

Each invariant was model-checked before it was proved, `IInv` of the bootloaders still is, in `master_safety` and `slave_liveness`;
`UpdateInv`, `AppInv`, `SensorInv`, `SlaveAppInv`, `CaptureInv`, `RecordsInv`, `SerialInv`, `RotationInv` and `HeadsInv` were
checked over the constants of `update`, `app`, `slave_app`, `records` and `heads`, and add too much to those runs to stay in them.

**The master.**  `IInv` is a conjunction of what the properties leave out: `LogShape` (blanks come last and generations grow
with the slot, so that an append is the newest record); `MetaWriteInv` (what is being written to the log, and for whom);
`CopyInv` (during a copy the newest record is the pending one being installed, and the pages before `cp` are copied);
`RunInv` (what start-up has established about the main slot when it opens the window); `ErasedFrom`, `ErasedBefore`,
`ReceiveInv` (which pages of the backup slot are still erased, against the stream received); `AuthorizationInv`.
`RunsWhatIsRecorded` is not inductive without `RunInv`; `RecordsAreVouched` is not without `MetaWriteInv` (a record is
vouched when the END frame is verified, and is written some steps later, after an erase that may have recycled the
log); `WritesOnlyErased` is not without `ReceiveInv`.

**Atomicity.**  `PendingInv` adds that a pending record's digest is that of the backup slot, that the pages already
copied are those of the backup, and that outside a copy the main slot is whole.  Its hypothesis `MaxFaults = 0` is that of the property:
after a flash error the code leaves a failed copy pending and accepts a START that erases the backup (section 6).
What holds with errors is an action property: the step that takes the image of a pending record from the backup slot is the
erasure of a START.  `BackupStep` goes through the steps; `RecordedSlotInv` keeps the slot a record names within the flash,
and `LogStepKeepsIntact` says that the log itself never comes to name an image the backup does not hold.  The refinement maps
the committed image to the one of the pending record, or of the main slot; each step is the commitment (the write of
the pending record), a start of the application, or a stutter, and a power cut is always a stutter.

**The slave.**  Two threads, so `IInv` says at each `pc` of the main loop what the interrupt cannot take away there.
`DeferredInv`: a deferred step and a handler of the interrupt that touches flash exclude each other, and the tag that was
queued is about an image whose record the master verified, with a nonce it read.  `InstallInv`: the backup slot still has the
digest of the CONFIRM, because the interrupt refuses every write while `DeferredBusy`.  `ReceiveInv`: the buffer holds less
than a page between two writes, also when the main loop flushes it for END.  `ChallengeInv`: the nonce read last is of no later
session, which makes a confirmation good for one.  `RunInv` has no need of the interrupt being off: it never writes
the main slot or the log.

**The chain.**  `SlaveUpdate` has no `MasterWrite` of its own: what the bridge writes has to be one that `SlaveBoot` allows.  That
a step is one needs the invariant (a confirmation is of an image whose record was verified, with the nonce read), and the invariant
of the slave, `IInv`, is known to survive only steps of `SlaveBoot`.  So the two are one induction: in a state of `UpdateInv` each
action of the chain is shown to be a step of `SlaveBoot` or a stutter (`StepIsPromised`), by which `IInv` holds after it, and then the
rest of `UpdateInv`.  All that is proved of `SlaveBoot` then holds of its slave under this master, and `UpdatesAreVouched` says
so of two of the properties.  `BridgeInv` says what the master has verified at each place of its handler; between its reads
and its writes the slave runs, and `tag` keeps the nonce that was read the one of the session, or there is no session left
to confirm.  `CleanInv` follows an attempt on which nothing was lost: what the attestation, the buffer of the digest and the
session have is exactly what the host has sent (`AttestKeepsUp`, `DigestKeepsUp`, `InSession`), or the session is over
(`Stale`), or the slave still erases for it (`Starting`).  The slave's side is one lemma, `SlaveMoves`: by itself it starts no
session, and takes nothing from the one it receives unless it ends it.

**The application.**  An output is bounded because some step of the round looks at it.  `AppInv` therefore measures each
age against the place of the loop: `Within(age, limit, ahead)` allows `limit` and the time this round has taken so far
(`alive`), and one whole round more while the step that looks is still `ahead`; when it has looked, either the age was within the
limit or the output is off.  `PwmInv`, `HeatInv`, `WeldInv`, `StrobeInv` say it of the watchdogs, the weld pulse and the strobe,
`FaultInv` and `CalmInv` of what an error and a SAFE_STOP leave on; `PlaceInv` says in which stages a head of this tool can
be and how old the round is.  A command between the read of a tick and its comparison only makes an age younger than
`seen`, which is why the cut it may cause is harmless here.  `StepInv` relates the pulses made, those left in the counter and
the one in progress, access by access of the step interrupt; `moved.stop` excepts the stop served inside it, which `app_stop` shows.

`SafeStopHolds` excepts what `MultiNode_PlatformSafeState` does not turn off: the driver of a crimping head on an expansion
(`firmware_multinode_platform.c:23`), and a heater without PID that is on and read within the band around 0, which stays on while it is
(`StaysAsIs`).  `CalmInv` says so of every place of the loop; both are among the heads of `app`.

**Silent sensors.**  `cold` is how long a heater was on at every decision with the same reading and target, `still` how long a fan
was on without a pulse.  `SensorInv` bounds both by the case in which the code is.  For the heater (`SilenceIsTimed`) the guard
watches the rise, or times how long the reading stays low, or has not looked since something changed; for the fan
(`StillnessIsTimed`) a pulse is still to be counted, or the next window has not passed, or the stall is timed.  `slack` is what the step
that looks may be late: the time this round has taken, and a round more while the step is ahead.  `Begun` is why the rise needs two
windows: one that ends with a rise begins again with the reading at its end, so the reading may have frozen anywhere in the first.
The hold of 45 s is longer than two windows of 20 s (`firmware_control_thermal.c:27-30`), hence `GuardDelay`; and
the fan's pulses are not counted during the splash, hence `SplashRounds` in its bound.  An earlier bound of two windows and two
rounds held of the readings of `app` at the time; the induction failed on it, and with one more reading TLC violates it.

**The slave's application.**  Its loop looks at the silence of the link once per round, so `SilenceInv` too goes by the place
of the loop: an output may be on while the silence is no longer than the limit, the delay of the loop, and the time since the
watchdog was refreshed (`age`), which is what a capture of a camera may take.  Before the jump to the bootloader it may not be on at all.
The stop of all outputs is three steps per channel with the interrupt between any two: what is on behind the channel it is at
was put on by a message, which ended the silence.

**Frames.**  `CameraInv` (slave) and `CaptureInv` (head) say that the main loop takes `ready` away before it touches the first word
of the frame, and so a frame that is told ready is not being written; that the words of a sub-page that is being computed are those
of the trigger still outstanding; and that what a host was told of is still the camera that is configured.

**The F-RAM.**  `CopiesInv` follows the chain of saves: while one copy of the configuration is written the other one is whole.
It holds from a start with both whole (`sound`), and `ConfigurationKept` claims no more; two cuts can lose the configuration.
`ReportInv` ties what the host was told to the chip, and what is held in RAM to the chip while no transfer of the switches has
failed; a failed one leaves the chip unknown (`doubt`), and what is told then is not vouched for (section 6).

**The serial.**  `PlanInv` says what the call under way has left to do, and on which page: it writes a blank slot, or erases first
and then writes the first one; what it writes carries on what is stored, or is the command being stored.  `ToldInv` places the command
that was confirmed last: on the page, or in the rest of a call that is recycling it, and that is the one moment at which a cut
or an error loses it (`lost`).  A torn slot has no magic, which `SlotInv` knows because the magic is written last.

**Rotation.**  `RotationInv` is about modular arithmetic: the offset that the command fixed makes the clock of the host, however it
wraps, count from `began.at` for as long as the uptime itself does not wrap.

**Heads.**  `CompanyInv` is a race between two clocks: as long as a head listens, the next status of every head in its company
comes before the window ends (`statusDue < listen`).  It holds when the window opens, since the period is shorter; the
two clocks go down together; a status that is due is sent before the clock moves on; and its sender's new period no longer
matters, because whoever heard it has left the window, or is a twin and knows of the conflict.  A head that lost it has lost its
company.  `SelectInv` bounds the age of a selection by its deadline, over any number of selections of other addresses and
restarts.  `BlInv` is what makes a bootloader that was never told, or told too long ago, one that obeys everybody; one that is selected is
the one the host wants, or has missed that it is not (`Entitled`).  No bound
on frames or mishaps is used.

**Only model-checked**: the liveness properties and the fairness they use, which are beyond the prover, as is what a fold
computes for every input (`UnitChecks` is evaluated over bounded inputs).

## 6. What is not modelled

* **Master bootloader**: the progress frames, the counters of errors that are reported, the heartbeat and the screen.
  The readback is operators of `WireFrames`, not an action of `MasterBoot`; it changes no flash and no update
  variable, but consumes the frames that arrive while it runs.
* **Slave bootloader**: the status, progress and version registers; the writes of a wrong length and the STARTs with a bad
  size or hardware id, which change nothing but the status; the checks of `hardware_id` and `size` of a record, which a
  record written by this code always passes.
* SHA-256, Ed25519 and CRC-32 as computations: a digest is its content, a signature verifies or does not.  Two images
  with one digest, and flash that changes by itself.
* **Bridge**: the frames that change nothing of an update, the parsing of the trust table, STARTs with another hardware
  id, what a host does with the answers.  A data frame that meets the slave in its interrupt is not delivered and
  the attempt is not vouched for any more; nothing tells the host before the end.
* Whether the SysTick preempts the CAN interrupt is a matter of the HAL configuration, which is outside the
  repository.  `update` allows both; `update_wait` takes the default, which `firmware_can_global_pre.c:54-57` states.
* **Application**: queries that answer and change nothing, the SPI passthrough, the contents of telemetry, the one-pulse timer of the
  welder (`URTC_WELD_PULSE_HW_TIMER` is 0 by default), the impact of the probe, the registers of clocks and
  timers, an abort of a PID tune that the main loop overwrites with its result.
* **Cameras**: the formula of the temperature (floating point), and the functions of the library that nothing calls.
* **Output only**: the screens.  **Outside the firmware**: the host tools, which are the environment of the models.

Five statements of comments and docs that the code does not keep, beside those of the three violated runs.  Each is a definition
of its module that no run checks; the property the runs check instead names the exception exactly, and the traces below are
within the bounds of those runs.  The `.cfg` that is named makes TLC show the trace:

* `BackupIntactWhilePending` (`MasterBoot_backup.cfg`; `bootloader_protocol.c:968-971`, "backup is still fully intact").  When
  `Flash_CopyRegion` fails, `HandleEndUpdate` returns to the listening loop with the record pending; the next START erases the
  backup at line 621, while main may hold a part of the copy.  `BackupLostOnlyToStart` is what holds.
* `OneSelected` (`Heads_one.cfg`; `docs/BENCH_TESTS.md:133-134`, "exactly one head is selected at a time").  A head that loses the
  SELECT of another stays selected beside it until two seconds have passed, and a START opens an update at both.
  `StartIsForMe` is what holds.
* `OutputsReleased` (`Application_safestop.cfg`; `firmware_multinode_platform.c:11-12`, "heaters off, motion stopped, outputs
  released").  The driver of a crimping head is that of its expansion board (`firmware_can_crimping.c:51`), which the safe
  state does not disable; and a heater without PID that is on and read at 2 degrees or less stays on with its target at 0
  (`firmware_control_thermal.c:163-167`).  `SafeStopHolds` is what holds.
* `PersistedIsStored` (`Records_switches.cfg`; `firmware_features.c:26`, "what is in F-RAM now", and 139, "report what the chip
  really holds").  When `FRAM_WriteBytes` fails nothing is read back, and the answer carries the mask of before, though a part of
  the new record may be on the chip.  `SwitchesReported` is what holds.
* `SerialNeverLost` (`Records_serial.cfg`; `bootloader_flash.c:244-245`, "never the serial").  Power lost between the erase of
  a page with two used slots and the first slot written leaves neither serial nor counter: a command that was
  replaced is obeyed again.  `SerialKept` is what holds.

What the models or their assumptions reach and nothing above reports as a disagreement:

* *Bootloaders.*  An image signed with patch 0 and declared in END without its patch passes the downgrade check against a
  newer patch (`urtc_version_wire.h:77`).  After a flash error in a copy the slave stays pending until its next start.  A torn main slot is
  adopted as the baseline once the log page is lost to a cut (`bootloader_flash.c:273`), also when the page was recycled for the
  serial.  A START that the slave serves after the last test of its window is cut by the jump, and a session that the
  interrupt renews while the main loop looks at the silence is given up (`slaveboot_main.c:266`, `295`).  A bootloader that
  restarts forgets its addressed mode, and then obeys frames meant for another.
* *Serial and rotation* (both off by default).  `HAL_GetTick()/1000` wraps after 49.7 days, when a window that has passed is
  open again; the comment at `bootloader_protocol.c:134` calls the wrap harmless, the model leaves it out (`MaxUptime` is below
  it).  The serial command accepts every key of the trust table, also the one replaced.  A last readback page may end with a
  frame of four bytes, which looks like the size frame.
* *Heads.*  Two heads with one address that start together both end as the only one.
* *Application.*  A watchdog that reads the tick before a kick and compares it after trips wrongly.  SAFE_STOP leaves some
  commands set, whose watchdogs then latch an error.  With a PID duty below 100 % the guard of the rise is never armed, so
  `SilentSensorCaught` speaks of such a head only while its duty is full; a reading between the two bands of the guard never faults.  A move that
  arrives between the last step and the release of the driver is left without it.
* *Records.*  Two cuts can lose the configuration (`sound` in `ConfigurationKept`).  An F-RAM that fails at start-up only gives
  defaults, which later overwrite what was stored.  An erase asked for while the bus is in use does nothing and is confirmed.
  A failed flush of the black box is not repeated.
* *Slave and cameras.*  A Pulse served between the stores of a stop leaves an unmarked endless output, which only the silence
  of the link ends; an error of the master does not.  A change of camera during its initialisation lets a capture precede it.  A
  frame of a 90640 is one sub-page, and may be one measured just before the trigger.  Marked ambient words leave those of an
  earlier frame in a good one; the 90641's largest coefficient may round to 128; a word that was corrected counts as an
  error, so no calibration is taken.  With both lines of the bus low the cameras and the converter seem to answer, and a repeated
  START forgets a late clock.
* *CAN and clocks.*  With the standard timing the internal oscillator is outside the tolerance that the code itself computes.
