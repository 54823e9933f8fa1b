# Verification of aspeed-rs

aspeed-rs is an embassy HAL for the co-processors of ASPEED BMC SoCs: the Cortex-M3 of the
AST2600 (SSP), the Cortex-M4F of the AST1060 and the RISC-V BootMCU of the AST2700. This
directory models its drivers in TLA+, checks the models with TLC and proves the central
theorems with TLAPS.

## How the program executes

One core runs everything. The embassy executor polls one task at a time in thread mode and
polls a task only when it is in its run queue. An interrupt handler preempts a poll between
any two register accesses, but not inside a `critical_section`, and runs to its end. What is
concurrent with the core is the hardware: pins, timers, engines, buses, the other processor, the
security processor, the PHY of the DRAM. Tasks meet in statics (wakers, flags, the slot pool)
and in the registers of a peripheral they share; most handles are no more than an address, so
two tasks may hold one engine. Any future may be dropped while it is pending. The program
persists nothing, but hardware keeps state over a failed attempt (DRAM training, a Caliptra
lock) and over a watchdog reset (scratch registers, the SLI delays).

The models follow this shape. A critical section or a single register access that another
party may race with is one action; a run of accesses that nobody can observe in between is one
action too. `pc` (or `at`, `spc`, `hpc`, ...) says where a future, the handler or a function
stands. In the modules with handlers, thread actions are guarded by "no handler is running"
(`Running`), `cur` is the task that is being polled and `ready` is the executor's run queue.
Hardware actions are always enabled. `Cancel` drops a future at any of its awaits.

## Inventory

Sources are under `src/embassy-aspeed/src/` unless said otherwise.

| component | state | operations | hard behaviour | correct when | modules |
|---|---|---|---|---|---|
| GPIO input waits (`gpio.rs`) | 32 waker slots, fired bits, wakers, per-pin interrupt registers | `wait_edge`, `EdgeFuture::poll` and drop, `on_interrupt` | handler between the steps of a poll, full pool, cancellation | the pool stays consistent; no event and no wake-up is lost | `Gpio` |
| Doorbell mailbox (`ipc.rs`) | `PENDING`, channel wakers, STATUS/TRIG/CLEAR | `send`, `send_wait`, `send_wait_async`, `recv`, `recv_channel`, handler | rings during the handler, registration one waker at a time, timeouts, spurious entries | every ring is received, none invented, no ring over another | `Ipc`, `Doorbell` |
| IPC of the AST2700 (`ipc1.rs`) | payload words, status bits | `send`, `send_async`, `try_recv`, `recv*` | ignored timeout, sends dropped between words and trigger | a payload is whole and read before it is overwritten | `Ipc1` |
| Countdown timers (`timer.rs`) | reload, counter, INT_STATUS, wakers | `start`, `stop`, `wait`, handlers | overflow between the two looks; the handler clears what the future looks at | a waiting task is polled after its overflow | `Timer` |
| UART (`uart.rs`) | flags, wakers, 16550 FIFO and THR | `read`, `write`, `flush`, blocking forms, handler | one handler entry for two directions, short transfers, dropped futures | no byte lost, none overwritten, arrivals resolve reads | `Uart` |
| Time drivers (`time_driver_rv.rs`, `time_driver.rs`) | counter, alarm, queue | `now`, `schedule_wake`, handlers | carry between half reads, alarm in the past, ticks in a critical section | reads exact, no sleeper missed or woken early | `TimeDriver`, `TickDriver` |
| I2C (`i2c.rs`) | 16-byte pool, IRQ status, wakers per channel | `read`, `write`, `write_read`, `transaction`, handlers | done bit of a dropped transfer, direction of the shared pool | each phase gets its own completion and bytes | `I2c` |
| I3C (`i3c.rs`) | command and response queues, FIFOs, device table | private transfers, CCC, ENTDAA, handler | responses taken by whoever polls, left over by dropped transfers | a response goes to its transfer, the table names who took an address | `I3c` |
| Hash engine (`hace.rs`) | one engine, one waker | `hash`, `hmac_sha256` | two callers, one waker, steps of an HMAC | a caller returns after its own digest | `Hace` |
| RSA, ECDSA (`rsa.rs`, `ecdsa.rs`) | shared SRAM and trigger register | `sign`, `verify` | operands in shared memory over an await, late completions | results are of the call's own operands, private ones are wiped | `Secure` |
| OTP (`otp.rs`) | address, data, command and ECC registers | reads and programming, sync and async | await between address and data, copies of the handle | a read returns its own word | `Otp` |
| TRNG (`trng.rs`) | one data register | `enable`, `read_word`, `fill_bytes` | tasks that poll one ready bit | a word is handed out once | `Trng` |
| SGPIO (`sgpio.rs`) | per-group status, wakers | `enable_irq`, `disable_irq`, `wait_change`, handler | status left latched by the handler, groups looked at in turn | no change is lost | `Sgpio` |
| SPI flash (`spi.rs`) | chip busy and write-enable, DMA done bit | erase, program, reset, `dma_read` | awaits between the commands of a sequence, drops | no command to a busy chip is reported as done | `Nor` |
| eMMC (`emmc.rs`) | host status, card state, block buffer | `init`, `copy`, async forms | errors, timeouts, leftovers of a dropped copy | a copy that succeeds has the card's bytes | `Emmc` |
| Caliptra mailbox (`cptra.rs`) | mailbox lock and state machine | `transaction*` | timeouts, late answers, dropped futures, long responses | commands never mix, a caller reads its own answer, the lock is given back | `Cptra` |
| Caliptra requests and entropy (`cptra.rs`) | DATAIN, DATAOUT, TRNG registers | framing, checksums, typed commands, `feed_trng`, `wait_rdy_for_rt_with_trng` | lengths within a word, refusals, Caliptra at its own pace | a request is whole, a response is taken for what it is, entropy is fresh | `Framing`, `Feed` |
| DRAM bring-up (`sdrammc.rs`) | controller, MPLL, reset masks | `init` and what it calls | failure of any step, five attempts, stale done bits, size sweep | DRAM is announced only when it was set up since the last reset, with its size | `Dram` |
| DRAM PHY (`sdrammc.rs`) | PHY registers, memories and microcontroller | `run_training_pass` with seven generated tables | who owns the bus, stale results, hanging firmware | each pass runs its own image and block; the verdict read is its own | `PhyTables`, `Phy` |
| SLI (`sli.rs`) | delays, clock select, scratch flags | `init_f`, `init_r` | a reset during calibration, narrow windows | a link is left at the middle of a window, or at a safe speed | `Sli` |
| Boot images (`prebuilt.rs`, `flsh.rs`, `manifest.rs`) | flash and DRAM contents | catalogue, `spi_slice`, `load_image`, `load_boot_images` | alignment, rounding, missing entries | slices and copies are what the image builder wrote | `BootImages` |
| CA35, SSP, TSP, DisplayPort (`ca35.rs`, `ssp_tsp.rs`, `display.rs`) | entry points, reset and MPU registers | the releases | cores run between writes, scratch survives a reset | no core starts before what it needs | `Release` |
| SPI monitor, SMBus filter (`spi_monitor.rs`, `i2cfilter.rs`) | filter tables, masks | table set-up, region protection | region arithmetic, u8 counts, read-modify-writes | what was protected is blocked | `Filters` |
| Resets and gates (`reset.rs`, `clock.rs`) | write-one set and clear registers | assert, deassert, enable, disable | contexts that interleave on one register | each peripheral is as its owner asked | `Scu` |
| Register policies (`scu.rs`) | two banks of codes | `FromList`, `apply`, `apply_default` | bank boundary, ids at the limit | every listed register has its group's code | `Policy` |
| Watchdogs (`wdt.rs`) | counter, reload | `start`, `feed`, `stop`, reboot | start while the counter runs | no reset before the timeout of the last feed | `Wdt` |
| PWM, tachometer (`pwm.rs`) | divisors, duty, thresholds | frequency, duty, enable, threshold | rounding and saturation, calls in any order | the output is as near to what was asked for as the divider allows | `Pwm` |
| aspeed-mmio (`src/aspeed-mmio`) | none | volatile access, polling loops | `write64` is two stores; a value that comes at the deadline | | in `Cptra`, `Release` |
| GPIO outputs, ADC, console, start-up, memory map, build support | | | | | not modelled, see below |

How they interact: drivers do not call each other. They meet in the executor (every `wait`
and every `poll_until_async` relies on the time driver), in shared registers (RSA and ECDSA,
SMBus filter instances, reset and gate registers), and in the order of the boot sequence:
time driver, SLI, DRAM, boot images, Caliptra, release of the CA35. What one stage hands to the
next is the promise of the modules: `Dram` takes a training pass as one operation, whose inside
is `Phy`; `BootImages` takes DRAM as ready; `Release` takes the firmware that images left in memory.

## Modules

Waits and handlers:

* **Gpio**: pins toggle at any time; the handler is `IsrEnter`, `IsrScan`,
  `IsrClear`, `IsrDeliver`, `IsrExit`, one register access or critical section each. A poll is
  `Alloc` (the critical section of `alloc_waker_slot`), `Check`, `Register`, `Recheck`, or
  `Fallback` and `FallbackClear` when the pool is full; a drop is `Disarm` and `Release`.
  `event` is history: what has happened at a pin since the wait began.
* **Ipc**: the CA7 is `Ring` and `Ack`; the handler is STATUS, CLEAR, set `PENDING`,
  wake. A receive is `Look`, `Register` (one waker per step), `Relook`, `Take` (the clear of the
  bit in a critical section of its own). A sender is `Before`, `Trig`, `After`, with three kinds
  for `send`, `send_wait` and `send_wait_async`. **Doorbell** is the abstract mailbox that Ipc
  implements: rings may merge while one is owed, a receive answers a ring that is owed.
* **Timer**: `Tick` counts; the handler clears INT_STATUS and wakes;
  `StartReload`, `StartEnable`, `Stop`, and the four steps of `TimerWait::poll`.
* **Uart**: FIFO and transmitter as hardware; `TxReady` and `RxReady` share the steps
  of an awaited flag, then the flag is lowered, bytes move,
  or the flag is raised again. Bytes are numbered, so each can be accounted for.
* **TimeDriver**: the three reads of `read_count` and the two writes of `set_alarm` are separate
  actions for thread and handler; 2^32 is `Base`. **TickDriver**: every operation is one
  critical section; a second tick that ends in one is lost, as with the pending bit of SysTick.
* **I2c**, **I3c**, **Hace**, **Sgpio** share the shape look, register, look again
  (`Check`, `Register`, `Recheck`). What they add is what the looks see: I2c the status bits of a
  channel, whose phase they tell of being history (`ended`); I3c a queue of responses, taken
  without regard to the transaction identifier; Hace one busy bit for all; Sgpio status bits
  that the handler leaves latched.

Engines without handlers (what happens between two awaits is one step):

* **Secure**: operands and results in the SRAM carry the call they are of; `Mixed` is what an
  engine makes of operands of different calls. `RsaReadAnyway`, `RsaTimeoutKeeps` and the like
  are mutants.
* **Otp**: a command takes what the registers hold when it is written; `EccOf` gives each copy
  of the handle its own ECC mode.
* **Nor**: the chip's `wip` and `wel`; a call is `Begin`, `Command`, `After`; `effect` is whether the
  chip obeyed. DMA reads are a second group of tasks.
* **Trng**, **Ipc1**, **Emmc**: words, payloads and blocks are numbered. Emmc's card follows the
  identification sequence (`Identify`), answers, refuses or stays silent.

Boot:

* **Dram**: one processor, one action per step of `init`, against hardware whose
  operations complete at any time or never. `hw` is the set of parts that were set up since the
  last reset; the reset and the cold reset of the PHY take parts away.
* **PhyTables** restates the seven tables of `sdrammc.rs`, some 15,000 generated lines,
  as sequences of steps that write one value to a *set* of
  registers: both bytes and their lanes, the ten address blocks, the master block. Every register
  receives the same sequence of values as in the source, in an order that differs only where
  the source writes distinct registers in a row; the same holds for every half word of the message
  blocks. Words of the sequencer programs are one value, `Code`: no property looks
  inside a program. **Phy** executes them: `todo` is what the host still writes, a write reaches the
  PHY only while the host owns its bus (`mux`), and the microcontroller trains, tells, hangs or
  finishes at its own pace. The source writes 0x20089 in the fetch of a result (16429) before it
  takes the bus back; under this reading that write is lost, and nothing depends on it.
* **Sli**: the sweeps tap by tap, with a link that answers as it likes; `Restart` at any point
  leaves registers and scratch words. `logged` is the windows in the scratch words, which a run may find left by an earlier one (`Earlier`) and
  takes when its own sweep found none; the window of the first lane is logged over that of the coarse sweep. `Middle`, `FineTune` and `LaneMiddle` are the arithmetic of the source.
* **BootImages**: flash and DRAM are functions from addresses to `<<image, byte>>`; catalogues of
  both silicon revisions are enumerated, and the walk, alignment and word rounding are those of the source. `Window(n)` is what the
  load of the n-th image writes: one longer than the distance to the next load address is overwritten by it.
* **Release**: each routine is a sequence of writes (`todo`) and cores that are free run
  between any two; `Reset` is the watchdog's.
* **Framing**: bytes are small numbers and a word is a sequence of four, so that paddings and
  lengths are exact; `Modulus` stands for 2^32 in the checksum. **Feed**: host and Caliptra over
  TRNG_DATA and TRNG_STS.
* **Filters**, **Scu**, **Policy**, **Wdt**, **Pwm**: registers and arithmetic, with the numbers scaled
  (`Narrow` for the u8 of `protect_flash_region`, `Bank` for 32). In Scu two contexts interleave between writes.
* **Cptra**: `Lock`, `Fsm`, `Exec`, `Wait`, `Timeout`, `Drain`, `Unlock` and the early
  returns `GiveUp` and `DrainTooLong`; `MboxUnlock` refuses a busy mailbox as the code does. `tag`
  is history: whose command and whose answer the mailbox holds.

**MCGpio, MCIpc, MCTimer** give finite functions to one module; Uart and Pwm are checked as they are.
**MCBoot** (Cptra and Dram), **MCDrivers**, **MCPlatform** and **MCTimes** compose modules (MCDrivers and MCPlatform take the constants of all their parts, and
define what a finite instance needs). The modules in them share no state, so their
product would only multiply states: `part` names the module that runs in a behaviour, `Only` keeps the
others still, and what they would hold is `Off` (in MCTimes and MCBoot their initial states). An invariant of the run is the conjunction of
the modules' own, each under `part = "..."`. Each module can be checked alone with a
configuration that names its `Spec`.
**IpcProof**, **CptraProof**, **TimesProof**, **DramProof**, **UartProof**, **DriversProof**, **PhyProof** and **PlatformProof** hold the
proofs; DriversProof is about `MCDrivers`, and so about Gpio and the modules that it instantiates, and the last two about
`MCPlatform`: PhyProof about the DDR PHY in it, PlatformProof, which extends PhyProof, about the other parts and the whole.

An operator commented "Mutant" is the changed form of its neighbour, with a plausible bug; no
specification uses it, and it shows that a property can fail.

## Runs

| run | instance | what it shows |
|---|---|---|
| Drivers | twelve parts, below | GPIO's pool stays consistent and loses no edge and no wake-up; every call gets its own answer; no operation, event, message or word is lost |
| Platform | twelve parts, below | what is believed is of this calibration, answer or draw; what is handed over arrives whole; what is set up is as asked for |
| Times | BootMCU driver with 2 sleepers, Base 3; tick driver with 2; one countdown; GPIO edges with 2 tasks and 1 slot | exact reads, the alarm covers the queue, nobody early; fair: every sleep, countdown and edge is answered |
| IpcMailbox | 1 receiver of two channels, an async and a try sender on one of them, spurious entries on the other, 1 ring per channel | implements Doorbell; no lost wake-up; senders do not ring over each other; receives resolve and async sends return |
| UartBytes | writer and reader, buffers of 2, FIFO of 2, 3 bytes in, 2 out | no byte lost or overwritten, no lost wake-up, an arrival resolves a pending read |
| Boot | mailbox: 2 async transactions (one of the bytes form), 1 synchronous; DRAM: 5 attempts, 7 mode registers, 1 to 8 GB, 2 messages per pass, both types | mailbox: commands do not mix, own answers, no bare lock, recovery, termination; DRAM: parts set up, size, no stale operation, termination |
| GpioDropped | 2 slots | **violated**: an edge between `wait_edge` arming the pin and the first poll is cleared by the handler and recorded nowhere |
| TimerResolve | 1 timer | **violated**: the woken wait looks at INT_STATUS, which the handler has cleared, and returns Pending |
| CptraStolen | 2 async transactions | **violated**: a second transaction releases the mailbox before the first has drained its response |
| DramMasks | 2 attempts | **violated**: the reset masks are saved inside the loop, so a retry saves and restores its own |
| ProtectWraps | `Filters` with sizes past the wrap of the u8 | **violated**: `protect_flash_region` protects only what is left of a count that does not fit |
| PwmHalf | 1 channel, 10 Hz of a clock of 20000, duties of 0 and 50 | **violated**: after `set_frequency_hz` and `enable` the output is active all the time, not for half of it |

The six violated runs are the findings of PROJECT.json; each quotes the comment it refutes.

Parts of Drivers, and the properties of the modules that its four new conjunctions collect:

| part | instance | properties |
|---|---|---|
| gpio | 2 tasks, 2 pins in 2 groups, 1 slot, edges and levels, 2 level changes | TypeOK, PoolSound, NoLostWakeup, NoLostEdge |
| i2c | 1 task, 1 channel, 2 phases | NoLostWakeup, OwnCompletion, OwnBytes |
| i3c | 1 task, 2 devices, 2 table slots, 1 dropped transfer | NoLostWakeup, Lag, OwnResponse, DaaResults |
| timer | 2 tasks with a timer each, period 1 | NoLostWakeup |
| hace | 2 callers | NoLostWakeup, OwnDigest |
| secure | 1 signer, 1 verifier of the other engine | OwnResult, Wiped |
| otp | 2 handles, one with ECC, 2 words, batches of 2 | OwnWord |
| sgpio | 1 watcher, 2 groups, 1 pin | NoLostWakeup, NothingMissed |
| nor | 2 flashers, 2 readers | Performed, OwnData |
| ipc1 | 2 identifiers, 2 payload words, 3 sends | Delivered |
| trng | 2 readers, 5 bytes, 3 words | FreshWords |
| emmc | 1 copier and the starter, blocks of 2, copies of 3 | CopiedRight, Identified |

Parts of Platform:

| part | instance | properties |
|---|---|---|
| sli | 5 taps, windows from 3, 2 retries, 2 lanes, windows of an earlier run in the scratch words | Centred, SoundWhenOk |
| phy | all tables, both DRAM types, 2 attempts, images of 2 words | RunsItsPass, VerdictIsOwn |
| images | 2 prebuilts, 2 boot images, sizes 4, 6 and 12 in rows of 8 | SliceRight, LoadedWhole |
| release | 2 secondaries, firmware of 2 words, 1 reset | CoresStartRight, HelpersStartRight |
| monitor, bus | 2 entries of 2 bits, u8 of 4; 2 buses, 2 addresses | Protected, BusesFiltered |
| framing | manifests to 6 bytes, certificates to 6, 2 calls | RequestWhole, OnItsWord |
| feed | blocks of 3 words, 4 draws, 3 loops | FreshEntropy |
| scu | 2 contexts, 1 operation each, all peripherals | AsAskedFor |
| policy | banks of 8, ids on both sides of every limit | AsListed |
| wdt | timeouts 1 and 3, 3 starts | Punctual |
| pwm | clock 20000, divisors to 15 | AsAsked |

Some of these are stated for calls that met no other, told by a history: `whole` in `OwnResult`, `sole` in
`OwnWord`, `quiet` in `OwnData`, `clean` in `OwnResponse`, a channel of one's own (`Sole`) in I2c, and `calm`, no reset, in
`Performed`. That is what the code promises: it holds no lock across an await, and
without the premise TLC shows each of them to fail. What they establish is that timed-out and
dropped calls, which leave the hardware working, do not disturb a later call. `OwnDigest`, `Performed` and
`FreshWords` hold for overlapping calls: between its look at the hardware and its command the driver does not await.

Two properties of Platform have premises that a caller, not the driver, must see to. `LoadedWhole` is about images that fit (`Fits`):
`load_boot_images` does not compare a size with the distance to the next load address, so an ATF of more than the 512 KB between
0xB0000000 and 0xB0080000 is overwritten by OP-TEE and still reported as loaded (`manifest.rs` 204-211); the size 12 reaches this. `AsAsked`
leaves out two sequences of PWM calls. `FrequencyLast`: the frequency is set after the duty cycle, or without one; run
PwmHalf shows what the output then does. `StartedAgain`: `set_duty_percent(0)` and then `enable`, the order of
the example at `pwm.rs:30-34`; `enable` sets CLK_EN again over a falling point of 0, and the output, which line 166 calls inactive, is active all the time.
`NoLostWakeups` of the timers begins where a wait has returned Pending; an overflow between its two looks, whose
bit the handler clears, is the subject of run TimerResolve and of its hazard.

### Bounds

Two tasks are enough for every race of two waits; a third only repeats one of them. Where a part has one
task (i2c, i3c, sgpio, emmc), the second party is a dropped earlier call of the same task, whose phase, response
or block goes on in the hardware. With two tasks, i2c (a channel each, 3.6 million states) and sgpio (1.0 million)
hold as well; i3c was searched in part (16 million states, no violation); two
copiers on the eMMC host break `CopiedRight`, since `copy_async` takes `&self` and one takes the block of the
other. One slot
with two GPIO tasks makes the pool overflow at once, which 32 slots would need 33 tasks for. Two
level changes let a pin fire again while its first event is in the handler. One ring per
channel together with the handler's entries reaches every merge (a second ring is the same as a
spurious entry before CLEAR); the proofs have no such bound. `Base` = 3 with a counter to 5
carries; `MaxAt` < `MaxCount` lets every deadline pass. The counter stops at its bound
(the real one runs for half a million years). Dram uses the code's own numbers (5 attempts, 7
mode registers); `MaxMsgs` stands for the 10^9 polls of POLL_TIMEOUT, which may pass with any
number of messages, so `MailTimeout` is enabled from the first. Sizes below 1 GB are left out
because the sweep starts at 2 GB and cannot tell them apart (the comment at
`sdrammc.rs:102` says so). Sli's five taps hold no window, one of every position and width and two of equal
width. The window an earlier run left in the log (`Earlier`) is none (zeros), a wide one (taps 1 to 4) or, on the lanes of MBUS, that of a lane
where nothing passed. Framing's lengths include every remainder of four and both sides of each limit; BootImages' sizes are aligned, not aligned, and longer than a window; Policy's and Pwm's values lie on both sides of
each threshold.

Deadlock is checked in Times, IpcMailbox, UartBytes and Boot (Dram stops in `done` and `failed`,
which `Stopped` says). Drivers and Platform switch it off: their histories are bounded
(`MaxSends`, `MaxWords`, `MaxCalls`, `MaxDraws`, ...), and a boot that has ended, or failed for good,
stops.

### What the models take the hardware to do

The source cannot say; these are the readings under which the properties hold.

* An interrupt is latched once for an event (I2c, I3c, Sgpio). Whether the UART line is level-sensitive
  is left open: Uart admits any number of handler entries.
* The alarm comparator of the BootMCU fires from the value on (`Level`); with `Level` = FALSE, `Served` fails.
* The flash chip ignores commands while it works, save the reset; the hash engine takes its operand when it is started.
* A cold reset of the PHY gives its bus to the host, and registers and memories take writes only from
  the owner; resetting the microcontroller withdraws its message (`ResetDrops`).
* Caliptra's request for entropy ends with the done bit (`RequestDrops`); with FALSE, a request that is still
  set is answered twice and `FreshEntropy` fails.
* A watchdog reset leaves scratch registers and pad delays, and holds the cores again. A reset that clears the SLI engines may
  leave the windows logged in the scratch words, when it comes before SLI0_READY; one that clears the engines and keeps the skip or the ready flag is not modelled.
* Locked policy registers ignore writes: `apply_ibex_default_register_policy` (`scu.rs` 290-297) writes them once more, and `ApplyDefault` changes nothing.
* The write of 1 to 0xc0033 at the start of a training pass (`sdrammc.rs:16396`) comes while the microcontroller has the bus, is lost under this reading, and `Instructions` leaves it out.

### Fairness

* Handlers: a pending interrupt is taken and the handler runs to its end (weak). In TimeDriver
  it is taken again and again if interrupts keep being enabled (strong).
* Thread code: a poll goes on although handlers preempt it, and the executor polls what is in
  its run queue (strong). Embassy drains its queue in full before it looks at what was
  added meanwhile, so no task can keep another from being polled. The strong form excludes only
  a handler that is re-entered for ever between two steps. With level-sensitive GPIO waits the
  code does not earn it: the bit latches again as soon as it is cleared. `EdgeDelivered` is
  therefore checked with rising edges (run Times); the hazard list keeps the level case.
* Time passes: timers count, `poll_until_async` deadlines and sleeps elapse (weak).
* The other side owes nothing: the CA7 need not acknowledge, Caliptra need not answer, the PHY
  need not finish. Dram assumes that the MPLL locks and a mode register write ends, since `init`
  waits for both without a bound, and nothing else.
* In MCTimes and MCBoot one condition of fairness stands for one of each module. `part` never changes, so on
  any behaviour only one disjunct can be enabled, and the condition is exactly that module's own.

## Hazards

PROJECT.json lists 40 hazards with their lines and the properties about them. Met and not among the 40, because no
property covers them: two receivers that want one channel overwrite each other's waker (`ipc.rs:187`);
`send_wait` spins without yielding (`ipc.rs:118`); two waits on one pin, of which the first to end disarms the
other (`gpio.rs:602`); the read-modify-write of `set_high` (`gpio.rs:390`); `threshold_from_rpm` divides by
zero below 60 rpm, since the division to rounds per second comes first (`pwm.rs`).
The models of Ipc and Gpio contain the first three, and their properties name the premise (`Sole`,
a pin of one wait) that excludes them.

## Proofs

The proofs hold for every number of tasks, pins, groups, slots, channels, timers, words and transactions and
every bound, under the assumptions named in the modules (`GpioAssumption`, `IpcAssumption`, `UartAssumption`,
...; `PartsAssumption` in MCDrivers, MCTimes and MCBoot is the conjunction of those of the parts; the theorems of DramProof name `DramAssumption` as a hypothesis). They say that constants have
their types and that `None` and `Gone` are not tasks; that a signer of RSA does not verify with ECDSA; in Timer that a
period is not 0; in Emmc that one task copies, since with two the property is false (see *Bounds*); in Dram
that sizes are those from 1 GB on.

*Gpio* (in DriversProof). The invariants are not inductive: whether a slot is clean depends on where its owner
stands and on what the handler still carries. `GpioInv` adds `Control` (a future inside a poll is the
current task; a task holds a slot exactly at the points where the code does; the handler's bits are
of its group), `ArmedByLive`, and, in `Wakeups` and `Edges`, the facts at the intermediate
points: a registered waker between the two looks, an event on its way through int_status, the
handler and the fired bit. One lemma per conjunct, one step per action. From `GpioRight`
follow `GpioTypes`, `PoolSafe`, `SlotsClean`, `ArmedSafe`, `WakeupSafe` and `EdgeSafe`;
`PoolAllSafe` joins the three about the pool as run Drivers checks them.

*Ipc.* `IInv` adds where futures and the handler stand and, in `Wakeups`, that a receive has
registered every waker it no longer lists in `unreg`. `TypeCorrect`, `WakeupSafe` and `RingsSafe`
follow. `MailboxRefines` proves that every step is a step or a stutter of Doorbell, under
`Separate`: no channel has both a sender and spurious handler entries. Without it the refinement
is false: a spurious entry on a channel with an un-acknowledged send passes the STATUS guard and
delivers a receive nobody rang for (`ipc.rs:243`). It needs `HandlerHasRing`, an invariant of
its own: between STATUS and CLEAR the handler's channel is in rx.

*Cptra.* What a transaction may rely on depends on what earlier ones left in the mailbox, so
`IInv` says what that can be. `Mailbox` ties lock, state machine and status together: the status
leaves CMD_BUSY exactly in EXEC_SOC. Since `mbox_unlock` releases only a mailbox whose status is
not CMD_BUSY, it never releases one that Caliptra works on, which is `OnePending`. From it follows
`Own`: a transaction that no other overlaps finds its own command and answer at every point
behind EXEC. `CommandsApart`, `AnswersApart` and `LocksReleasable` are the theorems. The proof of
`AnswersApart` would fail if `mbox_unlock` released a busy mailbox, as the mutant does: a late
answer to an abandoned command would then meet the next one.

*Times.* `ReadsExact` is arithmetic over the halves of a count: `Reading` keeps that the high half was read at
a count not before the call and the low half at one not after it, so that two equal high halves fix the carry.
`AlarmsCover` needs `Arming` and `Covering`: from the moment a context has expired the queue until its second write
no other context touches the driver, so the deadline that it arms stays the earliest. That there *is* an earliest deadline
of a non-empty queue is proved from the well-foundedness of the naturals (`MinIsLeast`). `NotEarly` joins
both time drivers, and `Parts` says that the composition is, on each behaviour, one of them.

*Dram.* One attempt adds one part per step. `Parts` says which parts are set up where init stands, `Bits`
and `Registers` what a done bit stands for, `NoneLeftOver` that the reset has cleared what an earlier attempt
started, `Search` that no size smaller than the one being tried aliases. Only all of them together are
inductive: without `NoneLeftOver` a done bit of the last attempt would pass for a part.

*Uart.* `Sides` and `Registered` (a waker slot belongs to one task from its registration to its answer) give
`WakeupsKept`; `Untouched` (who still awaits its flag has moved no byte) gives `BytesKept` when a future is
dropped.

*Drivers.* Each driver has its own inductive invariant, at the head of its section of DriversProof, a lemma
`XKept` that a step keeps it and a theorem `XRight` that it always holds.

| driver | what the invariant adds | why |
|---|---|---|
| I2c | `OwnChannels`: while a transfer is alone on its channel, its phase is on the bus and no bit is set, or the bits and the buffer are of its phase | the done bit does not say of whom it is |
| I3c | `SlotsEnough` (table slots and device indices), `PolledRight`, `Undisturbed` (the command, response, words and addresses of a transfer that met no dropped one, at each stage), `I3cWaked` | `Lag` counts, and only `Undisturbed` says whose the counted ones are |
| Timer | `TimerRegistered`: the waker from the first look to the last | the handler clears what the future looks at |
| Hace | `HashWritten`, `HashAlone`: what was started is under way or has ended, and is alone as long as it says so | one busy bit for all callers |
| Secure | `RsaAlone`, `EccAlone`: the engine works on no other call's operands | operands stay in shared memory |
| Otp | `OtpWaits`: busy with this command or idle after it | the data register carries no address |
| Sgpio | `SgpioTook`, `SgpioAlone`: taken bits exist only inside a call; the waker stays while alone in the group | the handler leaves the status latched |
| Nor | `FlashSent`, `FlashReads`: a command that met no reset is in the chip or was executed; one DMA read owns the done bit | awaits between the commands |
| Ipc1 | `IpcSlots`: pending payloads are whole, payloads being written are not pending | words are written before the trigger |
| Trng | `RandomFresh`: no word that is ready or to come was handed out | one ready bit |
| Emmc | `Reading` (command, data lines and status at one point of the transfer), `Copying`, `Identifying` | a done bit per stage, errors in between |

`DriversRight` lifts them to the composition: a step of one part leaves the variables of the others alone (`OnlyItsOwn`),
so their invariants are kept by stuttering. `TypesCorrect`, `WakeupsKept`, `AnswersKept` and `WorkDone` then state
the four conjunctions that run Drivers checks. Lemmas about the operators they need (what a dropped transfer disowns,
what a queue holds after its head was taken, the cardinality of those who wait) stand before their uses.
With the proofs about Gpio, DriversProof has some 4,900 lines; tlapm takes some twelve minutes for it, fourteen for
PlatformProof and six for PhyProof, and seconds to a minute for each of the others.

*Platform.* MCPlatform has the constants of all its parts, and PartsAssumption the conjunction of their assumptions: that
constants have their types, that the CA35 has at most three secondaries, that every limit of a policy lies in its two banks,
that a watchdog has a longest timeout. `SizesFit` says that the entries of a protected region fit a u8: without it `Protected`
is false, which is the finding of run ProtectWraps. As in DriversProof, each part has its invariant and `PlatformRight` lifts them.

| part | what the invariant adds | why |
|---|---|---|
| Release | a rank for each write (`Rank`), `Precedes`, and `Booting`: the writes of every boot come in this order, each at most once. `RegionReady`, `CoresReady`, `DpReady`, `HelpersReady`, `BridgesReady` say by register what is true while a write waits | a core may run after any write, so what it needs must not wait any more; a boot has up to 40 writes and the DPMCU's firmware any number of words, so the sequences themselves are not enumerated: `Joined` and `Ordered` are lemmas about routines one after the other |
| Sli | `BestKept`: win, first and last are the longest run of good taps so far and the run that is open; `Staged`, which links are done at which stage; what is logged are bytes (`BytesBack`) | the middle of a window is the middle of a *longest* one, of any number |
| Phy | `PhyInv`: the host is at rest, configures, fills the memories, trains, asks or goes on (`Configures`, `Fills`, ...), and in each what is left to write (`todo`) is the end of a known sequence of stages; `Alike`, `Vacant` and `Closed` say of the registers what the stages so far have left, `Programmed` which instructions and vectors | a table has some hundred steps on thousands of registers: `ConfigTables` and `BodyRight` say of a whole table which sets its writes touch, `ConfigureKept` and `ProgramKept` that such a write keeps the stage, so no state between two writes is enumerated |
| Filters | sets of bits as images of regions and addresses (`BitPlaces`, `Sized`): how many whole entries and bits a size takes | the tail of a region that is no whole entry |
| Scu | `Settling`: a register stands as was asked for, unless the write that brings it there is still to come | two contexts on one register |
| Feed | what was written of a block is of the draw it began with; blocks of earlier draws are others | a word of half a block is never read |
| Framing | the last result is what the answer makes of this call (`Outcome`); `WordHolds`, `ByteHolds`, `CertOfAnswer` follow a byte from the FIFO to the caller | lengths within a word |
| Policy, Wdt, Pwm | the registers hold the lists; count and since add up to what was loaded; products bound quotients | |

Phy is taken as MCPlatform instantiates it: a reset of the microcontroller withdraws its message (`ResetDrops`).
`SetUpRight` and `BelievedRight` state two of the four conjunctions that run Platform checks.

*Model-checked only.* Liveness (EdgeDelivered, AllServed, Received, AsyncSendReturns,
ArrivalResolves, Recovers, Returns, Ends) is beyond the prover. So is what a fold over data of any length computes, which
would be induction over data: `RequestWhole` (bytes packed to words, checksums) and the type of `datain`, and with them HandedOver and
TypesOK of MCPlatform as a whole. The types of nine of its eleven modules are part of the theorems `XRight`; of the other two, `PhyInv` has
those of the variables that it relates, and BootImages is model-checked.

## Not modelled

* GPIO outputs and pin numbering: register accesses of 32 pins. Only a handler of the board could interleave with
  `set_high`, and the crate has none.
* ADC, console, the JEDEC identifier, straps and revisions: single reads, bounded polls or output.
* Frequencies in `clock.rs`: formulas over straps and dividers that no state depends on.
* Start-up: assembly entry, trap vectors, zeroing of memory; there is no state before it. Memory map, build support.
* In modelled components: words of the sequencer programs, qos writes and timings of the DRAM controller,
  constant register values elsewhere, the fuse writes of Caliptra, the raw payload loader
  of `manifest.rs`, `wdt_ast2700.rs` (one reboot), the remap slots of the SMBus filter, and the polling-only UART12 of the BootMCU.
* Type-state and ownership that the Rust compiler enforces (two `Input`s for one pin are possible in this
  crate and modelled; two `&mut` borrows are not). Memory ordering beyond a single core.

Divergences seen that have no run of their own: `ipc.rs:128` says an async send returns once
acknowledged, and it also returns on timeout; `timer.rs:127` says that the second look closes the race of check and registration, and the handler
has cleared what it looks at; `pwm.rs:166` says that 0% makes the output inactive, and `enable` (206-211), called next as in the example at
30-34, makes it active all the time; `reset.rs` 33-35 puts the HACE engine into reset and back, and `reset_info` (117) has no reset bit
for it, so that both calls do nothing; `ca35.rs:367` offers the entry point of `set_uboot_ep()` in place of RVBAR as a way to boot, which no routine
of this crate takes: it is not among the `Boots` of Release; `sli.rs:406` says that a sped up clock means that calibration has
run, and `init_f` speeds it up before the sweeps, so that a run after a reset in between skips them (`init_r` then times out on
SLI0_READY, which `SoundWhenOk` relies on); `display.rs` 129-130 says that the core stays in reset and the PSP
releases it, and 156-163 release it; `wdt.rs:5` and `:80` name four watchdogs and `:88`
accepts three; `spi.rs:195` shifts DMA addresses that the comment at `:98` says must not be
shifted; `i3c.rs:159` and `clock.rs:308` disagree on the default I3C clock; `timer.rs:12` gives
RELOAD as period - 1 and `timer.rs:81` writes the period; the steps numbered 15 and 16 in the
header of `sdrammc.rs` (ZQ calibration, hard lock) are not in `init`.
