# doorking-esp32: verification development

TLA+ models, TLC model checking and TLAPS proofs of the firmware in `src/main`:
an ESP32 that opens and closes a DoorKing gate over two I2C relays, reads one
status contact, and is commanded over an HTTP API, with over-the-air updates.

The line numbers below and in the modules are those of the files under `src/`.

## 1. The system

### Components

| Component | State | Operations | Correct if |
|---|---|---|---|
| gate state machine (`gate_sm.c`) | state, last command and its time, start of the leg | command open / close, status change, tick | OPEN only of a sensed gate; a leg neither settles early nor for ever stays under way; reversals are spaced |
| status input (`status_input.c`) | stable level, candidate, count | poll every 50 ms | exactly the levels that were steady for the debounce time are reported |
| relay driver (`relay_i2c.c`) | attached relays, pulse width; the contacts are in the relays | pulse: ON, wait, OFF | no contact stays closed unreported; success means a whole press |
| `app_main` (`main.c`) | none of its own | start-up, tick every second | the state machine is ticked whatever else happens |
| HTTP API (`http_api.c`) | bearer token, pointers | one request at a time, in one task | the answers say what was done |
| updates (`ota.c`) | state and error, in-progress flag, timer, update slot, boot choice | check, pull, push, timer callback, check task | one at a time; never stuck; the slot set to boot is whole |
| rollback watchdog (`ota.c:88-135`) | timer, pending-verify mark | boot, got IP, timer | an image is confirmed iff it reached the network |
| configuration (`config.c`) | NVS keys | load, save, clear credentials | no save that stops half way locks the owner out |
| Wi-Fi (`wifi.c`) | got-IP flag, provisioning server | events, provision, delayed reboot | reconnects; a provisioned device restarts with what was provisioned |
| factory-reset button (`reset_btn_sm.c`, `reset_button.c`) | press start, fired latch | poll every 50 ms | fires once per press, only after the hold |
| log buffer (`log_buffer.c`) | ring, head, used, mutex | write, snapshot | a snapshot is the latest bytes, in order |
| I2C diagnostics (`i2c_bus.c`) | none; the relays keep their addresses | scan, move a relay to an address | the answer tells whether the move worked |
| status LED (`status_led.c`) | pattern | set state | output only |

### Interaction

    status line -> status task --edges--> gate_sm <--tick-- app_main (1 s)
                                             ^
      HTTP client -> httpd task --commands---+--accepted--> relays (I2C pulse)
                         |
                         +--check, pull, push, reboot--> ota --> slot, restart
      esp_timer --periodic check--------------------------^
                         |
                         +--trial of 120 s--> restart --> bootloader --> other slot
      Wi-Fi driver --events--> event task --got IP--> image confirmed
      phone --form--> provisioning server --save--> NVS <--clear-- button task
      every task --log lines--> ring <--copy-- httpd task

`gate_sm_t` is shared by three tasks (the status task at priority 3, httpd at 5
and `app_main` at 1) without a lock. `s_ota_in_progress`, `s_state`,
`s_last_error` and the update slot are shared by httpd, the timer task and the
check tasks without a lock. The stored configuration is loaded, changed and
saved as a whole by two tasks without a lock. Only the log ring has a mutex. A
reset clears the RAM, but neither the relays nor the flash.

### What is hard here

Unlocked state read and stored by preemptive tasks; a clock read before the
state it is compared with; a command recorded before the press it stands for;
peripherals that outlive a reset; a settled state inferred from time alone; test
and set of a flag in two steps; an update slot with several writers; one-shot
timers that must re-arm themselves; a save of one key after another that stops
anywhere, or meets another; a new image that must be confirmed by an event that
can come too early; a ring that wraps in the middle of a line; a command to a
peripheral whose answer can be lost. `PROJECT.json` lists each at its line with
the properties that cover it, or says why none does.

## 2. Modules

| Module | Models |
|---|---|
| `GateSM` | `gate_sm.c`: each handler as an operator on the fields of `gate_sm_t` and a time stamp (`OnCmd`, `OnStatusChange`, `OnTick`), and a machine that calls them one at a time with the current time, which is the contract of `gate_sm.h` |
| `StatusInput`, `Debounce`, `StatusReadings` | the loop of `status_input_task`; the debouncer it promises to be: a level is reported once `DebounceSamples` consecutive readings agree; the loop beside the readings it was given |
| `GateSystem` | the gate path: `StatusInput`, which it extends, and `GateSM` (by INSTANCE), the tick loop, the HTTP server's one task, the pulse with its two transmits, the relays, failed transmits and resets |
| `GateRace` | the same three callers of `gate_sm.c`, with every load and store of the shared fields a step of its own, on one core (preemption by priority) or two |
| `Ota`, `Semver` | `ota.c`: check and pull requests, the timer callback, check tasks, pushes, failures, the restart; the comparison of two versions |
| `Startup` | from a reset to a confirmed image: `app_main`'s order, the Wi-Fi events and their dispatch, the rollback watchdog, the bootloader, an access point that comes and goes, updates that end in good and bad images |
| `ConfigStore`, `ResetButton` | `config.c` key by key under its two writers, the provisioning server and the button's watcher; `reset_btn_sm.c` |
| `FormFields` | `form_get` and `url_decode_inplace` of `wifi.c`, and what a form means |
| `LogRing`, `LogWindow` | `log_buffer.c` byte by byte; the window on the latest bytes it promises to be |
| `RelaySetup` | moving a relay to another address and the bus scan (`http_api.c`, `i2c_bus.c`), driven by an owner who follows the project's README |
| `*Proofs` | the theorems about the module they are named after; those of `StatusInput` and `StatusReadings` are in `GateSystemProofs`, those of `Semver` in `OtaProofs`, those of `FormFields` in `ConfigStoreProofs` |
| `MC*` | instances for TLC |

Time stamps are `uint64_t`: `Elapsed` subtracts modulo `ClockMod`, which stands
for 2^64, so a stamp that lies in the future gives a huge difference, as in C.
Times are in units chosen per instance. History variables (`contact`,
`contact_ms`, `entered`, `line_ms`, `closed_ms`, `pulsed`, `alone`, `torn`,
`sinceUp`, `reporter`) record what the program does not keep and are read by properties
only.

`GateSystem` lets a due task run up to `Jitter` late. A transmit that fails may
or may not have reached the relay; both are modelled. `Restart` is any reset:
the program's variables start over, the contacts stay as they are unless the
relays lost their power too.

`GateRace` reads the time stamp before the call, loads each field where the
code loads it (`gate_sm_on_tick`'s second test of `state` is of the value
already loaded or of one loaded again, as the compiler chooses for a plain
field), and lets the stores of one call reach memory in any order, which a
compiler is free to choose. With `EdgeSpacing` and `Skew` the module bounds how
close edges come and how long a call may stay preempted, so that the clock it
started with is not arbitrarily old.

`Ota` separates the test of `s_ota_in_progress`, its set, and the task's
creation; and the store of `s_state` from that of `s_last_error`. The content
of an image is abstracted to whether data of another image got in between
(`spoiled`); `esp_ota_end` accepts only a whole, unspoiled image, and
`esp_ota_set_boot_partition` verifies it again. Two check tasks download the
same release, so the model does not let them spoil each other; the slot is
nevertheless `"partial"` from any write until the next successful verification.
`Fail` stands for every error return between the first and the last call of an
operation. The history variable `reporter` is the actor whose report of "checking"
or "downloading" the state shows; it becomes `"no reboot"` when a push has
installed its image and the task that should restart the device is not created. The cached version string, the URL and the JSON are data the
properties do not look at.

`Startup` keeps of each slot the bootloader's state and whether its image can
join a network; an image that cannot may also crash wherever it is (`Panic`).
The driver posts events to a queue; the event task takes one at a time, and
`on_got_ip`, when it is registered by then, confirms the image and stops the
timer in two steps. The marking may fail, which nobody asks (`ota.c:105`), and the
timer is stopped all the same. Updates are one task's here (`Ota` has them in
detail): a pull shows itself on the LED before it asks `esp_ota_begin` for the other
slot, which is refused during a trial, a push only after.

`ConfigStore` numbers credentials by the provisioning they came from; 0 is the
empty string. The keys that nothing rewrites are one. Each `nvs_set` is a step,
since NVS makes each durable by itself; a failing one ends the save and leaves
what was written. `Restart` may come between any two steps. The history variable
`alone` says of a save that no other was under way with it; `torn` that a
provisioning was cut short, or that two saves met.

`LogRing` names a byte by its task, its place and its line's length, so that a
line cut by another can be told from a whole one.

`RelaySetup` has the owner as a process: the request, either of whose addresses
may be mistyped, the answer, which may be lost in a restart, the scan in doubt, and
the other relay plugged in at the end. The handler takes any "to" in range, moves
the relay there and answers `ok`; what catches such a slip is that the answer
repeats "from" and "to" (`http_api.c:674-680`) and that the owner compares them: one
who goes on after another `ok` has a CLOSE address that presses nobody. This care of
the owner is an assumption of the model, not a check of the code.
The firmware's part is one request in steps between its four transmits.

## 3. Runs

| Run | Shows | Bounds |
|---|---|---|
| `gate_sm` | what OPEN means, who may mask the contact, when a leg settles | timeout 4, spacing 3, 10 units of time with restarts: two whole legs and a reversal |
| `status_input` | a steady line is reported; the loop implements `Debounce` | 6 samples, twice the code's 3, and the last 6 readings: every chatter that long |
| `gate_system` | refinement of `GateSM`, deadlines, honest answers, spaced presses, one contact at a time; no deadlock | a start-up of 3, longer than the tick's period of 2, as a scan of 119 probes is; 7 units with tasks up to one late, one move of the line, one fault: a leg of 3 with its settling and a debounce, or a command, its failure or a reset, and the next command |
| `race` | serial calls are the handlers of `GateSM`; what every overlap leaves true | 4 units, legs of 2: a leg can end, and start, in the middle of each call |
| `race_tick` | a counterexample, see below | one core, 6 units |
| `ota` | the flag and the timer under every interleaving; a busy state has somebody who goes on with it, or a reboot due, but for a push whose reboot task is refused; one task at a time when only requests start them; the order of versions | two tasks (a third starter finds no memory), one open, one buffer, pushes; parts of a version up to 2 |
| `ota_quiet` | the flag is always released; error and slot are right when operations do not overlap | the same without pushes |
| `startup` | only images that work are confirmed, one to fall back to is kept, a trial ends unless its marking failed unnoticed, a station in reach of its network ends up online, the LED does not stay wrong | three updates, good, bad or refused, and three outages or failed markings: both slots are rewritten, and a trial is cut short more than once |
| `startup_ip` | a counterexample, see below | one update |
| `config` | nobody is locked out, the shown token stands, the button clears only when held and always in the end; forms are read as typed | two provisionings, two outages, two failures, a hold of two polls late by up to one; every form of up to five of the characters `% + = & s 4`, names of up to one, buffers of up to four: two fields, an escape, one cut by the buffer |
| `log` | no torn line in a snapshot, the ring is a window on all that was logged, the mutex comes back | two tasks, a ring of 3 bytes and lines of 1 to 3: a line wraps anywhere and can fill the ring |
| `relay_setup` | no command presses the wrong relay, or none, once the owner is done, and the owner gets done unless the relay went where no scan looks | "from" and "to" each of: the two addresses, one mistyped but valid, the greatest that is accepted and never scanned (0x78), one out of range on either side; three failures |

Every counter that a behaviour can raise for ever (`MaxTime`, `MaxMoves`,
`MaxFaults`, `MaxUpdates`, `MaxOutages`, `MaxTokens`) is capped in a guard and
named in the module; `MaxPart` bounds the numbers in a version, `MaxForm`, `MaxName`
and `MaxField` the strings of a form. In `MCGateSystem` and `MCGateRace` the end of the explored
time is an explicit stuttering step, so TLC's deadlock check still shows that
time never gets stuck on a task that is due and cannot run. `relay_setup` alone
may stop: the owner is done.

A type invariant that is proved is not checked again by a run.

### Fairness

* `Ota`: tasks that exist run (they have the priority of httpd or below, and
  nothing above them spins), their network calls end (15 s and 30 s time-outs),
  and a restart that is due comes. Nothing of clients: a push need never go on.
* `Startup`: `app_main` and the event task run, the armed timer expires, the
  driver reports the end of every attempt to connect, and the reboot after an
  update comes. Nothing of updates, outages, crashes or the access point.
* `ConfigStore`: the device boots, the button's task polls, its save goes on and
  it restarts, since nothing in its loop waits. Nothing of the server.
* `LogRing`: who holds the mutex goes on: nothing under it blocks, and the mutex
  lends its holder the priority of those who wait.
* `RelaySetup`: the server, the relay and the owner go on. The owner comes to move
  the relay only with its address in hand, the factory's, an answer's or a scan's,
  and, though either address may be mistyped again and again, sooner or later types
  both right (`RightMove`).

### Where the code and its comments part

Two runs each end in a counterexample to one statement:

* `race_tick`: the tick acts only when "the timeout has elapsed"
  (`gate_sm.h:126`). A command between its clock reading and its load of
  `travel_start_ms` makes the difference wrap and settles the new leg at once.
* `startup_ip`: the device goes back if the new firmware "fails to get an IP
  address within 120 seconds" (`README.md:343`). An address obtained while
  `app_main` still scans the I2C bus is never noticed: `on_got_ip` is registered
  after it, and a working image is given up.

The models reproduce more, which have no run of their own.

The gate path:

* `gate_sm.h:13`, "status GPIO HIGH -> unambiguously GATE_OPEN": after an accepted
  CLOSE that the gate did not follow, the tick settles on CLOSED with the contact
  made, and further CLOSE commands are "idempotent".
* `gate_sm.h:75`, "in (or moving toward) the requested state": after a failed
  pulse it is not; nothing was pressed (`IdempotentMeansPressed` is therefore
  stated for behaviours without faults).
* `relay_i2c.c:78`, "A reboot clears it": nothing sends OFF at start-up
  (`GateSystem!Restart`).
* `http_api.h:42`, "the data race is benign": an edge between the tick's test and
  its store is lost (`GateRace!TickChooses`).

Updates:

* `ota.h:30`, a check in progress refuses another: the timer's callback can pass
  the test between HTTP's test and set.
* `README.md:302`, "bootloader swaps on reboot": another update can write into the
  slot in the second before the restart.
* `ota.c:382`, "up to 5 hops": it is four, and running out of them is taken for a
  200 (`Ota!OutOfOpens`).
* `ota.h:50`, the error is empty unless the state is FAILED: a push that starts
  while a task records its failure leaves a message that does not go with the
  state (`FailedHasError` is stated of operations that do not overlap).
* `ota.c:232`: there is no reboot, and the state stays at DOWNLOADING, if its task
  cannot be created (`Ota!PushReboot`); it is the one exception of `NeverStuckBusy`.
* `ota.c:104`, "Confirm the running firmware and cancel the watchdog": if the marking
  fails the watchdog is cancelled all the same. The trial then lasts until the next
  address or restart (`Startup!Confirm`; `TrialEnds` excepts it as `Unmarked`).

Configuration and Wi-Fi:

* `config.h:6`, "atomically", and `config.h:72`, "in one transaction": it is one
  key after another (`ConfigStore!WriteKey`). A reset keeps the owner safe all the
  same, because clearing takes the SSID first; a provisioning that is cut short,
  or crossed by a reset of the button, can leave an SSID without its token.
* `config.h:8`, secrets are "NEVER logged": `config_log` logs the token, as the
  comment in it says (`config.c:181`).
* `wifi.c:142`: `form_get` cuts the encoded value at the buffer's size, not the
  decoded one (`FormFields!form_get`); a long SSID with escapes is cut short.
* `wifi.h:28`, "has acquired an IP at least once": the flag is cleared by every
  disconnect (`Startup!OnDisconnected`).
* `wifi.c:269` promises a reboot "in 2 seconds"; it is three (`wifi.c:189`). Two
  forms make two reboot tasks, which both stop the server.

Diagnostics:

* `http_api.c:579` and `586`: "18" is read as a decimal number, not as the address
  0x18.
* `http_api.c:587` admits 0x78, which neither scan reaches (`i2c_bus.c:69`;
  `RelaySetup!Scanned`): a relay moved there is not found again by looking
  (`SetupEnds` excepts it).
* With both relays on the bus at one address both obey the move, and the answer
  is `ok` (`http_api.c:635`); `RelaySetup` plugs in one alone, as README says.
* `log_buffer.h:1`, "captures all ESP_LOGx output": a line whose task waits 50 ms
  for the mutex is dropped (`LogRing!DropLine`).

## 4. Proofs

All theorems hold for every value of the constants that satisfies the module's
named assumption (natural numbers; `MaxTime < ClockMod`, that is, less than 2^64
ms of uptime; distinct addresses in range; the characters of a form are the codes
1 to 255).

* `GateSMProofs`: `Safety` is inductive. `OpenMeansContact` alone is not:
  that the machine leaves OPEN on the edge that breaks the contact needs the
  contact last fed to it; that a leg settles on time needs its clock to be the
  one of its start. From it follow what `gate_sm` checks, and that a moving
  machine's clock is its leg's, that STOPPED follows an opening nobody confirmed
  and that commands are spaced.
* `GateSystemProofs`: every step of the gate path is a step of `GateSM!Next` or
  leaves its variables alone (`NextRefines`). The bounds in time need an invariant
  of their own: a moving machine has a tick due within one period, or before
  `app_main` first reaches its loop, however late that is (`TickSoon`), a
  call in progress was due at a known time after its command (`CallTimed`), and so
  was the last press.
  The debouncer is proved alone, for any number of samples: it implements
  `Debounce` by a refinement mapping that reads the count as the length of the
  current run, and a level held for that many readings is the one reported, because
  the counter speaks of the readings themselves (`CountsReadings`). Within the gate
  path this becomes `LineReported`, a bound in time: the next poll and the samples
  still missing are never further away than what is left of the debounce time
  (`Followed`), and what the machine shows is what it was fed unless a later command
  masks it (`Sensed`). `IdempotentMeansPressed` follows the press of an OPEN from
  its command to its answer.
* `GateRaceProofs`: for any overlap of calls, any length of a call up to `Skew` and
  stores in any order, no race reports an open gate that was not sensed, and none
  leaves a leg with the clock of an earlier one. Both are false in the middle of a
  call, so the invariant `Races` says which call still owes which store (`Owes`):
  a clock later than its leg belongs to a call that has yet to store its state
  (`NotLater`), one earlier than its leg to a call that has yet to store its clock,
  or to one that began at most a call before (`NotEarlier`), and OPEN without a
  made contact to the status task's (`OpenFed`). That calls which do not overlap
  are the handlers of `GateSM` is a refinement that shows the machine a call found
  until its last store: until then each field has the value found or the one the
  handler computes from it (`Apart`, `Halfway`).
  From it follows that a tick which overlaps no call waits for the timeout
  (`LoneTicksWait`): the counterexample of `race_tick` is the work of the overlap.
* `OtaProofs`: types; that the flag is backed by a task or its creation; that a
  busy state is shown only while its `reporter` goes on or a reboot is due, but for
  the push of `ota.c:238`; that the timer never
  dies; and, where the automatic check is off, that the test of the flag admits one
  task (`Alone` is the invariant: a task, or one about to be created, has the flag
  set, and nobody claims it while a task lives). Without pushes either, the error
  goes with the state and the image set to boot stays whole: the one task makes
  both its stores before it goes on (`ReportsInTurn`), and after the boot choice it
  waits for the reset with the flag still set (`WaitsForReset`). Versions of any
  numbers are ordered by their parts from the left: the first part that differs
  decides (`FirstDigitDecides`, `RankDecides`).
* `LogRingProofs`: the ring implements the window, for any size, any tasks and any
  length of lines. The window is read off the ring's cursor and count; until the
  ring has wrapped the cursor is the count (`HeadFollows`), afterwards every byte
  written takes the place of the oldest one. That a snapshot is the window needs
  that nobody writes between its two copies, that is, that the mutex has one
  holder (`Exclusive`). No snapshot has a torn line because every byte in the window
  is followed by its line's next one, or, after its last, by the first of another
  (`Joined`), and the last one ends a line whenever the mutex is free (`EndsWell`).
* `StartupProofs`: only images that work are confirmed, one that works is kept
  while another is on trial, and the watchdog restarts nobody else. The invariant
  says what the event queue can hold (never more than an address and its loss),
  that an address means the running image works, and that an update runs only on
  a confirmed image.
* `ConfigStoreProofs`: no factory reset locks its owner out, the token shown last
  is the one stored, settings survive, and clearing takes a whole hold. The
  invariant follows the saves: one that was alone has written exactly the keys
  before its next one (`Progress`), two that met know it (`Meeting`), and clearing
  writes the empty SSID first.
  Forms, names and buffers of every size are read as typed (`FormsAreReadAsTyped`).
  This needs induction over the form, which is done with sets, since the library's
  induction theorems take operators: a set of numbers that holds 0 and, with each,
  the next holds them all, because its complement would have a least element
  (`SetInduction`). So the recursive functions of `FormFields` are shown to have
  the values they are written with (`TurnsDefined`, `MeaningsDefined`,
  `FoundDefined`); the search to end at the first field that has the name, since
  no field starts between where it stands and where it skips to
  (`FirstFieldIsFound`); and the loop that decodes in place to lose nothing: after
  every turn what is written and the meaning of what is still to be read make up
  the meaning of the whole, because the loop never overwrites what it
  has yet to read (`Decodes`).
* `RelaySetupProofs`: the owner ends with both relays apart, whatever was typed for
  either address on the way. The relay for OPEN is off the bus until the end
  (`Alone`), so what acknowledges an address is the other one; `ok` therefore says
  that it is at the answer's "to", wherever that is (`Evidence`), and the owner goes
  on only when that, or the one address of a scan, is the wanted one.

TLC only: the liveness properties (`FlagReleased`, `TrialEnds`, `EndsOnline`,
`LedHeals`, `HeldLeavesStation`, `MutexReturned`, `SetupEnds`), which are out of the
prover's reach, and the two counterexamples. Every other property that a run
checks is the statement of a theorem.

## 5. Not modelled

* The HTML and JSON of the pages, log formatting, mDNS, the labels of the scan:
  output that no other part reads.
* TLS, sockets and the HTTP library: `Ota` has their outcomes.
* The LED's patterns and the GPIO set-up: which state the LED shows is in `Startup`.
* The bearer check, which compares a header with a token, and the captive
  portal's redirects: stateless.
* A call of `esp_wifi_connect` that fails by itself (`wifi.c:47` ignores its result):
  `Startup` has the driver report the end of every attempt.
* The URL and the version string that a check caches: that a second check may
  rewrite the URL under a download needs a release published between two
  overlapping checks.
* The host tests, which were read as documentation.
