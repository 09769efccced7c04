# Verification of routeptr

routeptr turns a pointer to a compass direction. A stepper motor turns the
pointer, a magnetic sensor on it says where it points, and clients on TCP are
meant to send commands: go to an azimuth, calibrate, switch the motor on or off.
This directory holds TLA+ modules that model the program (the repository's
`src/` and `include/`, the vendored libev included), configurations that check
them with TLC, and proofs that TLAPS checks.

## The system

One process, two or three threads. The main thread runs the libev loop: timers
of the output pins, the poll of a move, the sockets, and the error event. Every
handler of the loop runs to its end before the next begins. The compass thread
reads the sensor every 10 ms. The listener thread of the error pin waits in
`epoll_wait`. The threads share plain variables of `CompassDrv`, the mutex of
`Calibration`, and eventfds.

| Part | State | Operations | Talks to |
|---|---|---|---|
| Pointer driver, `StepDrv` | `busy`, `onCalibration`, `clkWise`, `destAzimuth`, `userSpeed`, `mstate`, `calibStep`, `calibPoints`, `errPause`, two timers | `move`, `stop`, `startCalibration`, `control`; callbacks `onTimerCb`, `onStepCb`, `errorHandler`, `errPauseReset` | calls its three pins, `CompassDrv::calib`/`azimuth`, `Calibration::set`/`save`; called back by the step pin and the timers; raises events |
| Output pin, `GpioOut` | `busy`, `pulseCnt`, `prevVal`, one timer, the level | `runPWM`, `runPulses`, `stopPWM`, `setOnTime`, `setVal`; callbacks `runPWMCb`, `setOnTimeCb` | calls `pulsesEnd` at the end of a series |
| Command routing and start-up, `RoutePrtDrv`, `main` | the parts it makes | the constructor, `onUserCmd`, `onStepperEvent` | between `UserControl` and `StepDrv` |
| Compass, `CompassDrv` | `m_azimuth`, `m_calib`, six filters, axes; the thread's own copy of the table and `calibTrigger` | `loop`, `calib`, `azimuth`, `mapping`, `filtering`, `range_map` | reads sensor and `Calibration` |
| Sensors, `MSensor` and its four drivers, `I2c` | registers of the device, the buffer of axes | `init`, `measurement`, `read`, `write` | the bus |
| Filter, `Filter` | the window, the smoothed value | `feed`, `value` | |
| Calibration table, `Calibration` | `points`, `values`, mutex, file | `set`, `get`, `save`, `read` | file system |
| Error path, `GpioInListner`, `Event` | list of pins, epoll set, eventfds | `insert`, `remove`, `listen` | raises `errEvent`, handled by `StepDrv::errorHandler` |
| Control server, `CtlServer`, `CtlClient`, `TcpCtlServer` | list of clients, descriptor and `m_deleteLater` of each | `acceptCb`, `add`, `cleanUp`, `watcherCb`, `sendAll`, `deleteLater` | `UserControl`, libev |
| Protocol, `UserControl` | none | `onCtlReadyMsgCb`, `split` | a stub in this version: it splits a message into words and never makes a command of them; every notice is an empty function |
| Loop wrapper, `LibEvMain` | a mutex, an eventfd, `m_running` | `start`, `pause`, `resume`, `loop` | libev |
| Configuration, `IniFileReader` | the map of settings | `parse` | the constructor of `RoutePrtDrv` |
| libev, vendored | heap of timers, lists by descriptor, arrays of the other watchers, queue of pending ones | `ev_run`, `ev_*_start`, `ev_*_stop`, ... | everything above that has a watcher |

Because `UserControl` never dispatches (the type of every command is `No`,
`usercontrol.cpp:59`), no client of this version can reach `onUserCmd`. The
interface above `StepDrv` is complete all the same, and the models start there: a
command is any call of `onUserCmd`, at any moment the loop can make it, and a
notice is what `onStepperEvent` and `onUserCmd` pass to `UserControl`.

### What is hard here, and what makes each part correct

* **StepDrv** mixes two jobs, a move and a calibration, on one pin, one flag
  `busy` and two timers. Any command may come between any two callbacks. It is
  correct when the motor turns only for a job, a busy driver has a callback to come,
  a job's speed and direction are its own, points are raw and of one sweep, every
  start is followed by its end, a move ends near its target and a calibration
  ends at all.
* **GpioOut** shares one timer and one counter between an endless PWM, a counted
  series and a timed level. It is correct when flag and timer agree, a series is
  as long as asked for and nothing else ever meets the end test of the counter.
* **CompassDrv** and **Calibration** are correct when the thread uses the newest
  table, whole, points are measured at rest, and no crash makes a table of two.
* **Error path**: every edge of the pin is noticed, an error after the pause of a
  second is told again, and nobody sleeps on a counter that is gone.
* **LibEvMain**: a pause takes effect, and calling it does not block for ever.
* **Control server**: a client is served until its connection ends, its descriptor
  is closed once and not by another, and no memory of it is used afterwards.
* **libev**: timers are called in the order of expiry and not lost; `poll` is asked
  for what the watchers want; a signal that comes as the loop goes to sleep wakes
  it; indices between watchers, arrays and the queue agree.
* **The small algorithms** agree with what they are for at every boundary.

The list `hazards` of `PROJECT.json` names each of these at its line, with the
properties that cover it, or a note that says why none does.

## The modules

| Module | What it is |
|---|---|
| `Azimuth` | the arithmetic of a move: fold, distance, choice of direction, period |
| `AzimuthCheck` | every request through that arithmetic, compared with the circle |
| `Pwm` | a pin as a record, a method of `GpioOut` as an operator on it |
| `GpioOut` | one pin under any order of calls and callbacks |
| `StepDrv` | the driver with its step pin, its poll, its calibration, the commands and the notices |
| `Jobs` | what the driver promises: at most one job, and what a job is |
| `StepDrvJobs` | the refinement mapping from `StepDrv` to `Jobs` |
| `Rotor` | `StepDrv` with motor, pointer and a compass that lags behind |
| `Compass` | the compass thread and the loop's thread around a calibration and at start-up |
| `CompassFile` | `Compass` with the calibration file, written line by line, and crashes |
| `LoopThreads` | listener, loop and a thread that pauses it, talking through eventfds |
| `CtlServer` | server and clients, their descriptors, and libev's lists of their watchers |
| `TimerHeap` | libev's heap of timers as a value |
| `Libev` | an iteration of the loop: heap, queue, timers, io watchers, callbacks that take time |
| `TimerPromise` | what the loop promises of timers, without heap, queue or indices |
| `LibevFds` | io watchers down to the array for `poll()`, with descriptors closed and used again |
| `LibevSignals` | signals, children and asyncs against a loop that goes to sleep |
| `LibevHooks` | the watchers kept in arrays, and the size of the arrays |
| `Periodics` | periodics, timers that repeat, jumps of the clock |
| `Filter`, `Correction`, `Sensor`, `SensorSetup`, `IniFile`, `StartUp`, `UserControl` | pure algorithms, one module per source file |
| `Lists` | lists and what is left of them when some elements are passed over; a map with one key more |
| `Algorithms` | each pure algorithm against what it is for |
| `MC...` | values of the constants for TLC |
| `..._proofs` | the theorems of the module they are named after, with their proofs; `StepDrv_proofs` holds those of `StepDrvJobs`, `Rotor` and `GpioOut` too, `LibevFds_proofs` those of `LoopThreads` |

`Rotor` extends `StepDrv`, which is made of `Pwm` and `Azimuth`; `StepDrvJobs`
instantiates `Jobs`; `CompassFile` extends `Compass`; `Libev` works on a heap of
`TimerHeap` and instantiates `TimerPromise`; `Periodics` works on the same heap;
`Algorithms` extends the pure modules.

### How state and actions correspond to the code

The `map` of `PROJECT.json` gives the lines of every definition. What a reader
should know beforehand, module by module:

`Pwm` keeps of a pin the fields `busy`, `pulseCnt`, `prevVal`, the period the
two halves `dutyTime` and `pauseTime` come from, and the callback its timer is
armed with. A one-shot timer is disarmed before its callback runs; `stop()`
withdraws a callback that is already pending; `set` and `start` of an armed timer
arm it afresh: the contract that `Libev` and `TimerPromise` check. `LastTick` is the
test `runPWMCb` makes after its decrement. Writing the level to sysfs is left out,
and so is time: an armed timer may fire at any moment.

`StepDrv` has one action per handler, the whole handler: `Set` (`move(speed)`
and the `move` it calls, with its early return `IgnoreMove`), `Calib`
(`startCalibration`), `Ctl` (`control`), one action per outcome of `onTimerCb`
(`PollNear`, `PollSlowDown`, `PollArrived`, `PollStays`), `StepTick` and
`SeriesEnd` for `runPWMCb`, `TakePoint` and `EndCalibration` for the rest of
`onStepCb`, `Heading` for the line of the compass thread that stores
`m_azimuth`. The one handler that is not a single step is `onStepCb`: it sleeps
2.5 s in the middle, on the loop's thread, so `loopPc` is "pause" there and only
the compass goes on. `shown` is what was last told to the clients. A heading is a
whole number of degrees (`currentPos` truncates), `float` periods are integer
nanoseconds, points are stored without the abscissa `i*calibStep`, their index.

`Rotor` adds what the code controls and cannot see. On a rising edge of the step
pin, with the enable pin set, the pointer turns by `Unit` degrees in the
direction of the direction pin. The heading follows it as the thread averages and
smooths: every new one lies somewhere between the one before and the pointer
(`RHeading`), in whole motor steps. `MaxUnread` bounds how many steps it is behind,
`MaxUnpolled` the steps between two polls. With the configuration of the repository (11
readings 10 ms apart, `fcoef` 0.3) a heading is behind by half a window, the 2.3 windows
the smoothing keeps, and up to one more until the next is stored: 0.4 s, or 21 degrees at
the highest speed and two in the last approach. Left out is that the mean of a window in
which the motor turned back may lie beyond the pointer. A calibration does not enable the
motor; `CalibDisabled` says whether users calibrate with it switched off.

`Compass`: the loop's thread (`lpc`) goes through start-up (`Configure`,
`ReadTable`, `Enable`) and then through moves and calibrations; the compass thread
(`tpc`) goes round `Sample`, `Value`, `CheckOff` or `CheckOn`, `Get`, `Correct`,
`Store`, each a step between two accesses to the filters' settings, `m_calib`, the table
or `m_azimuth`. `set` and `get` are whole, being under the mutex. A heading is what it
comes from: the table that corrected it (tables are numbered) and, for every kind of
reading (where the pointer stood, and whether axes and filters were configured yet), how
many windows ago one was averaged. `Value` is `Filter::value`: the window just filled has
age 0, and what the filters kept (`kept`, their `val`) becomes one window older, or is
dropped where the test for the first value holds. Since every window leaves `1 - fcoef` of what was
kept, all readings of age n or more together make up at most `(1 - fcoef)^n` of what a
heading is computed from; ages from `Windows` on are one. Time enters in one place: the
sleep of 2.5 s ends only when `Windows` windows begun in it have been stored (`Rested`). In
the configuration of the repository a window takes 11 readings at least 10 ms apart, so
that there are about twenty in a sleep, and less than a thousandth of a point is from
before it.

`CompassFile` adds `save()`: `Open` truncates, `WriteLine` writes and flushes a
line, `Close` ends it. `Kill` and `PowerOff` come anywhere; the program starts again
with what is left, where `read()` takes missing values for 0. A last line cut in the
middle (read as a shorter number) is left out.

`LoopThreads`: an eventfd is 0, 1 with room for more, or full, because
`Event::raise` writes 8 bytes from a buffer of 1 and so adds whatever follows it on
the stack (`event.h:29`, `heavy` says whether that is much). The
listener has one step per system call; `interrupted` is an `epoll_wait` that returns
-1 and leaves the last event in place. The controller is a thread that calls
`pause` and `resume`; the program itself has none.

`CtlServer`: the handlers of the server and the clients, whole, on top of libev's
lists (`heads`), the descriptors they have changed (`changed`) and those `poll()` is
asked about (`polled`). Accept takes any free descriptor. Pending watchers are called
in any order. A peer connects, sends and closes at any time.

`TimerHeap`: `upheap` and `downheap` move a timer along a path of slots. `Rise` and
`Sink` say where it goes on to from each slot, `Path` follows them, and `Moved` is
what their loops leave behind.

`Libev`: an iteration (`Iterate`: poll, `time_update`, `timers_reify`, io events),
then the queue is emptied from its end (`Invoke`, `Return`); in a callback the
program sets and stops timers and spends time (`Work`). Time is counted in
milliseconds relative to `mn_now`. All watchers have priority 0, as in the program.

`LibevFds`: the lists by descriptor, `fdchanges`, the array for `poll()` with its
index by descriptor. `poll()` may fail with `ENOMEM`. `EBADF` is not modelled: `poll`
never returns it on Linux, a closed descriptor shows as `POLLNVAL`, and assertions
are compiled in (there is no `NDEBUG`), so the program would end there.

`LibevSignals`: one step is one access to what a handler and the loop share
(`pipe_write_wanted`, `pipe_write_skipped`, `sig_pending`, `async_pending`, the eventfd).
The fences of the code are what makes such steps a fair picture. Children stop
and end, and one SIGCHLD may stand for several.

`Algorithms`: a subject is one input of one algorithm; the properties compute on it
and compare. A float is a whole number and a quotient is rounded down; characters
are members of a small alphabet; a heap is any well-formed one, its timers being
numbered by slot.

## The runs

| Run | Shows | Instance |
|---|---|---|
| `Algorithms` | `FoldIsAzimuth` and `WayLeadsThere`: every request leads the shorter way to the azimuth asked for. `CorrectionKeepsArcs`: a heading between two measured values is corrected to one between their points. `FilterStaysBetween`. `MeasurementIsWhole`: what is fetched is one sample or the one before, and the scales fit the ranges the registers are set to. `HeapIsKept`, `PeriodicsComeNext`, `ArraysAreKept`: libev's heap, periodics and arrays of watchers. `InputIsRead`: the configuration file, the start with anything wrong in it, and a client's message | azimuths of two turns each way and the ends of `int`; all tables of 4 of 7 values, 74 headings; 4 readings; heaps up to 10 slots, the fewest in which a timer rises when another leaves; 5 periodics in every order at 5 clocks; five watchers, three of a kind beside an idle and a cleanup watcher or a mix of fork, prepare and check, in every order, one of them fed an event; any transfer failing, and any byte in the registers before; files of four lines; a start with up to two wrong settings; messages up to 7 characters |
| `GpioOutPin` | flag and timer agree, a series is complete when it ends, and ends | series of 1, 2, 3 and 8 pulses; six values of the uninitialized `pulseCnt` |
| `StepDrvApart` | if nobody calibrates during a move: `InStep` (no motor without a job and no job without a motor, clients know, speed and direction are the job's, points are raw), the refinement `ImplementsJobs`, `CalibrationEnds` | 3 headings, 3 targets (one folded, both ends of the circle), 3 speeds (below the slow one, above it, above the maximum), 3 points, 2 pulses |
| `RotorMoves` | with the pointer: a move stops within the window, the lag of the heading and what is turned between two polls (`StopsAtTarget`), and does stop (`MovesEnd`); points of a calibration are one calibration step apart, or one motor step less (`PointsAlmostEven`) | motor of 24 degrees a step, a target of 552 (folded), 2 speeds, 3 points, 5 pulses, 1 step between polls, headings up to 2 steps behind |
| `CompassThreads` | the thread's copy of the table is the one in force or about to be replaced (`CacheIsFresh`); points are measured at rest, raw, with the configured axes, but for what the smoothing keeps of windows that are `Windows` or more old (`PointsMeasured`); no table is of two calibrations (`TableIsOfOneCalibration`), and the file holds the table in use but while `save` runs (`KilledLosesNothing`); a new table comes to be used (`NewTableIsUsed`) | 2 positions, windows of 2 readings, 2 windows in a sleep, 3 points, 3 tables; kills and power cuts anywhere |
| `LoopThreads` | nobody sleeps in `Event::end`; every edge is reported or falls in the pause after a report, and the pause ends; `pause` returns and takes effect | 2 edges, 3 pauses, light and heavy counters, `epoll_wait` interrupted |
| `CtlClients` | live clients and open descriptors belong to each other; only clients whose peer has closed are dropped; libev has no watcher of a dead client; what is sent is read | 3 connections, 2 descriptors, 1 message each |
| `LibevLoop` | heap, queue and their indices agree (`Verify`, what `ev_verify` asserts); no timer is due when an io callback runs; `TimerPromise` is implemented; timers are called | 3 timers, 2 of them stopped, an io watcher, delays of 1 and 2 ms, lag and lateness of 1 ms |
| `LibevFds` | `poll` is asked for what the watchers want and nothing else; no watcher is dropped without being told | 2 watchers (symmetric), 3 descriptors |
| `LibevSignals` | the loop never sleeps on a mark; a watcher of all children hears of each; no signal, async or child is forgotten | 2 children with 2 watchers, or a signal and an async with 2 threads; 2 signals |
| `StepDrvRunaway`, `RotorEven` | the findings below | |

The bounds are enough because the code has no quantity larger than what they
exercise. The poll compares the distance with 5, `slowPos`, 90 and 180 only, and
the headings put it in the ranges, in both directions. A calibration of 3 points has
a first, a last and one in between, and may be restarted. With two windows in a sleep a
point has a last window, one smoothed into it that must be at rest too, and older ones. A series of 2 pulses has a
tick that is neither first nor last; `GpioOutPin` runs longer ones. Two descriptors
for three connections make one be used again and leave one client without. Three
timers make a root, a leaf and one in between for the queue; a deeper heap is in
`Algorithms`. With two watchers and three descriptors the array for `poll()` loses its
first entry and its last. Two children are the fewest for one `rpid` to be overwritten
by the other. A counter of an eventfd has three values because the code tells apart
only 0, more and full.

Deadlock is checked but in `Algorithms` (computes one step and stops), `CtlClients`
(all peers may have hung up and the loop sleeps) and `LoopThreads` (everybody may wait
for the next edge or pause).

Every property has a mutant, a plausible slip in one mapped definition, under which
the run finds it violated; the mutants stand beside what they mutate.

### Fairness

* `StepDrv` assumes weak fairness of the step pin's timer, of the poll and of the
  return from the sleep, each as one action. libev calls every expired timer in each
  iteration, no handler blocks but for the sleeps, and a sleep ends. `Libev` shows
  the first part of it (`TimersAreCalled`). `Rotor` assumes the same and that the
  compass thread reads again and again: it does so unconditionally.
* `Compass` assumes that its thread goes on. `GpioOut` that an armed timer expires.
* `LoopThreads` assumes that the loop and the listener go on when they can, the
  timer of the pause expires, and a thread in `pause` is scheduled.
* `CtlServer` and `LibevSignals` assume that the loop goes on, and the latter that
  a handler that began runs to its end, an event is delivered, and `poll` returns when
  the eventfd is readable.
* `Libev` assumes that callbacks return and that time passes: a loop that polls for
  ever sees its armed timers come nearer.

Nothing is assumed of users, peers or edges: properties of progress say "or commands
keep coming", "or the peer has hung up", "or the loop stands still".

### Findings

Each is a run that expects a violation; `PROJECT.json` quotes the line of the
repository it contradicts.

1. `StepDrvRunaway`: `startCalibration` during a move leaves the poll and the
   automaton of the move alive. After the calibration cleared `busy`, the poll
   starts the slow signal again and `stop()` does nothing: the motor turns for good.
   The same leftover poll may instead stop the pulses of the calibration
   (`stepdrv.cpp:178`), which then never ends.
2. `RotorEven`: `runPulses(n)` writes 2n - 1 edges, so series have n and n - 1
   rising edges in turn, and every other calibration step is a motor step short.

### Noticed while modelling

What the code does in these cases is in the models (or left out, where it says so);
no run is made of them.

* The lowest `int` as an azimuth is not folded, `abs` of it being undefined.
* A refused `runPulses` sets the counter and so ends the running signal
  (`gpiodrv.cpp:114`, against `gpiodrv.h:65`).
* A heading of exactly 0 between values on both sides of north is not corrected;
  equal neighbouring values divide 0 by 0 (`compassdrv.cpp:34`).
* Negative axes are never smoothed (`filter.cpp:16`: the test for the first value
  holds for every value below 1).
* The accelerometer of the lsm303dlhc is read without block data update and may mix
  two samples in one axis (`lsm303dlhc.cpp:236`); writes of sensor registers that fail
  are ignored.
* `I2c::write` advances its index twice per byte (`i2c.cpp:95`): harmless for single bytes,
  which is all the drivers write. `GpioIn::getVal` takes '0' for true when it is not
  inverse (`gpiodrv.cpp:209`), and `remove()` takes descriptor 0 out of epoll
  (`gpiodrv.cpp:259`): both are called by nobody. A `timespec` times a fraction loses what is
  left of its whole seconds (`evwrapper.cpp:22`): one second halved is none.
* A line of blanks in the configuration is read behind its end (`inifilereader.cpp:42`),
  one without "=" sets a key to nothing. A sensor with an unknown name is taken for a
  Qmc5883l. A spoilt calibration file is reported as an error of the section [stepper].
* `set()` of a timer that is due and inactive leaves its call in the queue; the order
  of `ev_run` keeps commands from doing so (`TimersBeforeIo`). Timers set after a sleep
  in the same callback count from a time before it.
* A third `pause()` in a row may block for ever with the mutex held (`event.h:29`).
  A listener interrupted right after its first event sleeps for ever in
  `evUpdate.end()` (`gpiodrv.cpp:302`). An error in the pause of a second is swallowed, and one
  that lasts, without a new edge, is told once.
* Until its filters are full the compass says 0, and a move asked for then is steered by it.

## The theorems

All hold for every value of the constants under the assumptions named in the modules:
`GearAssumption` (divider and step are positive), `StepDrvAssumption` (headings in
0..360 with 0 among them, targets any `int` but the lowest, integer speeds, 1 to 359
points, at least one pulse), `CompassAssumption` (a position, any number of readings, at
least one window in a sleep, one point and one table), `SeriesAssumption` (series of at
least one pulse, any integers left in `pulseCnt`), `RotorAssumption` (a motor step
divides the circle; at least one step between polls and of lag), `HeapAssumption` (a branching factor of at least
2), `LibevAssumption` (any watchers; delays with a longest among them, or `poll` would not
know how long to wait), `FdsAssumption` (descriptors are numbers), `SignalsAssumption` (kinds of
watchers are distinct and finitely many), `CtlServerAssumption` (any number of connections and
descriptors, the server's watcher and -1 not among them), `LoopThreadsAssumption` (any
number of edges and pauses), `AlgorithmsAssumption` (requests are any `int` but the lowest,
readings any whole numbers, the timers of a heap are numbered, tables go round the circle once,
there is a periodic, of whole times and an interval that is not negative, and the watchers are
finitely many, of known kinds), `InputAssumption` (a word is not empty and has no blank, bracket, `=`, `#` or
`;`; noise says nothing; messages are texts of the characters; a configuration names pins that
exist, and an error pin that is no other's).

* `Algorithms_proofs`, where the invariant is that the results of `AzimuthCheck` are those
  of its operators and every subject is an input of its algorithm (`SubjectsHold`).
  `FoldCorrect`, `WayCorrect`: arithmetic. `HeapIsKeptAlways`: from the lemmas of
  `TimerHeap_proofs`, for any timers and branching factor; a timer that is put off or comes
  round again upsets one slot only. `FilterIsBetween`, for any readings: what a filter
  has in its window, and what it smoothed unless that is the zero it began with, is
  between readings pushed before (`Sifts`). The filter is folded over the readings
  and a mean sums up parts of a window, both by recursion: `RecursionEnds`
  shows, once and by `Induction`, that what is defined by recursion along a rank exists.
  `CorrectionIsKept`, for any number of points: the range of a heading maps it
  between the points (`RangeMapIs`); an earlier range takes it only when the heading is the
  end of the range before its own, and both give the point. It assumes a table whose values go
  round the circle once (`GoesRound`), as those of a pointer turned once are.
  `PeriodicsAreDue`, for any periodics and any jump of the clock. What `periodics_reify` has
  done after some rounds (`ReifiedPart`): who was called was past, is called once, and
  is due after now or stopped; the others stay. Its loop ends either because the first of the
  heap is not past, and so is none, or because as many have been called as there are,
  and so all. After a jump `reheap` puts one slot after the other in order (`NextRises`).
  `ArraysAreKeptAlways`, for any watchers of any kinds. The invariant `HoldsHooks` says that
  every active watcher is in the array of its kind at its index, that nobody else is, and that
  the counts are right; starting and stopping keep it, so it is there after the watchers have been started in
  whatever order. Who is called in the round that follows is read off the arrays; and the size
  `array_nextsize` finds is enough (`DoublesEnough`) and fills its pages (`PagesAreFilled`).
  `InputIsReadAlways`, for any words, noise, characters, messages and configurations. What
  `parse` makes of a line is said by what a line is made of: a margin, a stretch without the
  delimiter, the delimiter, and the rest (`Says`, `Stretches`); passing over blanks
  distributes over putting texts behind each other (`WithoutConcat`), and a file is folded line by line. `split`
  is a recursion along what is left of the message, and every rest is split well. The
  constructor goes section by section, the pins being apart (`StartsAre`).
  `MeasurementIsWholeAlways`: the bytes of an axis stand next to each other in every device
  (`AxesAreRead`), and `init` writes no register twice, so that each holds its byte if its transfer
  did not fail (`WrittenIs`). Its inputs are finitely many, and the run goes through all of them too.
* `StepDrv_proofs`, for commands at any time. `TypeInv` is type correctness with
  `PointsBounded` and "a pause is a calibration's": the first point can be
  overwritten at the end only because the padding is there. `LastPointMeans` shows
  that the test for 359 degrees is a test for the number of points, which is where
  the bound of 359 points comes from. `DrvInv` conjoins the other properties with
  `PauseIsStill`. None is inductive alone: a series is a calibration's because a pin
  restarted by `move` is restarted uncounted, `stop()` in `move` may leave a running pin
  behind if `busy` was cleared, and then only the invariant on counts says the pin is
  still endless. `TypeCorrect`, `PointsAreBounded`, `PollIsArmed`, `PinIsInOrder`,
  `SeriesIsCalibrations`, `PointsAreRaw`, `SweepIsWhole`.
* Also there, for users who do not calibrate during a move
  (`~CalibWhileMoving`, needed by finding 1). `JobInv` adds "busy is the flag of
  exactly the two jobs" to `OneJob`, `NoRunaway`, `BusyIsAtWork`, `ClientsKnow` and
  `SpeedIsTheJobs`, and is inductive with the two invariants before. A theorem for each
  of them, `StaysInStep` for the property the run checks, and `DriverImplementsJobs`:
  the first state and every handler map to `Jobs`.
* Also there, the pointer (`Rotor`), under `~CalibWhileMoving`. `StopsNearTarget`: `Aimed` says
  that the heading is behind by no more than `unread` motor steps, whatever part of them
  each new one makes up (`BehindLags`), and that in the last approach the way left
  shrinks with every step and, though it may have become negative since the last poll,
  stays where the poll can tell a target passed from one ahead. It assumes `SlackIsSmall`, that the lag of the heading and the steps between two
  polls turn the pointer by a quarter of the circle at most (in the code at 50 degrees a second
  about 21 degrees, for 0.4 s of averaging and smoothing, and a quarter of one for the 5 ms
  of a poll). `PointsAreAlmostEven`: `EvenInv` says how many edges of a
  series rose since the last point (`SinceLast`) by its counter and the level of the pin. It
  assumes that nobody calibrates with the motor off (`~CalibDisabled`) and that a
  calibration step is less than a turn (it is 45 degrees).
* Also there, one pin by itself (`GpioOut`). `SeriesInv` conjoins the types and the
  properties with `Alternation`: the level says whether the last edge rose, so rises
  and falls differ by one at most. Without it the edges of a finished series could all
  be rises. `BusyMeansArmed`, `SeriesAreComplete`, `CounterIsRight`, `PwmIsEndless`.
* `Compass_proofs`. `CacheInv` adds to `CacheIsFresh` why it survives `Enable`: at start-up
  and after the last point the trigger is set and the thread is not on its way to
  `get`, which it owes to the windows of the sleep, found with the correction off.
  `MeasuredInv` says of a sleep that its windows hold nothing but where the pointer
  stands, and that after n of them everything else is at least n windows old in what the
  filters keep, in the heading made of it and at last in `m_azimuth` (`OldElsewhere`); so a
  point filed when `Windows` are stored is measured (`SleepMeasures`). `FileInv` says that
  the file is always a number of lines of one calibration, and so the table read from
  it has its values first and zeros after them. `CacheStaysFresh`, `PointsAreMeasured`,
  `RestartsAreSafe` (both across crashes), `TablesAreNotMixed`, `TableSurvives`.
* `CtlServer_proofs`. `Inv` adds to the properties who may be where: a client in the
  queue is live and has something to read or an end to notice (`CalledForSomething`),
  and what `poll` is asked about, less what is in `changed`, is open (`OpenArePolled`); a
  descriptor can be used again only by way of both. `ClientsKeepDescriptors`,
  `NoDeadWatcher`, `DroppedHaveHungUp`, `NoClosedIsPolled`, `MessagesReachTheirClient`.
* `TimerHeap_proofs`: lemmas on the heap, for any number of timers and any branching
  factor of 2 or more. `IsHeap` says of a heap that its slots and `active` are inverse
  to each other and that no timer is before its parent. `EnterKeeps` and `LeaveKeeps`:
  `ev_timer_start` and `ev_timer_stop` leave such a heap and the other timers
  alone. A path is defined by recursion; what is said of it is shown by
  `Induction`, which instantiates the library's fact that `<` is well-founded with a set
  of numbers, where its induction theorems would need an operator. `RootIsFirst`: the
  timer in slot 1 is due first.
* `Libev_proofs`. `Inv` conjoins `IsHeap`, the queue and `pending` being inverse to each
  other (`Linked`), and `TimersBeforeIo` with what it needs: every timer of the queue is
  nearer its end than any io watcher (`TimersLast`), which only `Iterate` could break
  and only by the order of the two feeds. `LoopVerifies`, `TimersComeBeforeIo`, and
  `LoopKeepsPromise`: the loop implements `TimerPromise`. Its longest step is an
  iteration: what `timers_reify` has taken from the heap after each round is a run of the
  promise's expiries, earliest first (`Reified`), and read from its end the queue holds
  just these, since io watchers drop out and the order is reversed twice.
* `LibevFds_proofs`. `FdsInv` says that the array for `poll()`, its index by descriptor and the
  events last asked for agree (`Indexed`), what has changed since is in `fdchanges`
  (`Noted`), and a watcher dropped from a list has an error pending (`Told`). `PollAsksWhatIsWanted`, `KilledAreTold`.
  And of `LoopThreads`, `EndFindsItsCount`: every counter is within its range, and a callback
  about to be called has its count, which nobody else takes.
* `LibevSignals_proofs`. `SleepInv` says that a mark has its flag, or a handler about to set it, or
  is among those the loop has still to look at (`MarksAreFlagged`); that a flag has
  written the eventfd, or left that to the loop, or the loop has still to look at it
  (`FlagsAreWritten`); and who left it to a loop that polls looks again. `NeverSleepsOnSignals`, `ReapedChildrenAreTold`.

Only model-checked: all liveness (`SeriesEnds`, `CalibrationEnds`, `MovesEnd`,
`NewTableIsUsed`, `EdgesAreReported`, `PauseReturns`, `PauseTakesEffect`, `MessagesAreRead`,
`TimersAreCalled`, `NothingIsForgotten`), which is beyond the provers. Every invariant and
every action property that the passing runs check is also a theorem.

## Not modelled, and why

* The tilt compensation of the compass (`compassdrv.cpp:108-121`), the scaling of axes
  and the cutting of accelerations: formulas in `float`, without control.
* The bus itself, the sysfs writes and the sockets: input and output, of which the
  models have the outcomes. `LinuxThread`, a wrapper around pthreads.
* What nobody calls or reaches: `GpioInListner::remove`, `getEventsList` and `evgpios` (which
  the listener fills and nobody reads), `LibEvMain::start`, and the destructors behind
  `RoutePrtDrv::loop`, which does not return. (Those of `CtlServer` are modelled, as `Shutdown`.)
* Of libev: stat and embed watchers, `ev_once`, a second loop, `ev_loop_destroy`, rearming
  after a fork, signalfd and timerfd, allocation of memory, priorities other than 0, and the
  backends that are not compiled (`EV_USE_EPOLL` is 0; only poll is built). libev makes
  8,280 of the 11,953 lines of the implementation, and about a quarter of it is modelled.
* Of a crash in `save`: a last line cut in the middle.
