# useriam_fingerprint_auth: TLA+ models, checks and proofs

This directory holds a formal model of the fingerprint authentication service:
TLA+ modules, the TLC configurations that check small instances of them, and
proofs, checked by TLAPS, that the most important properties hold for every
value of the constants. Paths such as `services/src/...` are relative to the
root of the repository's sources (`src/` in PROJECT.json).

PROJECT.json lists, for each definition, the lines of code it models ("map"),
the runs, for each property a mutation of the model that it detects, the
findings, the hazards and the theorems.

## 1. The system

The service is a process between three parties: the user authentication
*framework* above it, the *HDI host* with the fingerprint driver below it, and
the display, power and event services beside it.

```
              user authentication framework
      GetExecutorList | OnHdiDisconnect | Enroll, Authenticate, ...   ^ OnResult, OnTip
                      v                 v                             |
   FingerprintAuthDriverHdi ---> FingerprintAllInOneExecutorHdi   FingerprintAuthExecutor-
                      |                 ^ | OnHdiDisconnect       CallbackHdi   ^
                      v    OnSaCommands | v                                     |
                HDI host --------------> SaCommandManager            HDI host --+
                                            | ProcessSaCommand, OnHdiDisconnect
                                            v
                              SensorIlluminationManager --- ServiceExManager (dlopen)
                                            | Enable, TurnOn, TurnOff, Disable
                                            v
     timer thread --- OnDisplayTimeOut --> SensorIlluminationTask
                                            | Subscribe, Unsubscribe, GetScreenOn
     common event service --- events -----> ScreenStateMonitor <--- power manager
```

| Component | State | Operations | What is hard |
|---|---|---|---|
| `ScreenStateMonitor` (services_ex) | `isSubscribing_`, `isOn_`, one mutex | `Subscribe`, `Unsubscribe`, `SetScreenOn` (event callback), `GetScreenOn` | events race the question to the power manager; stray events; failing calls; one object shared by all tasks |
| `SensorIlluminationTask` (services_ex) | surface node, `isIlluminationOn_`, `brightness_`, `canvasParam_`, timer id, recursive mutex | constructor, destructor, `Enable-`, `Disable-`, `TurnOn-`, `TurnOffSensorIllumination`, `OnDisplayTimeOut` | the timer callback holds a weak reference and no mutex; it may come late, and it may destroy the task; the arithmetic of what is drawn |
| `SensorIlluminationManager` | `executorInProc_`, `taskInProc_`, mutex | the four SA commands, `OnHdiDisconnect` | two references that must go together; partial failure of Enable; a driver that dies holding the lease |
| `ServiceExManager` | `isOpened_`, `handle_` | `Acquire`, `Release`, `GetSensorIlluminationTask` | the library is loaded once and serves all tasks |
| `SaCommandManager` | `processors_`, `commandId2Processors_`, shared mutex | register, unregister, `ProcessSaCommands`, `OnHdiDisconnect` | batches run side by side; partial failure of a batch |
| `FingerprintAuthDriverHdi` | `fingerprintAuthExecutorList_`, mutex | `GetExecutorList`, `OnHdiDisconnect` | the host is asked outside the mutex; hosts die and come back |
| `FingerprintAllInOneExecutorHdi` | the proxy | 11 operations of the framework, `OnSaCommands`, `OnHdiDisconnect`, conversions | lost answers, refused halves of an operation, boundaries of code ranges |
| `FingerprintAuthExecutorCallbackHdi` | framework callback, kind | `OnResult`, `OnTip`, `OnMessage`, `DoVibrator` | no lock: events on several threads overtake each other; results before the call has returned; a vibrator that fails on the thread that has the result |
| `FingerprintAuthService`, interface adapter, memory guard | none to speak of | start-up, one proxy call, a cache flush | static initialisation |

What makes them correct, in a sentence each:

* *Monitor*: subscribed, it misses no change of the screen, and catches up.
* *Task and manager*: light only for the driver that has the illumination,
  always with a timeout pending; it goes dark by itself; every way of ending an
  illumination releases the task and the lease, and lets go of the subscription
  as far as the event service allows.
* *Dispatcher*: a batch is processed against one table of processors.
* *Driver*: whoever has the illumination is told when its host dies, and loses
  it.
* *Canvas*: the spot lies on the display, on a background as opaque as the
  brightness of the display demands.
* *All of them*: the locks they nest never make threads wait in a circle.
* *Executor and callback*: SUCCESS means that the host did it; the host is
  asked what the framework asked; each event of the host is heard once, as what
  it was and never as better news.

## 2. Modules

| Module | Models | Extends |
|---|---|---|
| `ScreenStateMonitor` | monitor, event subscriber; the common event service as environment | |
| `SensorIlluminationTask` | one task per element of `Tasks`, its timer and timer thread | `ScreenStateMonitor` |
| `SensorIlluminationManager` | manager and library loader; the composition of all three | `SensorIlluminationTask` |
| `IlluminationCanvas` | what a task draws: pixels, alpha, colors, in the integers of the code | |
| `IlluminationLease` | abstract: what the illumination promises to drivers; implemented by `SensorIlluminationManager` | |
| `SaCommandManager` | dispatcher on several threads | |
| `FingerprintAuthDriver` | start of the service, driver object, interface adapter, executors as the dispatcher's clients, host generations, the owner of the illumination | `SaCommandManager` |
| `LockOrder` | the mutexes of all components and the threads that nest them | |
| `HdiConversions` | the conversions of codes, as operators | |
| `FingerprintAuthExecutor` | one executor, its calls and callbacks, a host that fails | `HdiConversions` |
| `MC...` | values of the constants for TLC | |
| `...Proofs` | theorems | the module in their name; those of the driver also those of the dispatcher |

### State and actions against the code

*Mutexes.* A method that holds its mutex throughout and calls nothing that can
be observed meanwhile is one action. A method is split where another thread can
see or change something in between, and a variable says that the mutex is held:
`subscribing` (the monitor's mutex between subscribing and asking, lines 167 to
171), `at` (the manager's mutex: "enabling" between construction of the task
and the rest of Enable, "dropping" between the task's own disabling and the
release of the reference), `doing` (the dispatcher's shared mutex),
`disconnecting` (the driver's mutex).

*References.* `taskInProc_` and the timer callback's locked weak reference are
the only owners of a task, apart from Enable's local one. The model makes the
destructor part of the step that drops the last of them (`FailEnable`,
`DropTask`, `TimerDropsTask`), with the whole destructor in it.

*Timers.* `Utils::Timer` is external: a registration is for one expiry;
Unregister does not recall a callback that was dispatched; Shutdown waits for
or suppresses a callback that has not locked its weak reference. The callback
is three steps (`TimerLocksTask`, `TimerTurnsOff`, `TimerDropsTask`).

*Locks.* `LockOrder` looks at nothing but the locks. Every function that takes a
mutex holds it for its whole body, so a thread is a stack of calls, each of
which still has some calls to make. A body is the sequence of locking calls that
the code makes; where the code branches on state that the module does not have
(who has the lease, whether a reference is the last), the module takes all
branches. A destructor is part of the body that drops the reference. The timer's
thread counts as a lock of its own, because `Shutdown` waits for a callback that
runs. Waiting for the shared mutex of the dispatcher takes into account that a
registration that waits for it exclusively may hold back later readers.

*Canvas.* `GetBackgroundAlpha` computes in `float`. Its operands are integers
below 256 and its one quotient is rounded, but for every level from 0 to 255 the
truncated result is that of the integer division in `Between` (all levels were
compared in 32-bit floating point). A negative product is cast to `uint32_t`,
which is undefined below -1: `NegativeCasts` says whether the build saturates
(ARM), wraps (x86) or may do either. `Word` stands for 2^32, which is beyond
TLC's integers. `UseRosenDrawing` selects the build.

*Host and framework.* `connection` is what the framework knows of the host: it
learns of a death only when `OnHdiDisconnect` is called, and by then the next
host may be up. It asks a new host for its executors after that only. The host
or the interface adapter may fail to answer.

*Environment.* Screen changes, event delivery, the host's life and what it says
are unconstrained but for the bounds named in each module. With `CesReliable =
FALSE` calls to the common event service may fail, and events of a left
subscription may still arrive.

*Executor.* A request is one call of the framework. Its stages are idle, sent
(in the call to the host), received (the host has it) and returned. The status
may be an error at any time, also when the host did as it said (a lost answer),
and is a success only if it did. The host keeps the callback and speaks from
another thread. The callback has no lock: each event comes on an IPC thread of
its own, `handling` says where the handler of each is, and handlers of one
callback may overtake each other, so that the framework may hear a tip before a
result that came first and is still at the vibrator. A handler runs to its end
synchronously, as the code does. No text of the repository promises an order,
and none is claimed.

*Subscription.* `isSubscribing_` is what the monitor believes, `subscribed` what
the common event service does. `Unsubscribe` clears the former whatever the
service answers, so the two may differ; `refused` remembers whether the service
refused when it was last asked to let go.

*Numbers.* Results and command ids are numbers where a boundary matters.
`ConvertResult` compares signed: enum `ResultCode` has no fixed underlying
type and all its values fit in an `int`, so it is promoted to `int` and -1 is
an unknown code, not a vendor's. Framework codes are identified with the HDI
codes of the same name. Modes are below 2^31.

## 3. Runs

| Run | Configuration | Shows |
|---|---|---|
| `monitor` | ScreenStateMonitor.cfg | `TracksScreen`, `CatchesUp`, `RecoversFromStray` |
| `illumination` | SensorIlluminationManager.cfg | `TypeOK`, `OnlyOwnersLight`, `LitHasTimeout`, `OwnerHasTask`, `NoSubscriptionLeak`, `ReferencedLives`, `OnlyLateDestructorsUnsubscribe`, `GoesDark`, `TaskReleased`, refinement of the lease (`ImplementsLease`) |
| `canvas` | MCIlluminationCanvas.cfg | `SpotIsOnFrame`, `BackgroundFitsLevel`, `StraightOrSaturated` |
| `dispatch` | MCSaCommandManager.cfg | `BatchSeesOneTable` |
| `lock_order` | LockOrder.cfg | `NoCyclicWait`, `SomebodyGoesOn`, `EveryCallReturns` |
| `driver` | FingerprintAuthDriver.cfg | `OwnerIsListed`, `OnlyLateOwnersRemain`, `DeadOwnerNotForgotten`, `DeadLeaseEnds` |
| `executor` | MCFingerprintAuthExecutor.cfg | `SuccessMeansServed`, `HostGetsWhatWasAsked`, `HeardAsSaid`, `BuzzAnnouncesFailure`, `EventsAreHeard` |
| `late_destructor` | LateDestructor.cfg | violation of `SkipsOnlyIfScreenOff` |
| `cached_brightness` | CachedBrightness.cfg | violation of `DrawnForBrightness` |
| `interpolation` | Interpolation.cfg | violation of `InterpolatesLinearly` |
| `late_enable` | LateEnable.cfg | violation of `RefusedOnlyForUser` |
| `not_supported` | NotSupported.cfg | violation of `FailMeansNotIdentified` |

Bounds and why they are enough:

* `monitor`: three events in flight, so that stray and present events mix and
  a present one can be followed by another.
* `illumination`: two tasks, because the hard case is one task lingering on its
  timer thread while the next is in use (a third adds only a second lingering
  task; the theorems cover any number); two drivers, so that one can ask for
  what the other has; one brightness level besides "no level", so that drawing
  can be skipped or refused for want of a level. That a level differs from the
  one drawn last, and the draw fails, needs two levels: they are in
  `cached_brightness`, and any number in the theorems. Two events, from an event service that may fail. Safety and
  liveness are checked together and without symmetry.
* `canvas`: coordinates at both ends of their range and just past it; displays
  of one pixel, of a common size and of the largest length that fits in `Word`;
  brightness levels for each branch of the lookup: negative, below, on and above
  the table, and between rows where the alpha falls, rises, stays or reaches 0.
  What depends on the level alone is the same for all other rows. Each cast of a
  negative float may saturate or wrap; `interpolation` is a build in which all
  saturate. The build is the one with Skia; with `UseRosenDrawing = TRUE` the
  run fails, see below.
* `dispatch`: two threads, two processors, batches of two, so that a
  registration can come before, between and after the commands of a batch.
* `lock_order`: the framework's thread, two IPC threads and the timer thread of
  one task, so that a disconnect, a command, a timeout and a registration or
  screen event meet; one executor and one command in a batch, since a second one
  starts from the same locks as the first. The instance with one IPC thread and
  two tasks (183873 states) holds as well, but takes twice as long.
* `driver`: two executors, so that two generations of the host can have one
  each; the framework's thread and two IPC threads, so that a late command can
  overtake a disconnect while another runs; batches of up to two commands, so
  that a batch can fail after an ENABLE that it performed. The commands are
  ENABLE and DISABLE, the two that change the owner; an id that no processor
  registered for ends a batch as a refused command does, and is in `dispatch`.
  Liveness is checked, hence no symmetry.
* `executor`: one request of every kind (requests share nothing but the life of
  the host, which may end at any point); modes and keys on both sides of each
  boundary; two events of every kind, whose handlers may overlap and overtake
  each other, with results on both sides of each boundary. The run ends by itself when the request and its events are through,
  so deadlock is not checked.

### Fairness

* `MonitorSpec`: Subscribe returns, and the event service delivers what it
  sent. `CatchesUp` and `RecoversFromStray` need no more.
* `FairSpec` (illumination): a command that has begun is finished, since it
  runs to its end on its own thread; timers expire and their threads run, one
  weak fairness condition per task; events are delivered. No driver is obliged
  to send a command and no screen to change, so `GoesDark` rests on the timer
  alone. A mutex is not fair: `TaskReleased` therefore assumes that Enables do
  not take the monitor's mutex for ever, and says so in its statement.
* `LockFairness`: a thread that can enter or leave a function does. Mutexes are
  not fair; `EveryCallReturns` is about threads that get nothing new to do, so
  that nobody is overtaken for ever.
* `DriverFairness`: the framework learns of a death and calls
  `OnHdiDisconnect`, and its thread goes through the list. Nothing obliges the
  host to start, to answer or to send commands, nor a command to come to its
  end: `DeadLeaseEnds` does not need it.
* `ExecutorFairSpec`: a handler that has begun runs to its end, whatever the
  other handlers of its callback do. Host, framework and calls have no fairness.

### Findings

Each is a run in which TLC violates what the code's own text says.

1. *A late destructor unsubscribes the next task's monitor*
   (`late_destructor`). A timer callback holds the last reference of a task
   that Disable dropped. The next Enable constructs a task, which subscribes.
   Then the old task dies and its destructor (sensor_illumination_task.cpp:154)
   unsubscribes the shared monitor. `isOn_` no longer follows the screen, and
   TurnOn may return SUCCESS without light. `OnlyLateDestructorsUnsubscribe`
   shows that this is the only way an illumination can lose its watch on the
   screen.
2. *A late ENABLE wedges the manager* (`late_enable`). A dead driver's ENABLE
   is granted after its disconnect was handled; nobody will end that lease.
3. *A failed draw is remembered as done* (`cached_brightness`).
4. *Saturating builds do not interpolate* (`interpolation`). The product that
   is cast to `uint32_t` (sensor_illumination_task.cpp:75) is negative wherever
   the alpha falls. `BackgroundFitsLevel` and `StraightOrSaturated` show the limit
   of the damage: in any build the alpha stays between those of the two rows, and
   it is off the line only where it stays at the lower one.
5. *OPERATION_NOT_SUPPORT is heard as FAIL* (`not_supported`), and makes an
   authentication vibrate as if a wrong finger had touched the sensor; the
   comment beside the conversion says it should be otherwise.

Some more are only noted:

* A command whose last processor has unregistered stays in the map with an empty
  set (sa_command_manager.cpp:63) and succeeds, where
  `SaCommandManagerUnitTest_002` expects GENERAL_ERROR for a command without a
  processor (test/unittest/sa_command_manager_unit_test.cpp:101). The program
  never unregisters its processor.
* With `USE_ROSEN_DRAWING` the code calls `ColorQuadSetARGB(0, 0, 0, alpha)`
  (sensor_illumination_task.cpp:121) where the other build calls
  `SkColorSetARGB(alpha, 0, 0, 0)` (line 112). If the parameters come in the
  order of the name, as `IlluminationCanvas` takes them, the background is
  transparent and the spot has the wrong color. The function itself is not in
  this repository.
* The library is built with the integer overflow sanitizer
  (services_ex/BUILD.gn:23): a cast that wraps makes the sum of line 75 overflow
  `uint32_t`, which such a build may stop at.
* A timeout that meets a Disable finds no surface and fails a check whose macro
  is for conditions that never fail (sensor_illumination_task.cpp:329,
  common/utils/iam_check.h:24). It is harmless.

## 4. Proofs

All theorems are about every value of the constants, under the named assumptions
only (`MonitorAssumption`, `TaskAssumption`, `ManagerAssumption`,
`CanvasAssumption`, `DispatchAssumption`, `DriverAssumption`,
`CommandAssumption`, `ExecutorAssumption`, `LockAssumption`): any number of
drivers, tasks, threads, requests and levels, not necessarily finite.

* `ScreenStateMonitorProofs!MonitorTracksScreen`: `MonitorSpec =>
  [](MonitorTypeOK /\ TracksScreen)`. `TracksScreen` is inductive together with
  the types and the fact that a subscription being primed is in place and its
  events tell the state of the screen; one lemma per action.
* `SensorIlluminationManagerProofs`: the type invariant (`TypeCorrect`) and the
  safety invariants of `illumination`, a theorem each: `LightIsOwners`
  (`OnlyOwnersLight`), `LightTimesOut` (`LitHasTimeout`), `OwnersHaveTasks`
  (`OwnerHasTask`), `SubscriptionsEnd` (`NoSubscriptionLeak`) and
  `TasksLiveWhileReferenced` (`ReferencedLives`); and, for the monitor in the
  composition, `IlluminationTracksScreen` (`TracksScreen`). Most of them are not inductive by themselves. The
  strengthening `IInv` says how the parts of the manager hang together: where
  `at` says a command is (`Enabling`, `Dropping`), which tasks may have a surface
  and a light (`SurfaceOwned`, `LitHasSurface`), that a task that is not alive
  has nothing (`BareTasks`), and that only Enable holds the monitor in the
  middle of Subscribe (`SubscribingEnables`). There is one lemma per action; what
  monitor and task do is proved once for their operations and cited.
  * `ReferencedLives` is an equivalence. One half, that a reference is to a live
    task, is part of `IInv`. The other, that a live task has a reference, is
    inductive together with `IInv` (`LivesStayReferenced`): every step that lets
    go of a reference destroys the task or leaves it to somebody else.
  * `NoSubscriptionLeak` says two things of a manager without an illumination:
    the monitor does not take itself for subscribed, and the common event service
    holds at most a subscription that it refused to end when it was last asked
    to. More is not true: `Unsubscribe` clears `isSubscribing_` in any case, and
    nobody asks the service again before the next task subscribes.
  * `TracksScreen` is not proved again. `RefinesMonitor` shows that the
    composition takes only steps of `MonitorNext`, destructors on timer threads
    included, so the invariant of the monitor alone applies.
  * `OnlyLateDestructors` is the action property
    `OnlyLateDestructorsUnsubscribe`, step by step (`UnsubscribeIsEarned`).
* `SensorIlluminationManagerProofs!RefinesLease`: initial states map to initial
  states of `IlluminationLease` and each step to one of its steps or a stutter,
  under the mapping `owner <- executorInProc`, `lit <- \E t : isIlluminationOn[t]`.
  That is the safety half of `ImplementsLease`.
* `IlluminationCanvasProofs!SpotAlwaysOnFrame`, `BackgroundAlwaysFits`,
  `OnlySaturationBends`: the three invariants of `canvas`, for displays of every
  size, all coordinates and all levels. Two lemmas say what the sum that wraps
  at `Word` is: `PositiveCast` where the alpha rises, and `FallingAlpha` where it
  falls, where a cast that wraps makes the sum wrap back and one that saturates
  leaves the lower row. From them follow `Interpolated` (between the two alphas,
  however the offset was cast) and `OnTheLine` (off the line by less than 1, or
  saturated). `WrappingBuildInterpolates` is the corollary for
  `NegativeCasts = {"wraps"}`: there `InterpolatesLinearly`, which the run
  `interpolation` refutes for saturating builds, is true. `Word` is any number
  above 255, so 2^32 is covered. The invariant adds what `canvasParam_` keeps
  between frames. The last three theorems assume a build without Rosen.
* `SaCommandManagerProofs!BatchAlwaysSeesOneTable`: the types and
  `BatchSeesOneTable`. The strengthening says that a thread outside a batch is
  at no command and that nothing is pending before the first one. A change of
  the table finds no thread in a batch; that is all the shared lock is for.
* `FingerprintAuthDriverProofs!OwnersAreListed`, `OwnersHearOfDeath`,
  `DeadOwnersAreFollowed`: the three invariants of `driver`. `OwnerIsListed` is
  about one executor only; the induction needs it of all that are *used*: that
  reach the host, that the host may call, whose commands run, or that own the
  illumination (`UsedAreListed`). It needs `ListMayGo` too: when
  `GetExecutorList` is about to replace the list, nobody on it is used who was
  not told, since either the disconnect has cleared it or it was filled with
  executors of a host that was dead already. `OnlyLateOwnersRemain` follows from
  `HeardAreLate`, which covers the moment between hearing of the disconnect and
  the return of `OnHdiDisconnect`, and from `NobodyLives`: while a disconnect
  runs no executor reaches a host. `DeadOwnerNotForgotten` needs one fact more
  (`ListReaches`): while the framework believes that the host is up, an executor
  in use on the list that was not told reaches it. Otherwise a dead owner could
  be on the list with no disconnect to come.
* `FingerprintAuthDriverProofs!DriverRefinesDispatcher`, `DriverSeesOneTable`:
  every step of the driver is a step of the dispatcher or leaves it alone
  (`DriverStepDispatches`), beginning with the one registration that the program
  makes; hence `BatchSeesOneTable` holds in the driver too. The same lemma brings
  the invariant of the dispatcher into the proofs above.
* `FingerprintAuthExecutorProofs!SuccessIsServed`, `CallsAreTrue`, `EventsAreTrue`,
  `BuzzComesFirst`: the four invariants of `executor`. `CallsAreTrue`
  (`HostGetsWhatWasAsked`) says what each call carries (`CallsOf`) and uses that
  the conversions of commands and of key vectors are injective
  (`CommandsDiffer`, `KeysDiffer`), whatever the numbers of the codes;
  `EventsAreTrue` (`HeardAsSaid`) says that what was heard is, event by event, the
  conversion of what was said, that a handler that has returned was heard and that
  no event was heard twice (`HeardFrom`, `HearingOf`, `EventsOf`), in whatever
  order the handlers run.
* `LockOrderProofs!NoThreadsInACircle`: `NoCyclicWait`, from an order of the
  locks: driver, dispatcher, manager, timer thread, task, loader, monitor,
  subscriber. The strengthening `LockInv` says that along the stack of a thread,
  and from each call to those its body has yet to make, the order ascends or the
  same recursive mutex is entered again (`BodiesAscend` shows it of every body),
  and that no mutex but the shared one of the dispatcher has two holders. In a
  circle the thread waited for then wants a later mutex than the one that waits
  (`WaitsAscend`), which cannot go on for ever.
* `LockOrderProofs!ServiceNeverHangs`: `SomebodyGoesOn`. Apply the previous
  theorem to the threads that are in a call: one of them waits for none of the
  others. It does not wait for an idle thread either, since that one holds
  nothing (`IdleHoldsNothing`) and wants nothing.

### Liveness

Liveness under fairness is beyond the prover, so `CatchesUp`,
`RecoversFromStray`, `GoesDark`, `TaskReleased`, `DeadLeaseEnds`,
`EveryCallReturns`, `EventsAreHeard` and the fairness half of the refinement are
only model-checked. What is proved is the safety that each of them rests on,
which says that the step that is awaited is still to come:

| Liveness (TLC) | Rests on (TLAPS) | That is |
|---|---|---|
| `CatchesUp`, `RecoversFromStray` | `TracksScreen` | the last event in flight tells the state of the screen |
| `GoesDark` | `LitHasTimeout` | a light has a registered timer or a callback on its way |
| `TaskReleased` | `ReferencedLives` | a task that is no longer used has a timer thread that will drop it, or is gone |
| `DeadLeaseEnds` | `DeadOwnerNotForgotten` | the disconnect of a dead owner is to come or under way |
| `EveryCallReturns` | `SomebodyGoesOn` | a thread can go on |
| `EventsAreHeard` | `HeardAsSaid` | an event that was not heard has a handler that has not returned |

What these theorems leave to TLC is that the steps are taken under the fairness
that section 3 states.

## 5. Not modelled

* The render service: surfaces, frames and messages to it are external.
  Whether they can be had is a choice of `DrawSurfaceNode` and `Enable`; what is
  drawn is in `IlluminationCanvas`.
* `FingerprintAuthService::GetInstance`: its unlocked first check has no second
  thread to race with, because static initialisation calls it first. `OnStop`
  does nothing.
* `MemoryGuard` (an allocator hint) and the logging and checking macros, whose
  early returns appear as guards.
* Payloads: templates, public keys, extra info, messages. Out parameters of
  `GetExecutorInfo` and `GetProperty`, which the framework reads on success
  only.
* `Utils::Timer`: whether Shutdown on the timer's own thread returns, and what
  Register answers when it fails, cannot be read from this repository.
* Null proxies and null processors: the constructors' callers check them
  (fingerprint_auth_driver_hdi.cpp:66, sa_command_manager.cpp:34).
* The driver composed with the whole of the manager. `FingerprintAuthDriver` has
  of the manager only the owner and the guards on it (`Allowed`,
  `HearDisconnected`), translated from the same lines as the manager's own.
* How long the library stays loaded: `Release` closes nothing, so once opened it
  is never closed, and there is nothing to check.
* What an unsubscribed monitor answers, and what a subscription that the event
  service refused to end still writes into the cache: no text of the repository
  says what they should. Both are explored (`CesReliable = FALSE`).

## 6. Plan

Every component with state is modelled and checked; every safety invariant and
the action property of the runs, and the safety half of the refinement, are
proved. The parts that are not modelled are in section 5; nothing of them keeps
state that a property could be about.

What could still be said with proof, in the order in which it would be tried:

* the composition of driver and manager, in which the owner of the driver is
  `executorInProc` of the manager and not a variable of its own: the theorems of
  both would have to be carried over to a module that conjoins their steps;
* step properties of the executor, such as that nothing heard is taken back.
