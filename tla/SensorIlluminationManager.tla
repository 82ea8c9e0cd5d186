---------------------- MODULE SensorIlluminationManager ----------------------
(***************************************************************************)
(* SensorIlluminationManager (services/src/sensor_illumination_manager.cpp)*)
(* gives the illumination to one driver (executor) at a time and runs its  *)
(* task.  Commands arrive on HDI callback threads; the manager processes   *)
(* one at a time under mutex_.  ServiceExManager loads the library that    *)
(* holds the task's code.                                                  *)
(*                                                                         *)
(* While a command is processed, the timer threads of the present task and *)
(* of tasks already dropped go on, and so does the screen monitor.  Where  *)
(* that can be observed a command is split: Enable between the             *)
(* construction of the task and the rest, Disable between the task's own   *)
(* disabling and the moment the manager drops its reference.  The variable *)
(* at says where the command that holds mutex_ is.                         *)
(*                                                                         *)
(* A command that is refused and changes nothing (another executor has the *)
(* illumination, the caller does not have it, the library cannot be        *)
(* opened) is a stuttering step.                                           *)
(***************************************************************************)
EXTENDS SensorIlluminationTask

CONSTANTS Executors, NoExecutor, NoTask

ASSUME ManagerAssumption ==
    /\ NoExecutor \notin Executors
    /\ NoTask \notin Tasks

VARIABLES
    executorInProc,  \* executorInProc_, NoExecutor for nullptr
    taskInProc,      \* taskInProc_, NoTask for nullptr
    at,              \* "free", "enabling" or "dropping"
    caller,          \* the executor argument of the Enable in progress
    newTask,         \* the local taskInProc of the Enable in progress
    isOpened         \* ServiceExManager: isOpened_

managerVars ==
    <<executorInProc, taskInProc, at, caller, newTask, isOpened>>
vars == <<monitorVars, taskVars, managerVars>>

\* A reference of the manager points at a live task, or at none.
TypeOK ==
    /\ MonitorTypeOK
    /\ TaskTypeOK
    /\ executorInProc \in Executors \cup {NoExecutor}
    /\ taskInProc \in alive \cup {NoTask}
    /\ at \in {"free", "enabling", "dropping"}
    /\ caller \in Executors \cup {NoExecutor}
    /\ newTask \in alive \cup {NoTask}
    /\ isOpened \in BOOLEAN

Init ==
    /\ MonitorInit
    /\ TaskInit
    /\ executorInProc = NoExecutor
    /\ taskInProc = NoTask
    /\ at = "free"
    /\ caller = NoExecutor
    /\ newTask = NoTask
    /\ isOpened = FALSE

-----------------------------------------------------------------------------
(***************************************************************************)
(* ServiceExManager.  Acquire opens the library once.  Release, which the  *)
(* manager registers as the destruct callback of every task, closes        *)
(* nothing.                                                                *)
(***************************************************************************)
Acquire == isOpened' = TRUE

Release == UNCHANGED isOpened

-----------------------------------------------------------------------------
(***************************************************************************)
(* EnableSensorIllumination, from its guards to the construction of the    *)
(* task.                                                                   *)
(***************************************************************************)
StartEnable(e, t) ==
    /\ at = "free"
    /\ executorInProc = NoExecutor
    /\ taskInProc = NoTask
    /\ Acquire
    /\ Construct(t)
    /\ at' = "enabling"
    /\ caller' = e
    /\ newTask' = t
    /\ UNCHANGED <<executorInProc, taskInProc>>

\* The library has no factory, or the factory has no memory for a task.
EnableWithoutTask ==
    /\ at = "free"
    /\ executorInProc = NoExecutor
    /\ taskInProc = NoTask
    /\ Acquire
    /\ UNCHANGED <<executorInProc, taskInProc, at, caller, newTask,
                   monitorVars, taskVars>>

\* The task's constructor returns from Subscribe.
EndSubscribe ==
    /\ FinishSubscribe
    /\ UNCHANGED <<taskVars, managerVars>>

Idle ==
    /\ at' = "free"
    /\ caller' = NoExecutor
    /\ newTask' = NoTask

\* The rest of EnableSensorIllumination when the task can be enabled.
FinishEnable(level, valid) ==
    /\ at = "enabling"
    /\ ~subscribing
    /\ EnableSensorIllumination(newTask, level, valid)
    /\ executorInProc' = caller
    /\ taskInProc' = newTask
    /\ Idle
    /\ UNCHANGED <<isOpened, monitorVars>>

(***************************************************************************)
(* The rest of EnableSensorIllumination when a parameter is out of range   *)
(* or the task cannot be enabled: the local reference, the only one, goes. *)
(***************************************************************************)
FailEnable ==
    /\ at = "enabling"
    /\ ~subscribing
    /\ Destruct(newTask)
    /\ Release
    /\ Idle
    /\ UNCHANGED <<executorInProc, taskInProc>>

-----------------------------------------------------------------------------
(***************************************************************************)
(* DisableSensorIllumination and OnHdiDisconnect do the same to their      *)
(* executor's illumination.  Both allow for no task; OwnerHasTask shows    *)
(* that an executor in process always has one.                             *)
(***************************************************************************)
StopUsing(e) ==
    /\ at = "free"
    /\ executorInProc = e
    /\ taskInProc # NoTask
    /\ executorInProc' = NoExecutor
    /\ DisableSensorIllumination(taskInProc)
    /\ at' = "dropping"
    /\ UNCHANGED <<taskInProc, caller, newTask, isOpened>>

Disable(e) == StopUsing(e)

OnHdiDisconnect(e) == StopUsing(e)

\* Mutant of ForgetTask: the reference is not cleared.
RememberTask == UNCHANGED taskInProc

ForgetTask == taskInProc' = NoTask

\* taskInProc_ = nullptr: the task dies unless its timer thread holds it.
DropTask ==
    /\ at = "dropping"
    /\ IF HasReference(taskInProc)
         THEN UNCHANGED <<monitorVars, taskVars, isOpened>>
         ELSE Destruct(taskInProc) /\ Release
    /\ ForgetTask
    /\ at' = "free"
    /\ UNCHANGED <<executorInProc, caller, newTask>>

-----------------------------------------------------------------------------
TurnOn(e, level, drawn) ==
    /\ at = "free"
    /\ executorInProc = e
    /\ taskInProc # NoTask
    /\ TurnOnSensorIllumination(taskInProc, level, drawn)
    /\ UNCHANGED <<managerVars, monitorVars>>

\* Mutant of TurnOff: the screen is no longer watched once the light is off.
TurnOffUnsubscribes(e) ==
    /\ at = "free"
    /\ executorInProc = e
    /\ taskInProc # NoTask
    /\ TurnOffSensorIllumination(taskInProc)
    /\ Unsubscribe
    /\ UNCHANGED <<alive, rsSurfaceNode, timerThread, deviceVars, managerVars>>

TurnOff(e) ==
    /\ at = "free"
    /\ executorInProc = e
    /\ taskInProc # NoTask
    /\ TurnOffSensorIllumination(taskInProc)
    /\ UNCHANGED <<alive, rsSurfaceNode, timerThread, deviceVars,
                   managerVars, monitorVars>>

-----------------------------------------------------------------------------
\* The timer threads.
TimerExpires(t) == Expire(t) /\ UNCHANGED managerVars

TimerLocksTask(t) == LockWeakSelf(t) /\ UNCHANGED managerVars

TimerTurnsOff(t) == OnDisplayTimeOut(t) /\ UNCHANGED managerVars

\* Mutant of TimerDropsTask: a reference to the task is left somewhere.
TimerLeaksTask(t) ==
    /\ timerThread[t] = "returned"
    /\ timerThread' = [timerThread EXCEPT ![t] = "idle"]
    /\ UNCHANGED <<alive, rsSurfaceNode, isIlluminationOn, timerArmed,
                   deviceVars, monitorVars, managerVars>>

(***************************************************************************)
(* The callback's reference goes out of scope; if the manager has dropped  *)
(* the task meanwhile, the task is destroyed here.                         *)
(***************************************************************************)
TimerDropsTask(t) ==
    /\ timerThread[t] = "returned"
    /\ IF t = taskInProc
         THEN /\ timerThread' = [timerThread EXCEPT ![t] = "idle"]
              /\ UNCHANGED <<alive, rsSurfaceNode, isIlluminationOn,
                             timerArmed, deviceVars, monitorVars, isOpened>>
         ELSE Destruct(t) /\ Release
    /\ UNCHANGED <<executorInProc, taskInProc, at, caller, newTask>>

-----------------------------------------------------------------------------
ReceiveScreenEvent == OnReceiveEvent /\ UNCHANGED <<taskVars, managerVars>>

ChangeScreen == ScreenChange /\ UNCHANGED <<taskVars, managerVars>>

Command ==
    \/ \E e \in Executors, t \in Tasks : StartEnable(e, t)
    \/ EnableWithoutTask
    \/ EndSubscribe
    \/ \E level \in Levels, valid \in BOOLEAN : FinishEnable(level, valid)
    \/ FailEnable
    \/ \E e \in Executors : Disable(e)
    \/ \E e \in Executors : OnHdiDisconnect(e)
    \/ DropTask
    \/ \E e \in Executors, level \in Levels, drawn \in BOOLEAN :
         TurnOn(e, level, drawn)
    \/ \E e \in Executors : TurnOff(e)

Timer(t) ==
    \/ TimerExpires(t)
    \/ TimerLocksTask(t)
    \/ TimerTurnsOff(t)
    \/ TimerDropsTask(t)

Next ==
    \/ Command
    \/ \E t \in Tasks : Timer(t)
    \/ ReceiveScreenEvent
    \/ ChangeScreen

(***************************************************************************)
(* A command that has begun goes on, the timers expire and their threads   *)
(* run, and CES delivers.  Nothing obliges a driver to send a command or   *)
(* the screen to change.                                                   *)
(***************************************************************************)
Fairness ==
    /\ WF_vars(EndSubscribe)
    /\ WF_vars(FailEnable \/ \E level \in Levels, valid \in BOOLEAN :
                               FinishEnable(level, valid))
    /\ WF_vars(DropTask)
    /\ WF_vars(ReceiveScreenEvent)
    /\ \A t \in Tasks : WF_vars(Timer(t))

Spec == Init /\ [][Next]_vars

FairSpec == Spec /\ Fairness

-----------------------------------------------------------------------------
(***************************************************************************)
(* There is light only from the task in use, on behalf of an executor that *)
(* has the illumination: not from a task that was disabled and lingers on  *)
(* its timer thread, not from one being enabled, and never from two.       *)
(***************************************************************************)
OnlyOwnersLight ==
    \A t \in Tasks :
        isIlluminationOn[t] =>
            /\ t = taskInProc
            /\ executorInProc # NoExecutor

(***************************************************************************)
(* A light that is on will time out: its timer is registered, or the timer *)
(* thread is already in a callback that has yet to turn it off.  It must   *)
(* hold however callbacks of earlier registrations, TurnOn, TurnOff and    *)
(* Disable interleave.                                                     *)
(***************************************************************************)
LitHasTimeout ==
    \A t \in Tasks :
        isIlluminationOn[t] =>
            timerArmed[t] \/ timerThread[t] \in {"fired", "locked"}

(***************************************************************************)
(* Between commands the manager has an executor if and only if it has a    *)
(* task; otherwise Enable would be refused for ever, or a command would    *)
(* find no task.                                                           *)
(***************************************************************************)
OwnerHasTask ==
    at = "free" => ((executorInProc = NoExecutor) <=> (taskInProc = NoTask))

(***************************************************************************)
(* The screen is watched only for an illumination in use or being enabled: *)
(* whatever way a task ends, a refused parameter after the construction    *)
(* and a destruction on the timer thread included, the monitor does not    *)
(* take itself for subscribed, and CES has no subscription of it left but  *)
(* one that it refused to end when it was last asked to.                   *)
(***************************************************************************)
NoSubscriptionLeak ==
    at # "enabling" /\ executorInProc = NoExecutor =>
        /\ ~isSubscribing
        /\ subscribed => refused

(***************************************************************************)
(* Shared ownership neither leaks nor dangles: a task lives exactly as     *)
(* long as the manager, an Enable in progress or the callback on its timer *)
(* thread holds a reference, in whatever order they let go of it.          *)
(***************************************************************************)
ReferencedLives ==
    \A t \in Tasks :
        t \in alive <=> t \in {taskInProc, newTask} \/ HasReference(t)

(***************************************************************************)
(* While an illumination is in use or being enabled, nothing stops its     *)
(* watch on the screen but the destructor of an earlier task that lingered *)
(* on its timer thread (which it may do, see SkipsOnlyIfScreenOff).        *)
(***************************************************************************)
OnlyLateDestructorsUnsubscribe ==
    [][isSubscribing /\ ~isSubscribing' =>
         \/ executorInProc' = NoExecutor /\ at' # "enabling"
         \/ \E t \in alive \ alive' :
              t \notin {taskInProc, newTask} /\ timerThread[t] = "returned"]_vars

(***************************************************************************)
(* A light that is on goes out, whatever the drivers send or do not send.  *)
(***************************************************************************)
GoesDark == \A t \in Tasks : isIlluminationOn[t] ~> ~isIlluminationOn[t]

(***************************************************************************)
(* A task that nobody uses is destroyed, once Enables stop taking the      *)
(* monitor's mutex, which a destructor needs and no queue makes fair.      *)
(***************************************************************************)
TaskReleased ==
    <>[]~subscribing =>
        \A t \in Tasks :
            (t \in alive /\ t \notin {taskInProc, newTask}) ~> t \notin alive

-----------------------------------------------------------------------------
Lease == INSTANCE IlluminationLease WITH
    owner <- executorInProc,
    lit <- \E t \in Tasks : isIlluminationOn[t]

(***************************************************************************)
(* The manager, its tasks, their timers and the monitor together implement *)
(* the lease: every step changes owner and light as one of its actions     *)
(* does, and Disable and OnHdiDisconnect put the light out with it.        *)
(***************************************************************************)
ImplementsLease == Lease!Spec

-----------------------------------------------------------------------------
(***************************************************************************)
(* What the log of TurnOnSensorIllumination says when it skips: the screen *)
(* is not on (sensor_illumination_task.cpp:290).  Once no event is on its  *)
(* way, a task in use must be able to rely on it.                          *)
(***************************************************************************)
SkipsOnlyIfScreenOff ==
    at = "free" /\ taskInProc # NoTask /\ events = << >> /\ ~isOn => ~screenOn

(***************************************************************************)
(* "brightness is same, no need redraw" (sensor_illumination_task.cpp:255):*)
(* a light that is on shows the frame of the brightness stored.            *)
(***************************************************************************)
DrawnForBrightness ==
    \A t \in Tasks : isIlluminationOn[t] => canvas[t] = brightness[t]

=============================================================================
