----------------------- MODULE SensorIlluminationTask -----------------------
(***************************************************************************)
(* SensorIlluminationTask (services_ex/src/sensor_illumination_task.cpp)   *)
(* draws a spot of light over the fingerprint sensor.  A task owns one     *)
(* surface, one timer and the timer's thread, and uses the singleton       *)
(* ScreenStateMonitor.  Its methods hold recursiveMutex_, so each is one   *)
(* step, offered here for the manager that calls it to conjoin.            *)
(*                                                                         *)
(* What the timer thread does with a task is a sequence of steps, because  *)
(* the callback holds no mutex until it enters TurnOffSensorIllumination:  *)
(* the timer expires (fired), the weak reference is locked (locked), the   *)
(* light is turned off (returned), the reference is dropped (idle).  The   *)
(* reference may be the last one: then the task dies on this thread.       *)
(*                                                                         *)
(* An element of Tasks is the memory of one task, used again after it is   *)
(* freed.                                                                  *)
(***************************************************************************)
EXTENDS ScreenStateMonitor

CONSTANTS
    Tasks,
    Brightness,   \* the levels the display reports
    NoBrightness  \* INVALID_BRIGHTNESS

ASSUME TaskAssumption == NoBrightness \notin Brightness

VARIABLES
    alive,               \* the tasks constructed and not destroyed
    rsSurfaceNode,       \* rsSurfaceNode_ # nullptr
    defaultScreenValid,  \* defaultScreenId_ # INVALID_SCREEN_ID
    isIlluminationOn,    \* isIlluminationOn_: the node is on the display
    brightness,          \* brightness_
    canvas,              \* environment: the level the surface was last drawn for
    timerArmed,          \* external: timer_ holds the registration currTimerId_
    timerThread          \* where the timer's thread is in the callback

deviceVars == <<defaultScreenValid, brightness, canvas>>
taskVars ==
    <<alive, rsSurfaceNode, isIlluminationOn, timerArmed, timerThread,
      deviceVars>>

Levels == Brightness \cup {NoBrightness}

TaskTypeOK ==
    /\ alive \subseteq Tasks
    /\ rsSurfaceNode \in [Tasks -> BOOLEAN]
    /\ defaultScreenValid \in [Tasks -> BOOLEAN]
    /\ isIlluminationOn \in [Tasks -> BOOLEAN]
    /\ brightness \in [Tasks -> Levels]
    /\ canvas \in [Tasks -> Levels]
    /\ timerArmed \in [Tasks -> BOOLEAN]
    /\ timerThread \in [Tasks -> {"idle", "fired", "locked", "returned"}]

TaskInit ==
    /\ alive = {}
    /\ rsSurfaceNode = [t \in Tasks |-> FALSE]
    /\ defaultScreenValid = [t \in Tasks |-> FALSE]
    /\ isIlluminationOn = [t \in Tasks |-> FALSE]
    /\ brightness = [t \in Tasks |-> NoBrightness]
    /\ canvas = [t \in Tasks |-> NoBrightness]
    /\ timerArmed = [t \in Tasks |-> FALSE]
    /\ timerThread = [t \in Tasks |-> "idle"]

-----------------------------------------------------------------------------
(***************************************************************************)
(* The constructor begins the subscription; the timer has no registration. *)
(***************************************************************************)
Construct(t) ==
    /\ t \in Tasks \ alive
    /\ alive' = alive \cup {t}
    /\ Subscribe
    /\ UNCHANGED <<rsSurfaceNode, isIlluminationOn, timerArmed, timerThread,
                   deviceVars>>

\* Mutant of StopMonitor: the destructor leaves the subscription.
LeaveMonitor == UNCHANGED monitorVars

StopMonitor == Unsubscribe

(***************************************************************************)
(* The destructor unsubscribes the monitor, whoever subscribed it last,    *)
(* unregisters the timer and stops its thread: a callback that has not     *)
(* locked its weak reference finds the object released.                    *)
(***************************************************************************)
Destruct(t) ==
    /\ StopMonitor
    /\ alive' = alive \ {t}
    /\ rsSurfaceNode' = [rsSurfaceNode EXCEPT ![t] = FALSE]
    /\ defaultScreenValid' = [defaultScreenValid EXCEPT ![t] = FALSE]
    /\ isIlluminationOn' = [isIlluminationOn EXCEPT ![t] = FALSE]
    /\ brightness' = [brightness EXCEPT ![t] = NoBrightness]
    /\ canvas' = [canvas EXCEPT ![t] = NoBrightness]
    /\ timerArmed' = [timerArmed EXCEPT ![t] = FALSE]
    /\ timerThread' = [timerThread EXCEPT ![t] = "idle"]

-----------------------------------------------------------------------------
(***************************************************************************)
(* DrawSurfaceNode, when the display reports level and drawn says whether  *)
(* the frame could be drawn (a level above 255 has no alpha, no frame, no  *)
(* canvas).  brightness_ is stored before the outcome is known.            *)
(***************************************************************************)
DrawSurfaceNode(t, level, drawn) ==
    IF level \in {NoBrightness, brightness[t]}
      THEN UNCHANGED <<brightness, canvas>>
      ELSE /\ brightness' = [brightness EXCEPT ![t] = level]
           /\ canvas' = IF drawn THEN [canvas EXCEPT ![t] = level] ELSE canvas

DrawSucceeds(t, level, drawn) ==
    /\ level # NoBrightness
    /\ level = brightness[t] \/ drawn

(***************************************************************************)
(* EnableSensorIllumination up to its success; a failure leaves nothing    *)
(* behind, since the caller then drops the task.  The identifier of the    *)
(* screen is taken as it is, valid or not.                                 *)
(***************************************************************************)
EnableSensorIllumination(t, level, valid) ==
    /\ DrawSucceeds(t, level, TRUE)
    /\ DrawSurfaceNode(t, level, TRUE)
    /\ defaultScreenValid' = [defaultScreenValid EXCEPT ![t] = valid]
    /\ rsSurfaceNode' = [rsSurfaceNode EXCEPT ![t] = TRUE]
    /\ UNCHANGED <<alive, isIlluminationOn, timerArmed, timerThread>>

(***************************************************************************)
(* TurnOnSensorIllumination on a task with a surface.  When the monitor    *)
(* says that the screen is off, or the light is on, it succeeds and does   *)
(* nothing.  The timer is registered afresh before the screen is checked.  *)
(***************************************************************************)
Lights(t, level, drawn) ==
    /\ rsSurfaceNode[t]
    /\ isOn
    /\ ~isIlluminationOn[t]
    /\ DrawSucceeds(t, level, drawn)

\* Mutant of RegisterTimer: the old registration goes, no new one is made.
RegisterNothing(t) == timerArmed' = [timerArmed EXCEPT ![t] = FALSE]

RegisterTimer(t) == timerArmed' = [timerArmed EXCEPT ![t] = TRUE]

UnregisterTimer(t) == timerArmed' = [timerArmed EXCEPT ![t] = FALSE]

TurnOnSensorIllumination(t, level, drawn) ==
    /\ IF rsSurfaceNode[t] /\ isOn /\ ~isIlluminationOn[t]
         THEN DrawSurfaceNode(t, level, drawn)
         ELSE UNCHANGED <<brightness, canvas>>
    /\ IF Lights(t, level, drawn)
         THEN /\ RegisterTimer(t)
              /\ isIlluminationOn' =
                   [isIlluminationOn EXCEPT ![t] = defaultScreenValid[t]]
         ELSE UNCHANGED <<timerArmed, isIlluminationOn>>
    /\ UNCHANGED <<alive, rsSurfaceNode, defaultScreenValid, timerThread>>

(***************************************************************************)
(* TurnOffSensorIllumination: a task without a surface and a light that is *)
(* off are left alone; with an invalid screen the light stays on after the *)
(* timer is gone.                                                          *)
(***************************************************************************)
TurnOffSensorIllumination(t) ==
    IF rsSurfaceNode[t] /\ isIlluminationOn[t]
      THEN /\ UnregisterTimer(t)
           /\ isIlluminationOn' =
                [isIlluminationOn EXCEPT ![t] = ~defaultScreenValid[t]]
      ELSE UNCHANGED <<timerArmed, isIlluminationOn>>

\* Mutant of DisableSensorIllumination: the light is not turned off first.
DisableWhileLit(t) ==
    /\ rsSurfaceNode' = [rsSurfaceNode EXCEPT ![t] = FALSE]
    /\ Unsubscribe
    /\ UNCHANGED <<alive, isIlluminationOn, timerArmed, timerThread, deviceVars>>

\* DisableSensorIllumination; the result of turning off is not looked at.
DisableSensorIllumination(t) ==
    /\ TurnOffSensorIllumination(t)
    /\ rsSurfaceNode' = [rsSurfaceNode EXCEPT ![t] = FALSE]
    /\ Unsubscribe
    /\ UNCHANGED <<alive, timerThread, deviceVars>>

-----------------------------------------------------------------------------
(***************************************************************************)
(* The timer thread of a task.  The registration is for one expiry.  A     *)
(* callback that was dispatched is not recalled by Unregister, nor by a    *)
(* later Register.                                                         *)
(***************************************************************************)
Expire(t) ==
    /\ timerArmed[t]
    /\ timerThread[t] = "idle"
    /\ timerArmed' = [timerArmed EXCEPT ![t] = FALSE]
    /\ timerThread' = [timerThread EXCEPT ![t] = "fired"]
    /\ UNCHANGED <<alive, rsSurfaceNode, isIlluminationOn, deviceVars,
                   monitorVars>>

\* weak_self.lock(): from here on the thread keeps the task alive.
LockWeakSelf(t) ==
    /\ timerThread[t] = "fired"
    /\ t \in alive
    /\ timerThread' = [timerThread EXCEPT ![t] = "locked"]
    /\ UNCHANGED <<alive, rsSurfaceNode, isIlluminationOn, timerArmed,
                   deviceVars, monitorVars>>

OnDisplayTimeOut(t) ==
    /\ timerThread[t] = "locked"
    /\ TurnOffSensorIllumination(t)
    /\ timerThread' = [timerThread EXCEPT ![t] = "returned"]
    /\ UNCHANGED <<alive, rsSurfaceNode, deviceVars, monitorVars>>

HasReference(t) == timerThread[t] \in {"locked", "returned"}

=============================================================================
