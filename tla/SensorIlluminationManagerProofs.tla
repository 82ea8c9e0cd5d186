------------------- MODULE SensorIlluminationManagerProofs -------------------
(***************************************************************************)
(* The invariants of the sensor illumination, for every set of executors,  *)
(* tasks and levels of brightness.                                         *)
(***************************************************************************)
EXTENDS SensorIlluminationManager, ScreenStateMonitorProofs

(***************************************************************************)
(* The inductive invariant.  What the properties say of a light has to be  *)
(* traced back to the surface (only the task in use has one, and only      *)
(* between commands), and what they say of the manager to the command that *)
(* holds its mutex.                                                        *)
(***************************************************************************)

\* Memory without a task, and a task that was only constructed.
Bare(t) ==
    /\ ~rsSurfaceNode[t]
    /\ brightness[t] = NoBrightness
    /\ ~timerArmed[t]
    /\ timerThread[t] = "idle"

BareTasks ==
    \A t \in Tasks : t \notin alive \/ t = newTask => Bare(t)

\* Where Enable is, there is nothing in process; it alone has a new task.
Enabling ==
    /\ at = "enabling" =>
         /\ newTask # NoTask
         /\ caller # NoExecutor
         /\ executorInProc = NoExecutor
         /\ taskInProc = NoTask
    /\ at # "enabling" => newTask = NoTask

Dropping == at = "dropping" => executorInProc = NoExecutor /\ taskInProc # NoTask

\* A surface is the one of the task in use.
SurfaceOwned ==
    \A t \in Tasks : rsSurfaceNode[t] => t = taskInProc /\ at = "free"

LitHasSurface ==
    \A t \in Tasks :
        isIlluminationOn[t] => rsSurfaceNode[t] /\ defaultScreenValid[t]

SubscribingEnables == subscribing => at = "enabling" /\ ~isSubscribing

IInv ==
    /\ TypeOK
    /\ BareTasks
    /\ Enabling
    /\ Dropping
    /\ OwnerHasTask
    /\ SurfaceOwned
    /\ LitHasSurface
    /\ LitHasTimeout
    /\ SubscribingEnables
    /\ NoSubscriptionLeak

-----------------------------------------------------------------------------
(***************************************************************************)
(* What the monitor's operations do to the variables the manager's         *)
(* invariant speaks of.                                                    *)
(***************************************************************************)
watchVars == <<isSubscribing, subscribing, subscribed, refused>>

LEMMA SubscribeEffect ==
    ASSUME Subscribe
    PROVE  /\ isSubscribing' = isSubscribing
           /\ isSubscribing => subscribing' = subscribing
           /\ ~subscribing
  BY DEF Subscribe, monitorVars

\* Unsubscribe waits for a Subscribe in progress.
LEMMA UnsubscribeEffect ==
    ASSUME Unsubscribe
    PROVE  /\ ~isSubscribing' /\ ~subscribing /\ ~subscribing'
           /\ subscribed' => refused'
  BY DEF Unsubscribe, LeaveCes

\* The tasks keep their types when one is destroyed,
LEMMA DestructTyped ==
    ASSUME TaskTypeOK, NEW t \in Tasks, Destruct(t) PROVE TaskTypeOK'
  BY TaskAssumption DEF Destruct, TaskTypeOK, Levels

\* and when nothing happens to them.
LEMMA UnchangedTyped ==
    ASSUME TaskTypeOK, UNCHANGED taskVars PROVE TaskTypeOK'
  BY DEF TaskTypeOK, taskVars, deviceVars

\* The invariant holds when the service starts.
LEMMA InitIInv == Init => IInv
<1> SUFFICES ASSUME Init PROVE IInv
  OBVIOUS
<1>1. MonitorTypeOK
  BY InitTypedMonitor DEF Init
<1>2. TypeOK
  BY <1>1, TaskAssumption
  DEF Init, TaskInit, TypeOK, TaskTypeOK, Levels
<1> QED
  BY <1>2, ManagerAssumption
  DEF Init, MonitorInit, TaskInit, IInv, BareTasks, Bare, Enabling, Dropping,
      OwnerHasTask, SurfaceOwned, LitHasSurface, LitHasTimeout,
      SubscribingEnables, NoSubscriptionLeak

\* Steps that touch only the screen and its events.
LEMMA MonitorOnly ==
    ASSUME IInv, MonitorTypeOK',
           UNCHANGED <<taskVars, managerVars, watchVars>>
    PROVE  IInv'
  BY DEF IInv, TypeOK, TaskTypeOK, BareTasks, Bare, Enabling, Dropping,
         OwnerHasTask, SurfaceOwned, LitHasSurface, LitHasTimeout,
         SubscribingEnables, NoSubscriptionLeak,
         taskVars, deviceVars, managerVars, watchVars

\* TurnOn lights a task in use and registers its timer.
LEMMA StepTurnOn ==
    ASSUME IInv, NEW e \in Executors, NEW level \in Levels,
           NEW drawn \in BOOLEAN, TurnOn(e, level, drawn)
    PROVE  IInv'
<1> DEFINE t == taskInProc
<1> USE DEF IInv, TypeOK
<1>1. /\ t \in Tasks
      /\ MonitorTypeOK'
  BY DEF TurnOn, monitorVars, MonitorTypeOK, TaskTypeOK
<1>2. TypeOK'
  BY <1>1 DEF TurnOn, managerVars, monitorVars, TurnOnSensorIllumination,
       RegisterTimer,
      DrawSurfaceNode, TaskTypeOK, Levels
<1>3. BareTasks'
  BY <1>1 DEF TurnOn, managerVars, TurnOnSensorIllumination, RegisterTimer,
     DrawSurfaceNode, BareTasks, Bare, Enabling, TaskTypeOK
<1>4. SurfaceOwned'
  BY <1>1 DEF TurnOn, managerVars, TurnOnSensorIllumination, DrawSurfaceNode,
    SurfaceOwned, TaskTypeOK, Levels
<1>5. LitHasSurface'
  BY <1>1 DEF TurnOn, TurnOnSensorIllumination, Lights, LitHasSurface,
       TaskTypeOK
<1>6. LitHasTimeout'
  BY <1>1 DEF TurnOn, TurnOnSensorIllumination, RegisterTimer, LitHasTimeout,
       TaskTypeOK
<1> QED
  BY <1>2, <1>3, <1>4, <1>5, <1>6
  DEF TurnOn, managerVars, monitorVars, TurnOnSensorIllumination, Enabling,
      Dropping, OwnerHasTask, SubscribingEnables, NoSubscriptionLeak

\* Enable constructs a task, which no one refers to yet.
LEMMA StepStartEnable ==
    ASSUME IInv, NEW e \in Executors, NEW t \in Tasks, StartEnable(e, t)
    PROVE  IInv'
<1> USE ManagerAssumption, TaskAssumption
        DEF IInv, TypeOK, TaskTypeOK, Levels, StartEnable, Construct, Acquire,
        deviceVars
<1>1. MonitorTypeOK'
  BY SubscribeTyped
<1>2. /\ isSubscribing' = isSubscribing
      /\ isSubscribing => subscribing' = subscribing
      /\ ~subscribing
  BY SubscribeEffect
<1>3. TypeOK'
  BY <1>1, <1>2
<1>4. BareTasks'
  BY <1>1, <1>2 DEF BareTasks, Bare, Enabling
<1>5. Enabling'
  BY <1>1, <1>2 DEF Enabling
<1>6. Dropping'
  BY <1>1, <1>2 DEF Dropping
<1>7. OwnerHasTask'
  BY <1>1, <1>2 DEF OwnerHasTask, Enabling, Dropping
<1>8. SurfaceOwned'
  BY <1>1, <1>2 DEF SurfaceOwned, BareTasks, Bare, Enabling, Dropping
<1>9. LitHasSurface'
  BY <1>1, <1>2 DEF LitHasSurface, BareTasks, Bare, SurfaceOwned, LitHasSurface
<1>10. LitHasTimeout'
  BY <1>1, <1>2 DEF LitHasTimeout, BareTasks, Bare, SurfaceOwned, LitHasSurface
<1>11. SubscribingEnables'
  BY <1>1, <1>2 DEF SubscribingEnables, Enabling, Dropping
<1>12. NoSubscriptionLeak'
  BY <1>1, <1>2 DEF NoSubscriptionLeak, Enabling, Dropping
<1> QED
  BY <1>3, <1>4, <1>5, <1>6, <1>7, <1>8, <1>9, <1>10, <1>11, <1>12

\* An Enable that gets no task may have opened the library, no more.
LEMMA StepEnableWithoutTask ==
    ASSUME IInv, EnableWithoutTask
    PROVE  IInv'
<1> USE ManagerAssumption, TaskAssumption
        DEF IInv, TypeOK, TaskTypeOK, Levels, EnableWithoutTask, Acquire,
        taskVars, deviceVars
<1>1. MonitorTypeOK' /\ UNCHANGED watchVars
  BY DEF MonitorTypeOK, monitorVars, watchVars
<1>2. TypeOK'
  BY <1>1
<1>3. BareTasks'
  BY <1>1 DEF BareTasks, Bare, Enabling
<1>4. Enabling'
  BY <1>1 DEF Enabling
<1>5. Dropping'
  BY <1>1 DEF Dropping
<1>6. OwnerHasTask'
  BY <1>1 DEF OwnerHasTask, Enabling, Dropping
<1>7. SurfaceOwned'
  BY <1>1 DEF SurfaceOwned, BareTasks, Bare, Enabling, Dropping
<1>8. LitHasSurface'
  BY <1>1 DEF LitHasSurface, BareTasks, Bare, SurfaceOwned, LitHasSurface
<1>9. LitHasTimeout'
  BY <1>1 DEF LitHasTimeout, BareTasks, Bare, SurfaceOwned, LitHasSurface
<1>10. SubscribingEnables'
  BY <1>1 DEF watchVars, SubscribingEnables, Enabling, Dropping
<1>11. NoSubscriptionLeak'
  BY <1>1 DEF watchVars, NoSubscriptionLeak, Enabling, Dropping
<1> QED
  BY <1>2, <1>3, <1>4, <1>5, <1>6, <1>7, <1>8, <1>9, <1>10, <1>11

\* The constructor of the new task returns.
LEMMA StepEndSubscribe ==
    ASSUME IInv, EndSubscribe
    PROVE  IInv'
<1> USE ManagerAssumption, TaskAssumption
        DEF IInv, TypeOK, TaskTypeOK, Levels, EndSubscribe, FinishSubscribe,
        taskVars, deviceVars, managerVars
<1>1. MonitorTypeOK'
  BY FinishSubscribeTyped
<1>2. TypeOK'
  BY <1>1
<1>3. BareTasks'
  BY <1>1 DEF BareTasks, Bare, Enabling
<1>4. Enabling'
  BY <1>1 DEF Enabling
<1>5. Dropping'
  BY <1>1 DEF Dropping
<1>6. OwnerHasTask'
  BY <1>1 DEF OwnerHasTask, Enabling, Dropping
<1>7. SurfaceOwned'
  BY <1>1 DEF SurfaceOwned, BareTasks, Bare, Enabling, Dropping
<1>8. LitHasSurface'
  BY <1>1 DEF LitHasSurface, BareTasks, Bare, SurfaceOwned, LitHasSurface
<1>9. LitHasTimeout'
  BY <1>1 DEF LitHasTimeout, BareTasks, Bare, SurfaceOwned, LitHasSurface
<1>10. SubscribingEnables'
  BY <1>1 DEF SubscribingEnables, Enabling, Dropping
<1>11. NoSubscriptionLeak'
  BY <1>1 DEF NoSubscriptionLeak, SubscribingEnables
<1> QED
  BY <1>2, <1>3, <1>4, <1>5, <1>6, <1>7, <1>8, <1>9, <1>10, <1>11

\* Enable stores both references.
LEMMA StepFinishEnable ==
    ASSUME IInv, NEW level \in Levels, NEW valid \in BOOLEAN,
           FinishEnable(level, valid)
    PROVE  IInv'
<1> USE ManagerAssumption, TaskAssumption
        DEF IInv, TypeOK, TaskTypeOK, Levels, FinishEnable,
        EnableSensorIllumination, DrawSucceeds, DrawSurfaceNode, Idle
<1>1. MonitorTypeOK' /\ UNCHANGED watchVars
  BY DEF MonitorTypeOK, monitorVars, watchVars
<1>2. newTask \in Tasks /\ newTask # NoTask /\ Bare(newTask)
  BY DEF Enabling, BareTasks
<1>3. TypeOK'
  BY <1>1, <1>2
<1>4. BareTasks'
  BY <1>1, <1>2 DEF BareTasks, Bare, Enabling
<1>5. Enabling'
  BY <1>1, <1>2 DEF Enabling
<1>6. Dropping'
  BY <1>1, <1>2 DEF Dropping
<1>7. OwnerHasTask'
  BY <1>1, <1>2 DEF OwnerHasTask, Enabling, Dropping
<1>8. SurfaceOwned'
  BY <1>1, <1>2 DEF SurfaceOwned, BareTasks, Bare, Enabling, Dropping
<1>9. LitHasSurface'
  BY <1>1, <1>2 DEF LitHasSurface, BareTasks, Bare, SurfaceOwned, LitHasSurface
<1>10. LitHasTimeout'
  BY <1>1, <1>2 DEF LitHasTimeout, BareTasks, Bare, SurfaceOwned, LitHasSurface
<1>11. SubscribingEnables'
  BY <1>1, <1>2 DEF watchVars, SubscribingEnables, Enabling, Dropping
<1>12. NoSubscriptionLeak'
  BY <1>1, <1>2 DEF watchVars, NoSubscriptionLeak, Enabling, Dropping
<1> QED
  BY <1>3, <1>4, <1>5, <1>6, <1>7, <1>8, <1>9, <1>10, <1>11, <1>12

\* A failed Enable destroys its task.
LEMMA StepFailEnable ==
    ASSUME IInv, FailEnable
    PROVE  IInv'
<1> USE ManagerAssumption, TaskAssumption
        DEF IInv, TypeOK, TaskTypeOK, Levels, FailEnable, Idle, Destruct,
        StopMonitor, Release
<1>1. MonitorTypeOK'
  BY UnsubscribeTyped
<1>2. /\ ~isSubscribing' /\ ~subscribing /\ ~subscribing'
      /\ subscribed' => refused'
  BY UnsubscribeEffect
<1>3. TypeOK'
  BY <1>1, <1>2 DEF Enabling
<1>4. BareTasks'
  BY <1>1, <1>2 DEF BareTasks, Bare, Enabling
<1>5. Enabling'
  BY <1>1, <1>2 DEF Enabling
<1>6. Dropping'
  BY <1>1, <1>2 DEF Dropping
<1>7. OwnerHasTask'
  BY <1>1, <1>2 DEF OwnerHasTask, Enabling, Dropping
<1>8. SurfaceOwned'
  BY <1>1, <1>2 DEF SurfaceOwned, BareTasks, Bare, Enabling, Dropping
<1>9. LitHasSurface'
  BY <1>1, <1>2 DEF LitHasSurface, BareTasks, Bare, SurfaceOwned, LitHasSurface
<1>10. LitHasTimeout'
  BY <1>1, <1>2 DEF LitHasTimeout, BareTasks, Bare, SurfaceOwned, LitHasSurface
<1>11. SubscribingEnables'
  BY <1>1, <1>2 DEF SubscribingEnables, Enabling, Dropping
<1>12. NoSubscriptionLeak'
  BY <1>1, <1>2 DEF NoSubscriptionLeak, Enabling, Dropping
<1> QED
  BY <1>3, <1>4, <1>5, <1>6, <1>7, <1>8, <1>9, <1>10, <1>11, <1>12

\* Disable and the disconnect begin with the task's own disabling.
LEMMA StepStopUsing ==
    ASSUME IInv, NEW e \in Executors, StopUsing(e)
    PROVE  IInv'
<1> USE ManagerAssumption, TaskAssumption
        DEF IInv, TypeOK, TaskTypeOK, Levels, StopUsing,
        DisableSensorIllumination,
            TurnOffSensorIllumination, UnregisterTimer, deviceVars
<1>1. MonitorTypeOK'
  BY UnsubscribeTyped
<1>2. /\ ~isSubscribing' /\ ~subscribing /\ ~subscribing'
      /\ subscribed' => refused'
  BY UnsubscribeEffect
<1>3. TypeOK'
  BY <1>1, <1>2
<1>4. BareTasks'
  BY <1>1, <1>2 DEF BareTasks, Bare, Enabling
<1>5. Enabling'
  BY <1>1, <1>2 DEF Enabling
<1>6. Dropping'
  BY <1>1, <1>2 DEF Dropping
<1>7. OwnerHasTask'
  BY <1>1, <1>2 DEF OwnerHasTask, Enabling, Dropping
<1>8. SurfaceOwned'
  BY <1>1, <1>2 DEF SurfaceOwned, BareTasks, Bare, Enabling, Dropping
<1>9. LitHasSurface'
  BY <1>1, <1>2 DEF LitHasSurface, BareTasks, Bare, SurfaceOwned, LitHasSurface
<1>10. LitHasTimeout'
  BY <1>1, <1>2 DEF LitHasTimeout, BareTasks, Bare, SurfaceOwned, LitHasSurface
<1>11. SubscribingEnables'
  BY <1>1, <1>2 DEF SubscribingEnables, Enabling, Dropping
<1>12. NoSubscriptionLeak'
  BY <1>1, <1>2 DEF NoSubscriptionLeak, Enabling, Dropping
<1> QED
  BY <1>3, <1>4, <1>5, <1>6, <1>7, <1>8, <1>9, <1>10, <1>11, <1>12

\* They end by dropping both references.
LEMMA StepDropTask ==
    ASSUME IInv, DropTask
    PROVE  IInv'
<1> USE ManagerAssumption, TaskAssumption
        DEF IInv, TypeOK, TaskTypeOK, Levels, DropTask, ForgetTask,
        HasReference, taskVars,
            deviceVars, Destruct, StopMonitor, Release
<1>1. /\ MonitorTypeOK'
      /\ subscribing' => subscribing
      /\ isSubscribing' => isSubscribing
      /\ (subscribed => refused) => (subscribed' => refused')
  <2>1. CASE HasReference(taskInProc)
    BY <2>1 DEF MonitorTypeOK, monitorVars
  <2>2. CASE ~(HasReference(taskInProc))
    BY <2>2, UnsubscribeTyped, UnsubscribeEffect
  <2> QED
    BY <2>1, <2>2
<1>2. TypeOK'
  <2>1. TaskTypeOK'
    <3> HIDE DEF TaskTypeOK, Destruct
    <3>1. taskInProc \in Tasks /\ TaskTypeOK
      BY DEF Dropping, TaskTypeOK
    <3> QED
      BY <3>1, UnchangedTyped, DestructTyped
  <2>2. newTask' = NoTask /\ taskInProc' = NoTask
    BY DEF Enabling
  <2> QED
    BY <1>1, <2>1, <2>2
<1>3. BareTasks'
  BY <1>1 DEF BareTasks, Bare, Enabling
<1>4. Enabling'
  BY <1>1 DEF Enabling
<1>5. Dropping'
  BY <1>1 DEF Dropping
<1>6. OwnerHasTask'
  BY <1>1 DEF OwnerHasTask, Enabling, Dropping
<1>7. SurfaceOwned'
  BY <1>1 DEF SurfaceOwned, BareTasks, Bare, Enabling, Dropping
<1>8. LitHasSurface'
  BY <1>1 DEF LitHasSurface, BareTasks, Bare, SurfaceOwned, LitHasSurface
<1>9. LitHasTimeout'
  BY <1>1 DEF LitHasTimeout, BareTasks, Bare, SurfaceOwned, LitHasSurface
<1>10. SubscribingEnables'
  BY <1>1 DEF SubscribingEnables, Enabling, Dropping
<1>11. NoSubscriptionLeak'
  BY <1>1 DEF NoSubscriptionLeak, Enabling, Dropping
<1> QED
  BY <1>2, <1>3, <1>4, <1>5, <1>6, <1>7, <1>8, <1>9, <1>10, <1>11

\* TurnOff takes light and timer away together.
LEMMA StepTurnOff ==
    ASSUME IInv, NEW e \in Executors, TurnOff(e)
    PROVE  IInv'
<1> USE ManagerAssumption, TaskAssumption
        DEF IInv, TypeOK, TaskTypeOK, Levels, TurnOff,
        TurnOffSensorIllumination,
            UnregisterTimer, deviceVars, managerVars
<1>1. MonitorTypeOK' /\ UNCHANGED watchVars
  BY DEF MonitorTypeOK, monitorVars, watchVars
<1>2. TypeOK'
  BY <1>1
<1>3. BareTasks'
  BY <1>1 DEF BareTasks, Bare, Enabling
<1>4. Enabling'
  BY <1>1 DEF Enabling
<1>5. Dropping'
  BY <1>1 DEF Dropping
<1>6. OwnerHasTask'
  BY <1>1 DEF OwnerHasTask, Enabling, Dropping
<1>7. SurfaceOwned'
  BY <1>1 DEF SurfaceOwned, BareTasks, Bare, Enabling, Dropping
<1>8. LitHasSurface'
  BY <1>1 DEF LitHasSurface, BareTasks, Bare, SurfaceOwned, LitHasSurface
<1>9. LitHasTimeout'
  BY <1>1 DEF LitHasTimeout, BareTasks, Bare, SurfaceOwned, LitHasSurface
<1>10. SubscribingEnables'
  BY <1>1 DEF watchVars, SubscribingEnables, Enabling, Dropping
<1>11. NoSubscriptionLeak'
  BY <1>1 DEF watchVars, NoSubscriptionLeak, Enabling, Dropping
<1> QED
  BY <1>2, <1>3, <1>4, <1>5, <1>6, <1>7, <1>8, <1>9, <1>10, <1>11

\* The timer thread starts the callback,
LEMMA StepTimerExpires ==
    ASSUME IInv, NEW t \in Tasks, TimerExpires(t)
    PROVE  IInv'
<1> USE ManagerAssumption, TaskAssumption
        DEF IInv, TypeOK, TaskTypeOK, Levels, TimerExpires, Expire,
        deviceVars, managerVars
<1>1. MonitorTypeOK' /\ UNCHANGED watchVars
  BY DEF MonitorTypeOK, monitorVars, watchVars
<1>2. TypeOK'
  BY <1>1
<1>3. BareTasks'
  BY <1>1 DEF BareTasks, Bare, Enabling
<1>4. Enabling'
  BY <1>1 DEF Enabling
<1>5. Dropping'
  BY <1>1 DEF Dropping
<1>6. OwnerHasTask'
  BY <1>1 DEF OwnerHasTask, Enabling, Dropping
<1>7. SurfaceOwned'
  BY <1>1 DEF SurfaceOwned, BareTasks, Bare, Enabling, Dropping
<1>8. LitHasSurface'
  BY <1>1 DEF LitHasSurface, BareTasks, Bare, SurfaceOwned, LitHasSurface
<1>9. LitHasTimeout'
  BY <1>1 DEF LitHasTimeout, BareTasks, Bare, SurfaceOwned, LitHasSurface
<1>10. SubscribingEnables'
  BY <1>1 DEF watchVars, SubscribingEnables, Enabling, Dropping
<1>11. NoSubscriptionLeak'
  BY <1>1 DEF watchVars, NoSubscriptionLeak, Enabling, Dropping
<1> QED
  BY <1>2, <1>3, <1>4, <1>5, <1>6, <1>7, <1>8, <1>9, <1>10, <1>11

\* which locks its weak reference or finds nothing,
LEMMA StepTimerLocksTask ==
    ASSUME IInv, NEW t \in Tasks, TimerLocksTask(t)
    PROVE  IInv'
<1> USE ManagerAssumption, TaskAssumption
        DEF IInv, TypeOK, TaskTypeOK, Levels, TimerLocksTask, LockWeakSelf,
        deviceVars,
            managerVars
<1>1. MonitorTypeOK' /\ UNCHANGED watchVars
  BY DEF MonitorTypeOK, monitorVars, watchVars
<1>2. TypeOK'
  BY <1>1
<1>3. BareTasks'
  BY <1>1 DEF BareTasks, Bare, Enabling
<1>4. Enabling'
  BY <1>1 DEF Enabling
<1>5. Dropping'
  BY <1>1 DEF Dropping
<1>6. OwnerHasTask'
  BY <1>1 DEF OwnerHasTask, Enabling, Dropping
<1>7. SurfaceOwned'
  BY <1>1 DEF SurfaceOwned, BareTasks, Bare, Enabling, Dropping
<1>8. LitHasSurface'
  BY <1>1 DEF LitHasSurface, BareTasks, Bare, SurfaceOwned, LitHasSurface
<1>9. LitHasTimeout'
  BY <1>1 DEF LitHasTimeout, BareTasks, Bare, SurfaceOwned, LitHasSurface
<1>10. SubscribingEnables'
  BY <1>1 DEF watchVars, SubscribingEnables, Enabling, Dropping
<1>11. NoSubscriptionLeak'
  BY <1>1 DEF watchVars, NoSubscriptionLeak, Enabling, Dropping
<1> QED
  BY <1>2, <1>3, <1>4, <1>5, <1>6, <1>7, <1>8, <1>9, <1>10, <1>11

\* puts out the light,
LEMMA StepTimerTurnsOff ==
    ASSUME IInv, NEW t \in Tasks, TimerTurnsOff(t)
    PROVE  IInv'
<1> USE ManagerAssumption, TaskAssumption
        DEF IInv, TypeOK, TaskTypeOK, Levels, TimerTurnsOff, OnDisplayTimeOut,
            TurnOffSensorIllumination, UnregisterTimer, deviceVars, managerVars
<1>1. MonitorTypeOK' /\ UNCHANGED watchVars
  BY DEF MonitorTypeOK, monitorVars, watchVars
<1>2. TypeOK'
  BY <1>1
<1>3. BareTasks'
  BY <1>1 DEF BareTasks, Bare, Enabling
<1>4. Enabling'
  BY <1>1 DEF Enabling
<1>5. Dropping'
  BY <1>1 DEF Dropping
<1>6. OwnerHasTask'
  BY <1>1 DEF OwnerHasTask, Enabling, Dropping
<1>7. SurfaceOwned'
  BY <1>1 DEF SurfaceOwned, BareTasks, Bare, Enabling, Dropping
<1>8. LitHasSurface'
  BY <1>1 DEF LitHasSurface, BareTasks, Bare, SurfaceOwned, LitHasSurface
<1>9. LitHasTimeout'
  BY <1>1 DEF LitHasTimeout, BareTasks, Bare, SurfaceOwned, LitHasSurface
<1>10. SubscribingEnables'
  BY <1>1 DEF watchVars, SubscribingEnables, Enabling, Dropping
<1>11. NoSubscriptionLeak'
  BY <1>1 DEF watchVars, NoSubscriptionLeak, Enabling, Dropping
<1> QED
  BY <1>2, <1>3, <1>4, <1>5, <1>6, <1>7, <1>8, <1>9, <1>10, <1>11

\* and destroys the task if no one else refers to it.
LEMMA StepTimerDropsTask ==
    ASSUME IInv, NEW t \in Tasks, TimerDropsTask(t)
    PROVE  IInv'
<1> USE ManagerAssumption, TaskAssumption
        DEF IInv, TypeOK, TaskTypeOK, Levels, TimerDropsTask, deviceVars,
        Destruct, StopMonitor, Release
<1>1. /\ MonitorTypeOK'
      /\ subscribing' => subscribing
      /\ isSubscribing' => isSubscribing
      /\ (subscribed => refused) => (subscribed' => refused')
  <2>1. CASE t = taskInProc
    BY <2>1 DEF MonitorTypeOK, monitorVars
  <2>2. CASE ~(t = taskInProc)
    BY <2>2, UnsubscribeTyped, UnsubscribeEffect
  <2> QED
    BY <2>1, <2>2
<1>2. TypeOK'
  <2>1. TaskTypeOK'
    <3>1. CASE t = taskInProc
      BY <3>1
    <3>2. CASE t # taskInProc
      <4> HIDE DEF TaskTypeOK, Destruct
      <4> QED
        BY <3>2, DestructTyped
    <3> QED
      BY <3>1, <3>2
  <2>2. newTask' \in alive' \cup {NoTask} /\ taskInProc' \in alive' \cup {NoTask}
    BY DEF BareTasks, Bare
  <2> QED
    BY <1>1, <2>1, <2>2
<1>3. BareTasks'
  BY <1>1 DEF BareTasks, Bare, Enabling
<1>4. Enabling'
  BY <1>1 DEF Enabling
<1>5. Dropping'
  BY <1>1 DEF Dropping
<1>6. OwnerHasTask'
  BY <1>1 DEF OwnerHasTask, Enabling, Dropping
<1>7. SurfaceOwned'
  BY <1>1 DEF SurfaceOwned, BareTasks, Bare, Enabling, Dropping
<1>8. LitHasSurface'
  BY <1>1 DEF LitHasSurface, BareTasks, Bare, SurfaceOwned, LitHasSurface
<1>9. LitHasTimeout'
  BY <1>1 DEF LitHasTimeout, BareTasks, Bare, SurfaceOwned, LitHasSurface
<1>10. SubscribingEnables'
  BY <1>1 DEF SubscribingEnables, Enabling, Dropping
<1>11. NoSubscriptionLeak'
  BY <1>1 DEF NoSubscriptionLeak, Enabling, Dropping
<1> QED
  BY <1>2, <1>3, <1>4, <1>5, <1>6, <1>7, <1>8, <1>9, <1>10, <1>11

-----------------------------------------------------------------------------
\* A step that changes nothing keeps the invariant.
LEMMA StepStutter ==
    ASSUME IInv, UNCHANGED vars
    PROVE  IInv'
<1>1. MonitorTypeOK'
  BY DEF IInv, TypeOK, MonitorTypeOK, vars, monitorVars
<1> QED
  BY <1>1, MonitorOnly DEF vars, monitorVars, watchVars

\* Every step keeps the invariant.
LEMMA Inductive == IInv /\ [Next]_vars => IInv'
<1> SUFFICES ASSUME IInv, [Next]_vars PROVE IInv'
  OBVIOUS
<1>1. CASE Command
  <2> QED
    BY <1>1, StepStartEnable, StepEnableWithoutTask, StepEndSubscribe,
       StepFinishEnable, StepFailEnable, StepStopUsing, StepDropTask,
       StepTurnOn, StepTurnOff
    DEF Command, Disable, OnHdiDisconnect
<1>2. ASSUME NEW t \in Tasks, Timer(t) PROVE IInv'
  BY <1>2, StepTimerExpires, StepTimerLocksTask, StepTimerTurnsOff,
     StepTimerDropsTask
  DEF Timer
<1>3. CASE ReceiveScreenEvent
  <2>1. MonitorTypeOK'
    BY <1>3, OnReceiveEventTyped DEF ReceiveScreenEvent, IInv, TypeOK
  <2> QED
    BY <1>3, <2>1, MonitorOnly DEF ReceiveScreenEvent, OnReceiveEvent, watchVars
<1>4. CASE ChangeScreen
  <2>1. MonitorTypeOK'
    BY <1>4, ScreenChangeTyped DEF ChangeScreen, IInv, TypeOK
  <2> QED
    BY <1>4, <2>1, MonitorOnly DEF ChangeScreen, ScreenChange, watchVars
<1> QED
  BY <1>1, <1>2, <1>3, <1>4, StepStutter DEF Next

\* The invariant holds of every behavior.
LEMMA Invariance == Spec => []IInv
  BY InitIInv, Inductive, PTL DEF Spec

(***************************************************************************)
(* Every variable keeps its type, and the manager's references to tasks    *)
(* (sensor_illumination_manager.h: taskInProc_) are to live tasks.         *)
(***************************************************************************)
THEOREM TypeCorrect == Spec => []TypeOK
<1>1. IInv => TypeOK
  BY DEF IInv
<1> QED
  BY <1>1, Invariance, PTL

(***************************************************************************)
(* Only the task of the executor that has the illumination lights.         *)
(***************************************************************************)
THEOREM LightIsOwners == Spec => []OnlyOwnersLight
<1>1. IInv => OnlyOwnersLight
  BY ManagerAssumption
  DEF IInv, TypeOK, TaskTypeOK, LitHasSurface, SurfaceOwned, OwnerHasTask,
      OnlyOwnersLight
<1> QED
  BY <1>1, Invariance, PTL

(***************************************************************************)
(* A light that is on has a timeout before it, however the callbacks of    *)
(* earlier registrations interleave with the commands.                     *)
(***************************************************************************)
THEOREM LightTimesOut == Spec => []LitHasTimeout
<1>1. IInv => LitHasTimeout
  BY DEF IInv
<1> QED
  BY <1>1, Invariance, PTL

(***************************************************************************)
(* executorInProc_ and taskInProc_ go together between commands.           *)
(***************************************************************************)
THEOREM OwnersHaveTasks == Spec => []OwnerHasTask
<1>1. IInv => OwnerHasTask
  BY DEF IInv
<1> QED
  BY <1>1, Invariance, PTL

(***************************************************************************)
(* Without an illumination the monitor does not take itself for subscribed,*)
(* and CES has at most a subscription left that it refused to end when     *)
(* Unsubscribe (screen_state_monitor.cpp:176), or the Subscribe before,    *)
(* last asked it to.                                                       *)
(***************************************************************************)
THEOREM SubscriptionsEnd == Spec => []NoSubscriptionLeak
<1>1. IInv => NoSubscriptionLeak
  BY DEF IInv
<1> QED
  BY <1>1, Invariance, PTL

-----------------------------------------------------------------------------
(***************************************************************************)
(* The steps that touch neither the owner nor a light, and those that can  *)
(* only turn lights off, are steps of the lease or stutter.                *)
(***************************************************************************)
lit == \E t \in Tasks : isIlluminationOn[t]

LeaseStep == [Lease!Next]_(Lease!leaseVars)

\* What touches neither owner nor light is no step of the lease.
LEMMA LeaseStutter ==
    ASSUME UNCHANGED <<executorInProc, isIlluminationOn>> PROVE LeaseStep
  BY DEF LeaseStep, Lease!leaseVars

\* What at most puts out the light is a step of the lease.
LEMMA LeaseDarkens ==
    ASSUME UNCHANGED executorInProc, lit' => lit PROVE LeaseStep
<1>1. CASE lit /\ ~lit'
  BY <1>1 DEF lit, LeaseStep, Lease!Next, Lease!GoDark
<1>2. CASE lit <=> lit'
  <2>1. (\E t \in Tasks : isIlluminationOn[t])'
          = (\E t \in Tasks : isIlluminationOn[t])
    BY <1>2 DEF lit
  <2> QED
    BY <2>1 DEF LeaseStep, Lease!leaseVars
<1> QED
  BY <1>1, <1>2

\* A destructor at most puts out the light.
LEMMA DestructDarkens ==
    ASSUME IInv, NEW t \in Tasks, Destruct(t) PROVE lit' => lit
  BY DEF Destruct, lit, IInv, TypeOK, TaskTypeOK

\* So does TurnOff.
LEMMA TurnOffDarkens ==
    ASSUME IInv, NEW t \in Tasks, TurnOffSensorIllumination(t)
    PROVE  lit' => lit
  BY DEF TurnOffSensorIllumination, LitHasSurface, lit, IInv, TypeOK,
       TaskTypeOK

\* The end of Enable takes the lease.
LEMMA LeaseFinishEnable ==
    ASSUME IInv, NEW level \in Levels, NEW valid \in BOOLEAN,
           FinishEnable(level, valid)
    PROVE  LeaseStep
<1>1. caller \in Executors /\ executorInProc = NoExecutor
  BY DEF FinishEnable, IInv, TypeOK, Enabling
<1>2. executorInProc' = caller /\ UNCHANGED isIlluminationOn
  BY DEF FinishEnable, EnableSensorIllumination
<1>3. Lease!Grant(caller)
  BY <1>1, <1>2 DEF Lease!Grant
<1> QED
  BY <1>1, <1>3 DEF LeaseStep, Lease!Next

\* Disable and the disconnect give it up.
LEMMA LeaseStopUsing ==
    ASSUME IInv, NEW e \in Executors, StopUsing(e) PROVE LeaseStep
<1>1. executorInProc # NoExecutor /\ executorInProc' = NoExecutor
  BY ManagerAssumption DEF StopUsing
<1>2. ASSUME NEW t \in Tasks PROVE ~isIlluminationOn'[t]
  <2>1. isIlluminationOn[t] => t = taskInProc /\ rsSurfaceNode[t] /\ defaultScreenValid[t]
    BY DEF IInv, LitHasSurface, SurfaceOwned
  <2> QED
    BY <2>1
    DEF StopUsing, DisableSensorIllumination, TurnOffSensorIllumination, IInv,
        TypeOK, TaskTypeOK
<1>3. ~lit'
  BY <1>2 DEF lit
<1> QED
  BY <1>1, <1>3 DEF LeaseStep, Lease!Next, Lease!End, lit

\* TurnOn lights for the owner.
LEMMA LeaseTurnOn ==
    ASSUME IInv, NEW e \in Executors, NEW level \in Levels,
           NEW drawn \in BOOLEAN, TurnOn(e, level, drawn)
    PROVE  LeaseStep
<1> DEFINE t == taskInProc
<1>1. executorInProc # NoExecutor /\ UNCHANGED executorInProc
  BY ManagerAssumption DEF TurnOn, managerVars
<1>2. CASE UNCHANGED isIlluminationOn
  BY <1>1, <1>2, LeaseStutter
<1>3. CASE isIlluminationOn' # isIlluminationOn
  <2>1. /\ t \in Tasks
        /\ ~isIlluminationOn[t]
        /\ isIlluminationOn' =
             [isIlluminationOn EXCEPT ![t] = defaultScreenValid[t]]
    BY <1>3 DEF TurnOn, TurnOnSensorIllumination, Lights, IInv, TypeOK,
         TaskTypeOK
  <2>2. isIlluminationOn'[t]
    BY <1>3, <2>1 DEF IInv, TypeOK, TaskTypeOK
  <2>3. lit'
    BY <2>1, <2>2 DEF lit
  <2>4. ~lit
    BY <2>1 DEF lit, IInv, LitHasSurface, SurfaceOwned
  <2> QED
    BY <1>1, <2>3, <2>4 DEF LeaseStep, Lease!Next, Lease!Light, lit
<1> QED
  BY <1>2, <1>3

\* Every step is one of the lease or a stutter.
LEMMA LeaseNext == IInv /\ [Next]_vars => LeaseStep
<1> SUFFICES ASSUME IInv, [Next]_vars PROVE LeaseStep
  OBVIOUS
<1>1. CASE Command
  <2>1. CASE \E e \in Executors, t \in Tasks : StartEnable(e, t)
    BY <2>1, LeaseStutter DEF StartEnable, Construct
  <2>2. CASE EnableWithoutTask
    BY <2>2, LeaseStutter DEF EnableWithoutTask, taskVars
  <2>3. CASE EndSubscribe
    BY <2>3, LeaseStutter DEF EndSubscribe, taskVars, managerVars
  <2>4. CASE FailEnable
    <3>1. newTask \in Tasks
      BY <2>4 DEF FailEnable, IInv, TypeOK, TaskTypeOK, Enabling
    <3> QED
      BY <2>4, <3>1, DestructDarkens, LeaseDarkens DEF FailEnable
  <2>5. CASE DropTask
    <3>1. taskInProc \in Tasks
      BY <2>5 DEF DropTask, IInv, TypeOK, TaskTypeOK, Dropping
    <3>2. CASE HasReference(taskInProc)
      BY <2>5, <3>2, LeaseStutter DEF DropTask, taskVars
    <3>3. CASE ~HasReference(taskInProc)
      BY <2>5, <3>1, <3>3, DestructDarkens, LeaseDarkens DEF DropTask
    <3> QED
      BY <3>2, <3>3
  <2>6. CASE \E e \in Executors : TurnOff(e)
    <3>1. taskInProc \in Tasks
      BY <2>6 DEF TurnOff, IInv, TypeOK, TaskTypeOK
    <3> QED
      BY <2>6, <3>1, TurnOffDarkens, LeaseDarkens DEF TurnOff, managerVars
  <2> QED
    BY <1>1, <2>1, <2>2, <2>3, <2>4, <2>5, <2>6, LeaseFinishEnable,
       LeaseStopUsing, LeaseTurnOn
    DEF Command, Disable, OnHdiDisconnect
<1>2. ASSUME NEW t \in Tasks, Timer(t) PROVE LeaseStep
  <2>1. CASE TimerExpires(t)
    BY <2>1, LeaseStutter DEF TimerExpires, Expire, managerVars
  <2>2. CASE TimerLocksTask(t)
    BY <2>2, LeaseStutter DEF TimerLocksTask, LockWeakSelf, managerVars
  <2>3. CASE TimerTurnsOff(t)
    BY <2>3, TurnOffDarkens, LeaseDarkens
    DEF TimerTurnsOff, OnDisplayTimeOut, managerVars
  <2>4. CASE TimerDropsTask(t)
    <3>1. CASE t = taskInProc
      BY <2>4, <3>1, LeaseStutter DEF TimerDropsTask
    <3>2. CASE t # taskInProc
      BY <2>4, <3>2, DestructDarkens, LeaseDarkens DEF TimerDropsTask
    <3> QED
      BY <3>1, <3>2
  <2> QED
    BY <1>2, <2>1, <2>2, <2>3, <2>4 DEF Timer
<1>3. CASE ReceiveScreenEvent \/ ChangeScreen
  BY <1>3, LeaseStutter
  DEF ReceiveScreenEvent, ChangeScreen, taskVars, managerVars
<1>4. CASE UNCHANGED vars
  BY <1>4, LeaseStutter DEF vars, taskVars, managerVars
<1> QED
  BY <1>1, <1>2, <1>3, <1>4 DEF Next

(***************************************************************************)
(* The safety part of ImplementsLease: the illumination begins as the      *)
(* lease begins, and each of its steps is a step of the lease or leaves    *)
(* owner and light alone.                                                  *)
(***************************************************************************)
THEOREM RefinesLease ==
    Spec => Lease!Init /\ [][Lease!Next]_(Lease!leaseVars)
<1>1. Init => Lease!Init
  BY DEF Init, TaskInit, Lease!Init
<1>2. IInv /\ [Next]_vars => [Lease!Next]_(Lease!leaseVars)
  BY LeaseNext DEF LeaseStep
<1> QED
  BY <1>1, <1>2, Invariance, PTL DEF Spec

-----------------------------------------------------------------------------
(***************************************************************************)
(* Manager, tasks and timers touch the monitor by its operations only.     *)
(***************************************************************************)
LEMMA MonitorStep ==
    ASSUME [Next]_vars PROVE [MonitorNext]_monitorVars
<1>1. CASE Command
  <2>1. CASE \E e \in Executors, t \in Tasks : StartEnable(e, t)
    BY <2>1 DEF StartEnable, Construct, MonitorNext
  <2>2. CASE EnableWithoutTask
    BY <2>2 DEF EnableWithoutTask
  <2>3. CASE EndSubscribe
    BY <2>3 DEF EndSubscribe, MonitorNext
  <2>4. CASE \E level \in Levels, valid \in BOOLEAN : FinishEnable(level, valid)
    BY <2>4 DEF FinishEnable
  <2>5. CASE FailEnable
    BY <2>5 DEF FailEnable, Destruct, StopMonitor, MonitorNext
  <2>6. CASE \E e \in Executors : StopUsing(e)
    BY <2>6 DEF StopUsing, DisableSensorIllumination, MonitorNext
  <2>7. CASE DropTask
    BY <2>7 DEF DropTask, Destruct, StopMonitor, MonitorNext
  <2>8. CASE \E e \in Executors, level \in Levels, drawn \in BOOLEAN :
               TurnOn(e, level, drawn)
    BY <2>8 DEF TurnOn
  <2>9. CASE \E e \in Executors : TurnOff(e)
    BY <2>9 DEF TurnOff
  <2> QED
    BY <1>1, <2>1, <2>2, <2>3, <2>4, <2>5, <2>6, <2>7, <2>8, <2>9
    DEF Command, Disable, OnHdiDisconnect
<1>2. ASSUME NEW t \in Tasks, Timer(t) PROVE [MonitorNext]_monitorVars
  <2>1. CASE TimerExpires(t)
    BY <2>1 DEF TimerExpires, Expire
  <2>2. CASE TimerLocksTask(t)
    BY <2>2 DEF TimerLocksTask, LockWeakSelf
  <2>3. CASE TimerTurnsOff(t)
    BY <2>3 DEF TimerTurnsOff, OnDisplayTimeOut
  <2>4. CASE TimerDropsTask(t)
    BY <2>4 DEF TimerDropsTask, Destruct, StopMonitor, MonitorNext
  <2> QED
    BY <1>2, <2>1, <2>2, <2>3, <2>4 DEF Timer
<1>3. CASE ReceiveScreenEvent \/ ChangeScreen
  BY <1>3 DEF ReceiveScreenEvent, ChangeScreen, MonitorNext
<1>4. CASE UNCHANGED vars
  BY <1>4 DEF vars
<1> QED
  BY <1>1, <1>2, <1>3, <1>4 DEF Next

(***************************************************************************)
(* The monitor in the composition behaves as the monitor alone may: the    *)
(* manager and all its tasks, destructors on timer threads included, keep  *)
(* to the discipline of its mutex.                                         *)
(***************************************************************************)
THEOREM RefinesMonitor ==
    Spec => MonitorInit /\ [][MonitorNext]_monitorVars
<1>1. Init => MonitorInit
  BY DEF Init
<1>2. [Next]_vars => [MonitorNext]_monitorVars
  BY MonitorStep
<1> QED
  BY <1>1, <1>2, PTL DEF Spec

(***************************************************************************)
(* However many tasks share the singleton monitor of                       *)
(* screen_state_monitor.cpp, it misses no change of the screen while it is *)
(* subscribed: TracksScreen, for the whole illumination.                   *)
(***************************************************************************)
THEOREM IlluminationTracksScreen == Spec => []TracksScreen
<1>1. MonitorInit => MonitorInv
  BY MonitorStarts
<1>2. MonitorInv /\ [MonitorNext]_monitorVars => MonitorInv'
  BY MonitorInductive
<1>3. MonitorInv => TracksScreen
  BY MonitorTracks
<1> QED
  BY <1>1, <1>2, <1>3, RefinesMonitor, PTL

-----------------------------------------------------------------------------
(***************************************************************************)
(* Of ReferencedLives one half is in IInv: a reference is to a live task,  *)
(* since memory without a task has an idle timer thread (BareTasks).  The  *)
(* other is inductive with it: whoever lets go of a task destroys it, or   *)
(* somebody else still holds it.                                           *)
(***************************************************************************)
Referenced(t) == t \in {taskInProc, newTask} \/ HasReference(t)

LivesAreReferenced == \A t \in Tasks : t \in alive => Referenced(t)

\* A reference is to a live task.
LEMMA ReferencesLive ==
    ASSUME IInv, NEW t \in Tasks, Referenced(t) PROVE t \in alive
  BY ManagerAssumption
  DEF IInv, TypeOK, BareTasks, Bare, Referenced, HasReference

\* A step that moves no reference keeps them true.
LEMMA ReferencesSame ==
    ASSUME LivesAreReferenced, alive' \subseteq alive,
           UNCHANGED <<timerThread, taskInProc, newTask>>
    PROVE  LivesAreReferenced'
  BY DEF LivesAreReferenced, Referenced, HasReference

\* No step lets go of the last reference of a task that lives on.
LEMMA LivesStayReferenced ==
    IInv /\ LivesAreReferenced /\ [Next]_vars => LivesAreReferenced'
<1> SUFFICES ASSUME IInv, LivesAreReferenced, [Next]_vars
             PROVE  LivesAreReferenced'
  OBVIOUS
<1>1. CASE Command
  <2>1. CASE \E e \in Executors, t \in Tasks : StartEnable(e, t)
    BY <2>1
    DEF StartEnable, Construct, IInv, Enabling, LivesAreReferenced, Referenced,
        HasReference
  <2>2. CASE EnableWithoutTask
    BY <2>2, ReferencesSame DEF EnableWithoutTask, taskVars
  <2>3. CASE EndSubscribe
    BY <2>3, ReferencesSame DEF EndSubscribe, taskVars, managerVars
  <2>4. CASE \E level \in Levels, valid \in BOOLEAN : FinishEnable(level, valid)
    BY <2>4
    DEF FinishEnable, EnableSensorIllumination, IInv, Enabling, Idle,
        LivesAreReferenced, Referenced, HasReference
  <2>5. CASE FailEnable
    BY <2>5
    DEF FailEnable, Destruct, Idle, IInv, TypeOK, TaskTypeOK,
        LivesAreReferenced, Referenced, HasReference
  <2>6. CASE \E e \in Executors : StopUsing(e)
    BY <2>6, ReferencesSame DEF StopUsing, DisableSensorIllumination
  <2>7. CASE DropTask
    <3>1. CASE HasReference(taskInProc)
      BY <2>7, <3>1
      DEF DropTask, ForgetTask, taskVars, LivesAreReferenced, Referenced,
          HasReference
    <3>2. CASE ~HasReference(taskInProc)
      BY <2>7, <3>2
      DEF DropTask, ForgetTask, Destruct, IInv, TypeOK, TaskTypeOK,
          LivesAreReferenced, Referenced, HasReference
    <3> QED
      BY <3>1, <3>2
  <2>8. CASE \E e \in Executors, level \in Levels, drawn \in BOOLEAN :
               TurnOn(e, level, drawn)
    BY <2>8, ReferencesSame DEF TurnOn, TurnOnSensorIllumination, managerVars
  <2>9. CASE \E e \in Executors : TurnOff(e)
    BY <2>9, ReferencesSame DEF TurnOff, managerVars
  <2> QED
    BY <1>1, <2>1, <2>2, <2>3, <2>4, <2>5, <2>6, <2>7, <2>8, <2>9
    DEF Command, Disable, OnHdiDisconnect
<1>2. ASSUME NEW t \in Tasks, Timer(t) PROVE LivesAreReferenced'
  <2>1. timerThread \in [Tasks -> {"idle", "fired", "locked", "returned"}]
    BY DEF IInv, TypeOK, TaskTypeOK
  <2>2. CASE TimerExpires(t)
    BY <2>1, <2>2
    DEF TimerExpires, Expire, managerVars, LivesAreReferenced, Referenced,
        HasReference
  <2>3. CASE TimerLocksTask(t)
    BY <2>1, <2>3
    DEF TimerLocksTask, LockWeakSelf, managerVars, LivesAreReferenced,
        Referenced, HasReference
  <2>4. CASE TimerTurnsOff(t)
    BY <2>1, <2>4
    DEF TimerTurnsOff, OnDisplayTimeOut, managerVars, LivesAreReferenced,
        Referenced, HasReference
  <2>5. CASE TimerDropsTask(t)
    BY <2>1, <2>5
    DEF TimerDropsTask, Destruct, LivesAreReferenced, Referenced, HasReference
  <2> QED
    BY <1>2, <2>2, <2>3, <2>4, <2>5 DEF Timer
<1>3. CASE ReceiveScreenEvent \/ ChangeScreen
  BY <1>3, ReferencesSame
  DEF ReceiveScreenEvent, ChangeScreen, taskVars, managerVars
<1>4. CASE UNCHANGED vars
  BY <1>4, ReferencesSame DEF vars, taskVars, managerVars
<1> QED
  BY <1>1, <1>2, <1>3, <1>4 DEF Next

(***************************************************************************)
(* A task lives exactly as long as somebody refers to it                   *)
(* (std::shared_ptr in the manager and in the callback of                  *)
(* sensor_illumination_task.cpp:304), for any number of tasks and timers.  *)
(***************************************************************************)
THEOREM TasksLiveWhileReferenced == Spec => []ReferencedLives
<1>1. Init => LivesAreReferenced
  BY DEF Init, TaskInit, LivesAreReferenced
<1>2. IInv /\ LivesAreReferenced => ReferencedLives
  BY ReferencesLive DEF LivesAreReferenced, ReferencedLives, Referenced
<1> QED
  BY <1>1, <1>2, Invariance, LivesStayReferenced, PTL DEF Spec

-----------------------------------------------------------------------------
\* Step by step: only a late destructor stops a watch that is still needed.
LEMMA UnsubscribeIsEarned ==
    ASSUME IInv, [Next]_vars, isSubscribing, ~isSubscribing'
    PROVE  \/ executorInProc' = NoExecutor /\ at' # "enabling"
           \/ \E t \in alive \ alive' :
                t \notin {taskInProc, newTask} /\ timerThread[t] = "returned"
<1> DEFINE Ended == executorInProc' = NoExecutor /\ at' # "enabling"
<1>1. CASE Command
  <2>1. CASE \E e \in Executors, t \in Tasks : StartEnable(e, t)
    BY <2>1, SubscribeEffect DEF StartEnable, Construct
  <2>2. CASE EnableWithoutTask
    BY <2>2 DEF EnableWithoutTask, monitorVars
  <2>3. CASE EndSubscribe
    BY <2>3 DEF EndSubscribe, FinishSubscribe
  <2>4. CASE \E level \in Levels, valid \in BOOLEAN : FinishEnable(level, valid)
    BY <2>4 DEF FinishEnable, monitorVars
  <2>5. CASE FailEnable
    BY <2>5 DEF FailEnable, Idle, IInv, Enabling
  <2>6. CASE \E e \in Executors : StopUsing(e)
    BY <2>6 DEF StopUsing
  <2>7. CASE DropTask
    BY <2>7 DEF DropTask, IInv, Dropping
  <2>8. CASE \E e \in Executors, level \in Levels, drawn \in BOOLEAN :
               TurnOn(e, level, drawn)
    BY <2>8 DEF TurnOn, monitorVars
  <2>9. CASE \E e \in Executors : TurnOff(e)
    BY <2>9 DEF TurnOff, monitorVars
  <2> QED
    BY <1>1, <2>1, <2>2, <2>3, <2>4, <2>5, <2>6, <2>7, <2>8, <2>9
    DEF Command, Disable, OnHdiDisconnect
<1>2. ASSUME NEW t \in Tasks, TimerDropsTask(t)
      PROVE  /\ t \in alive \ alive'
             /\ t \notin {taskInProc, newTask}
             /\ timerThread[t] = "returned"
  <2>1. t # taskInProc
    BY <1>2 DEF TimerDropsTask, monitorVars
  <2>2. timerThread[t] = "returned" /\ alive' = alive \ {t}
    BY <1>2, <2>1 DEF TimerDropsTask, Destruct
  <2>3. t \in alive /\ t # newTask
    BY <2>2 DEF IInv, BareTasks, Bare
  <2> QED
    BY <2>1, <2>2, <2>3
<1>3. ASSUME NEW t \in Tasks, Timer(t) PROVE TimerDropsTask(t)
  BY <1>3
  DEF Timer, TimerExpires, Expire, TimerLocksTask, LockWeakSelf, TimerTurnsOff,
      OnDisplayTimeOut, monitorVars
<1>4. ~(ReceiveScreenEvent \/ ChangeScreen \/ UNCHANGED vars)
  BY DEF ReceiveScreenEvent, OnReceiveEvent, ChangeScreen, ScreenChange, vars,
         monitorVars
<1> QED
  BY <1>1, <1>2, <1>3, <1>4 DEF Next

(***************************************************************************)
(* The destructor of sensor_illumination_task.cpp:154, run late on a timer *)
(* thread, is the only way an illumination that has not ended can lose its *)
(* watch on the screen.                                                    *)
(***************************************************************************)
THEOREM OnlyLateDestructors == Spec => OnlyLateDestructorsUnsubscribe
<1>1. IInv /\ [Next]_vars =>
        [isSubscribing /\ ~isSubscribing' =>
           \/ executorInProc' = NoExecutor /\ at' # "enabling"
           \/ \E t \in alive \ alive' :
                t \notin {taskInProc, newTask} /\ timerThread[t] = "returned"]_vars
  BY UnsubscribeIsEarned
<1> QED
  BY <1>1, Invariance, PTL DEF Spec, OnlyLateDestructorsUnsubscribe

=============================================================================
