------------------------------ MODULE LockOrder ------------------------------
(***************************************************************************)
(* The mutexes of the service and who holds which while waiting for which. *)
(* Eight kinds are nested, by functions of eight classes:                  *)
(*                                                                         *)
(*   driver      FingerprintAuthDriverHdi::mutex_                          *)
(*   dispatcher  SaCommandManager::mutex_, shared but to registrations     *)
(*   manager     SensorIlluminationManager::mutex_                         *)
(*   loader      ServiceExManager::recursiveMutex_                         *)
(*   task        SensorIlluminationTask::recursiveMutex_, one of each task *)
(*   monitor     ScreenStateMonitor::mutex_                                *)
(*   subscriber  EventSubscriber::eventSubscriberMutex_                    *)
(*   timer       no mutex: held by a timer's thread during its callback,   *)
(*               because Timer::Shutdown waits for the callback to end     *)
(*                                                                         *)
(* Every function of these classes that locks does so for the whole of its *)
(* body.  A call is therefore a pair <<function, object>>, entering it     *)
(* takes the mutex of the function, and its body is the sequence of such   *)
(* calls that it makes.  What decides between bodies (who has the lease,   *)
(* whether a reference is the last one) is left open.                      *)
(***************************************************************************)
EXTENDS Naturals, Sequences

CONSTANTS
    Framework,    \* the thread on which the framework calls the driver
    IpcThreads,   \* threads of commands, of screen events, of registrations
    Tasks,        \* the illumination tasks; each is also its timer's thread
    NoTask,       \* the object of a function that is not a task's
    MaxExecutors, \* bound on the executors of a driver (model only)
    MaxBatch      \* bound on the commands of a batch (model only)

Threads == {Framework} \cup IpcThreads \cup Tasks

ASSUME LockAssumption ==
    /\ NoTask \notin Tasks
    /\ Framework \notin IpcThreads \cup Tasks
    /\ IpcThreads \cap Tasks = {}
    /\ MaxExecutors \in Nat
    /\ MaxBatch \in Nat

VARIABLE
    stack  \* of a thread: the calls it is in, innermost last, each with the
           \* calls of its body that are still to be made

\* The functions that take the mutex of their class.
OfDriver == {"GetExecutorList", "OnHdiDisconnect"}
OfDispatcher ==
    {"RegisterSaCommandProcessor", "ProcessSaCommands", "TellProcessors"}
OfManager == {"ProcessSaCommand", "EndLease"}
OfLoader == {"Acquire", "Release", "GetSensorIlluminationTask"}
OfTask == {"EnableTask", "DisableTask", "TurnOnTask", "TurnOffTask"}
OfTimer == {"TimerCallback", "Shutdown"}
OfMonitor == {"Subscribe", "Unsubscribe", "GetScreenOn", "SetScreenOn"}
OfSubscriber == {"SetCallback", "GetCallback"}

Functions ==
    {"main"} \cup OfDriver \cup OfDispatcher \cup OfManager \cup OfLoader
        \cup OfTask \cup OfTimer \cup OfMonitor \cup OfSubscriber

Kind ==
    [f \in Functions |->
        CASE f \in OfDriver -> "driver"
          [] f \in OfDispatcher -> "dispatcher"
          [] f \in OfManager -> "manager"
          [] f \in OfLoader -> "loader"
          [] f \in OfTask -> "task"
          [] f \in OfTimer -> "timer"
          [] f \in OfMonitor -> "monitor"
          [] f \in OfSubscriber -> "subscriber"
          [] OTHER -> "none"]

Call(f) == <<f, NoTask>>
Calls ==
    {c \in Functions \X (Tasks \cup {NoTask}) :
        c[2] \in Tasks <=> c[1] \in OfTask \cup OfTimer}

\* The mutex a call takes: two calls take the same one if these are equal.
MutexOf(c) == <<Kind[c[1]], c[2]>>

\* Mutant of Recursive: the task's mutex is a plain one.
NoRecursion == {"loader", "timer"}

\* Timer::Shutdown on the timer's own thread is taken to return.
Recursive == {"loader", "task", "timer"}

-----------------------------------------------------------------------------
(***************************************************************************)
(* The bodies.  A task is destroyed by whoever drops its last reference.   *)
(***************************************************************************)
Destructor(t) == <<Call("Unsubscribe"), <<"Shutdown", t>>, Call("Release")>>

Constructor == <<Call("Subscribe")>>

\* Mutant of DisableSensorIllumination: the task stops its timer itself.
StopTimerInside(t) ==
    <<<<"TurnOffTask", t>>, Call("Unsubscribe"), <<"Shutdown", t>>>>

DisableSensorIllumination(t) == <<<<"TurnOffTask", t>>, Call("Unsubscribe")>>

TurnOnSensorIllumination == {<< >>, <<Call("GetScreenOn")>>}

\* The manager: an executor without the lease, or with it.
EndUse ==
    {<< >>}
        \cup {<<<<"DisableTask", t>>>> : t \in Tasks}
        \cup {<<<<"DisableTask", t>>>> \o Destructor(t) : t \in Tasks}

Load == <<Call("Acquire"), Call("GetSensorIlluminationTask")>>

Enable ==
    {<<Call("Acquire")>>, Load \o <<Call("Release")>>}
        \cup {Load \o Destructor(t) : t \in Tasks}
        \cup {Load \o <<<<"EnableTask", t>>>> : t \in Tasks}
        \cup {Load \o <<<<"EnableTask", t>>>> \o Destructor(t) : t \in Tasks}

Command ==
    Enable \cup EndUse
        \cup {<<<<"TurnOnTask", t>>>> : t \in Tasks}
        \cup {<<<<"TurnOffTask", t>>>> : t \in Tasks}

\* The callback finds the task released, or turns it off, or also destroys it.
TimeOut(t) ==
    {<< >>, <<<<"TurnOffTask", t>>>>, <<<<"TurnOffTask", t>>>> \o Destructor(t)}

ScreenEvent == <<Call("GetCallback"), Call("SetScreenOn")>>

Repeat(c, max) == UNION {[1..n -> {c}] : n \in 0..max}

Bodies(c) ==
    CASE c[1] = "OnHdiDisconnect" -> Repeat(Call("TellProcessors"), MaxExecutors)
      [] c[1] = "ProcessSaCommands" -> Repeat(Call("ProcessSaCommand"), MaxBatch)
      [] c[1] = "TellProcessors" -> {<< >>, <<Call("EndLease")>>}
      [] c[1] = "ProcessSaCommand" -> Command
      [] c[1] = "EndLease" -> EndUse
      [] c[1] = "GetSensorIlluminationTask" -> {<< >>, Constructor}
      [] c[1] = "DisableTask" -> {DisableSensorIllumination(c[2])}
      [] c[1] = "TurnOnTask" -> TurnOnSensorIllumination
      [] c[1] = "TimerCallback" -> TimeOut(c[2])
      [] c[1] = "Subscribe" -> {<< >>, <<Call("SetCallback")>>}
      [] OTHER -> {<< >>}

\* What a thread is given to do.
Entries(th) ==
    IF th = Framework
      THEN {<<Call("GetExecutorList")>>, <<Call("OnHdiDisconnect")>>}
    ELSE IF th \in Tasks THEN {<<<<"TimerCallback", th>>>>}
    ELSE {<<Call("ProcessSaCommands")>>, ScreenEvent,
          <<Call("RegisterSaCommandProcessor")>>}

-----------------------------------------------------------------------------
Frame(c, body) == [call |-> c, todo |-> body]
Top(th) == stack[th][Len(stack[th])]
Idle(th) == stack[th] = <<Frame(Call("main"), << >>)>>

LockInit == stack = [th \in Threads |-> <<Frame(Call("main"), << >>)>>]

\* The call a thread is about to make.
Wants(th, c) == Top(th).todo # << >> /\ c = Head(Top(th).todo)

Holds(th, m) == \E i \in DOMAIN stack[th] : MutexOf(stack[th][i].call) = m

Registers(th) ==
    \E i \in DOMAIN stack[th] :
        stack[th][i].call = Call("RegisterSaCommandProcessor")

\* Whether the mutex that u holds keeps th from entering c.
Excludes(u, th, c) ==
    /\ Holds(u, MutexOf(c))
    /\ u = th => Kind[c[1]] \notin Recursive
    /\ \/ Kind[c[1]] # "dispatcher"
       \/ c = Call("RegisterSaCommandProcessor")
       \/ Registers(u)

Begin(th) ==
    /\ Idle(th)
    /\ \E body \in Entries(th) :
         stack' = [stack EXCEPT ![th] = <<Frame(Call("main"), body)>>]

Enter(th) ==
    \E c \in Calls :
        /\ Wants(th, c)
        /\ \A u \in Threads : ~Excludes(u, th, c)
        /\ \E body \in Bodies(c) :
             stack' = [stack EXCEPT ![th] =
                 Append([stack[th] EXCEPT ![Len(stack[th])].todo = Tail(@)],
                        Frame(c, body))]

Return(th) ==
    /\ Top(th).todo = << >>
    /\ Len(stack[th]) > 1
    /\ stack' = [stack EXCEPT ![th] = SubSeq(@, 1, Len(@) - 1)]

GoOn(th) == Enter(th) \/ Return(th)

LockNext == \E th \in Threads : Begin(th) \/ GoOn(th)

\* A thread that may go on does, and asks again for a mutex it did not get.
LockFairness == \A th \in Threads : WF_stack(GoOn(th))

LockSpec == LockInit /\ [][LockNext]_stack /\ LockFairness

-----------------------------------------------------------------------------
LockTypeOK == stack \in [Threads -> Seq([call : Calls, todo : Seq(Calls)])]

(***************************************************************************)
(* u keeps th waiting: it holds the mutex in a mode that excludes th, or   *)
(* it waits for the dispatcher's mutex to register, which a shared mutex   *)
(* may put before readers that come later.                                 *)
(***************************************************************************)
WaitsFor(th, u) ==
    \E c \in Calls :
        /\ Wants(th, c)
        /\ \/ Excludes(u, th, c)
           \/ /\ Kind[c[1]] = "dispatcher"
              /\ c # Call("RegisterSaCommandProcessor")
              /\ Wants(u, Call("RegisterSaCommandProcessor"))

(***************************************************************************)
(* No threads wait for each other in a circle: among any of them there is  *)
(* one that waits for none of them.  Commands, disconnects, timers that    *)
(* destroy tasks, screen events and registrations all take part.           *)
(***************************************************************************)
NoCyclicWait ==
    \A Q \in SUBSET Threads :
        Q # {} => \E th \in Q : \A u \in Q : ~WaitsFor(th, u)

(***************************************************************************)
(* The service never hangs: while any call is in progress, some thread in  *)
(* a call waits for nobody, neither for a mutex nor for the end of a timer *)
(* callback, and so can go on.                                             *)
(***************************************************************************)
SomebodyGoesOn ==
    LET Busy == {th \in Threads : ~Idle(th)}
    IN Busy # {} => \E th \in Busy : \A u \in Threads : ~WaitsFor(th, u)

(***************************************************************************)
(* Once no thread is given anything new to do, every call that was begun   *)
(* returns and every thread stays idle: a disconnect gets through to the   *)
(* end of its list, a destructor gets its timer's thread to stop.          *)
(***************************************************************************)
EveryCallReturns ==
    <>[][\A th \in Threads : ~Begin(th)]_stack
        => <>[](\A th \in Threads : Idle(th))

=============================================================================
