------------------------ MODULE FingerprintAuthDriver ------------------------
(***************************************************************************)
(* FingerprintAuthDriverHdi and its FingerprintAllInOneExecutorHdi objects *)
(* (services/src) stand between the user authentication framework and the  *)
(* fingerprint HDI host.  The service gives the driver to the framework,   *)
(* which asks it for the executors, finishes their registration, handing   *)
(* the host a callback for SA commands, and reports that the host has      *)
(* disconnected.  The commands themselves come on IPC threads and may      *)
(* still be running then.                                                  *)
(*                                                                         *)
(* The one processor of the program is the sensor illumination manager, of *)
(* which only executorInProc_ is seen here, as owner.                      *)
(*                                                                         *)
(* An executor object is an element of Executors; none is used twice.      *)
(***************************************************************************)
EXTENDS SaCommandManager

CONSTANTS
    Framework,     \* the framework's thread; the others are IPC threads
    Illumination   \* the processor

ASSUME DriverAssumption ==
    /\ Framework \in Threads
    /\ Processors = {Illumination}
    /\ {"ENABLE", "DISABLE"} \subseteq CommandIds

VARIABLES
    owner,           \* the executor that has the illumination
    hdiUp,           \* environment: the host is running
    connection,      \* external: of the framework with the host: "none", "up",
                     \* "died" until OnHdiDisconnect is called, or "off"
                     \* while the framework has no driver
    fetched,         \* GetExecutorList past line 57: "none", "live" or "dead"
    executorList,    \* fingerprintAuthExecutorList_
    notify,          \* OnHdiDisconnect in progress: who is still to be told
    disconnecting,   \* OnHdiDisconnect is in progress and holds mutex_
    created,         \* the executor objects that were ever made
    live,            \* those whose proxy reaches the running host
    callback,        \* those whose SaCommandCallback the host holds
    told,            \* history: those whose OnHdiDisconnect has returned
    late             \* history: had commands running when told to disconnect

driverVars ==
    <<hdiUp, connection, fetched, executorList, notify, disconnecting,
      created, live, callback, told, late>>
allVars == <<dispatchVars, owner, driverVars>>

DriverTypeOK ==
    /\ owner \in Executors \cup {NoExecutor}
    /\ hdiUp \in BOOLEAN
    /\ connection \in {"off", "none", "up", "died"}
    /\ fetched \in {"none", "live", "dead"}
    /\ executorList \subseteq created
    /\ notify \subseteq executorList
    /\ disconnecting \in BOOLEAN
    /\ created \subseteq Executors
    /\ live \subseteq created
    /\ callback \subseteq created
    /\ told \subseteq created
    /\ late \subseteq created

\* CreateSensorIlluminationManager registers the manager for these.
IlluminationCommandIds == CommandIds \ {"UNKNOWN"}

\* Static initialisation makes the driver and the manager; no host is up.
DriverInit ==
    /\ DispatchInit({Illumination}, IlluminationCommandIds)
    /\ owner = NoExecutor
    /\ hdiUp = FALSE
    /\ connection = "off"
    /\ fetched = "none"
    /\ executorList = {}
    /\ notify = {}
    /\ disconnecting = FALSE
    /\ created = {}
    /\ live = {}
    /\ callback = {}
    /\ told = {}
    /\ late = {}

-----------------------------------------------------------------------------
(***************************************************************************)
(* FingerprintAuthService::OnStart.  If the driver manager cannot be       *)
(* started that is logged, and the framework never has the driver.         *)
(***************************************************************************)
OnStart ==
    /\ connection = "off"
    /\ connection' = "none"
    /\ UNCHANGED <<hdiUp, fetched, executorList, notify, disconnecting,
                   created, live, callback, told, late, owner, dispatchVars>>

(***************************************************************************)
(* The host starts, and dies with everything it holds.                     *)
(***************************************************************************)
HdiStarts ==
    /\ ~hdiUp
    /\ hdiUp' = TRUE
    /\ UNCHANGED <<connection, fetched, executorList, notify, disconnecting,
                   created, live, callback, told, late, owner, dispatchVars>>

HdiDies ==
    /\ hdiUp
    /\ hdiUp' = FALSE
    /\ live' = {}
    /\ callback' = {}
    /\ fetched' = IF fetched = "live" THEN "dead" ELSE fetched
    /\ connection' = IF connection = "up" THEN "died" ELSE connection
    /\ UNCHANGED <<executorList, notify, disconnecting, created,
                   told, late, owner, dispatchVars>>

(***************************************************************************)
(* GetExecutorList: the host is asked without a lock, the list is replaced *)
(* under mutex_.  In between the host may die and be reported gone.  If    *)
(* there is no proxy, or the call fails, the list stays as it is.          *)
(***************************************************************************)
AskHost(answers) ==
    /\ hdiUp
    /\ connection = "none"
    /\ fetched = "none"
    /\ connection' = "up"
    /\ fetched' = IF answers THEN "live" ELSE "none"
    /\ UNCHANGED <<hdiUp, executorList, notify, disconnecting, created, live,
                   callback, told, late, owner, dispatchVars>>

\* Mutant of DriverMutexFree: the list is replaced without the lock.
NoDriverMutex == TRUE

DriverMutexFree == ~disconnecting

StoreExecutors(new) ==
    /\ fetched # "none"
    /\ DriverMutexFree
    /\ new \subseteq Executors \ created
    /\ executorList' = new
    /\ created' = created \cup new
    /\ live' = IF fetched = "live" THEN live \cup new ELSE live
    /\ fetched' = "none"
    /\ UNCHANGED <<hdiUp, connection, notify, disconnecting, callback, told, late,
                   owner, dispatchVars>>

\* OnRegisterFinish, when both calls to the host succeed.
OnRegisterFinish(e) ==
    /\ e \in live
    /\ callback' = callback \cup {e}
    /\ UNCHANGED <<hdiUp, connection, fetched, executorList, notify,
                   disconnecting, created, live, told, late, owner,
                   dispatchVars>>

-----------------------------------------------------------------------------
\* The host sends commands: OnSaCommands on an IPC thread.
OnSaCommands(t, e, batch) ==
    /\ t # Framework
    /\ e \in callback
    /\ BeginBatch(t, e, batch)
    /\ UNCHANGED <<owner, driverVars>>

(***************************************************************************)
(* What the illumination manager makes of one command of executor e: it is *)
(* performed only for the owner, or ENABLE for nobody else; even then the  *)
(* task may fail.  DISABLE does not fail.                                  *)
(***************************************************************************)
Allowed(id, e) ==
    IF id = "ENABLE" THEN owner = NoExecutor ELSE owner = e

Perform(t, ok) ==
    /\ doing[t] = "batch"
    /\ pending[t] # {}
    /\ LET id == commands[t][index[t]]
           e == executor[t]
       IN /\ ok => Allowed(id, e)
          /\ ~ok => id # "DISABLE" \/ ~Allowed(id, e)
          /\ owner' = CASE ok /\ id = "ENABLE" -> e
                        [] ok /\ id = "DISABLE" -> NoExecutor
                        [] OTHER -> owner
    /\ ProcessSaCommand(t, Illumination, ok)
    /\ UNCHANGED driverVars

Dispatch(t) ==
    /\ NextCommand(t) \/ FinishBatch(t)
    /\ UNCHANGED <<owner, driverVars>>

-----------------------------------------------------------------------------
\* FingerprintAuthDriverHdi::OnHdiDisconnect takes mutex_.
StartDisconnect ==
    /\ connection = "died"
    /\ ~disconnecting
    /\ connection' = "none"
    /\ disconnecting' = TRUE
    /\ notify' = executorList
    /\ UNCHANGED <<hdiUp, fetched, executorList, created, live, callback, told, late,
                   owner, dispatchVars>>

\* FingerprintAllInOneExecutorHdi::OnHdiDisconnect of the next in the list.
TellExecutor(e) ==
    /\ e \in notify
    /\ BeginDisconnect(Framework, e)
    /\ notify' = notify \ {e}
    /\ UNCHANGED <<hdiUp, connection, fetched, executorList, disconnecting,
                   created, live, callback, told, late, owner>>

\* SensorIlluminationManager::OnHdiDisconnect ends the lease of its owner.
HearDisconnected ==
    /\ HearDisconnect(Framework, Illumination)
    /\ LET e == executor[Framework]
       IN /\ owner' = IF owner = e THEN NoExecutor ELSE owner
          /\ late' = IF \E t \in Threads : doing[t] = "batch" /\ executor[t] = e
                       THEN late \cup {e} ELSE late
    /\ UNCHANGED <<hdiUp, connection, fetched, executorList, notify,
                   disconnecting, created, live, callback, told>>

ExecutorTold ==
    /\ EndDisconnect(Framework)
    /\ told' = told \cup {executor[Framework]}
    /\ UNCHANGED <<hdiUp, connection, fetched, executorList, notify,
                   disconnecting, created, live, callback, late, owner>>

\* The list is cleared and mutex_ released.
FinishDisconnect ==
    /\ disconnecting
    /\ notify = {}
    /\ doing[Framework] = "nothing"
    /\ executorList' = {}
    /\ disconnecting' = FALSE
    /\ UNCHANGED <<hdiUp, connection, fetched, notify, created, live,
                   callback, told, late, owner, dispatchVars>>

-----------------------------------------------------------------------------
DriverNext ==
    \/ OnStart
    \/ HdiStarts
    \/ HdiDies
    \/ \E answers \in BOOLEAN : AskHost(answers)
    \/ \E new \in SUBSET Executors : StoreExecutors(new)
    \/ \E e \in Executors : OnRegisterFinish(e)
    \/ \E t \in Threads, e \in Executors, batch \in Batches :
         OnSaCommands(t, e, batch)
    \/ \E t \in Threads, ok \in BOOLEAN : Perform(t, ok)
    \/ \E t \in Threads : Dispatch(t)
    \/ StartDisconnect
    \/ \E e \in Executors : TellExecutor(e)
    \/ HearDisconnected
    \/ ExecutorTold
    \/ FinishDisconnect

DriverSpec == DriverInit /\ [][DriverNext]_allVars

(***************************************************************************)
(* The framework learns of a death and its thread goes through the list.   *)
(* Nothing obliges the host to start, to answer or to send commands.       *)
(***************************************************************************)
DriverFairness ==
    /\ WF_allVars(StartDisconnect)
    /\ WF_allVars(\E e \in Executors : TellExecutor(e))
    /\ WF_allVars(HearDisconnected)
    /\ WF_allVars(ExecutorTold)
    /\ WF_allVars(FinishDisconnect)

DriverFairSpec == DriverSpec /\ DriverFairness

-----------------------------------------------------------------------------
(***************************************************************************)
(* Whoever has the illumination will be told when the host disconnects, or *)
(* was told: it is in the list that OnHdiDisconnect goes through, however  *)
(* the list is replaced and cleared while hosts come and go.               *)
(***************************************************************************)
OwnerIsListed == owner = NoExecutor \/ owner \in executorList \cup told

(***************************************************************************)
(* The end of a driver ends its lease: an executor that was told of the    *)
(* disconnect has the illumination only if commands of its own were still  *)
(* running at that moment and took it afterwards.                          *)
(***************************************************************************)
OnlyLateOwnersRemain == owner \in told => owner \in late

(***************************************************************************)
(* A dead owner is never forgotten: if the executor that has the           *)
(* illumination reaches no running host, and did not take it too late, its *)
(* disconnect is still to come, is going through the list and has yet to   *)
(* reach it, or is just being handled.                                     *)
(***************************************************************************)
DeadOwnerNotForgotten ==
    owner \in Executors \ (live \cup late) =>
        \/ connection = "died" /\ ~disconnecting /\ owner \in executorList
        \/ disconnecting /\ owner \in notify
        \/ /\ doing[Framework] = "disconnect"
           /\ executor[Framework] = owner
           /\ pending[Framework] # {}

(***************************************************************************)
(* The lease of an executor whose host has died ends, also when new hosts  *)
(* come up before the framework has noticed, unless its own late commands  *)
(* took it after the disconnect.                                           *)
(***************************************************************************)
DeadLeaseEnds ==
    \A e \in Executors :
        (owner = e /\ e \notin live) ~> (owner # e \/ e \in late)

-----------------------------------------------------------------------------
(***************************************************************************)
(* "another executor is using this module"                                 *)
(* (sensor_illumination_manager.cpp:108): ENABLE is refused only for an    *)
(* executor that was not disconnected.                                     *)
(***************************************************************************)
RefusedOnlyForUser ==
    [][\A t \in Threads :
         Perform(t, FALSE) /\ commands[t][index[t]] = "ENABLE" =>
             owner \notin told]_allVars

=============================================================================
