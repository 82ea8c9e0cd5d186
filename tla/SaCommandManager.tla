-------------------------- MODULE SaCommandManager --------------------------
(***************************************************************************)
(* SaCommandManager (services/src/sa_command_manager.cpp) hands the        *)
(* commands a driver sends to the processors registered for them, and      *)
(* tells every processor when a driver disconnects.  Batches of commands   *)
(* and disconnects hold mutex_ shared, on the IPC threads they arrive on,  *)
(* and so run side by side; registering and unregistering hold it          *)
(* exclusively.                                                            *)
(*                                                                         *)
(* A thread that is in a batch or a disconnect (doing) holds the shared    *)
(* lock.  The set of processors it has yet to call for the present command *)
(* is pending; std::set orders them by address, so any order may happen.   *)
(***************************************************************************)
EXTENDS Naturals, Sequences

CONSTANTS
    Threads,
    Executors,
    NoExecutor,
    Processors,
    CommandIds,
    MaxBatch  \* bound on the commands of one batch (model only)

ASSUME DispatchAssumption ==
    /\ MaxBatch \in Nat
    /\ NoExecutor \notin Executors

VARIABLES
    processors,            \* processors_
    commandId2Processors,  \* commandId2Processors_, a map with some of the ids
    doing,                 \* "nothing", "batch" or "disconnect"
    executor,              \* the executor a thread works for
    commands,              \* the batch
    index,                 \* the command of the batch a thread is at
    pending,
    performed              \* history: <<i, p>> if p performed the i-th command

tableVars == <<processors, commandId2Processors>>
threadVars == <<doing, executor, commands, index, pending, performed>>
dispatchVars == <<tableVars, threadVars>>

Batches == UNION {[1..n -> CommandIds] : n \in 0..MaxBatch}

DispatchTypeOK ==
    /\ processors \subseteq Processors
    /\ DOMAIN commandId2Processors \subseteq CommandIds
    /\ \A id \in DOMAIN commandId2Processors :
         commandId2Processors[id] \subseteq Processors
    /\ doing \in [Threads -> {"nothing", "batch", "disconnect"}]
    /\ executor \in [Threads -> Executors \cup {NoExecutor}]
    /\ \A t \in Threads :
         /\ commands[t] \in Batches
         /\ index[t] \in 0..Len(commands[t])
         /\ pending[t] \subseteq Processors
         /\ performed[t] \subseteq (1..index[t]) \X Processors

DispatchInit(registered, ids) ==
    /\ processors = registered
    /\ commandId2Processors = [id \in ids |-> registered]
    /\ doing = [t \in Threads |-> "nothing"]
    /\ executor = [t \in Threads |-> NoExecutor]
    /\ commands = [t \in Threads |-> << >>]
    /\ index = [t \in Threads |-> 0]
    /\ pending = [t \in Threads |-> {}]
    /\ performed = [t \in Threads |-> {}]

-----------------------------------------------------------------------------
\* Mutant of ExclusiveLock: the tables are changed under the shared lock.
SharedLock == TRUE

ExclusiveLock == \A t \in Threads : doing[t] = "nothing"

\* RegisterSaCommandProcessor: ids that are new to the map are added to it.
Register(ids, p) ==
    /\ ExclusiveLock
    /\ processors' = processors \cup {p}
    /\ commandId2Processors' =
         [id \in DOMAIN commandId2Processors \cup ids |->
            (IF id \in DOMAIN commandId2Processors
               THEN commandId2Processors[id] ELSE {})
            \cup (IF id \in ids THEN {p} ELSE {})]
    /\ UNCHANGED threadVars

(***************************************************************************)
(* UnregisterSaCommandProcessor: the processor hears of no disconnect any  *)
(* more, even if it stays registered for other ids; an id that lost its    *)
(* last processor stays in the map.                                        *)
(***************************************************************************)
Unregister(ids, p) ==
    /\ ExclusiveLock
    /\ processors' = processors \ {p}
    /\ commandId2Processors' =
         [id \in DOMAIN commandId2Processors |->
            IF id \in ids THEN commandId2Processors[id] \ {p}
                          ELSE commandId2Processors[id]]
    /\ UNCHANGED threadVars

-----------------------------------------------------------------------------
\* ProcessSaCommands returns; the shared lock is released.
Return(t) ==
    /\ doing' = [doing EXCEPT ![t] = "nothing"]
    /\ executor' = [executor EXCEPT ![t] = NoExecutor]
    /\ commands' = [commands EXCEPT ![t] = << >>]
    /\ index' = [index EXCEPT ![t] = 0]
    /\ pending' = [pending EXCEPT ![t] = {}]
    /\ performed' = [performed EXCEPT ![t] = {}]

BeginBatch(t, e, batch) ==
    /\ doing[t] = "nothing"
    /\ doing' = [doing EXCEPT ![t] = "batch"]
    /\ executor' = [executor EXCEPT ![t] = e]
    /\ commands' = [commands EXCEPT ![t] = batch]
    /\ UNCHANGED <<index, pending, performed, tableVars>>

\* The next command of the batch; an id that is not in the map ends it.
NextCommand(t) ==
    /\ doing[t] = "batch"
    /\ pending[t] = {}
    /\ index[t] < Len(commands[t])
    /\ LET id == commands[t][index[t] + 1]
       IN IF id \in DOMAIN commandId2Processors
            THEN /\ index' = [index EXCEPT ![t] = index[t] + 1]
                 /\ pending' = [pending EXCEPT ![t] = commandId2Processors[id]]
                 /\ UNCHANGED <<doing, executor, commands, performed>>
            ELSE Return(t)
    /\ UNCHANGED tableVars

\* A processor performs the command, or fails and the batch ends there.
ProcessSaCommand(t, p, ok) ==
    /\ doing[t] = "batch"
    /\ p \in pending[t]
    /\ IF ok
         THEN /\ pending' = [pending EXCEPT ![t] = pending[t] \ {p}]
              /\ performed' =
                   [performed EXCEPT ![t] = performed[t] \cup {<<index[t], p>>}]
              /\ UNCHANGED <<doing, executor, commands, index>>
         ELSE Return(t)
    /\ UNCHANGED tableVars

\* The batch is through and ProcessSaCommands returns SUCCESS.
FinishBatch(t) ==
    /\ doing[t] = "batch"
    /\ pending[t] = {}
    /\ index[t] = Len(commands[t])
    /\ Return(t)
    /\ UNCHANGED tableVars

-----------------------------------------------------------------------------
\* Mutant of WhoHears: nobody is told of the disconnect.
NobodyHears == {}

WhoHears == processors

BeginDisconnect(t, e) ==
    /\ doing[t] = "nothing"
    /\ doing' = [doing EXCEPT ![t] = "disconnect"]
    /\ executor' = [executor EXCEPT ![t] = e]
    /\ pending' = [pending EXCEPT ![t] = WhoHears]
    /\ UNCHANGED <<commands, index, performed, tableVars>>

HearDisconnect(t, p) ==
    /\ doing[t] = "disconnect"
    /\ p \in pending[t]
    /\ pending' = [pending EXCEPT ![t] = pending[t] \ {p}]
    /\ UNCHANGED <<doing, executor, commands, index, performed, tableVars>>

EndDisconnect(t) ==
    /\ doing[t] = "disconnect"
    /\ pending[t] = {}
    /\ Return(t)
    /\ UNCHANGED tableVars

-----------------------------------------------------------------------------
DispatchNext ==
    \/ \E ids \in SUBSET CommandIds, p \in Processors :
         Register(ids, p) \/ Unregister(ids, p)
    \/ \E t \in Threads :
         \/ \E e \in Executors, batch \in Batches : BeginBatch(t, e, batch)
         \/ NextCommand(t)
         \/ \E p \in Processors, ok \in BOOLEAN : ProcessSaCommand(t, p, ok)
         \/ FinishBatch(t)
         \/ \E e \in Executors : BeginDisconnect(t, e)
         \/ \E p \in Processors : HearDisconnect(t, p)
         \/ EndDisconnect(t)

DispatchSpec == DispatchInit({}, {}) /\ [][DispatchNext]_dispatchVars

-----------------------------------------------------------------------------
(***************************************************************************)
(* A batch is processed against one table: whatever registrations are made *)
(* or ended, every command it has passed was performed by every processor  *)
(* that is registered for it at this moment.  Hence SUCCESS means that all *)
(* of them performed all of it.                                            *)
(***************************************************************************)
BatchSeesOneTable ==
    \A t \in Threads :
        doing[t] = "batch" =>
            \A i \in 1..index[t] :
                /\ commands[t][i] \in DOMAIN commandId2Processors
                /\ \A p \in commandId2Processors[commands[t][i]] :
                     \/ <<i, p>> \in performed[t]
                     \/ i = index[t] /\ p \in pending[t]

=============================================================================
