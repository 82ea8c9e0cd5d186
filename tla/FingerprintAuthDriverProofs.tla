--------------------- MODULE FingerprintAuthDriverProofs ---------------------
(***************************************************************************)
(* Theorems about FingerprintAuthDriver: its safety invariants and that it *)
(* keeps to the steps of the dispatcher, for any number of IPC threads and *)
(* executors and batches of every length, however often hosts come and go. *)
(***************************************************************************)
EXTENDS FingerprintAuthDriver, SaCommandManagerProofs

-----------------------------------------------------------------------------
(***************************************************************************)
(* The inductive invariant.                                                *)
(***************************************************************************)

\* An executor whose commands are running on thread t.
InBatch(t, e) == doing[t] = "batch" /\ executor[t] = e

\* Executors that reach the host, that it may call, that have or may take
\* the illumination.
Used ==
    {e \in Executors :
        \/ e \in live \cup callback
        \/ e = owner
        \/ \E t \in Threads : InBatch(t, e)}

\* Executor e is being told of the disconnect.
BeingTold(e) == doing[Framework] = "disconnect" /\ executor[Framework] = e

\* The manager has heard that e is disconnected.
Heard ==
    told \cup {e \in Executors : BeingTold(e) /\ pending[Framework] = {}}

\* Only the framework's thread disconnects, and it runs no commands.
OneDisconnect ==
    /\ processors = {Illumination}
    /\ doing[Framework] # "batch"
    /\ \A t \in Threads \ {Framework} : doing[t] # "disconnect"
    /\ doing[Framework] = "disconnect" =>
         disconnecting /\ executor[Framework] \in created

\* A disconnect tells everyone in the list.
ListIsTold ==
    IF disconnecting
      THEN \A e \in executorList : e \in notify \cup told \/ BeingTold(e)
      ELSE notify = {}

\* With no connection nobody reaches the host, until the disconnect is over.
NobodyLives ==
    /\ connection # "up" \/ disconnecting => live \cup callback = {}
    /\ fetched = "live" => connection = "up"

\* Whoever uses the illumination is in the list, or was.
UsedAreListed == Used \subseteq executorList \cup told

(***************************************************************************)
(* When the list is about to be replaced, nobody is on it who uses the     *)
(* illumination and was not told: it was cleared since the last host died, *)
(* or filled with executors that never reached one.                        *)
(***************************************************************************)
ListMayGo ==
    (connection \in {"off", "none"} \/ fetched # "none") /\ ~disconnecting =>
        Used \cap executorList \subseteq told

\* Who uses the illumination over a connection reaches the host, unless told.
ListReaches ==
    connection = "up" /\ ~disconnecting =>
        Used \cap executorList \subseteq live \cup told

\* Who was told has no callback, and only late commands and a late lease.
HeardAreLate ==
    /\ told \cap (live \cup callback) = {}
    /\ \A e \in Heard :
         /\ owner = e => e \in late
         /\ \A t \in Threads : InBatch(t, e) => e \in late

DriverInv ==
    /\ DispatchInv
    /\ DriverTypeOK
    /\ OneDisconnect
    /\ ListIsTold
    /\ NobodyLives
    /\ UsedAreListed
    /\ ListMayGo
    /\ ListReaches
    /\ HeardAreLate

-----------------------------------------------------------------------------
\* At the start nothing is there but the manager and its registration.
LEMMA DriverInitInv == DriverInit => DriverInv
<1> SUFFICES ASSUME DriverInit PROVE DriverInv
  OBVIOUS
<1>1. DispatchInv
  BY DriverAssumption, DispatchInitInv DEF DriverInit, IlluminationCommandIds
<1>2. QED
  BY <1>1, DispatchAssumption, DriverAssumption
     DEF DriverInit, DispatchInit, DriverInv, DriverTypeOK, OneDisconnect,
         ListIsTold, NobodyLives, UsedAreListed, ListMayGo, ListReaches, HeardAreLate, Used,
         InBatch, BeingTold, Heard

(***************************************************************************)
(* For the dispatcher every step of the driver is one of its own: whom the *)
(* host calls for, or who is told, is an executor.                         *)
(***************************************************************************)
LEMMA DriverStepDispatches ==
    ASSUME DriverInv, [DriverNext]_allVars
    PROVE  [DispatchNext]_dispatchVars
<1>1. callback \subseteq Executors /\ notify \subseteq Executors
  BY DEF DriverInv, DriverTypeOK
<1>2. ASSUME NEW t \in Threads, NEW e \in Executors, NEW batch \in Batches,
             OnSaCommands(t, e, batch)
      PROVE  DispatchNext
  BY <1>2 DEF OnSaCommands, DispatchNext
<1>3. ASSUME NEW t \in Threads, NEW ok \in BOOLEAN, Perform(t, ok)
      PROVE  DispatchNext
  BY <1>3, DriverAssumption DEF Perform, DispatchNext
<1>4. ASSUME NEW t \in Threads, Dispatch(t)
      PROVE  DispatchNext
  BY <1>4 DEF Dispatch, DispatchNext
<1>5. ASSUME NEW e \in Executors, TellExecutor(e)
      PROVE  DispatchNext
  BY <1>5, DriverAssumption DEF TellExecutor, DispatchNext
<1>6. CASE HearDisconnected \/ ExecutorTold
  BY <1>6, DriverAssumption DEF HearDisconnected, ExecutorTold, DispatchNext
<1>7. CASE \/ OnStart \/ HdiStarts \/ HdiDies \/ StartDisconnect
           \/ FinishDisconnect
           \/ \E answers \in BOOLEAN : AskHost(answers)
           \/ \E new \in SUBSET Executors : StoreExecutors(new)
           \/ \E e \in Executors : OnRegisterFinish(e)
  BY <1>7 DEF OnStart, HdiStarts, HdiDies, StartDisconnect, FinishDisconnect,
              AskHost, StoreExecutors, OnRegisterFinish
<1>8. CASE UNCHANGED allVars
  BY <1>8 DEF allVars
<1>9. QED
  BY <1>2, <1>3, <1>4, <1>5, <1>6, <1>7, <1>8 DEF DriverNext

\* So the dispatcher's invariant is kept by the driver.
LEMMA DriverDispatches ==
    ASSUME DriverInv, [DriverNext]_allVars PROVE DispatchInv'
BY DriverStepDispatches, DispatchNextInv DEF DriverInv

-----------------------------------------------------------------------------
(***************************************************************************)
(* Host and framework: the threads and the owner stay as they are.         *)
(***************************************************************************)
DriverPart ==
    /\ DriverTypeOK
    /\ OneDisconnect
    /\ ListIsTold
    /\ NobodyLives
    /\ UsedAreListed
    /\ ListMayGo
    /\ ListReaches
    /\ HeardAreLate

\* What the threads do is the same after a step that leaves them alone.
LEMMA SameThreads ==
    ASSUME UNCHANGED <<dispatchVars, owner>>
    PROVE  /\ \A t, e : InBatch(t, e)' <=> InBatch(t, e)
           /\ \A e : BeingTold(e)' <=> BeingTold(e)
           /\ UNCHANGED <<owner, processors, doing, executor, pending>>
BY DEF dispatchVars, threadVars, tableVars, InBatch, BeingTold

\* The host starts and dies, and the framework gets to it.
LEMMA HostKeepsInv ==
    ASSUME DriverInv,
           OnStart \/ HdiStarts \/ HdiDies \/ (\E answers \in BOOLEAN : AskHost(answers))
    PROVE  DriverPart'
<1>1. UNCHANGED <<dispatchVars, owner>>
  BY DEF OnStart, HdiStarts, HdiDies, AskHost
<1>2. /\ UNCHANGED <<executorList, notify, disconnecting, created, told, late>>
      /\ live' \in {live, {}} /\ callback' \in {callback, {}}
      /\ connection' # connection =>
           \/ connection = "off" /\ connection' = "none" /\ UNCHANGED fetched
           \/ connection = "none" /\ connection' = "up" /\ fetched = "none"
           \/ connection = "up" /\ connection' = "died"
  BY DEF OnStart, HdiStarts, HdiDies, AskHost
<1>3. DriverTypeOK'
  BY <1>1, <1>2 DEF OnStart, HdiStarts, HdiDies, AskHost, DriverInv, DriverTypeOK
<1>4. OneDisconnect' /\ ListIsTold'
  BY <1>1, <1>2, SameThreads DEF DriverInv, OneDisconnect, ListIsTold
<1>5. NobodyLives'
  BY DEF OnStart, HdiStarts, HdiDies, AskHost, DriverInv, DriverTypeOK, NobodyLives
<1>6. Used' \subseteq Used
  BY <1>1, <1>2, SameThreads DEF Used
<1>7. UsedAreListed'
  BY <1>2, <1>6 DEF DriverInv, UsedAreListed
<1>8. ListMayGo'
  BY <1>2, <1>6 DEF OnStart, HdiStarts, HdiDies, AskHost, DriverInv, NobodyLives,
                    ListMayGo
<1>9. ListReaches'
  <2>1. CASE HdiDies
    BY <2>1 DEF HdiDies, ListReaches
  <2>2. CASE ~HdiDies
    BY <1>2, <1>6, <2>2
    DEF OnStart, HdiStarts, AskHost, DriverInv, ListMayGo, ListReaches
  <2>3. QED
    BY <2>1, <2>2
<1>10. HeardAreLate'
  BY <1>1, <1>2, SameThreads DEF DriverInv, HeardAreLate, Heard
<1>11. QED
  BY <1>3, <1>4, <1>5, <1>7, <1>8, <1>9, <1>10 DEF DriverPart

(***************************************************************************)
(* The list is replaced.  Those who go had no part in the illumination, or *)
(* were told; those who come are new, and reach the host that answered if  *)
(* it is still there.                                                      *)
(***************************************************************************)
LEMMA StoreKeepsInv ==
    ASSUME DriverInv, NEW new \in SUBSET Executors, StoreExecutors(new)
    PROVE  DriverPart'
<1>1. /\ UNCHANGED <<dispatchVars, owner>>
      /\ UNCHANGED <<connection, notify, disconnecting, callback, told, late>>
      /\ fetched # "none" /\ ~disconnecting /\ new \cap created = {}
      /\ executorList' = new /\ created' = created \cup new
      /\ live' = IF fetched = "live" THEN live \cup new ELSE live
      /\ fetched' = "none"
  BY DEF StoreExecutors, DriverMutexFree
<1>2. notify = {}
  BY <1>1 DEF DriverInv, ListIsTold
<1>3. DriverTypeOK'
  BY <1>1, <1>2 DEF StoreExecutors, DriverInv, DriverTypeOK
<1>4. OneDisconnect' /\ ListIsTold'
  BY <1>1, <1>2, SameThreads DEF DriverInv, OneDisconnect, ListIsTold
<1>5. NobodyLives'
  BY <1>1 DEF DriverInv, NobodyLives
<1>6. Used' \subseteq Used \cup new
  BY <1>1, SameThreads DEF Used
<1>7. Used \subseteq told
  BY <1>1 DEF DriverInv, UsedAreListed, ListMayGo, ListReaches
<1>8. told \subseteq created
  BY DEF DriverInv, DriverTypeOK
<1>9. UsedAreListed'
  BY <1>1, <1>6, <1>7 DEF UsedAreListed
<1>10. ListMayGo'
  <2>1. CASE fetched = "live"
    BY <1>1, <2>1 DEF DriverInv, NobodyLives, ListMayGo
  <2>2. CASE fetched # "live"
    <3>1. Used' \subseteq Used
      BY <1>1, <2>2, SameThreads DEF Used
    <3>2. QED
      BY <1>1, <1>7, <1>8, <3>1 DEF ListMayGo
  <2>3. QED
    BY <2>1, <2>2
<1>11. ListReaches'
  <2>1. CASE fetched = "live"
    BY <1>1, <2>1 DEF ListReaches
  <2>2. CASE fetched # "live"
    <3>1. Used' \subseteq told
      BY <1>1, <1>7, <2>2, SameThreads DEF Used
    <3>2. QED
      BY <1>1, <3>1 DEF ListReaches
  <2>3. QED
    BY <2>1, <2>2
<1>12. HeardAreLate'
  <2>1. told' \cap (live' \cup callback') = {}
    BY <1>1, <1>8 DEF DriverInv, HeardAreLate
  <2>2. Heard' = Heard
    BY <1>1, SameThreads DEF Heard
  <2>3. QED
    BY <1>1, <2>1, <2>2, SameThreads DEF DriverInv, HeardAreLate
<1>13. QED
  BY <1>3, <1>4, <1>5, <1>9, <1>10, <1>11, <1>12 DEF DriverPart

\* The host gets the callback of an executor that reaches it already.
LEMMA RegisterKeepsInv ==
    ASSUME DriverInv, NEW e \in Executors, OnRegisterFinish(e)
    PROVE  DriverPart'
<1>1. /\ UNCHANGED <<dispatchVars, owner>>
      /\ UNCHANGED <<connection, fetched, executorList, notify, disconnecting,
                     created, live, told, late>>
      /\ e \in live /\ callback' = callback \cup {e}
  BY DEF OnRegisterFinish
<1>2. DriverTypeOK'
  BY <1>1 DEF OnRegisterFinish, DriverInv, DriverTypeOK
<1>3. OneDisconnect' /\ ListIsTold' /\ NobodyLives'
  BY <1>1, SameThreads DEF DriverInv, OneDisconnect, ListIsTold, NobodyLives
<1>4. Used' = Used
  BY <1>1, SameThreads DEF Used
<1>5. UsedAreListed' /\ ListMayGo' /\ ListReaches'
  BY <1>1, <1>4 DEF DriverInv, UsedAreListed, ListMayGo, ListReaches
<1>6. HeardAreLate'
  BY <1>1, SameThreads DEF DriverInv, HeardAreLate, Heard
<1>7. QED
  BY <1>2, <1>3, <1>5, <1>6 DEF DriverPart

\* OnHdiDisconnect begins, with everybody in the list still to be told.
LEMMA StartKeepsInv ==
    ASSUME DriverInv, StartDisconnect
    PROVE  DriverPart'
<1>1. /\ UNCHANGED <<dispatchVars, owner>>
      /\ UNCHANGED <<fetched, executorList, created, live, callback, told, late>>
      /\ connection = "died" /\ connection' = "none"
      /\ ~disconnecting /\ disconnecting' /\ notify' = executorList
  BY DEF StartDisconnect
<1>2. DriverTypeOK'
  BY <1>1 DEF StartDisconnect, DriverInv, DriverTypeOK
<1>3. OneDisconnect' /\ ListIsTold' /\ NobodyLives'
  BY <1>1, SameThreads DEF DriverInv, OneDisconnect, ListIsTold, NobodyLives
<1>4. Used' = Used
  BY <1>1, SameThreads DEF Used
<1>5. UsedAreListed' /\ ListMayGo' /\ ListReaches'
  BY <1>1, <1>4 DEF DriverInv, UsedAreListed, ListMayGo, ListReaches
<1>6. HeardAreLate'
  BY <1>1, SameThreads DEF DriverInv, HeardAreLate, Heard
<1>7. QED
  BY <1>2, <1>3, <1>5, <1>6 DEF DriverPart

\* OnHdiDisconnect ends: all of the list were told, and it is cleared.
LEMMA FinishKeepsInv ==
    ASSUME DriverInv, FinishDisconnect
    PROVE  DriverPart'
<1>1. /\ UNCHANGED <<dispatchVars, owner>>
      /\ UNCHANGED <<connection, fetched, notify, created, live, callback, told,
                     late>>
      /\ disconnecting /\ ~disconnecting' /\ notify = {}
      /\ doing[Framework] = "nothing" /\ executorList' = {}
  BY DEF FinishDisconnect, DriverInv, DriverTypeOK
<1>2. executorList \subseteq told
  BY <1>1 DEF DriverInv, ListIsTold, BeingTold
<1>3. DriverTypeOK'
  BY <1>1 DEF FinishDisconnect, DriverInv, DriverTypeOK
<1>4. OneDisconnect' /\ ListIsTold' /\ NobodyLives'
  BY <1>1, SameThreads DEF DriverInv, OneDisconnect, ListIsTold, NobodyLives
<1>5. Used' = Used
  BY <1>1, SameThreads DEF Used
<1>6. UsedAreListed' /\ ListMayGo' /\ ListReaches'
  BY <1>1, <1>2, <1>5 DEF DriverInv, UsedAreListed, ListMayGo, ListReaches
<1>7. HeardAreLate'
  BY <1>1, SameThreads DEF DriverInv, HeardAreLate, Heard
<1>8. QED
  BY <1>3, <1>4, <1>6, <1>7 DEF DriverPart

-----------------------------------------------------------------------------
(***************************************************************************)
(* IPC threads: the host and the framework stay as they are.               *)
(***************************************************************************)

\* A command begins a batch for an executor whose callback the host has.
LEMMA CommandsKeepInv ==
    ASSUME DriverInv, NEW t \in Threads, NEW e \in Executors,
           NEW batch \in Batches, OnSaCommands(t, e, batch)
    PROVE  DriverPart'
<1>1. /\ UNCHANGED <<owner, driverVars, processors, pending>>
      /\ t # Framework /\ e \in callback /\ doing[t] = "nothing"
      /\ doing' = [doing EXCEPT ![t] = "batch"]
      /\ executor' = [executor EXCEPT ![t] = e]
  BY DEF OnSaCommands, BeginBatch, tableVars
<1>2. /\ UNCHANGED <<doing[Framework], executor[Framework]>>
      /\ doing'[t] = "batch" /\ executor'[t] = e
      /\ \A u \in Threads \ {t} : doing'[u] = doing[u] /\ executor'[u] = executor[u]
  BY <1>1, DriverAssumption DEF DriverInv, DispatchInv, ThreadTypes
<1>3. DriverTypeOK'
  BY <1>1 DEF driverVars, DriverInv, DriverTypeOK
<1>4. OneDisconnect' /\ ListIsTold' /\ NobodyLives'
  BY <1>1, <1>2 DEF driverVars, DriverInv, OneDisconnect, ListIsTold, NobodyLives,
                    BeingTold
<1>5. Used' \subseteq Used
  BY <1>1, <1>2 DEF driverVars, Used, InBatch
<1>6. UsedAreListed' /\ ListMayGo' /\ ListReaches'
  BY <1>1, <1>5 DEF driverVars, DriverInv, UsedAreListed, ListMayGo, ListReaches
<1>7. Heard' = Heard /\ e \notin Heard
  BY <1>1, <1>2 DEF driverVars, DriverInv, NobodyLives, OneDisconnect, HeardAreLate,
                    Heard, BeingTold
<1>8. HeardAreLate'
  BY <1>1, <1>2, <1>7 DEF driverVars, DriverInv, HeardAreLate, InBatch
<1>9. QED
  BY <1>3, <1>4, <1>6, <1>8 DEF DriverPart

(***************************************************************************)
(* A batch goes on or ends.  Whoever has the illumination afterwards had   *)
(* it, or is the executor of the batch.                                    *)
(***************************************************************************)
LEMMA BatchKeepsInv ==
    ASSUME DriverInv, NEW t \in Threads, UNCHANGED driverVars,
           Dispatch(t) \/ \E ok \in BOOLEAN : Perform(t, ok)
    PROVE  DriverPart'
<1>1. /\ doing[t] = "batch" /\ UNCHANGED processors
      /\ owner' \in {owner, executor[t], NoExecutor}
      /\ \/ UNCHANGED <<doing, executor>>
            /\ \E S : pending' = [pending EXCEPT ![t] = S]
         \/ Return(t)
  <2>1. CASE Dispatch(t)
    BY <2>1 DEF Dispatch, NextCommand, FinishBatch, tableVars
  <2>2. ASSUME NEW ok \in BOOLEAN, Perform(t, ok)
        PROVE  /\ doing[t] = "batch" /\ UNCHANGED processors
               /\ owner' \in {owner, executor[t], NoExecutor}
               /\ \/ UNCHANGED <<doing, executor>>
                     /\ \E S : pending' = [pending EXCEPT ![t] = S]
                  \/ Return(t)
    <3>1. /\ doing[t] = "batch" /\ UNCHANGED processors
          /\ \/ UNCHANGED <<doing, executor>>
                /\ \E S : pending' = [pending EXCEPT ![t] = S]
             \/ Return(t)
      BY <2>2 DEF Perform, ProcessSaCommand, tableVars
    <3>2. owner' \in {owner, executor[t], NoExecutor}
      BY <2>2 DEF Perform
    <3>3. QED
      BY <3>1, <3>2
  <2>3. QED
    BY <2>1, <2>2
<1>2. t # Framework
  BY <1>1 DEF DriverInv, OneDisconnect
<1>3. /\ UNCHANGED <<doing[Framework], executor[Framework], pending[Framework]>>
      /\ \A u \in Threads \ {t} : doing'[u] = doing[u] /\ executor'[u] = executor[u]
      /\ doing'[t] # "disconnect"
      /\ doing'[t] = "batch" => executor'[t] = executor[t]
  BY <1>1, <1>2, DriverAssumption DEF DriverInv, DispatchInv, ThreadTypes, Return
<1>4. DriverTypeOK'
  BY <1>1 DEF driverVars, DriverInv, DriverTypeOK, DispatchInv, ThreadTypes
<1>5. OneDisconnect' /\ ListIsTold' /\ NobodyLives'
  BY <1>1, <1>2, <1>3 DEF driverVars, DriverInv, OneDisconnect, ListIsTold,
                          NobodyLives, BeingTold
<1>6. Used' \subseteq Used
  BY <1>1, <1>3, DispatchAssumption DEF driverVars, Used, InBatch
<1>7. UsedAreListed' /\ ListMayGo' /\ ListReaches'
  BY <1>6 DEF driverVars, DriverInv, UsedAreListed, ListMayGo, ListReaches
<1>8. Heard' = Heard /\ Heard \subseteq Executors
  BY <1>3 DEF driverVars, DriverInv, DriverTypeOK, Heard, BeingTold
<1>9. HeardAreLate'
  BY <1>1, <1>3, <1>8, DispatchAssumption
     DEF driverVars, DriverInv, HeardAreLate, InBatch
<1>10. QED
  BY <1>4, <1>5, <1>7, <1>9 DEF DriverPart

-----------------------------------------------------------------------------
\* The next of the list is told; the processor has not heard it yet.
LEMMA TellKeepsInv ==
    ASSUME DriverInv, NEW e \in Executors, TellExecutor(e)
    PROVE  DriverPart'
<1>1. /\ UNCHANGED <<hdiUp, connection, fetched, executorList, disconnecting,
                     created, live, callback, told, late, owner, processors>>
      /\ doing[Framework] = "nothing"
      /\ e \in notify /\ notify' = notify \ {e}
      /\ doing' = [doing EXCEPT ![Framework] = "disconnect"]
      /\ executor' = [executor EXCEPT ![Framework] = e]
      /\ pending' = [pending EXCEPT ![Framework] = processors]
  BY DEF TellExecutor, BeginDisconnect, WhoHears, tableVars
<1>2. /\ doing'[Framework] = "disconnect" /\ executor'[Framework] = e
      /\ pending'[Framework] = {Illumination}
      /\ \A u \in Threads \ {Framework} :
           doing'[u] = doing[u] /\ executor'[u] = executor[u]
  BY <1>1, DriverAssumption DEF DriverInv, DispatchInv, ThreadTypes, OneDisconnect
<1>3. DriverTypeOK'
  BY <1>1 DEF DriverInv, DriverTypeOK
<1>4. disconnecting /\ e \in created
  BY <1>1 DEF DriverInv, ListIsTold, DriverTypeOK
<1>5. OneDisconnect' /\ NobodyLives'
  BY <1>1, <1>2, <1>4 DEF DriverInv, OneDisconnect, NobodyLives
<1>6. ListIsTold'
  BY <1>1, <1>2, <1>4 DEF DriverInv, ListIsTold, BeingTold
<1>7. Used' \subseteq Used
  BY <1>1, <1>2 DEF Used, InBatch
<1>8. UsedAreListed' /\ ListMayGo' /\ ListReaches'
  BY <1>1, <1>7 DEF DriverInv, UsedAreListed, ListMayGo, ListReaches
<1>9. Heard' \subseteq Heard
  BY <1>1, <1>2 DEF Heard
<1>10. HeardAreLate'
  BY <1>1, <1>2, <1>9 DEF DriverInv, HeardAreLate, InBatch
<1>11. QED
  BY <1>3, <1>5, <1>6, <1>8, <1>10 DEF DriverPart

\* The manager hears it: its lease ends, and commands still running are late.
LEMMA HearKeepsInv ==
    ASSUME DriverInv, HearDisconnected
    PROVE  DriverPart'
<1> DEFINE e == executor[Framework]
<1>1. /\ UNCHANGED <<hdiUp, connection, fetched, executorList, notify,
                     disconnecting, created, live, callback, told>>
      /\ UNCHANGED <<processors, doing, executor>>
      /\ doing[Framework] = "disconnect"
      /\ owner' = IF owner = e THEN NoExecutor ELSE owner
      /\ late' = IF \E t \in Threads : InBatch(t, e) THEN late \cup {e} ELSE late
  BY DEF HearDisconnected, HearDisconnect, tableVars, InBatch
<1>2. e \in created /\ e \in Executors /\ disconnecting
  BY <1>1 DEF DriverInv, OneDisconnect, DriverTypeOK
<1>3. DriverTypeOK'
  BY <1>1, <1>2 DEF DriverInv, DriverTypeOK
<1>4. OneDisconnect' /\ ListIsTold' /\ NobodyLives'
  BY <1>1 DEF DriverInv, OneDisconnect, ListIsTold, NobodyLives, BeingTold
<1>5. Used' \subseteq Used
  BY <1>1, DispatchAssumption DEF Used, InBatch
<1>6. UsedAreListed' /\ ListMayGo' /\ ListReaches'
  BY <1>1, <1>5 DEF DriverInv, UsedAreListed, ListMayGo, ListReaches
<1>7. Heard' \subseteq Heard \cup {e}
  BY <1>1 DEF Heard, BeingTold
<1>8. HeardAreLate'
  <2>1. told' \cap (live' \cup callback') = {}
    BY <1>1 DEF DriverInv, HeardAreLate
  <2>2. ASSUME NEW h \in Heard'
        PROVE  /\ owner' = h => h \in late'
               /\ \A t \in Threads : InBatch(t, h)' => h \in late'
    <3>1. CASE h = e
      BY <1>1, <1>2, <3>1, DispatchAssumption DEF InBatch
    <3>2. CASE h # e
      <4>1. h \in Heard
        BY <1>7, <2>2, <3>2
      <4>2. h # NoExecutor
        BY <4>1, DispatchAssumption DEF Heard, DriverInv, DriverTypeOK
      <4>3. QED
        BY <1>1, <4>1, <4>2 DEF DriverInv, HeardAreLate, InBatch
    <3>3. QED
      BY <3>1, <3>2
  <2>3. QED
    BY <2>1, <2>2 DEF HeardAreLate
<1>9. QED
  BY <1>3, <1>4, <1>6, <1>8 DEF DriverPart

\* The executor's OnHdiDisconnect returns once the manager has heard it.
LEMMA ToldKeepsInv ==
    ASSUME DriverInv, ExecutorTold
    PROVE  DriverPart'
<1> DEFINE e == executor[Framework]
<1>1. /\ UNCHANGED <<hdiUp, connection, fetched, executorList, notify,
                     disconnecting, created, live, callback, late, owner>>
      /\ UNCHANGED processors
      /\ doing[Framework] = "disconnect" /\ pending[Framework] = {}
      /\ told' = told \cup {e}
      /\ Return(Framework)
  BY DEF ExecutorTold, EndDisconnect, tableVars
<1>2. /\ doing'[Framework] = "nothing"
      /\ \A u \in Threads \ {Framework} :
           doing'[u] = doing[u] /\ executor'[u] = executor[u]
  BY <1>1, DriverAssumption DEF DriverInv, DispatchInv, ThreadTypes, Return
<1>3. e \in created /\ e \in Executors /\ disconnecting
  BY <1>1 DEF DriverInv, OneDisconnect, DriverTypeOK
<1>4. DriverTypeOK'
  BY <1>1, <1>3 DEF DriverInv, DriverTypeOK
<1>5. OneDisconnect' /\ NobodyLives'
  BY <1>1, <1>2 DEF DriverInv, OneDisconnect, NobodyLives
<1>6. ListIsTold'
  BY <1>1, <1>3 DEF DriverInv, ListIsTold, BeingTold
<1>7. Used' \subseteq Used
  BY <1>1, <1>2 DEF Used, InBatch
<1>8. UsedAreListed' /\ ListMayGo' /\ ListReaches'
  BY <1>1, <1>7 DEF DriverInv, UsedAreListed, ListMayGo, ListReaches
<1>9. Heard' \subseteq Heard
  BY <1>1, <1>2, <1>3 DEF Heard, BeingTold
<1>10. live \cup callback = {}
  BY <1>3 DEF DriverInv, NobodyLives
<1>11. HeardAreLate'
  BY <1>1, <1>2, <1>9, <1>10 DEF DriverInv, HeardAreLate, InBatch
<1>12. QED
  BY <1>4, <1>5, <1>6, <1>8, <1>11 DEF DriverPart

-----------------------------------------------------------------------------
\* One case for each action.
LEMMA DriverNextInv ==
    ASSUME DriverInv, [DriverNext]_allVars PROVE DriverInv'
<1>1. DispatchInv'
  BY DriverDispatches
<1>2. DriverPart'
  <2>1. CASE \E t \in Threads, e \in Executors, batch \in Batches :
               OnSaCommands(t, e, batch)
    BY <2>1, CommandsKeepInv
  <2>2. ASSUME NEW t \in Threads, Dispatch(t) \/ \E ok \in BOOLEAN : Perform(t, ok)
        PROVE  DriverPart'
    <3>1. UNCHANGED driverVars
      BY <2>2 DEF Dispatch, Perform
    <3>2. QED
      BY <2>2, <3>1, BatchKeepsInv
  <2>3. CASE UNCHANGED allVars
    BY <2>3, SameThreads
       DEF allVars, driverVars, DriverPart, DriverInv, DriverTypeOK, OneDisconnect,
           ListIsTold, NobodyLives, UsedAreListed, ListMayGo, ListReaches, HeardAreLate, Used,
           Heard
  <2>4. QED
    BY <2>1, <2>2, <2>3, HostKeepsInv, StoreKeepsInv, RegisterKeepsInv,
       StartKeepsInv, FinishKeepsInv, TellKeepsInv, HearKeepsInv, ToldKeepsInv
       DEF DriverNext
<1>3. QED
  BY <1>1, <1>2 DEF DriverInv, DriverPart

\* The invariant holds of every behavior.
LEMMA DriverInvAlways == DriverSpec => []DriverInv
BY DriverInitInv, DriverNextInv, PTL DEF DriverSpec

(***************************************************************************)
(* Whoever has the illumination is in the list OnHdiDisconnect goes        *)
(* through (fingerprint_auth_driver_hdi.cpp:84) or was told, however the   *)
(* list is replaced and cleared, for any number of hosts.                  *)
(***************************************************************************)
THEOREM OwnersAreListed == DriverSpec => [](DriverTypeOK /\ OwnerIsListed)
<1>1. DriverInv => DriverTypeOK /\ OwnerIsListed
  BY DEF DriverInv, DriverTypeOK, UsedAreListed, Used, OwnerIsListed
<1>2. QED
  BY <1>1, DriverInvAlways, PTL

(***************************************************************************)
(* An executor that was told of the disconnect has the illumination only   *)
(* if its own late commands took it: for any interleaving of IPC threads   *)
(* with the framework.                                                     *)
(***************************************************************************)
THEOREM OwnersHearOfDeath == DriverSpec => []OnlyLateOwnersRemain
<1>1. DriverInv => OnlyLateOwnersRemain
  BY DEF DriverInv, HeardAreLate, Heard, OnlyLateOwnersRemain
<1>2. QED
  BY <1>1, DriverInvAlways, PTL

(***************************************************************************)
(* The owner that lost its host is followed through every stage of the     *)
(* disconnect: waiting for OnHdiDisconnect, waiting in its loop, being     *)
(* told.  It is the safety that DeadLeaseEnds rests on.                    *)
(***************************************************************************)
THEOREM DeadOwnersAreFollowed == DriverSpec => []DeadOwnerNotForgotten
<1>1. DriverInv => DeadOwnerNotForgotten
  <2> SUFFICES ASSUME DriverInv, owner \in Executors \ (live \cup late)
               PROVE  \/ /\ connection = "died" /\ ~disconnecting
                         /\ owner \in executorList
                      \/ disconnecting /\ owner \in notify
                      \/ BeingTold(owner) /\ pending[Framework] # {}
    BY DEF DeadOwnerNotForgotten, BeingTold
  <2>1. owner \in Used /\ owner \notin Heard
    BY DEF DriverInv, HeardAreLate, Used
  <2>2. owner \in executorList /\ owner \notin told
    BY <2>1 DEF DriverInv, UsedAreListed, Heard
  <2>3. CASE disconnecting
    <3>1. owner \in notify \/ BeingTold(owner)
      BY <2>2, <2>3 DEF DriverInv, ListIsTold
    <3>2. BeingTold(owner) => pending[Framework] # {}
      BY <2>1 DEF Heard
    <3>3. QED
      BY <2>3, <3>1, <3>2
  <2>4. CASE ~disconnecting
    <3>1. connection \notin {"off", "none"}
      BY <2>1, <2>2, <2>4 DEF DriverInv, ListMayGo
    <3>2. connection # "up"
      BY <2>1, <2>2, <2>4 DEF DriverInv, ListReaches
    <3>3. QED
      BY <2>2, <2>4, <3>1, <3>2 DEF DriverInv, DriverTypeOK
  <2>5. QED
    BY <2>3, <2>4
<1>2. QED
  BY <1>1, DriverInvAlways, PTL

-----------------------------------------------------------------------------
(***************************************************************************)
(* The driver is a client of the dispatcher of sa_command_manager.cpp: it  *)
(* begins with the one registration the program makes, and every step is   *)
(* one of the dispatcher's or leaves its tables and threads alone.         *)
(***************************************************************************)
THEOREM DriverRefinesDispatcher ==
    DriverSpec => /\ DispatchInit({Illumination}, IlluminationCommandIds)
                  /\ [][DispatchNext]_dispatchVars
<1>1. DriverInit => DispatchInit({Illumination}, IlluminationCommandIds)
  BY DEF DriverInit
<1>2. DriverInv /\ [DriverNext]_allVars => [DispatchNext]_dispatchVars
  BY DriverStepDispatches
<1>3. QED
  BY <1>1, <1>2, DriverInvAlways, PTL DEF DriverSpec

(***************************************************************************)
(* Hence what the dispatcher promises holds in the program: the commands   *)
(* of a batch are all performed against the registration of the manager    *)
(* (sensor_illumination_manager.cpp:33), whatever disconnects meanwhile.   *)
(***************************************************************************)
THEOREM DriverSeesOneTable == DriverSpec => []BatchSeesOneTable
<1>1. DriverInv => BatchSeesOneTable
  BY DEF DriverInv, DispatchInv
<1>2. QED
  BY <1>1, DriverInvAlways, PTL

=============================================================================
