----------------------- MODULE SaCommandManagerProofs -----------------------
(***************************************************************************)
(* Theorems about SaCommandManager: its types, and that a batch sees one   *)
(* table of processors, for any number of threads, processors and ids and  *)
(* batches of every length.                                                *)
(***************************************************************************)
EXTENDS SaCommandManager, TLAPS

(***************************************************************************)
(* The type invariant, said of the functions, and where a thread is: not   *)
(* in a batch it is at no command, so the next batch starts from there,    *)
(* and before the first command of a batch no processor is pending.        *)
(***************************************************************************)
ThreadTypes ==
    /\ doing \in [Threads -> {"nothing", "batch", "disconnect"}]
    /\ executor \in [Threads -> Executors \cup {NoExecutor}]
    /\ commands \in [Threads -> Batches]
    /\ index \in [Threads -> Nat]
    /\ pending \in [Threads -> SUBSET Processors]
    /\ performed \in [Threads -> SUBSET (Nat \X Processors)]

TableTypes ==
    /\ processors \subseteq Processors
    /\ DOMAIN commandId2Processors \subseteq CommandIds
    /\ \A id \in DOMAIN commandId2Processors :
         commandId2Processors[id] \subseteq Processors

InRange ==
    \A t \in Threads :
        /\ index[t] <= Len(commands[t])
        /\ performed[t] \subseteq (1..index[t]) \X Processors
        /\ doing[t] # "batch" => index[t] = 0
        /\ index[t] = 0 /\ doing[t] # "disconnect" => pending[t] = {}

DispatchInv == ThreadTypes /\ TableTypes /\ InRange /\ BatchSeesOneTable

\* A batch is a sequence of ids.
LEMMA BatchIsSequence ==
    ASSUME NEW batch \in Batches
    PROVE  batch \in Seq(CommandIds) /\ Len(batch) \in Nat
BY DEF Batches

\* The invariant is at least as strong as the type invariant of the runs.
LEMMA InvImpliesTypes == DispatchInv => DispatchTypeOK
<1> SUFFICES ASSUME DispatchInv PROVE DispatchTypeOK
  OBVIOUS
<1> USE DEF DispatchInv, ThreadTypes, TableTypes, InRange
<1>1. ASSUME NEW t \in Threads
      PROVE  /\ commands[t] \in Batches
             /\ index[t] \in 0..Len(commands[t])
             /\ pending[t] \subseteq Processors
             /\ performed[t] \subseteq (1..index[t]) \X Processors
  <2>1. commands[t] \in Batches /\ index[t] \in Nat /\ index[t] <= Len(commands[t])
    OBVIOUS
  <2>2. index[t] \in 0..Len(commands[t])
    BY <2>1, BatchIsSequence
  <2>3. QED
    BY <2>1, <2>2
<1>2. QED
  BY <1>1 DEF DispatchTypeOK

-----------------------------------------------------------------------------
\* At the start no thread is in a batch, whatever is registered already.
LEMMA DispatchInitInv ==
    ASSUME NEW registered \in SUBSET Processors, NEW ids \in SUBSET CommandIds,
           DispatchInit(registered, ids)
    PROVE  DispatchInv
<1>1. << >> \in Batches
  <2>1. << >> \in [1..0 -> CommandIds] /\ 0 \in 0..MaxBatch
    BY DispatchAssumption
  <2>2. QED
    BY <2>1 DEF Batches
<1>2. Len(<< >>) = 0
  OBVIOUS
<1>3. QED
  BY <1>1, <1>2 DEF DispatchInit, DispatchInv, ThreadTypes, TableTypes, InRange,
                    BatchSeesOneTable

\* While the table changes no thread is in a batch.
LEMMA TableChangeKeepsInv ==
    ASSUME DispatchInv, ExclusiveLock, TableTypes', UNCHANGED threadVars
    PROVE  DispatchInv'
<1>1. ThreadTypes' /\ InRange'
  BY DEF DispatchInv, ThreadTypes, InRange, threadVars
<1>2. \A t \in Threads : doing'[t] = "nothing"
  BY DEF ExclusiveLock, threadVars
<1>3. QED
  BY <1>1, <1>2 DEF DispatchInv, BatchSeesOneTable

\* A thread that returns is at no command of no batch.
LEMMA ReturnKeepsInv ==
    ASSUME DispatchInv, NEW t \in Threads, Return(t), UNCHANGED tableVars
    PROVE  DispatchInv'
<1>1. << >> \in Batches /\ Len(<< >>) = 0
  <2>1. << >> \in [1..0 -> CommandIds] /\ 0 \in 0..MaxBatch
    BY DispatchAssumption
  <2>2. QED
    BY <2>1 DEF Batches
<1>2. ThreadTypes'
  BY <1>1 DEF DispatchInv, ThreadTypes, Return
<1>3. InRange'
  BY <1>1 DEF DispatchInv, ThreadTypes, InRange, Return
<1>4. QED
  BY <1>2, <1>3
     DEF DispatchInv, ThreadTypes, TableTypes, BatchSeesOneTable, Return, tableVars

(***************************************************************************)
(* The next command: all before it was performed, as nothing is pending,   *)
(* and its own processors are all pending.                                 *)
(***************************************************************************)
LEMMA NextCommandKeepsInv ==
    ASSUME DispatchInv, NEW t \in Threads, NextCommand(t)
    PROVE  DispatchInv'
<1> DEFINE id == commands[t][index[t] + 1]
<1>1. UNCHANGED tableVars
  BY DEF NextCommand
<1>2. CASE id \notin DOMAIN commandId2Processors
  BY <1>1, <1>2, ReturnKeepsInv DEF NextCommand
<1>3. CASE id \in DOMAIN commandId2Processors
  <2>1. /\ index' = [index EXCEPT ![t] = index[t] + 1]
        /\ pending' = [pending EXCEPT ![t] = commandId2Processors[id]]
        /\ UNCHANGED <<doing, executor, commands, performed>>
    BY <1>3 DEF NextCommand
  <2>2. /\ doing[t] = "batch" /\ pending[t] = {}
        /\ index[t] \in Nat /\ index[t] < Len(commands[t])
        /\ Len(commands[t]) \in Nat
    BY BatchIsSequence DEF NextCommand, DispatchInv, ThreadTypes
  <2>3. TableTypes'
    BY <1>1 DEF DispatchInv, TableTypes, tableVars
  <2>4. ThreadTypes'
    BY <1>3, <2>1, <2>2 DEF DispatchInv, ThreadTypes, TableTypes
  <2>5. InRange'
    <3> SUFFICES ASSUME NEW u \in Threads
                 PROVE  /\ index'[u] <= Len(commands'[u])
                        /\ performed'[u] \subseteq (1..index'[u]) \X Processors
                        /\ doing'[u] # "batch" => index'[u] = 0
                        /\ index'[u] = 0 /\ doing'[u] # "disconnect"
                             => pending'[u] = {}
      BY DEF InRange
    <3>1. CASE u # t
      BY <2>1, <3>1 DEF DispatchInv, InRange, ThreadTypes
    <3>2. CASE u = t
      <4>1. index'[u] = index[t] + 1
        BY <2>1, <3>2 DEF DispatchInv, ThreadTypes
      <4>2. performed[t] \subseteq (1..index[t]) \X Processors
        BY DEF DispatchInv, InRange
      <4>3. 1..index[t] \subseteq 1..(index[t] + 1)
        BY <2>2
      <4>4. QED
        BY <2>1, <2>2, <3>2, <4>1, <4>2, <4>3
    <3>3. QED
      BY <3>1, <3>2
  <2>6. BatchSeesOneTable'
    <3> SUFFICES ASSUME NEW u \in Threads, doing'[u] = "batch",
                        NEW i \in 1..index'[u]
                 PROVE  /\ commands'[u][i] \in DOMAIN commandId2Processors'
                        /\ \A p \in commandId2Processors'[commands'[u][i]] :
                             \/ <<i, p>> \in performed'[u]
                             \/ i = index'[u] /\ p \in pending'[u]
      BY DEF BatchSeesOneTable
    <3>1. CASE u # t
      BY <1>1, <2>1, <3>1
         DEF DispatchInv, ThreadTypes, BatchSeesOneTable, tableVars
    <3>2. CASE u = t
      <4>1. index'[t] = index[t] + 1 /\ pending'[t] = commandId2Processors[id]
        BY <2>1 DEF DispatchInv, ThreadTypes
      <4>2. CASE i = index[t] + 1
        BY <1>1, <1>3, <2>1, <3>2, <4>1, <4>2 DEF tableVars
      <4>3. CASE i # index[t] + 1
        <5>1. i \in 1..index[t]
          BY <2>2, <3>2, <4>1, <4>3
        <5>2. /\ commands[t][i] \in DOMAIN commandId2Processors
              /\ \A p \in commandId2Processors[commands[t][i]] :
                   <<i, p>> \in performed[t]
          BY <2>2, <5>1 DEF DispatchInv, BatchSeesOneTable
        <5>3. QED
          BY <1>1, <2>1, <3>2, <5>2 DEF tableVars
      <4>4. QED
        BY <4>2, <4>3
    <3>3. QED
      BY <3>1, <3>2
  <2>7. QED
    BY <2>3, <2>4, <2>5, <2>6 DEF DispatchInv
<1>4. QED
  BY <1>2, <1>3

\* What one processor has performed is pending no more.
LEMMA ProcessKeepsInv ==
    ASSUME DispatchInv, NEW t \in Threads, NEW p \in Processors,
           NEW ok \in BOOLEAN, ProcessSaCommand(t, p, ok)
    PROVE  DispatchInv'
<1>1. UNCHANGED tableVars
  BY DEF ProcessSaCommand
<1>2. CASE ~ok
  BY <1>1, <1>2, ReturnKeepsInv DEF ProcessSaCommand
<1>3. CASE ok
  <2>1. /\ pending' = [pending EXCEPT ![t] = pending[t] \ {p}]
        /\ performed' = [performed EXCEPT
                           ![t] = performed[t] \cup {<<index[t], p>>}]
        /\ UNCHANGED <<doing, executor, commands, index>>
        /\ doing[t] = "batch" /\ p \in pending[t]
    BY <1>3 DEF ProcessSaCommand
  <2>2. TableTypes'
    BY <1>1 DEF DispatchInv, TableTypes, tableVars
  <2>3. ThreadTypes'
    BY <2>1 DEF DispatchInv, ThreadTypes
  <2>4. index[t] \in Nat /\ index[t] > 0
    <3>1. index[t] \in Nat
      BY DEF DispatchInv, ThreadTypes
    <3>2. index[t] # 0
      BY <2>1 DEF DispatchInv, InRange
    <3>3. QED
      BY <3>1, <3>2
  <2>5. InRange'
    <3> SUFFICES ASSUME NEW u \in Threads
                 PROVE  /\ index'[u] <= Len(commands'[u])
                        /\ performed'[u] \subseteq (1..index'[u]) \X Processors
                        /\ doing'[u] # "batch" => index'[u] = 0
                        /\ index'[u] = 0 /\ doing'[u] # "disconnect"
                             => pending'[u] = {}
      BY DEF InRange
    <3>1. CASE u # t
      BY <2>1, <3>1 DEF DispatchInv, InRange, ThreadTypes
    <3>2. CASE u = t
      <4>1. performed'[t] = performed[t] \cup {<<index[t], p>>}
        BY <2>1 DEF DispatchInv, ThreadTypes
      <4>2. <<index[t], p>> \in (1..index[t]) \X Processors
        BY <2>4
      <4>3. QED
        BY <2>1, <2>4, <3>2, <4>1, <4>2 DEF DispatchInv, InRange
    <3>3. QED
      BY <3>1, <3>2
  <2>6. BatchSeesOneTable'
    BY <1>1, <2>1 DEF DispatchInv, ThreadTypes, BatchSeesOneTable, tableVars
  <2>7. QED
    BY <2>2, <2>3, <2>5, <2>6 DEF DispatchInv
<1>4. QED
  BY <1>2, <1>3

\* A thread that was at no command enters a batch before its first one.
LEMMA BeginBatchKeepsInv ==
    ASSUME DispatchInv, NEW t \in Threads, NEW e \in Executors,
           NEW batch \in Batches, BeginBatch(t, e, batch)
    PROVE  DispatchInv'
<1>1. TableTypes'
  BY DEF BeginBatch, DispatchInv, TableTypes, tableVars
<1>2. ThreadTypes'
  BY DEF BeginBatch, DispatchInv, ThreadTypes
<1>3. index[t] = 0 /\ pending[t] = {} /\ performed[t] = {}
  BY DEF BeginBatch, DispatchInv, InRange
<1>4. InRange'
  BY <1>3, BatchIsSequence DEF BeginBatch, DispatchInv, ThreadTypes, InRange
<1>5. BatchSeesOneTable'
  BY <1>3 DEF BeginBatch, DispatchInv, ThreadTypes, BatchSeesOneTable, tableVars
<1>6. QED
  BY <1>1, <1>2, <1>4, <1>5 DEF DispatchInv

\* A disconnect is at no command of a batch.
LEMMA DisconnectKeepsInv ==
    ASSUME DispatchInv, NEW t \in Threads,
           \/ \E e \in Executors : BeginDisconnect(t, e)
           \/ \E p \in Processors : HearDisconnect(t, p)
    PROVE  DispatchInv'
<1>1. TableTypes' /\ UNCHANGED <<tableVars, commands, index, performed>>
  BY DEF BeginDisconnect, HearDisconnect, DispatchInv, TableTypes, tableVars
<1>2. /\ ThreadTypes' /\ doing'[t] = "disconnect" /\ doing[t] # "batch"
      /\ \A u \in Threads \ {t} : doing'[u] = doing[u] /\ pending'[u] = pending[u]
  BY DEF BeginDisconnect, HearDisconnect, WhoHears, DispatchInv, ThreadTypes,
         TableTypes
<1>3. InRange'
  BY <1>1, <1>2 DEF DispatchInv, InRange
<1>4. BatchSeesOneTable'
  BY <1>1, <1>2 DEF DispatchInv, BatchSeesOneTable, tableVars
<1>5. QED
  BY <1>1, <1>2, <1>3, <1>4 DEF DispatchInv

\* Registering and unregistering leave processors of the right type.
LEMMA RegistrationKeepsInv ==
    ASSUME DispatchInv, NEW ids \in SUBSET CommandIds, NEW p \in Processors,
           Register(ids, p) \/ Unregister(ids, p)
    PROVE  DispatchInv'
<1>1. TableTypes'
  BY DEF Register, Unregister, DispatchInv, TableTypes
<1>2. QED
  BY <1>1, TableChangeKeepsInv DEF Register, Unregister

-----------------------------------------------------------------------------
\* One case for each action.
LEMMA DispatchNextInv ==
    ASSUME DispatchInv, [DispatchNext]_dispatchVars PROVE DispatchInv'
<1>1. CASE \E ids \in SUBSET CommandIds, p \in Processors :
             Register(ids, p) \/ Unregister(ids, p)
  BY <1>1, RegistrationKeepsInv
<1>2. ASSUME NEW t \in Threads, FinishBatch(t) \/ EndDisconnect(t)
      PROVE  DispatchInv'
  BY <1>2, ReturnKeepsInv DEF FinishBatch, EndDisconnect
<1>3. CASE UNCHANGED dispatchVars
  BY <1>3 DEF dispatchVars, tableVars, threadVars, DispatchInv, ThreadTypes,
              TableTypes, InRange, BatchSeesOneTable
<1>4. QED
  BY <1>1, <1>2, <1>3, NextCommandKeepsInv, ProcessKeepsInv, BeginBatchKeepsInv,
     DisconnectKeepsInv DEF DispatchNext

(***************************************************************************)
(* The types, and that what registrations change never shows in the middle *)
(* of a batch: SUCCESS means that every processor registered for each of   *)
(* the commands performed it, whatever runs beside.                        *)
(***************************************************************************)
THEOREM BatchAlwaysSeesOneTable ==
    DispatchSpec => [](DispatchTypeOK /\ BatchSeesOneTable)
<1>1. DispatchInv => DispatchTypeOK /\ BatchSeesOneTable
  BY InvImpliesTypes DEF DispatchInv
<1>2. DispatchInit({}, {}) => DispatchInv
  BY DispatchInitInv
<1>3. QED
  BY <1>1, <1>2, DispatchNextInv, PTL DEF DispatchSpec

=============================================================================
