--------------------------- MODULE LockOrderProofs ---------------------------
(***************************************************************************)
(* Theorems about LockOrder: no circle of threads that wait for each other *)
(* for any number of IPC threads and tasks, executors and batches.         *)
(***************************************************************************)
EXTENDS LockOrder, TLAPS

-----------------------------------------------------------------------------
(***************************************************************************)
(* The order in which the mutexes are taken.                               *)
(***************************************************************************)
RankOf ==
    [none |-> 0, driver |-> 1, dispatcher |-> 2, manager |-> 3, timer |-> 4,
     task |-> 5, loader |-> 6, monitor |-> 7, subscriber |-> 8]

Rank(c) == RankOf[Kind[c[1]]]

\* The calls that may be made inside c: later ones, or of the same mutex.
After(c) ==
    {d \in Calls :
        \/ Rank(c) < Rank(d)
        \/ MutexOf(c) = MutexOf(d) /\ Kind[c[1]] \in Recursive}

\* Of each function the kind of its mutex.
LEMMA KindOfFunction ==
    /\ Kind["main"] = "none"
    /\ \A f \in OfDriver : Kind[f] = "driver"
    /\ \A f \in OfDispatcher : Kind[f] = "dispatcher"
    /\ \A f \in OfManager : Kind[f] = "manager"
    /\ \A f \in OfTimer : Kind[f] = "timer"
    /\ \A f \in OfTask : Kind[f] = "task"
    /\ \A f \in OfLoader : Kind[f] = "loader"
    /\ \A f \in OfMonitor : Kind[f] = "monitor"
    /\ \A f \in OfSubscriber : Kind[f] = "subscriber"
BY DEF Kind, Functions, OfDriver, OfDispatcher, OfManager, OfTimer, OfTask,
       OfLoader, OfMonitor, OfSubscriber

\* Of each call the rank of its mutex.
LEMMA RankOfCall ==
    /\ Rank(Call("main")) = 0
    /\ \A f \in OfDriver : Rank(Call(f)) = 1
    /\ \A f \in OfDispatcher : Rank(Call(f)) = 2
    /\ \A f \in OfManager : Rank(Call(f)) = 3
    /\ \A f \in OfTimer, t \in Tasks : Rank(<<f, t>>) = 4
    /\ \A f \in OfTask, t \in Tasks : Rank(<<f, t>>) = 5
    /\ \A f \in OfLoader : Rank(Call(f)) = 6
    /\ \A f \in OfMonitor : Rank(Call(f)) = 7
    /\ \A f \in OfSubscriber : Rank(Call(f)) = 8
BY KindOfFunction DEF Rank, RankOf, Call

\* Functions of a task or its timer are called on one, the others are not.
LEMMA CallTypes ==
    /\ \A t \in Tasks, f \in OfTask \cup OfTimer : <<f, t>> \in Calls
    /\ \A f \in {"main"} \cup OfDriver \cup OfDispatcher \cup OfManager \cup OfLoader
                   \cup OfMonitor \cup OfSubscriber : Call(f) \in Calls
<1>1. \A t \in Tasks, f \in OfTask \cup OfTimer : <<f, t>> \in Calls
  BY DEF Calls, Functions
<1>2. ({"main"} \cup OfDriver \cup OfDispatcher \cup OfManager \cup OfLoader
          \cup OfMonitor \cup OfSubscriber) \cap (OfTask \cup OfTimer) = {}
  BY DEF OfDriver, OfDispatcher, OfManager, OfTimer, OfTask, OfLoader, OfMonitor,
         OfSubscriber
<1>3. \A f \in {"main"} \cup OfDriver \cup OfDispatcher \cup OfManager \cup OfLoader
                 \cup OfMonitor \cup OfSubscriber : Call(f) \in Calls
  BY <1>2, LockAssumption DEF LockAssumption, Calls, Functions, Call
<1>4. QED
  BY <1>1, <1>3

\* There are no other calls.
LEMMA CallForms ==
    ASSUME NEW c \in Calls
    PROVE  \/ \E f \in OfTask \cup OfTimer, t \in Tasks : c = <<f, t>>
           \/ \E f \in {"main"} \cup OfDriver \cup OfDispatcher \cup OfManager
                       \cup OfLoader \cup OfMonitor \cup OfSubscriber : c = Call(f)
<1>1. PICK f \in Functions, o \in Tasks \cup {NoTask} : c = <<f, o>>
  BY DEF Calls
<1>2. o \in Tasks <=> f \in OfTask \cup OfTimer
  BY <1>1 DEF Calls
<1>3. QED
  BY <1>1, <1>2 DEF Functions, Call

\* Every call has a rank.
LEMMA RankType ==
    ASSUME NEW c \in Calls
    PROVE  Rank(c) \in 0..8
BY CallForms, RankOfCall

(***************************************************************************)
(* Sequences of the elements of a set.                                     *)
(***************************************************************************)
LEMMA Widen ==
    ASSUME NEW S, NEW T, S \subseteq T, NEW s \in Seq(S)
    PROVE  s \in Seq(T)
OBVIOUS

\* Sequences of up to three calls are sequences.
LEMMA Few ==
    ASSUME NEW S, NEW a \in S, NEW b \in S, NEW c \in S
    PROVE  /\ << >> \in Seq(S)
           /\ <<a>> \in Seq(S)
           /\ <<a, b>> \in Seq(S)
           /\ <<a, b, c>> \in Seq(S)
OBVIOUS

\* So is one sequence after another.
LEMMA Joined ==
    ASSUME NEW S, NEW s \in Seq(S), NEW t \in Seq(S)
    PROVE  s \o t \in Seq(S)
OBVIOUS

-----------------------------------------------------------------------------
(***************************************************************************)
(* The bodies ascend.                                                      *)
(***************************************************************************)
Above(k) == {d \in Calls : Rank(d) > k}

\* The single calls of the bodies.
LEMMA CallsAscend ==
    /\ \A f \in OfDriver : Call(f) \in Above(0)
    /\ \A f \in OfDispatcher : Call(f) \in Above(0) \cap Above(1)
    /\ \A f \in OfManager : Call(f) \in Above(2)
    /\ \A f \in OfTimer, t \in Tasks : <<f, t>> \in Above(0) \cap Above(3)
    /\ \A f \in OfTask, t \in Tasks : <<f, t>> \in Above(3) \cap Above(4)
    /\ \A f \in OfLoader : Call(f) \in Above(3) \cap Above(4)
    /\ \A f \in OfMonitor :
         Call(f) \in Above(0) \cap Above(3) \cap Above(4) \cap Above(5) \cap Above(6)
    /\ \A f \in OfSubscriber : Call(f) \in Above(0) \cap Above(7)
<1> USE CallTypes, RankOfCall DEF Above
<1>1. ASSUME NEW f \in OfDriver PROVE Call(f) \in Above(0)
  <2>1. Call(f) \in Calls /\ Rank(Call(f)) = 1
    BY <1>1
  <2>2. QED
    BY <2>1
<1>2. ASSUME NEW f \in OfDispatcher PROVE Call(f) \in Above(0) \cap Above(1)
  <2>1. Call(f) \in Calls /\ Rank(Call(f)) = 2
    BY <1>2
  <2>2. QED
    BY <2>1
<1>3. ASSUME NEW f \in OfManager PROVE Call(f) \in Above(2)
  <2>1. Call(f) \in Calls /\ Rank(Call(f)) = 3
    BY <1>3
  <2>2. QED
    BY <2>1
<1>4. ASSUME NEW f \in OfTimer, NEW t \in Tasks PROVE <<f, t>> \in Above(0) \cap Above(3)
  <2>1. <<f, t>> \in Calls /\ Rank(<<f, t>>) = 4
    BY <1>4
  <2>2. QED
    BY <2>1
<1>5. ASSUME NEW f \in OfTask, NEW t \in Tasks PROVE <<f, t>> \in Above(3) \cap Above(4)
  <2>1. <<f, t>> \in Calls /\ Rank(<<f, t>>) = 5
    BY <1>5
  <2>2. QED
    BY <2>1
<1>6. ASSUME NEW f \in OfLoader PROVE Call(f) \in Above(3) \cap Above(4)
  <2>1. Call(f) \in Calls /\ Rank(Call(f)) = 6
    BY <1>6
  <2>2. QED
    BY <2>1
<1>7. ASSUME NEW f \in OfMonitor
      PROVE  Call(f) \in Above(0) \cap Above(3) \cap Above(4) \cap Above(5) \cap Above(6)
  <2>1. Call(f) \in Calls /\ Rank(Call(f)) = 7
    BY <1>7
  <2>2. QED
    BY <2>1
<1>8. ASSUME NEW f \in OfSubscriber PROVE Call(f) \in Above(0) \cap Above(7)
  <2>1. Call(f) \in Calls /\ Rank(Call(f)) = 8
    BY <1>8
  <2>2. QED
    BY <2>1
<1>9. QED
  BY <1>1, <1>2, <1>3, <1>4, <1>5, <1>6, <1>7, <1>8

\* What is done under the mutex of the manager.
LEMMA CommandsAscend ==
    /\ EndUse \subseteq Seq(Above(3))
    /\ Command \subseteq Seq(Above(3))
<1> DEFINE S == Above(3)
<1>1. /\ Call("Subscribe") \in S /\ Call("Unsubscribe") \in S
      /\ Call("Acquire") \in S /\ Call("Release") \in S
      /\ Call("GetSensorIlluminationTask") \in S
  BY CallsAscend DEF OfMonitor, OfLoader
<1>2. ASSUME NEW t \in Tasks
      PROVE  /\ <<"Shutdown", t>> \in S /\ <<"EnableTask", t>> \in S
             /\ <<"DisableTask", t>> \in S /\ <<"TurnOnTask", t>> \in S
             /\ <<"TurnOffTask", t>> \in S
  BY CallsAscend DEF OfTask, OfTimer
<1> HIDE DEF S
<1>3. ASSUME NEW t \in Tasks
      PROVE  /\ Destructor(t) \in Seq(S)
             /\ <<<<"EnableTask", t>>>> \in Seq(S)
             /\ <<<<"DisableTask", t>>>> \in Seq(S)
             /\ <<<<"TurnOnTask", t>>>> \in Seq(S)
             /\ <<<<"TurnOffTask", t>>>> \in Seq(S)
  BY <1>1, <1>2, Few DEF Destructor
<1>4. /\ << >> \in Seq(S) /\ Load \in Seq(S)
      /\ <<Call("Acquire")>> \in Seq(S) /\ <<Call("Release")>> \in Seq(S)
  BY <1>1, Few DEF Load
<1>5. ASSUME NEW b \in EndUse PROVE b \in Seq(S)
  <2>1. ASSUME NEW t \in Tasks
        PROVE  <<<<"DisableTask", t>>>> \o Destructor(t) \in Seq(S)
    BY <1>3, Joined
  <2>2. QED
    BY <1>3, <1>4, <1>5, <2>1 DEF EndUse
<1>6. ASSUME NEW b \in Enable PROVE b \in Seq(S)
  <2>1. Load \o <<Call("Release")>> \in Seq(S)
    BY <1>4, Joined
  <2>2. ASSUME NEW t \in Tasks
        PROVE  /\ Load \o Destructor(t) \in Seq(S)
               /\ Load \o <<<<"EnableTask", t>>>> \in Seq(S)
    BY <1>3, <1>4, Joined
  <2>3. ASSUME NEW t \in Tasks
        PROVE  Load \o <<<<"EnableTask", t>>>> \o Destructor(t) \in Seq(S)
    BY <1>3, <2>2, Joined
  <2>4. QED
    BY <1>4, <1>6, <2>1, <2>2, <2>3 DEF Enable
<1>7. ASSUME NEW b \in Command PROVE b \in Seq(S)
  BY <1>3, <1>5, <1>6, <1>7 DEF Command
<1>8. QED
  BY <1>5, <1>7 DEF S

\* Copies of one call.
LEMMA RepeatAscends ==
    ASSUME NEW c, NEW S, c \in S, NEW max \in Nat, NEW body \in Repeat(c, max)
    PROVE  body \in Seq(S)
<1>1. PICK n \in 0..max : body \in [1..n -> {c}]
  BY DEF Repeat
<1>2. QED
  BY <1>1

\* What is above the rank of a call comes after it.
LEMMA AboveIsAfter ==
    ASSUME NEW c \in Calls, NEW k \in Nat, Rank(c) = k,
           NEW body \in Seq(Above(k))
    PROVE  body \in Seq(After(c))
<1>1. Above(k) \subseteq After(c)
  BY RankType DEF Above, After
<1>2. QED
  BY <1>1, Widen

\* The order of the locks: what a function calls comes after it, whichever branch it takes.
LEMMA BodiesAscend ==
    ASSUME NEW c \in Calls, NEW body \in Bodies(c)
    PROVE  body \in Seq(After(c))
<1>1. CASE c = Call("OnHdiDisconnect")
  <2>1. Rank(c) = 1 /\ Call("TellProcessors") \in Above(1)
    BY <1>1, RankOfCall, CallsAscend DEF OfDriver, OfDispatcher
  <2>2. body \in Repeat(Call("TellProcessors"), MaxExecutors)
    BY <1>1 DEF Bodies, Call
  <2>3. QED
    BY <2>1, <2>2, RepeatAscends, AboveIsAfter, LockAssumption DEF LockAssumption
<1>2. CASE c = Call("ProcessSaCommands")
  <2>1. Rank(c) = 2 /\ Call("ProcessSaCommand") \in Above(2)
    BY <1>2, RankOfCall, CallsAscend DEF OfDispatcher, OfManager
  <2>2. body \in Repeat(Call("ProcessSaCommand"), MaxBatch)
    BY <1>2 DEF Bodies, Call
  <2>3. QED
    BY <2>1, <2>2, RepeatAscends, AboveIsAfter, LockAssumption DEF LockAssumption
<1>3. CASE c = Call("TellProcessors")
  <2>1. Rank(c) = 2 /\ Call("EndLease") \in Above(2)
    BY <1>3, RankOfCall, CallsAscend DEF OfDispatcher, OfManager
  <2>2. body \in {<< >>, <<Call("EndLease")>>}
    BY <1>3 DEF Bodies, Call
  <2>3. QED
    BY <2>1, <2>2, Few, AboveIsAfter
<1>4. CASE c \in {Call("ProcessSaCommand"), Call("EndLease")}
  <2>1. Rank(c) = 3
    BY <1>4, RankOfCall DEF OfManager
  <2>2. body \in Command \cup EndUse
    BY <1>4 DEF Bodies, Call
  <2>3. QED
    BY <2>1, <2>2, CommandsAscend, AboveIsAfter
<1>5. CASE c = Call("GetSensorIlluminationTask")
  <2>1. Rank(c) = 6 /\ Call("Subscribe") \in Above(6)
    BY <1>5, RankOfCall, CallsAscend DEF OfLoader, OfMonitor
  <2>2. body \in {<< >>, <<Call("Subscribe")>>}
    BY <1>5 DEF Bodies, Call, Constructor
  <2>3. QED
    BY <2>1, <2>2, Few, AboveIsAfter
<1>6. CASE c = Call("Subscribe")
  <2>1. Rank(c) = 7 /\ Call("SetCallback") \in Above(7)
    BY <1>6, RankOfCall, CallsAscend DEF OfMonitor, OfSubscriber
  <2>2. body \in {<< >>, <<Call("SetCallback")>>}
    BY <1>6 DEF Bodies, Call
  <2>3. QED
    BY <2>1, <2>2, Few, AboveIsAfter
<1>7. ASSUME NEW t \in Tasks, c = <<"TurnOnTask", t>>
      PROVE  body \in Seq(After(c))
  <2>1. Rank(c) = 5 /\ Call("GetScreenOn") \in Above(5)
    BY <1>7, RankOfCall, CallsAscend DEF OfMonitor, OfTask
  <2>2. body \in {<< >>, <<Call("GetScreenOn")>>}
    BY <1>7 DEF Bodies, TurnOnSensorIllumination
  <2>3. QED
    BY <2>1, <2>2, Few, AboveIsAfter
<1>8. ASSUME NEW t \in Tasks, c = <<"DisableTask", t>>
      PROVE  body \in Seq(After(c))
  <2>1. <<"TurnOffTask", t>> \in After(c)
    BY <1>8, CallTypes, KindOfFunction DEF After, MutexOf, Recursive, OfTask
  <2>2. Rank(c) = 5 /\ Call("Unsubscribe") \in Above(5)
    BY <1>8, RankOfCall, CallsAscend DEF OfMonitor, OfTask
  <2>3. Call("Unsubscribe") \in After(c)
    BY <2>2 DEF Above, After
  <2>4. body = <<<<"TurnOffTask", t>>, Call("Unsubscribe")>>
    BY <1>8 DEF Bodies, DisableSensorIllumination
  <2>5. QED
    BY <2>1, <2>3, <2>4, Few
<1>9. ASSUME NEW t \in Tasks, c = <<"TimerCallback", t>>
      PROVE  body \in Seq(After(c))
  <2>1. <<"Shutdown", t>> \in After(c)
    BY <1>9, CallTypes, KindOfFunction DEF After, MutexOf, Recursive, OfTimer
  <2>2. /\ Rank(c) = 4 /\ <<"TurnOffTask", t>> \in Above(4)
        /\ Call("Unsubscribe") \in Above(4) /\ Call("Release") \in Above(4)
    BY <1>9, RankOfCall, CallsAscend DEF OfLoader, OfMonitor, OfTask, OfTimer
  <2>3. /\ <<"TurnOffTask", t>> \in After(c)
        /\ Call("Unsubscribe") \in After(c) /\ Call("Release") \in After(c)
    BY <2>2 DEF Above, After
  <2>4. <<<<"TurnOffTask", t>>>> \in Seq(After(c)) /\ Destructor(t) \in Seq(After(c))
    BY <2>1, <2>3, Few DEF Destructor
  <2>5. /\ << >> \in Seq(After(c))
        /\ <<<<"TurnOffTask", t>>>> \o Destructor(t) \in Seq(After(c))
    BY <2>4, Joined
  <2>6. body \in {<< >>, <<<<"TurnOffTask", t>>>>,
                  <<<<"TurnOffTask", t>>>> \o Destructor(t)}
    BY <1>9 DEF Bodies, TimeOut
  <2>7. QED
    BY <2>4, <2>5, <2>6
<1>10. CASE c[1] \notin {"OnHdiDisconnect", "ProcessSaCommands", "TellProcessors",
                         "ProcessSaCommand", "EndLease", "Subscribe",
                         "GetSensorIlluminationTask", "DisableTask",
                         "TurnOnTask", "TimerCallback"}
  <2>1. body = << >>
    BY <1>10 DEF Bodies
  <2>2. QED
    BY <2>1
<1>11. QED
  <2>1. ASSUME NEW f \in OfTask \cup OfTimer, NEW t \in Tasks, c = <<f, t>>
        PROVE  body \in Seq(After(c))
    BY <1>7, <1>8, <1>9, <1>10, <2>1 DEF OfTask, OfTimer
  <2>2. ASSUME NEW f \in {"main"} \cup OfDriver \cup OfDispatcher \cup OfManager
                         \cup OfLoader \cup OfMonitor \cup OfSubscriber,
               c = Call(f)
        PROVE  body \in Seq(After(c))
    <3>1. c[1] = f
      BY <2>2 DEF Call
    <3>2. QED
      BY <1>1, <1>2, <1>3, <1>4, <1>5, <1>6, <1>10, <2>2, <3>1
         DEF OfDriver, OfDispatcher, OfManager, OfLoader, OfMonitor, OfSubscriber
  <2>3. QED
    BY <2>1, <2>2, CallForms

\* What a thread is given comes after no mutex at all.
LEMMA EntriesAscend ==
    ASSUME NEW th \in Threads, NEW body \in Entries(th)
    PROVE  body \in Seq(After(Call("main")))
<1>1. Call("main") \in Calls /\ Rank(Call("main")) = 0
  BY CallTypes, RankOfCall
<1>2. /\ Call("GetExecutorList") \in Above(0) /\ Call("OnHdiDisconnect") \in Above(0)
      /\ Call("ProcessSaCommands") \in Above(0)
      /\ Call("RegisterSaCommandProcessor") \in Above(0)
      /\ Call("GetCallback") \in Above(0) /\ Call("SetScreenOn") \in Above(0)
      /\ th \in Tasks => <<"TimerCallback", th>> \in Above(0)
  BY CallsAscend DEF OfDriver, OfDispatcher, OfSubscriber, OfMonitor, OfTimer
<1>3. body \in Seq(Above(0))
  <2>1. CASE th = Framework
    BY <1>2, <2>1, Few DEF Entries
  <2>2. CASE th # Framework /\ th \in Tasks
    BY <1>2, <2>2, Few DEF Entries
  <2>3. CASE th # Framework /\ th \notin Tasks
    BY <1>2, <2>3, Few DEF Entries, ScreenEvent
  <2>4. QED
    BY <2>1, <2>2, <2>3
<1>4. QED
  BY <1>1, <1>3, AboveIsAfter

-----------------------------------------------------------------------------
(***************************************************************************)
(* The inductive invariant: on the stack of a thread, and from each call   *)
(* to those of its body, the order ascends; and nothing but the shared     *)
(* mutex of the dispatcher has two holders.                                *)
(***************************************************************************)
Frames == [call : Calls, todo : Seq(Calls)]

StackTypes ==
    /\ stack \in [Threads -> Seq(Frames)]
    /\ \A th \in Threads : Len(stack[th]) > 0

Ascends(th) ==
    /\ \A i \in 1..Len(stack[th]) :
         stack[th][i].todo \in Seq(After(stack[th][i].call))
    /\ \A i, j \in 1..Len(stack[th]) :
         i < j => stack[th][j].call \in After(stack[th][i].call)

OneHolder ==
    \A th, u \in Threads :
        th # u =>
            \A i \in 1..Len(stack[th]), j \in 1..Len(stack[u]) :
                MutexOf(stack[th][i].call) = MutexOf(stack[u][j].call) =>
                    Kind[stack[th][i].call[1]] \in {"none", "dispatcher"}

LockInv == StackTypes /\ (\A th \in Threads : Ascends(th)) /\ OneHolder

\* What comes after a call is what comes after one before it.
LEMMA AfterIsTransitive ==
    ASSUME NEW c \in Calls, NEW d \in After(c), NEW e \in After(d)
    PROVE  e \in After(c)
<1>1. Rank(c) \in Nat /\ Rank(d) \in Nat /\ Rank(e) \in Nat
  BY RankType DEF After
<1>2. ASSUME NEW x, NEW y, MutexOf(x) = MutexOf(y)
      PROVE  Rank(x) = Rank(y) /\ Kind[x[1]] = Kind[y[1]]
  BY <1>2 DEF MutexOf, Rank
<1>3. QED
  BY <1>1, <1>2 DEF After

\* A stack is a non-empty sequence of frames.
LEMMA StackFacts ==
    ASSUME LockInv, NEW th \in Threads
    PROVE  /\ stack[th] \in Seq(Frames)
           /\ Len(stack[th]) \in Nat /\ Len(stack[th]) > 0
           /\ DOMAIN stack[th] = 1..Len(stack[th])
           /\ \A i \in 1..Len(stack[th]) :
                /\ stack[th][i] \in Frames
                /\ stack[th][i].call \in Calls
                /\ stack[th][i].todo \in Seq(Calls)
<1>1. stack[th] \in Seq(Frames) /\ Len(stack[th]) > 0
  BY DEF LockInv, StackTypes
<1>2. \A i \in 1..Len(stack[th]) : stack[th][i] \in Frames
  BY <1>1
<1>3. \A x \in Frames : x.call \in Calls /\ x.todo \in Seq(Calls)
  BY DEF Frames
<1>4. QED
  BY <1>1, <1>2, <1>3

\* At first every thread is in its outermost function only.
LEMMA LockInitInv == LockInit => LockInv
<1> SUFFICES ASSUME LockInit PROVE LockInv
  OBVIOUS
<1>1. Frame(Call("main"), << >>) \in Frames
  BY CallTypes DEF Frame, Frames
<1>2. \A th \in Threads :
        /\ stack[th] = <<Frame(Call("main"), << >>)>>
        /\ Len(stack[th]) = 1
        /\ stack[th][1].call = Call("main") /\ stack[th][1].todo = << >>
  BY DEF LockInit, Frame
<1>3. StackTypes
  BY <1>1, <1>2 DEF LockInit, StackTypes
<1>4. ASSUME NEW th \in Threads PROVE Ascends(th)
  <2> DEFINE n == Len(stack[th])
  <2>1. n = 1 /\ stack[th][1].todo = << >>
    BY <1>2
  <2> HIDE DEF n
  <2>2. \A i \in 1..n : stack[th][i].todo \in Seq(After(stack[th][i].call))
    <3>1. << >> \in Seq(After(stack[th][1].call))
      OBVIOUS
    <3>2. \A i \in 1..n : i = 1
      BY <2>1
    <3>3. QED
      BY <2>1, <3>1, <3>2
  <2>3. \A i, j \in 1..n : ~(i < j)
    BY <2>1
  <2>4. QED
    BY <2>2, <2>3 DEF Ascends, n
<1>5. Kind[Call("main")[1]] = "none"
  BY KindOfFunction DEF Call
<1>6. OneHolder
  BY <1>2, <1>5 DEF OneHolder
<1>7. QED
  BY <1>3, <1>4, <1>6 DEF LockInv

-----------------------------------------------------------------------------
(***************************************************************************)
(* The steps of a thread.  Its new stack s is looked at by itself.         *)
(***************************************************************************)
LEMMA NewStack ==
    ASSUME LockInv, NEW th \in Threads,
           NEW s \in Seq(Frames), Len(s) > 0,
           stack' = [stack EXCEPT ![th] = s],
           \A i \in 1..Len(s) : s[i].todo \in Seq(After(s[i].call)),
           \A i, j \in 1..Len(s) : i < j => s[j].call \in After(s[i].call),
           \A i \in 1..Len(s) :
             \/ \E j \in 1..Len(stack[th]) : stack[th][j].call = s[i].call
             \/ Kind[s[i].call[1]] \in {"none", "dispatcher"}
             \/ \A u \in Threads \ {th} : ~Holds(u, MutexOf(s[i].call))
    PROVE  LockInv'
<1>1. stack'[th] = s /\ \A u \in Threads \ {th} : stack'[u] = stack[u]
  BY DEF LockInv, StackTypes
<1>2. StackTypes'
  BY <1>1 DEF LockInv, StackTypes
<1>3. \A u \in Threads : Ascends(u)'
  BY <1>1 DEF LockInv, Ascends
<1>4. ASSUME NEW u \in Threads \ {th}, NEW i \in 1..Len(s),
             NEW j \in 1..Len(stack[u]),
             MutexOf(s[i].call) = MutexOf(stack[u][j].call)
      PROVE  Kind[s[i].call[1]] \in {"none", "dispatcher"}
  <2>1. CASE \E k \in 1..Len(stack[th]) : stack[th][k].call = s[i].call
    BY <1>4, <2>1 DEF LockInv, OneHolder
  <2>2. CASE \A v \in Threads \ {th} : ~Holds(v, MutexOf(s[i].call))
    <3>1. j \in DOMAIN stack[u]
      BY StackFacts
    <3>2. Holds(u, MutexOf(s[i].call))
      BY <1>4, <3>1 DEF Holds
    <3>3. QED
      BY <2>2, <3>2
  <2>3. QED
    BY <2>1, <2>2
<1>5. ASSUME NEW x, NEW y, MutexOf(x) = MutexOf(y)
      PROVE  Kind[x[1]] = Kind[y[1]]
  BY <1>5 DEF MutexOf
<1>6. OneHolder'
  <2> SUFFICES ASSUME NEW v \in Threads, NEW u \in Threads, v # u,
                      NEW i \in 1..Len(stack'[v]), NEW j \in 1..Len(stack'[u]),
                      MutexOf(stack'[v][i].call) = MutexOf(stack'[u][j].call)
               PROVE  Kind[stack'[v][i].call[1]] \in {"none", "dispatcher"}
    BY DEF OneHolder
  <2>1. CASE v = th
    BY <1>1, <1>4, <2>1
  <2>2. CASE u = th
    <3>1. v \in Threads \ {th} /\ i \in 1..Len(stack[v]) /\ j \in 1..Len(s)
      BY <1>1, <2>2
    <3>2. MutexOf(s[j].call) = MutexOf(stack[v][i].call)
      BY <1>1, <2>2
    <3>3. Kind[s[j].call[1]] \in {"none", "dispatcher"}
      BY <1>4, <3>1, <3>2
    <3>4. QED
      BY <1>1, <1>5, <2>2, <3>2, <3>3
  <2>3. CASE v # th /\ u # th
    BY <1>1, <2>3 DEF LockInv, OneHolder
  <2>4. QED
    BY <2>1, <2>2, <2>3
<1>7. QED
  BY <1>2, <1>3, <1>6 DEF LockInv

\* A thread that starts takes no mutex yet.
LEMMA BeginKeepsInv ==
    ASSUME LockInv, NEW th \in Threads, Begin(th) PROVE LockInv'
<1>1. PICK body \in Entries(th) :
        stack' = [stack EXCEPT ![th] = <<Frame(Call("main"), body)>>]
  BY DEF Begin
<1> DEFINE s == <<Frame(Call("main"), body)>>
<1>2. body \in Seq(After(Call("main")))
  BY EntriesAscend
<1>3. body \in Seq(Calls)
  BY <1>2, Widen DEF After
<1>4. s \in Seq(Frames)
  BY <1>3, CallTypes DEF Frame, Frames
<1>5. Len(s) = 1 /\ s[1].call = Call("main") /\ s[1].todo = body
  BY DEF Frame
<1>6. Kind[Call("main")[1]] = "none"
  BY KindOfFunction DEF Call
<1>7. stack' = [stack EXCEPT ![th] = s]
  BY <1>1
<1> HIDE DEF s
<1>8. \A i \in 1..Len(s) : i = 1
  BY <1>5
<1>9. /\ \A i \in 1..Len(s) : s[i].todo \in Seq(After(s[i].call))
      /\ \A i, j \in 1..Len(s) : i < j => s[j].call \in After(s[i].call)
      /\ \A i \in 1..Len(s) :
           \/ \E j \in 1..Len(stack[th]) : stack[th][j].call = s[i].call
           \/ Kind[s[i].call[1]] \in {"none", "dispatcher"}
           \/ \A u \in Threads \ {th} : ~Holds(u, MutexOf(s[i].call))
  BY <1>2, <1>5, <1>6, <1>8
<1>10. QED
  <2>1. Len(s) > 0
    BY <1>5
  <2>2. QED
    BY <1>4, <1>7, <1>9, <2>1, NewStack

\* A function is entered in the order of the locks, and when nobody else excludes it.
LEMMA EnterKeepsInv ==
    ASSUME LockInv, NEW th \in Threads, Enter(th) PROVE LockInv'
<1> DEFINE old == stack[th]
           n == Len(old)
<1>1. PICK c \in Calls :
        /\ Wants(th, c)
        /\ \A u \in Threads : ~Excludes(u, th, c)
        /\ \E body \in Bodies(c) :
             stack' = [stack EXCEPT ![th] =
               Append([stack[th] EXCEPT ![Len(stack[th])].todo = Tail(@)],
                        Frame(c, body))]
  BY DEF Enter
<1>2. PICK body \in Bodies(c) :
        stack' = [stack EXCEPT ![th] =
          Append([stack[th] EXCEPT ![Len(stack[th])].todo = Tail(@)],
                 Frame(c, body))]
  BY <1>1
<1> DEFINE rest == [old EXCEPT ![n].todo = Tail(@)]
           s == Append(rest, Frame(c, body))
<1>3. /\ old \in Seq(Frames)
      /\ n \in Nat /\ n > 0
      /\ \A i \in 1..n : old[i].todo \in Seq(After(old[i].call))
      /\ \A i, j \in 1..n : i < j => old[j].call \in After(old[i].call)
  BY StackFacts DEF LockInv, Ascends
<1>4. old[n].todo # << >> /\ c = Head(old[n].todo)
  BY <1>1 DEF Wants, Top
<1>5. /\ old[n].todo \in Seq(After(old[n].call))
      /\ old[n] \in Frames
      /\ old[n].todo \in Seq(Calls)
  BY <1>3, StackFacts
<1>6. /\ c \in After(old[n].call)
      /\ Tail(old[n].todo) \in Seq(After(old[n].call))
      /\ Tail(old[n].todo) \in Seq(Calls)
  <2>1. \A S : \A q \in Seq(S) : q # << >> => Head(q) \in S /\ Tail(q) \in Seq(S)
    OBVIOUS
  <2>2. QED
    BY <1>4, <1>5, <2>1
<1>7. body \in Seq(After(c)) /\ body \in Seq(Calls)
  <2>1. body \in Seq(After(c)) /\ After(c) \subseteq Calls
    BY BodiesAscend DEF After
  <2>2. QED
    BY <2>1, Widen
<1>8. /\ rest \in Seq(Frames)
      /\ Len(rest) = n
      /\ \A i \in 1..n :
           /\ rest[i].call = old[i].call
           /\ rest[i].todo \in Seq(After(old[i].call))
  <2>1. [old[n] EXCEPT !.todo = Tail(old[n].todo)] \in Frames
    BY <1>5, <1>6 DEF Frames
  <2>2. rest = [old EXCEPT ![n] = [old[n] EXCEPT !.todo = Tail(old[n].todo)]]
    OBVIOUS
  <2>3. rest \in Seq(Frames) /\ Len(rest) = n
    BY <1>3, <2>1, <2>2
  <2>4. ASSUME NEW i \in 1..n
        PROVE  rest[i].call = old[i].call /\ rest[i].todo \in Seq(After(old[i].call))
    BY <1>3, <1>5, <1>6, <2>2
  <2>5. QED
    BY <2>3, <2>4
<1>9. Frame(c, body) \in Frames
  BY <1>7 DEF Frame, Frames
<1>10. stack' = [stack EXCEPT ![th] = s]
  BY <1>2
<1> HIDE DEF rest
<1>11. /\ s \in Seq(Frames)
       /\ Len(s) = n + 1
       /\ s[n + 1] = Frame(c, body)
       /\ \A i \in 1..n : s[i] = rest[i]
  BY <1>3, <1>8, <1>9
<1>12. s[n + 1].call = c /\ s[n + 1].todo = body
  BY <1>11 DEF Frame
<1> HIDE DEF s
<1>13. ASSUME NEW i \in 1..n PROVE c \in After(old[i].call)
  <2>1. CASE i = n
    BY <1>6, <2>1
  <2>2. CASE i # n
    <3>1. old[n].call \in After(old[i].call) /\ old[i].call \in Calls
      BY <1>3, <2>2, StackFacts
    <3>2. QED
      BY <1>6, <3>1, AfterIsTransitive
  <2>3. QED
    BY <2>1, <2>2
<1>14. ASSUME NEW i \in 1..Len(s) PROVE i \in 1..n \/ i = n + 1
  BY <1>3, <1>11
<1>15. ASSUME NEW i \in 1..Len(s) PROVE s[i].todo \in Seq(After(s[i].call))
  <2>1. CASE i \in 1..n
    BY <1>8, <1>11, <2>1
  <2>2. CASE i = n + 1
    BY <1>7, <1>12, <2>2
  <2>3. QED
    BY <1>14, <2>1, <2>2
<1>16. ASSUME NEW i \in 1..Len(s), NEW j \in 1..Len(s), i < j
       PROVE  s[j].call \in After(s[i].call)
  <2>1. i \in 1..n /\ s[i].call = old[i].call
    BY <1>3, <1>8, <1>11, <1>16
  <2>2. CASE j \in 1..n
    BY <1>3, <1>8, <1>11, <1>16, <2>1, <2>2
  <2>3. CASE j = n + 1
    BY <1>12, <1>13, <2>1, <2>3
  <2>4. QED
    BY <1>14, <2>2, <2>3
<1>17. ASSUME NEW i \in 1..Len(s)
       PROVE  \/ \E j \in 1..n : old[j].call = s[i].call
              \/ Kind[s[i].call[1]] \in {"none", "dispatcher"}
              \/ \A u \in Threads \ {th} : ~Holds(u, MutexOf(s[i].call))
  <2>1. CASE i \in 1..n
    BY <1>8, <1>11, <2>1
  <2>2. CASE i = n + 1
    BY <1>1, <1>12, <2>2 DEF Excludes
  <2>3. QED
    BY <1>14, <2>1, <2>2
<1>18. Len(s) > 0
  BY <1>3, <1>11
<1>19. QED
  BY <1>10, <1>11, <1>15, <1>16, <1>17, <1>18, NewStack

\* Leaving a function gives a mutex back and keeps what is below it.
LEMMA ReturnKeepsInv ==
    ASSUME LockInv, NEW th \in Threads, Return(th) PROVE LockInv'
<1> DEFINE old == stack[th]
           n == Len(old)
           s == SubSeq(old, 1, n - 1)
<1>1. /\ old \in Seq(Frames)
      /\ n \in Nat /\ n > 1
      /\ \A i \in 1..n : old[i].todo \in Seq(After(old[i].call))
      /\ \A i, j \in 1..n : i < j => old[j].call \in After(old[i].call)
  BY StackFacts DEF LockInv, Ascends, Return
<1>2. stack' = [stack EXCEPT ![th] = s]
  BY DEF Return
<1>3. /\ s \in Seq(Frames)
      /\ Len(s) = n - 1
      /\ \A i \in 1 .. n - 1 : s[i] = old[i]
  BY <1>1
<1> HIDE DEF s
<1>4. \A i \in 1..Len(s) : i \in 1..n /\ s[i] = old[i]
  BY <1>1, <1>3
<1>5. Len(s) > 0
  BY <1>1, <1>3
<1>6. QED
  BY <1>1, <1>2, <1>3, <1>4, <1>5, NewStack

\* Every step keeps the invariant.
LEMMA LockNextInv == LockInv /\ [LockNext]_stack => LockInv'
<1> SUFFICES ASSUME LockInv, [LockNext]_stack PROVE LockInv'
  OBVIOUS
<1>1. CASE UNCHANGED stack
  BY <1>1 DEF LockInv, StackTypes, Ascends, OneHolder
<1>2. CASE LockNext
  BY <1>2, BeginKeepsInv, EnterKeepsInv, ReturnKeepsInv DEF LockNext, GoOn
<1>3. QED
  BY <1>1, <1>2

-----------------------------------------------------------------------------
(***************************************************************************)
(* Who waits.  The thread waited for wants a mutex later in the order, so  *)
(* the threads of a circle would want later and later ones.                *)
(***************************************************************************)
LEMMA WantedIsAfterHeld ==
    ASSUME LockInv, NEW u \in Threads, NEW d \in Calls, Wants(u, d),
           NEW i \in 1..Len(stack[u])
    PROVE  d \in After(stack[u][i].call)
<1> DEFINE n == Len(stack[u])
<1>1. /\ stack[u] \in Seq(Frames)
      /\ n \in Nat /\ n > 0 /\ i \in Nat /\ i <= n
      /\ stack[u][n].todo \in Seq(After(stack[u][n].call))
      /\ i < n => stack[u][n].call \in After(stack[u][i].call)
      /\ stack[u][i].call \in Calls
  BY StackFacts DEF LockInv, Ascends
<1>2. d \in After(stack[u][n].call)
  BY <1>1 DEF Wants, Top
<1>3. QED
  BY <1>1, <1>2, AfterIsTransitive

\* The thread that keeps another waiting wants a later mutex, or the same.
LEMMA HolderWantsLater ==
    ASSUME LockInv, NEW th \in Threads, NEW u \in Threads,
           NEW c \in Calls, NEW d \in Calls,
           Wants(th, c), Wants(u, d), Excludes(u, th, c)
    PROVE  \/ Rank(c) < Rank(d)
           \/ MutexOf(c) = MutexOf(d) /\ Kind[c[1]] \in Recursive
<1>1. PICK i \in 1..Len(stack[u]) : MutexOf(stack[u][i].call) = MutexOf(c)
  BY StackFacts DEF Excludes, Holds
<1>2. d \in After(stack[u][i].call)
  BY WantedIsAfterHeld
<1>3. /\ Rank(stack[u][i].call) = Rank(c)
      /\ Kind[stack[u][i].call[1]] = Kind[c[1]]
  BY <1>1 DEF MutexOf, Rank
<1>4. QED
  BY <1>1, <1>2, <1>3 DEF After

\* A thread that holds a recursive mutex is not kept from it by another.
LEMMA ReentryIsFree ==
    ASSUME LockInv, NEW u \in Threads, NEW v \in Threads, NEW d \in Calls,
           Holds(u, MutexOf(d)), Kind[d[1]] \in Recursive
    PROVE  ~Excludes(v, u, d)
<1> SUFFICES ASSUME Excludes(v, u, d) PROVE FALSE
  OBVIOUS
<1>1. v # u
  BY DEF Excludes
<1>2. PICK i \in 1..Len(stack[u]) : MutexOf(stack[u][i].call) = MutexOf(d)
  BY StackFacts DEF Holds
<1>3. PICK j \in 1..Len(stack[v]) : MutexOf(stack[v][j].call) = MutexOf(d)
  BY StackFacts DEF Excludes, Holds
<1>4. Kind[stack[u][i].call[1]] \in {"none", "dispatcher"}
  BY <1>1, <1>2, <1>3 DEF LockInv, OneHolder
<1>5. Kind[stack[u][i].call[1]] = Kind[d[1]]
  BY <1>2 DEF MutexOf
<1>6. QED
  BY <1>4, <1>5 DEF Recursive

\* Of two threads that both wait for a holder, the second wants a later mutex.
LEMMA WaitsAscend ==
    ASSUME LockInv, NEW th \in Threads, NEW u \in Threads, NEW v \in Threads,
           NEW c \in Calls, NEW d \in Calls, Wants(th, c), Wants(u, d),
           Excludes(u, th, c), WaitsFor(u, v)
    PROVE  Rank(c) < Rank(d)
<1> SUFFICES ASSUME MutexOf(c) = MutexOf(d), Kind[c[1]] \in Recursive PROVE FALSE
  BY HolderWantsLater
<1>1. Kind[d[1]] = Kind[c[1]]
  BY DEF MutexOf
<1>2. Excludes(v, u, d)
  BY <1>1 DEF WaitsFor, Wants, Recursive
<1>3. Holds(u, MutexOf(d))
  BY DEF Excludes
<1>4. QED
  BY <1>1, <1>2, <1>3, ReentryIsFree

\* A set of ranks has a last one.
LEMMA LastRank ==
    ASSUME NEW R, R \subseteq 0..8, R # {}
    PROVE  \E m \in R : \A r \in R : r <= m
<1> DEFINE Last == \E m \in R : \A r \in R : r <= m
<1>1. ASSUME NEW k \in Nat, \A r \in R : r <= k PROVE Last \/ \A r \in R : r < k
  BY <1>1
<1> HIDE DEF Last
<1>2. ASSUME NEW k \in Nat, \A r \in R : r < k + 1 PROVE Last \/ \A r \in R : r < k
  BY <1>1, <1>2
<1>3. \A r \in R : r < 9
  OBVIOUS
<1>4. Last \/ \A r \in R : r < 7
  <2>1. Last \/ \A r \in R : r < 7 + 1
    BY <1>2, <1>3
  <2>2. QED
    BY <1>2, <2>1
<1>5. Last \/ \A r \in R : r < 4
  <2>1. Last \/ \A r \in R : r < 5 + 1
    BY <1>2, <1>4
  <2>2. Last \/ \A r \in R : r < 4 + 1
    BY <1>2, <2>1
  <2>3. QED
    BY <1>2, <2>2
<1>6. Last \/ \A r \in R : r < 0
  <2>1. Last \/ \A r \in R : r < 3
    BY <1>2, <1>5
  <2>2. Last \/ \A r \in R : r < 2 + 1
    BY <2>1
  <2>3. Last \/ \A r \in R : r < 1 + 1
    BY <1>2, <2>2
  <2>4. Last \/ \A r \in R : r < 0 + 1
    BY <1>2, <2>3
  <2>5. QED
    BY <1>2, <2>4
<1>7. \E r \in R : ~(r < 0)
  <2>1. PICK r \in R : TRUE
    OBVIOUS
  <2>2. r \in 0..8
    OBVIOUS
  <2>3. QED
    BY <2>2
<1>8. QED
  BY <1>6, <1>7 DEF Last

\* In a circle, who wants the highest lock would wait for one who wants a higher one.
LEMMA InvImpliesNoCyclicWait == LockInv => NoCyclicWait
<1> SUFFICES ASSUME LockInv, NEW Q \in SUBSET Threads, Q # {},
                    \A th \in Q : \E u \in Q : WaitsFor(th, u)
             PROVE  FALSE
  BY DEF NoCyclicWait
<1> DEFINE R == {r \in 0..8 : \E th \in Q, c \in Calls : Wants(th, c) /\ Rank(c) = r}
<1>1. \A th \in Q : \E c \in Calls : Wants(th, c)
  BY DEF WaitsFor
<1>2. R # {}
  BY <1>1, RankType
<1>3. PICK m \in R : \A r \in R : r <= m
  <2> HIDE DEF R
  <2>1. R \subseteq 0..8
    BY DEF R
  <2>2. QED
    BY <1>2, <2>1, LastRank
<1>4. \A th \in Q, c \in Calls : Wants(th, c) => Rank(c) \in 0..8 /\ Rank(c) <= m
  BY <1>3, RankType
<1>5. ASSUME NEW th \in Q, NEW u \in Q, NEW c \in Calls,
             Wants(th, c), Excludes(u, th, c)
      PROVE  Rank(c) < m
  <2>1. PICK d \in Calls : Wants(u, d)
    BY <1>1
  <2>2. PICK v \in Q : WaitsFor(u, v)
    OBVIOUS
  <2>3. Rank(c) < Rank(d)
    BY <1>5, <2>1, <2>2, WaitsAscend
  <2>4. QED
    BY <1>4, <1>5, <2>1, <2>3
<1>6. PICK th \in Q, c \in Calls : Wants(th, c) /\ Rank(c) = m
  OBVIOUS
<1>7. PICK u \in Q : WaitsFor(th, u)
  OBVIOUS
<1> DEFINE reg == Call("RegisterSaCommandProcessor")
<1>8. CASE Excludes(u, th, c)
  BY <1>4, <1>5, <1>6, <1>8
<1>9. CASE Kind[c[1]] = "dispatcher" /\ Wants(u, reg)
  <2>1. Rank(c) = 2 /\ Rank(reg) = 2 /\ reg \in Calls
    BY <1>9, RankOfCall, CallTypes DEF Rank, RankOf, OfDispatcher
  <2>2. PICK v \in Q : WaitsFor(u, v)
    OBVIOUS
  <2>3. Excludes(v, u, reg)
    BY <1>9, <2>2 DEF WaitsFor, Wants
  <2>4. Rank(reg) < m
    BY <1>5, <1>9, <2>1, <2>3
  <2>5. QED
    BY <1>6, <2>1, <2>4
<1>10. QED
  BY <1>6, <1>7, <1>8, <1>9 DEF WaitsFor, Wants

\* The invariant holds of every behavior.
LEMMA AlwaysLockInv == LockSpec => []LockInv
BY LockInitInv, LockNextInv, PTL DEF LockSpec

(***************************************************************************)
(* Type correctness: threads make only the calls that the classes have.    *)
(***************************************************************************)
THEOREM LockTypesHold == LockSpec => []LockTypeOK
<1>1. LockInv => LockTypeOK
  BY DEF LockInv, StackTypes, Frames, LockTypeOK
<1>2. QED
  BY <1>1, AlwaysLockInv, PTL

(***************************************************************************)
(* No circle of threads ever waits for each other's mutexes.               *)
(***************************************************************************)
THEOREM NoThreadsInACircle == LockSpec => []NoCyclicWait
BY AlwaysLockInv, InvImpliesNoCyclicWait, PTL

-----------------------------------------------------------------------------
\* Nothing calls a thread's outermost function.
LEMMA WantedTakesMutex ==
    ASSUME LockInv, NEW th \in Threads, NEW c \in Calls, Wants(th, c)
    PROVE  MutexOf(c) # MutexOf(Call("main"))
<1> DEFINE d == stack[th][1].call
<1>1. d \in Calls /\ c \in After(d)
  BY StackFacts, WantedIsAfterHeld
<1> HIDE DEF d
<1>2. ASSUME MutexOf(c) = MutexOf(Call("main")) PROVE Rank(c) = 0 /\ Kind[c[1]] = "none"
  BY <1>2, RankOfCall, KindOfFunction DEF MutexOf, Rank, Call
<1>3. Rank(d) < Rank(c) \/ Kind[c[1]] \in Recursive
  BY <1>1 DEF After, MutexOf
<1>4. Rank(d) \in 0..8
  BY <1>1, RankType
<1>5. QED
  BY <1>2, <1>3, <1>4 DEF Recursive

\* An idle thread keeps nobody waiting.
LEMMA IdleHoldsNothing ==
    ASSUME LockInv, NEW th \in Threads, NEW u \in Threads, Idle(u)
    PROVE  ~WaitsFor(th, u)
<1> SUFFICES ASSUME NEW c \in Calls, Wants(th, c),
                    Excludes(u, th, c) \/ Wants(u, Call("RegisterSaCommandProcessor"))
             PROVE  FALSE
  BY DEF WaitsFor
<1>1. /\ Len(stack[u]) = 1 /\ DOMAIN stack[u] = {1}
      /\ stack[u][1].call = Call("main") /\ stack[u][1].todo = << >>
  BY DEF Idle, Frame
<1>2. ~Wants(u, Call("RegisterSaCommandProcessor"))
  BY <1>1 DEF Wants, Top
<1>3. Holds(u, MutexOf(c))
  BY <1>2 DEF Excludes
<1>4. MutexOf(c) = MutexOf(Call("main"))
  BY <1>1, <1>3 DEF Holds
<1>5. QED
  BY <1>4, WantedTakesMutex

(***************************************************************************)
(* No deadlock: as long as a call is in progress a thread can go on.       *)
(* Among the busy threads one waits for none of them, and nobody waits for *)
(* an idle one.                                                            *)
(***************************************************************************)
THEOREM ServiceNeverHangs == LockSpec => []SomebodyGoesOn
<1>1. LockInv => SomebodyGoesOn
  <2> DEFINE Busy == {th \in Threads : ~Idle(th)}
  <2> SUFFICES ASSUME LockInv, Busy # {}
               PROVE  \E th \in Busy : \A u \in Threads : ~WaitsFor(th, u)
    BY DEF SomebodyGoesOn
  <2>1. PICK th \in Busy : \A u \in Busy : ~WaitsFor(th, u)
    BY InvImpliesNoCyclicWait DEF NoCyclicWait
  <2>2. \A u \in Threads \ Busy : ~WaitsFor(th, u)
    BY <2>1, IdleHoldsNothing
  <2>3. QED
    BY <2>1, <2>2
<1>2. QED
  BY <1>1, AlwaysLockInv, PTL

=============================================================================
