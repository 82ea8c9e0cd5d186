-------------------- MODULE FingerprintAuthExecutorProofs --------------------
(***************************************************************************)
(* Theorems about FingerprintAuthExecutor: its four safety invariants, for *)
(* any number of requests, all modes, key vectors and results, and any     *)
(* number of events of a callback.                                         *)
(***************************************************************************)
EXTENDS FingerprintAuthExecutor, TLAPS

-----------------------------------------------------------------------------
(***************************************************************************)
(* The conversions.                                                        *)
(***************************************************************************)

\* Only a call that succeeded has the result SUCCESS.
LEMMA OnlySuccessConverts ==
    ASSUME NEW status \in Statuses
    PROVE  /\ ConvertStatus(status) \in Int
           /\ ConvertStatus(status) = SUCCESS => status = "HDF_SUCCESS"
BY DEF Statuses, ConvertStatus, SUCCESS, TIMEOUT, BUSY, GENERAL_ERROR

\* Two modes that are accepted are different commands to the host.
LEMMA CommandsDiffer ==
    ASSUME NEW m \in Int, NEW n \in Int, ValidCommand(m), ValidCommand(n),
           ConvertCommandId(m) = ConvertCommandId(n)
    PROVE  m = n
BY CommandAssumption
   DEF CommandAssumption, ValidCommand, ConvertCommandId, DriverCommandIds,
       PropertyModes

\* A command is one of the host's own, or a vendor's.
LEMMA CommandsAreKnown ==
    ASSUME NEW mode \in Int, ValidCommand(mode)
    PROVE  \/ ConvertCommandId(mode) \in DriverCommandIds
           \/ ConvertCommandId(mode) > VENDOR_COMMAND_BEGIN
BY DEF ValidCommand, ConvertCommandId, DriverCommandIds, PropertyModes

\* Two keys that are accepted are different types to the host.
LEMMA TypesDiffer ==
    ASSUME NEW k \in DOMAIN PropertyType, NEW l \in DOMAIN PropertyType,
           PropertyType[k] = PropertyType[l]
    PROVE  k = l
BY DEF PropertyType

\* So are two key vectors.
LEMMA KeysDiffer ==
    ASSUME NEW k \in Seq(STRING), NEW l \in Seq(STRING),
           ValidKeys(k), ValidKeys(l), ConvertKeys(k) = ConvertKeys(l)
    PROVE  k = l
<1>1. DOMAIN ConvertKeys(k) = DOMAIN k /\ DOMAIN ConvertKeys(l) = DOMAIN l
  BY DEF ConvertKeys
<1>2. DOMAIN k = DOMAIN l
  BY <1>1
<1>3. ASSUME NEW i \in DOMAIN k PROVE k[i] = l[i]
  <2>1. ConvertKeys(k)[i] = PropertyType[k[i]] /\ ConvertKeys(l)[i] = PropertyType[l[i]]
    BY <1>2 DEF ConvertKeys
  <2>2. k[i] \in DOMAIN PropertyType /\ l[i] \in DOMAIN PropertyType
    BY <1>2 DEF ValidKeys
  <2>3. QED
    BY <2>1, <2>2, TypesDiffer
<1>4. QED
  BY <1>2, <1>3

\* A result is SUCCESS, and new to the framework, only if the host's was.
LEMMA ResultIsNoBetter ==
    ASSUME NEW in \in Int
    PROVE  /\ ConvertResult(in) = SUCCESS <=> in = SUCCESS
           /\ \/ ConvertResult(in) \in KnownResults
              \/ ConvertResult(in) = in /\ in > VENDOR_RESULT_CODE_BEGIN
BY DEF ConvertResult, KnownResults, SUCCESS, FAIL, GENERAL_ERROR, CANCELED, TIMEOUT,
       BUSY, INVALID_PARAMETERS, LOCKED, NOT_ENROLLED, OPERATION_NOT_SUPPORT,
       VENDOR_RESULT_CODE_BEGIN

\* Equal pairs have equal parts.
LEMMA PairsDiffer ==
    ASSUME NEW a, NEW b, NEW c, NEW d, <<a, b>> = <<c, d>>
    PROVE  a = c /\ b = d
<1>1. <<a, b>>[1] = <<c, d>>[1] /\ <<a, b>>[2] = <<c, d>>[2]
  OBVIOUS
<1>2. QED
  BY <1>1

-----------------------------------------------------------------------------
(***************************************************************************)
(* The inductive invariant: of the calls, and of the events, of a request. *)
(***************************************************************************)
CallTypes ==
    /\ stage \in [Requests -> {"idle", "sent", "received", "returned"}]
    /\ call \in [Requests -> HdiCalls \cup {"none"}]
    /\ hdi \in [Requests -> HdiCalls \cup {"none"}]
    /\ DOMAIN asked = Requests /\ DOMAIN argument = Requests
    /\ returned \in [Requests -> Int]

\* A registration goes on to its second call when the first was served.
AtItsCall(r) ==
    \/ hdi[r] = call[r]
    \/ /\ call[r] = "OnRegisterFinish"
       /\ hdi[r] = "RegisterSaCommandCallback"
       /\ <<r, "OnRegisterFinish">> \in served

\* What went to the host is the conversion of what was asked.
AskedByMode(r) ==
    \E mode \in Modes :
        /\ ValidCommand(mode)
        /\ asked[r] = <<"mode", mode>>
        /\ argument[r] = <<"command", ConvertCommandId(mode)>>

AskedByKeys(r) ==
    \E keys \in KeyVectors :
        /\ ValidKeys(keys)
        /\ asked[r] = <<"keys", keys>>
        /\ argument[r] = <<"types", ConvertKeys(keys)>>

CallsOf(r) ==
    /\ stage[r] # "returned" => returned[r] = NoResult
    /\ stage[r] \in {"sent", "received"} => AtItsCall(r)
    /\ returned[r] = SUCCESS =>
         /\ <<r, call[r]>> \in served
         /\ call[r] = "OnRegisterFinish" =>
              <<r, "RegisterSaCommandCallback">> \in served
    /\ \A h : <<r, h>> \in reached =>
         stage[r] # "idle" /\ (h = hdi[r] \/ h = "OnRegisterFinish")
    /\ stage[r] = "idle" => hdi[r] = "none"
    /\ hdi[r] = "SendCommand" => AskedByMode(r)
    /\ hdi[r] = "GetProperty" => AskedByKeys(r)

CallInv == CallTypes /\ \A r \in Requests : CallsOf(r)

Kinds == {"result", "tip", "message"}
Values == Int \cup Tips \cup {"USER_AUTH_TIP_SINGLE_AUTH_RESULT", "destRole"}
Handlers == {"vibrate", "deliver", "returned"}
Events ==
    ({"result"} \X Results) \cup ({"tip"} \X Tips) \cup {<<"message", "destRole">>}

EventTypes ==
    /\ handling \in [Requests -> Seq(Handlers)]
    /\ said \in [Requests -> Seq(Events)]
    /\ heard \in [Requests -> Seq(Nat \X Kinds \X Values)]

\* What the framework is to hear of the i-th event.
Heard(i, event) == <<i, event[1], Translate(event[1], event[2])>>

Failure(event) == event[1] = "result" /\ ConvertResult(event[2]) = FAIL

\* The n-th that was heard is the i-th that was said.
HeardFrom(r, n, i) ==
    /\ i \in 1..Len(said[r])
    /\ handling[r][i] = "returned"
    /\ heard[r][n][1] = i
    /\ heard[r][n] = Heard(i, said[r][i])

\* What was heard is an event of a handler that returned, and none twice.
HearingOf(r) ==
    /\ \A n \in DOMAIN heard[r] : \E i \in 1..Len(said[r]) : HeardFrom(r, n, i)
    /\ \A m, n \in DOMAIN heard[r] :
         heard[r][m][1] = heard[r][n][1] => m = n

EventsOf(r) ==
    /\ stage[r] = "idle" => r \notin callback /\ Len(said[r]) = 0
    /\ Len(handling[r]) = Len(said[r])
    /\ HearingOf(r)
    /\ \A i \in 1..Len(said[r]) : handling[r][i] = "returned" => IsHeard(r, i)
    /\ \A i \in 1..Len(said[r]) :
         handling[r][i] = "vibrate" =>
           call[r] = "Authenticate" /\ Failure(said[r][i])
    /\ \A i : <<r, i>> \in vibrated =>
         /\ i \in 1..Len(said[r])
         /\ call[r] = "Authenticate"
         /\ Failure(said[r][i])
         /\ handling[r][i] # "vibrate"

EventInv == EventTypes /\ \A r \in Requests : EventsOf(r)

ExecutorInv == CallInv /\ EventInv

\* At the start nothing is asked and nothing is said.
LEMMA ExecutorInitInv == ExecutorInit => ExecutorInv
<1> SUFFICES ASSUME ExecutorInit PROVE ExecutorInv
  OBVIOUS
<1>1. CallInv
  BY DEF ExecutorInit, CallInv, CallTypes, CallsOf, NoResult, SUCCESS, HdiCalls,
         CallbackCalls, PlainCalls
<1>2. EventInv
  BY DEF ExecutorInit, EventInv, EventTypes, EventsOf, HearingOf, HeardFrom
<1>3. QED
  BY <1>1, <1>2 DEF ExecutorInv

-----------------------------------------------------------------------------
\* Events do not change while a call that was asked already goes on.
LEMMA CallsLeaveEvents ==
    ASSUME EventInv, UNCHANGED <<call, eventVars>>,
           \A r \in Requests : stage'[r] = "idle" =>
               stage[r] = "idle" /\ (r \in callback' => r \in callback)
    PROVE  EventInv'
<1>1. EventTypes'
  BY DEF eventVars, EventInv, EventTypes
<1>2. ASSUME NEW r \in Requests PROVE EventsOf(r)'
  <2>1. EventsOf(r)
    BY DEF EventInv
  <2>2. HearingOf(r)' /\ \A i : IsHeard(r, i) => IsHeard(r, i)'
    BY <2>1 DEF eventVars, EventsOf, HearingOf, HeardFrom, Heard, IsHeard
  <2>3. QED
    BY <2>1, <2>2 DEF eventVars, EventsOf
<1>3. QED
  BY <1>1, <1>2 DEF EventInv

\* Calls do not change while events are handled.
LEMMA EventsLeaveCalls ==
    ASSUME CallInv, UNCHANGED <<callVars, reached, served>>
    PROVE  CallInv'
BY DEF callVars, CallInv, CallTypes, CallsOf, AtItsCall, AskedByMode, AskedByKeys

(***************************************************************************)
(* The framework asks.  A refusal is never a SUCCESS, and only a mode or   *)
(* keys that are accepted go to the host, converted.                       *)
(***************************************************************************)
Asking(r, op, what) ==
    /\ op \in HdiCalls
    /\ Ask(r, op, what)
    /\ \/ \E result \in Int \ {SUCCESS} : Answer(r, result)
       \/ /\ op \notin {"SendCommand", "GetProperty"}
          /\ Send(r, op, Nothing)
       \/ /\ op = "SendCommand"
          /\ \E mode \in Modes :
               /\ ValidCommand(mode) /\ what = <<"mode", mode>>
               /\ Send(r, op, <<"command", ConvertCommandId(mode)>>)
       \/ /\ op = "GetProperty"
          /\ \E keys \in KeyVectors :
               /\ ValidKeys(keys) /\ what = <<"keys", keys>>
               /\ Send(r, op, <<"types", ConvertKeys(keys)>>)

\* A call that is sent carries what was asked.
LEMMA AskingKeepsInv ==
    ASSUME ExecutorInv, NEW r \in Requests, NEW op, NEW what, Asking(r, op, what)
    PROVE  ExecutorInv'
<1>1. /\ stage[r] = "idle" /\ op \in HdiCalls
      /\ call' = [call EXCEPT ![r] = op] /\ asked' = [asked EXCEPT ![r] = what]
      /\ UNCHANGED <<hostVars, eventVars>>
  BY DEF Asking, Ask
<1>2. /\ CallTypes
      /\ CallsOf(r)
      /\ \A q \in Requests : CallsOf(q)
  BY DEF ExecutorInv, CallInv
<1>3. /\ CallTypes'
      /\ stage'[r] \in {"sent", "returned"}
      /\ \A q \in Requests \ {r} :
           /\ stage'[q] = stage[q] /\ hdi'[q] = hdi[q] /\ returned'[q] = returned[q]
           /\ argument'[q] = argument[q]
           /\ call'[q] = call[q] /\ asked'[q] = asked[q]
  BY <1>1, <1>2 DEF Asking, CallTypes, Send, Answer
<1>4. ASSUME NEW q \in Requests PROVE CallsOf(q)'
  <2>1. CASE q # r
    BY <1>1, <1>2, <1>3, <2>1
       DEF hostVars, CallsOf, AtItsCall, AskedByMode, AskedByKeys
  <2>2. CASE q = r
    <3>1. /\ \A h : <<r, h>> \notin reached'
          /\ call'[r] = op /\ asked'[r] = what
      BY <1>1, <1>2 DEF CallsOf, CallTypes, hostVars
    <3>2. ASSUME NEW result \in Int \ {SUCCESS}, Answer(r, result)
          PROVE  CallsOf(r)'
      <4>1. /\ stage'[r] = "returned" /\ returned'[r] # SUCCESS
            /\ hdi'[r] = hdi[r] /\ argument'[r] = argument[r]
        BY <1>2, <3>2 DEF CallTypes, Answer
      <4>2. hdi[r] = "none"
        BY <1>1, <1>2 DEF CallsOf
      <4>3. QED
        BY <3>1, <4>1, <4>2 DEF CallsOf
    <3>3. ASSUME NEW arg, Send(r, op, arg),
                 op = "SendCommand" =>
                   \E mode \in Modes :
                     /\ ValidCommand(mode) /\ what = <<"mode", mode>>
                     /\ arg = <<"command", ConvertCommandId(mode)>>,
                 op = "GetProperty" =>
                   \E keys \in KeyVectors :
                     /\ ValidKeys(keys) /\ what = <<"keys", keys>>
                     /\ arg = <<"types", ConvertKeys(keys)>>
          PROVE  CallsOf(r)'
      <4>1. /\ stage'[r] = "sent" /\ returned'[r] = NoResult
            /\ hdi'[r] = op /\ argument'[r] = arg
        BY <1>1, <1>2, <3>3 DEF CallTypes, CallsOf, Send
      <4>2. op = "SendCommand" => AskedByMode(r)'
        BY <3>1, <3>3, <4>1 DEF AskedByMode
      <4>3. op = "GetProperty" => AskedByKeys(r)'
        BY <3>1, <3>3, <4>1 DEF AskedByKeys
      <4>4. QED
        BY <3>1, <4>1, <4>2, <4>3 DEF CallsOf, AtItsCall, NoResult, SUCCESS
    <3>4. QED
      BY <2>2, <3>2, <3>3 DEF Asking
  <2>3. QED
    BY <2>1, <2>2
<1>5. EventInv'
  <2>1. EventTypes' /\ \A q \in Requests : EventsOf(q)
    BY <1>1 DEF ExecutorInv, EventInv, EventTypes, eventVars
  <2>2. \A q \in Requests \ {r} : EventsOf(q)'
    BY <1>1, <1>3, <2>1 DEF EventsOf, HearingOf, HeardFrom, IsHeard, eventVars, hostVars
  <2>3. EventsOf(r)'
    <3>1. Len(said[r]) = 0
      BY <1>1, <2>1 DEF EventsOf
    <3>2. \A i : <<r, i>> \notin vibrated
      <4>1. \A i : <<r, i>> \in vibrated => i \in 1..0
        BY <2>1, <3>1 DEF EventsOf
      <4>2. 1..0 = {}
        OBVIOUS
      <4>3. QED
        BY <4>1, <4>2
    <3>3. /\ Len(said'[r]) = 0 /\ Len(handling'[r]) = 0
          /\ HearingOf(r)'
      BY <1>1, <2>1, <3>1 DEF EventsOf, HearingOf, HeardFrom, eventVars
    <3>4. QED
      BY <1>1, <1>3, <3>1, <3>2, <3>3 DEF EventsOf, eventVars
  <2>4. QED
    BY <2>1, <2>2, <2>3 DEF EventInv
<1>6. QED
  BY <1>3, <1>4, <1>5 DEF ExecutorInv, CallInv

\* Every operation of the executor asks in this way.
LEMMA OperationsAsk ==
    ASSUME NEW r \in Requests,
           \/ GetExecutorInfo(r)
           \/ OnRegisterFinish(r)
           \/ SendMessage(r)
           \/ Delete(r)
           \/ Cancel(r)
           \/ SetCachedTemplates(r)
           \/ \E made \in BOOLEAN :
                Enroll(r, made) \/ Authenticate(r, made) \/ Identify(r, made)
           \/ \E mode \in Modes, given, allocated \in BOOLEAN :
                SendCommand(r, mode, given, allocated)
           \/ \E keys \in KeyVectors : GetProperty(r, keys)
    PROVE  \E op, what : Asking(r, op, what)
<1> USE DEF HdiCalls, CallbackCalls, PlainCalls
<1>1. /\ GENERAL_ERROR \in Int \ {SUCCESS}
      /\ INVALID_PARAMETERS \in Int \ {SUCCESS}
  BY DEF GENERAL_ERROR, INVALID_PARAMETERS, SUCCESS
<1>2. ASSUME NEW op \in PlainCalls \ {"GetProperty"}, Plain(r, op)
      PROVE  Asking(r, op, Nothing)
  BY <1>2 DEF Plain, Asking
<1>3. ASSUME NEW op \in CallbackCalls \ {"SendCommand"}, NEW made \in BOOLEAN,
             Later(r, op, made)
      PROVE  Asking(r, op, Nothing)
  BY <1>1, <1>3 DEF Later, Asking
<1>4. ASSUME NEW mode \in Modes, NEW given \in BOOLEAN, NEW allocated \in BOOLEAN,
             SendCommand(r, mode, given, allocated)
      PROVE  Asking(r, "SendCommand", <<"mode", mode>>)
  <2>1. \/ Answer(r, GENERAL_ERROR) \/ Answer(r, INVALID_PARAMETERS)
        \/ /\ ValidCommand(mode)
           /\ Send(r, "SendCommand", <<"command", ConvertCommandId(mode)>>)
    BY <1>4 DEF SendCommand
  <2>2. Ask(r, "SendCommand", <<"mode", mode>>)
    BY <1>4 DEF SendCommand
  <2>3. QED
    BY <1>1, <2>1, <2>2 DEF Asking
<1>5. ASSUME NEW keys \in KeyVectors, GetProperty(r, keys)
      PROVE  Asking(r, "GetProperty", <<"keys", keys>>)
  BY <1>1, <1>5 DEF GetProperty, Asking
<1>6. QED
  BY <1>2, <1>3, <1>4, <1>5
     DEF GetExecutorInfo, OnRegisterFinish, SendMessage, Delete, Cancel,
         SetCachedTemplates, Enroll, Authenticate, Identify

-----------------------------------------------------------------------------
\* The call gets to the host.
LEMMA ReceiveKeepsInv ==
    ASSUME ExecutorInv, NEW r \in Requests, NEW ok \in BOOLEAN,
           NEW keep \in BOOLEAN, Receive(r, ok, keep)
    PROVE  ExecutorInv'
<1>1. /\ UNCHANGED <<call, asked, hdi, argument, returned, eventVars>>
      /\ stage[r] = "sent" /\ stage' = [stage EXCEPT ![r] = "received"]
      /\ reached' = reached \cup {<<r, hdi[r]>>}
      /\ served \subseteq served'
      /\ callback' = IF keep THEN callback \cup {r} ELSE callback
  BY DEF Receive
<1>2. CallTypes' /\ \A q \in Requests : stage'[q] = IF q = r THEN "received" ELSE stage[q]
  BY <1>1 DEF ExecutorInv, CallInv, CallTypes
<1>3. ASSUME NEW q \in Requests PROVE CallsOf(q)'
  <2>1. CallsOf(q)
    BY DEF ExecutorInv, CallInv
  <2>2. AtItsCall(q) => AtItsCall(q)'
    BY <1>1 DEF AtItsCall
  <2>3. ASSUME NEW h, <<q, h>> \in reached'
        PROVE  <<q, h>> \in reached \/ (q = r /\ h = hdi[r])
    <3>1. <<q, h>> \in reached \/ <<q, h>> = <<r, hdi[r]>>
      BY <1>1, <2>3
    <3>2. CASE <<q, h>> = <<r, hdi[r]>>
      BY <3>2, PairsDiffer, Zenon
    <3>3. QED
      BY <3>1, <3>2
  <2>4. UNCHANGED <<AskedByMode(q), AskedByKeys(q)>>
    BY <1>1 DEF AskedByMode, AskedByKeys
  <2>5. QED
    BY <1>1, <1>2, <2>1, <2>2, <2>3, <2>4 DEF CallsOf
<1>4. EventInv'
  BY <1>1, <1>2, CallsLeaveEvents DEF ExecutorInv
<1>5. QED
  BY <1>2, <1>3, <1>4 DEF ExecutorInv, CallInv

\* The host dies.
LEMMA HostDiesKeepsInv ==
    ASSUME ExecutorInv, HostDies PROVE ExecutorInv'
<1>1. UNCHANGED <<callVars, eventVars, reached, served>> /\ callback' = {}
  BY DEF HostDies
<1>2. CallInv'
  BY <1>1, EventsLeaveCalls DEF ExecutorInv
<1>3. EventInv'
  BY <1>1, CallsLeaveEvents DEF ExecutorInv, callVars
<1>4. QED
  BY <1>2, <1>3 DEF ExecutorInv

(***************************************************************************)
(* The call returns: with SUCCESS only if it was served, and if it was not *)
(* the first of the two calls of a registration.                           *)
(***************************************************************************)
LEMMA GetStatusKeepsInv ==
    ASSUME ExecutorInv, NEW r \in Requests, NEW status \in Statuses,
           GetStatus(r, status)
    PROVE  ExecutorInv'
<1>1. /\ UNCHANGED <<call, asked, hostVars, eventVars>>
      /\ stage[r] \in {"sent", "received"}
      /\ status = "HDF_SUCCESS" => <<r, hdi[r]>> \in served
  BY DEF GetStatus
<1>2. /\ CallTypes
      /\ \A q \in Requests : CallsOf(q)
  BY DEF ExecutorInv, CallInv
<1>3. AtItsCall(r) /\ returned[r] = NoResult
  BY <1>1, <1>2 DEF CallsOf
<1>4. \/ /\ hdi[r] = "OnRegisterFinish" /\ <<r, "OnRegisterFinish">> \in served
         /\ Send(r, "RegisterSaCommandCallback", Nothing)
      \/ \E result \in Int :
           /\ Answer(r, result)
           /\ result = SUCCESS =>
                <<r, hdi[r]>> \in served /\ hdi[r] # "OnRegisterFinish"
  <2> DEFINE res == ConvertStatus(status)
  <2>1. res \in Int /\ (res = SUCCESS => <<r, hdi[r]>> \in served)
    BY <1>1, OnlySuccessConverts
  <2>2. \/ Registered(r, res)
        \/ NotRegistered(r, res)
        \/ /\ hdi[r] = "GetExecutorInfo" /\ res = SUCCESS
           /\ \E info \in HostInfos : Answer(r, MoveHdiExecutorInfo(info))
        \/ /\ res # SUCCESS \/ hdi[r] \notin {"OnRegisterFinish", "GetExecutorInfo"}
           /\ Answer(r, res)
    BY DEF GetStatus
  <2> HIDE DEF res
  <2>3. GENERAL_ERROR \in Int /\ GENERAL_ERROR # SUCCESS /\ SUCCESS \in Int
    BY DEF GENERAL_ERROR, SUCCESS
  <2>4. \A info \in HostInfos : MoveHdiExecutorInfo(info) \in Int
    BY <2>3 DEF MoveHdiExecutorInfo
  <2>5. CASE Registered(r, res)
    BY <2>1, <2>5 DEF Registered
  <2>6. CASE NotRegistered(r, res)
    BY <2>3, <2>6 DEF NotRegistered
  <2>7. CASE /\ hdi[r] = "GetExecutorInfo" /\ res = SUCCESS
             /\ \E info \in HostInfos : Answer(r, MoveHdiExecutorInfo(info))
    BY <2>1, <2>4, <2>7
  <2>8. CASE /\ res # SUCCESS \/ hdi[r] \notin {"OnRegisterFinish", "GetExecutorInfo"}
             /\ Answer(r, res)
    BY <2>1, <2>8
  <2>9. QED
    BY <2>2, <2>5, <2>6, <2>7, <2>8
<1>5. /\ CallTypes'
      /\ stage'[r] \in {"sent", "returned"}
      /\ \A q \in Requests \ {r} :
           /\ stage'[q] = stage[q] /\ hdi'[q] = hdi[q] /\ returned'[q] = returned[q]
           /\ argument'[q] = argument[q]
  BY <1>1, <1>2, <1>4 DEF CallTypes, Send, Answer, HdiCalls
<1>6. ASSUME NEW q \in Requests PROVE CallsOf(q)'
  <2>1. CASE q # r
    BY <1>1, <1>2, <1>5, <2>1
       DEF hostVars, CallsOf, AtItsCall, AskedByMode, AskedByKeys
  <2>2. CASE q = r
    <3>1. CASE /\ hdi[r] = "OnRegisterFinish" /\ <<r, "OnRegisterFinish">> \in served
               /\ Send(r, "RegisterSaCommandCallback", Nothing)
      <4>1. /\ stage'[r] = "sent" /\ returned'[r] = NoResult
            /\ hdi'[r] = "RegisterSaCommandCallback"
        BY <1>2, <1>3, <3>1 DEF CallTypes, Send
      <4>2. call[r] = "OnRegisterFinish"
        BY <1>3, <3>1 DEF AtItsCall
      <4>3. \A h : <<r, h>> \in reached' => h = "OnRegisterFinish"
        BY <1>1, <1>2, <3>1 DEF CallsOf, hostVars
      <4>4. QED
        BY <1>1, <2>2, <3>1, <4>1, <4>2, <4>3
           DEF CallsOf, AtItsCall, hostVars, NoResult, SUCCESS
    <3>2. ASSUME NEW result \in Int, Answer(r, result),
                 result = SUCCESS =>
                   <<r, hdi[r]>> \in served /\ hdi[r] # "OnRegisterFinish"
          PROVE  CallsOf(r)'
      <4>1. /\ stage'[r] = "returned" /\ returned'[r] = result
            /\ hdi'[r] = hdi[r] /\ argument'[r] = argument[r]
        BY <1>2, <3>2 DEF CallTypes, Answer
      <4>2. returned'[r] = SUCCESS =>
              /\ <<r, call'[r]>> \in served'
              /\ call'[r] = "OnRegisterFinish" =>
                   <<r, "RegisterSaCommandCallback">> \in served'
        BY <1>1, <1>3, <3>2, <4>1 DEF AtItsCall, hostVars
      <4>3. (AskedByMode(r) => AskedByMode(r)') /\ (AskedByKeys(r) => AskedByKeys(r)')
        BY <1>1, <4>1 DEF AskedByMode, AskedByKeys
      <4>4. QED
        BY <1>1, <1>2, <4>1, <4>2, <4>3 DEF CallsOf, hostVars
    <3>3. QED
      BY <1>4, <2>2, <3>1, <3>2
  <2>3. QED
    BY <2>1, <2>2
<1>7. EventInv'
  <2>1. \A q \in Requests : stage'[q] = "idle" => stage[q] = "idle"
    BY <1>5
  <2>2. QED
    BY <1>1, <2>1, CallsLeaveEvents DEF ExecutorInv, hostVars
<1>8. QED
  BY <1>5, <1>6, <1>7 DEF ExecutorInv, CallInv

-----------------------------------------------------------------------------
\* The host says something new, and its handler starts.
LEMMA SayKeepsInv ==
    ASSUME ExecutorInv, NEW r \in Requests, NEW kind, NEW value,
           <<kind, value>> \in Events, NEW next \in {"vibrate", "deliver"},
           next = "vibrate" =>
             call[r] = "Authenticate" /\ Failure(<<kind, value>>),
           Say(r, kind, value, next)
    PROVE  ExecutorInv'
<1> DEFINE event == <<kind, value>>
<1>1. /\ UNCHANGED <<vibrated, heard, callVars, hostVars>>
      /\ r \in callback
      /\ said' = [said EXCEPT ![r] = Append(said[r], event)]
      /\ handling' = [handling EXCEPT ![r] = Append(handling[r], next)]
  BY DEF Say
<1>2. EventTypes /\ \A q \in Requests : EventsOf(q)
  BY DEF ExecutorInv, EventInv
<1> HIDE DEF event
<1>3. EventTypes'
  BY <1>1, <1>2 DEF EventTypes, Handlers, event
<1>4. ASSUME NEW q \in Requests \ {r} PROVE EventsOf(q)'
  BY <1>1, <1>2, <1>4
     DEF EventTypes, EventsOf, HearingOf, HeardFrom, IsHeard, callVars, hostVars
<1>5. /\ said[r] \in Seq(Events) /\ event \in Events
      /\ said'[r] = Append(said[r], event)
      /\ handling[r] \in Seq(Handlers) /\ next \in Handlers
      /\ handling'[r] = Append(handling[r], next)
      /\ heard'[r] = heard[r]
      /\ Len(said[r]) = Len(handling[r])
  BY <1>1, <1>2 DEF EventTypes, EventsOf, Handlers, event
<1>6. /\ Len(said[r]) \in Nat
      /\ Len(said'[r]) = Len(said[r]) + 1
      /\ Len(handling'[r]) = Len(said[r]) + 1
      /\ said'[r][Len(said[r]) + 1] = event
      /\ handling'[r][Len(said[r]) + 1] = next
      /\ \A i \in 1..Len(said[r]) :
           said'[r][i] = said[r][i] /\ handling'[r][i] = handling[r][i]
  BY <1>5
<1>7. EventsOf(r)'
  <2>1. stage'[r] # "idle"
    BY <1>1, <1>2 DEF EventsOf, callVars
  <2>2. HearingOf(r)'
    <3>1. HearingOf(r)
      BY <1>2 DEF EventsOf
    <3>2. ASSUME NEW n, NEW i \in 1..Len(said[r]), HeardFrom(r, n, i)
          PROVE  i \in 1..Len(said'[r]) /\ HeardFrom(r, n, i)'
      BY <1>5, <1>6, <3>2 DEF HeardFrom
    <3>3. QED
      BY <1>5, <3>1, <3>2 DEF HearingOf
  <2>3. ASSUME NEW i \in 1..Len(said'[r])
        PROVE  /\ handling'[r][i] = "returned" => IsHeard(r, i)'
               /\ handling'[r][i] = "vibrate" =>
                    call'[r] = "Authenticate" /\ Failure(said'[r][i])
    <3>1. CASE i \in 1..Len(said[r])
      <4>1. /\ handling[r][i] = "returned" => IsHeard(r, i)
            /\ handling[r][i] = "vibrate" =>
                 call[r] = "Authenticate" /\ Failure(said[r][i])
        BY <1>2, <3>1 DEF EventsOf
      <4>2. IsHeard(r, i) => IsHeard(r, i)'
        BY <1>1 DEF IsHeard
      <4>3. handling'[r][i] = handling[r][i] /\ said'[r][i] = said[r][i] /\ call' = call
        BY <1>1, <1>6, <3>1 DEF callVars
      <4>4. QED
        BY <4>1, <4>2, <4>3
    <3>2. CASE i = Len(said[r]) + 1
      BY <1>1, <1>6, <3>2 DEF callVars, event
    <3>3. QED
      BY <1>6, <2>3, <3>1, <3>2
  <2>4. ASSUME NEW i, <<r, i>> \in vibrated'
        PROVE  /\ i \in 1..Len(said'[r])
               /\ call'[r] = "Authenticate"
               /\ Failure(said'[r][i])
               /\ handling'[r][i] # "vibrate"
    <3>1. /\ i \in 1..Len(said[r]) /\ call[r] = "Authenticate"
          /\ Failure(said[r][i]) /\ handling[r][i] # "vibrate"
      BY <1>1, <1>2, <2>4 DEF EventsOf
    <3>2. QED
      BY <1>1, <1>6, <3>1 DEF callVars
  <2>5. QED
    BY <1>6, <2>1, <2>2, <2>3, <2>4 DEF EventsOf
<1>8. CallInv'
  BY <1>1, EventsLeaveCalls DEF ExecutorInv, hostVars
<1>9. QED
  BY <1>3, <1>4, <1>7, <1>8 DEF ExecutorInv, EventInv

\* The three events of a callback.
LEMMA EventKeepsInv ==
    ASSUME ExecutorInv, NEW r \in Requests,
           \/ \E result \in Results : OnResult(r, result)
           \/ \E tip \in Tips : OnTip(r, tip)
           \/ OnMessage(r, "destRole")
    PROVE  ExecutorInv'
<1>1. ASSUME NEW result \in Results, OnResult(r, result) PROVE ExecutorInv'
  <2> DEFINE next == IF Buzzes(r, result) THEN "vibrate" ELSE "deliver"
  <2>1. Say(r, "result", result, next)
    BY <1>1 DEF OnResult
  <2>2. /\ <<"result", result>> \in Events /\ next \in {"vibrate", "deliver"}
        /\ next = "vibrate" =>
             call[r] = "Authenticate" /\ Failure(<<"result", result>>)
    BY DEF Events, Buzzes, Failure
  <2> HIDE DEF next
  <2>3. QED
    BY <2>1, <2>2, SayKeepsInv
<1>2. ASSUME NEW tip \in Tips, OnTip(r, tip) PROVE ExecutorInv'
  <2>1. <<"tip", tip>> \in Events
    BY DEF Events
  <2>2. Say(r, "tip", tip, "deliver")
    BY <1>2 DEF OnTip
  <2>3. QED
    BY <2>1, <2>2, SayKeepsInv
<1>3. CASE OnMessage(r, "destRole")
  <2>1. <<"message", "destRole">> \in Events
    BY DEF Events
  <2>2. Say(r, "message", "destRole", "deliver")
    BY <1>3 DEF OnMessage
  <2>3. QED
    BY <2>1, <2>2, SayKeepsInv
<1>4. QED
  BY <1>1, <1>2, <1>3

\* The vibrator is asked, for a failure that is not delivered yet.
LEMMA VibratorKeepsInv ==
    ASSUME ExecutorInv, NEW r \in Requests, NEW j \in 1..MaxEvents,
           NEW works \in BOOLEAN, DoVibrator(r, j, works)
    PROVE  ExecutorInv'
<1>1. /\ UNCHANGED <<said, heard, callVars, hostVars>>
      /\ j \in DOMAIN handling[r]
      /\ handling[r][j] = "vibrate"
      /\ vibrated' \subseteq vibrated \cup {<<r, j>>}
      /\ handling' = [handling EXCEPT ![r][j] = "deliver"]
  BY DEF DoVibrator, AfterVibrator
<1>2. EventTypes /\ \A q \in Requests : EventsOf(q)
  BY DEF ExecutorInv, EventInv
<1>3. /\ handling[r] \in Seq(Handlers)
      /\ Len(handling[r]) = Len(said[r]) /\ Len(said[r]) \in Nat
      /\ j \in 1..Len(said[r])
      /\ handling'[r] = [handling[r] EXCEPT ![j] = "deliver"]
  BY <1>1, <1>2 DEF EventTypes, EventsOf
<1>4. /\ handling'[r] \in Seq(Handlers)
      /\ Len(handling'[r]) = Len(said[r])
      /\ handling'[r][j] = "deliver"
      /\ \A i \in 1..Len(said[r]) : i # j => handling'[r][i] = handling[r][i]
  BY <1>3 DEF Handlers
<1>5. EventTypes'
  BY <1>1, <1>2, <1>4 DEF EventTypes
<1>6. ASSUME NEW q \in Requests, NEW i, <<q, i>> \in vibrated'
      PROVE  <<q, i>> \in vibrated \/ (q = r /\ i = j)
  <2>1. <<q, i>> \in vibrated \/ <<q, i>> = <<r, j>>
    BY <1>1, <1>6
  <2>2. CASE <<q, i>> = <<r, j>>
    BY <2>2, PairsDiffer, Zenon
  <2>3. QED
    BY <2>1, <2>2
<1>7. ASSUME NEW q \in Requests \ {r} PROVE EventsOf(q)'
  BY <1>1, <1>2, <1>6, <1>7
     DEF EventTypes, EventsOf, HearingOf, HeardFrom, IsHeard, callVars, hostVars
<1>8. EventsOf(r)'
  <2>1. call[r] = "Authenticate" /\ Failure(said[r][j])
    BY <1>1, <1>2, <1>3 DEF EventsOf
  <2>2. HearingOf(r)'
    <3>1. HearingOf(r)
      BY <1>2 DEF EventsOf
    <3>2. ASSUME NEW n, NEW i \in 1..Len(said[r]), HeardFrom(r, n, i)
          PROVE  HeardFrom(r, n, i)'
      BY <1>1, <1>4, <3>2 DEF HeardFrom
    <3>3. QED
      BY <1>1, <3>1, <3>2 DEF HearingOf
  <2>3. \A i \in 1..Len(said[r]) : handling'[r][i] = "returned" => IsHeard(r, i)'
    BY <1>1, <1>2, <1>4 DEF EventsOf, IsHeard
  <2>4. ASSUME NEW i, <<r, i>> \in vibrated'
        PROVE  /\ i \in 1..Len(said[r])
               /\ Failure(said[r][i])
               /\ handling'[r][i] # "vibrate"
    <3>1. CASE <<r, i>> \in vibrated
      BY <1>2, <1>4, <3>1 DEF EventsOf
    <3>2. CASE i = j
      BY <1>3, <1>4, <2>1, <3>2
    <3>3. QED
      BY <1>6, <2>4, <3>1, <3>2
  <2>5. QED
    BY <1>1, <1>2, <1>4, <2>1, <2>2, <2>3, <2>4 DEF EventsOf, callVars, hostVars
<1>9. CallInv'
  BY <1>1, EventsLeaveCalls DEF ExecutorInv, hostVars
<1>10. QED
  BY <1>5, <1>7, <1>8, <1>9 DEF ExecutorInv, EventInv

\* What the framework hears is of the right type.
LEMMA HeardType ==
    ASSUME NEW event \in Events, NEW i \in Nat
    PROVE  Heard(i, event) \in Nat \X Kinds \X Values
<1>1. CASE event \in {"result"} \X Results
  <2>1. PICK in \in Results : event = <<"result", in>>
    BY <1>1
  <2>2. in \in Int
    BY ExecutorAssumption DEF ExecutorAssumption
  <2>3. ConvertResult(in) \in Int
    BY <2>2 DEF ConvertResult, FAIL, GENERAL_ERROR
  <2>4. Heard(i, event) = <<i, "result", ConvertResult(in)>>
    BY <2>1 DEF Heard, Translate
  <2>5. QED
    BY <2>3, <2>4 DEF Kinds, Values
<1>2. CASE event \in {"tip"} \X Tips
  <2>1. PICK tip \in Tips : event = <<"tip", tip>>
    BY <1>2
  <2>2. /\ Heard(i, event) = <<i, "tip", Translate("tip", tip)>>
        /\ Translate("tip", tip) \in Tips \cup {"USER_AUTH_TIP_SINGLE_AUTH_RESULT"}
    BY <2>1 DEF Heard, Translate
  <2>3. QED
    BY <2>2 DEF Kinds, Values
<1>3. CASE event = <<"message", "destRole">>
  <2>1. Heard(i, event) = <<i, "message", "destRole">>
    BY <1>3 DEF Heard, Translate
  <2>2. QED
    BY <2>1 DEF Kinds, Values
<1>4. QED
  BY <1>1, <1>2, <1>3 DEF Events

\* The framework hears the event, and the handler is done.
LEMMA DeliverKeepsInv ==
    ASSUME ExecutorInv, NEW r \in Requests, NEW j \in 1..MaxEvents, Deliver(r, j)
    PROVE  ExecutorInv'
<1> DEFINE last == Heard(j, said[r][j])
<1>1. /\ UNCHANGED <<said, vibrated, callVars, hostVars>>
      /\ j \in DOMAIN handling[r]
      /\ handling[r][j] = "deliver"
      /\ heard' = [heard EXCEPT ![r] = Append(heard[r], last)]
      /\ handling' = [handling EXCEPT ![r][j] = "returned"]
  BY DEF Deliver, Event, Heard
<1>2. EventTypes /\ \A q \in Requests : EventsOf(q)
  BY DEF ExecutorInv, EventInv
<1>3. /\ said[r] \in Seq(Events) /\ Len(said[r]) \in Nat
      /\ heard[r] \in Seq(Nat \X Kinds \X Values) /\ Len(heard[r]) \in Nat
      /\ handling[r] \in Seq(Handlers) /\ Len(handling[r]) = Len(said[r])
      /\ j \in 1..Len(said[r])
      /\ handling'[r] = [handling[r] EXCEPT ![j] = "returned"]
      /\ heard'[r] = Append(heard[r], last)
  BY <1>1, <1>2 DEF EventTypes, EventsOf
<1>4. last \in Nat \X Kinds \X Values /\ last[1] = j
  <2>1. said[r][j] \in Events /\ j \in Nat
    BY <1>3
  <2>2. QED
    BY <2>1, HeardType DEF Heard
<1> HIDE DEF last
<1>5. /\ handling'[r] \in Seq(Handlers)
      /\ Len(handling'[r]) = Len(said[r])
      /\ handling'[r][j] = "returned"
      /\ \A i \in 1..Len(said[r]) : i # j => handling'[r][i] = handling[r][i]
  BY <1>3 DEF Handlers
<1>6. /\ heard'[r] \in Seq(Nat \X Kinds \X Values)
      /\ Len(heard'[r]) = Len(heard[r]) + 1
      /\ heard'[r][Len(heard[r]) + 1] = last
      /\ \A n \in 1..Len(heard[r]) : heard'[r][n] = heard[r][n]
  BY <1>3, <1>4
<1>7. EventTypes'
  BY <1>1, <1>2, <1>5, <1>6 DEF EventTypes
<1>8. ASSUME NEW q \in Requests \ {r} PROVE EventsOf(q)'
  BY <1>1, <1>2, <1>8
     DEF EventTypes, EventsOf, HearingOf, HeardFrom, IsHeard, callVars, hostVars
<1>9. EventsOf(r)'
  <2>0. PICK next : next = Len(heard[r]) + 1
    OBVIOUS
  <2>1. /\ DOMAIN heard'[r] = DOMAIN heard[r] \cup {next}
        /\ next \notin DOMAIN heard[r]
        /\ heard'[r][next][1] = j
        /\ \A n \in DOMAIN heard[r] : heard'[r][n] = heard[r][n]
    BY <1>3, <1>4, <1>6, <2>0
  <2>2. HearingOf(r)'
    <3>1. HearingOf(r)
      BY <1>2 DEF EventsOf
    <3>2. \A n \in DOMAIN heard[r] : heard[r][n][1] # j
      BY <1>1, <3>1 DEF HearingOf, HeardFrom
    <3>3. ASSUME NEW n \in DOMAIN heard[r], NEW i \in 1..Len(said[r]),
                 HeardFrom(r, n, i)
          PROVE  HeardFrom(r, n, i)'
      <4>1. i # j
        BY <3>2, <3>3 DEF HeardFrom
      <4>2. QED
        BY <1>1, <1>5, <2>1, <3>3, <4>1 DEF HeardFrom
    <3>4. HeardFrom(r, next, j)'
      <4>1. heard'[r][next] = Heard(j, said[r][j])
        BY <1>6, <2>0 DEF last
      <4>2. said' = said
        BY <1>1
      <4>3. QED
        BY <1>3, <1>5, <2>1, <4>1, <4>2 DEF HeardFrom
    <3>5. ASSUME NEW n \in DOMAIN heard'[r]
          PROVE  \E i \in 1..Len(said'[r]) : HeardFrom(r, n, i)'
      <4>1. said' = said
        BY <1>1
      <4>2. CASE n = next
        BY <1>3, <3>4, <4>1, <4>2
      <4>3. CASE n \in DOMAIN heard[r]
        BY <3>1, <3>3, <4>1, <4>3 DEF HearingOf
      <4>4. QED
        BY <2>1, <3>5, <4>2, <4>3
    <3>6. ASSUME NEW m \in DOMAIN heard'[r], NEW n \in DOMAIN heard'[r],
                 heard'[r][m][1] = heard'[r][n][1]
          PROVE  m = n
      BY <2>1, <3>1, <3>2, <3>6 DEF HearingOf
    <3>7. QED
      BY <3>5, <3>6 DEF HearingOf
  <2>4. ASSUME NEW i \in 1..Len(said[r]), handling'[r][i] = "returned"
        PROVE  IsHeard(r, i)'
    <3>1. CASE i = j
      <4>1. Len(heard[r]) + 1 \in DOMAIN heard'[r]
        BY <1>3, <1>6
      <4>2. QED
        BY <1>4, <1>6, <3>1, <4>1 DEF IsHeard
    <3>2. CASE i # j
      <4>1. PICK n \in DOMAIN heard[r] : heard[r][n][1] = i
        BY <1>2, <1>5, <2>4, <3>2 DEF EventsOf, IsHeard
      <4>2. n \in DOMAIN heard'[r] /\ heard'[r][n] = heard[r][n]
        BY <1>3, <1>6, <4>1
      <4>3. QED
        BY <4>1, <4>2 DEF IsHeard
    <3>3. QED
      BY <3>1, <3>2
  <2>5. ASSUME NEW i, <<r, i>> \in vibrated'
        PROVE  /\ i \in 1..Len(said[r])
               /\ call[r] = "Authenticate"
               /\ Failure(said[r][i])
               /\ handling'[r][i] # "vibrate"
    BY <1>1, <1>2, <1>5, <2>5 DEF EventsOf
  <2>6. \A i \in 1..Len(said[r]) :
          handling'[r][i] = "vibrate" =>
            call[r] = "Authenticate" /\ Failure(said[r][i])
    BY <1>2, <1>5 DEF EventsOf
  <2>7. stage'[r] = "idle" => r \notin callback' /\ Len(said'[r]) = 0
    BY <1>1, <1>2 DEF EventsOf, callVars, hostVars
  <2>8. QED
    BY <1>1, <1>5, <2>2, <2>4, <2>5, <2>6, <2>7 DEF EventsOf, callVars
<1>10. CallInv'
  BY <1>1, EventsLeaveCalls DEF ExecutorInv, hostVars
<1>11. QED
  BY <1>7, <1>8, <1>9, <1>10 DEF ExecutorInv, EventInv

-----------------------------------------------------------------------------
\* One case for each action.
LEMMA ExecutorNextInv ==
    ASSUME ExecutorInv, [ExecutorNext]_executorVars PROVE ExecutorInv'
<1>1. CASE UNCHANGED executorVars
  <2>1. CallInv'
    BY <1>1, EventsLeaveCalls DEF executorVars, hostVars, ExecutorInv
  <2>2. EventInv'
    BY <1>1, CallsLeaveEvents
       DEF executorVars, callVars, hostVars, eventVars, ExecutorInv
  <2>3. QED
    BY <2>1, <2>2 DEF ExecutorInv
<1>2. CASE ExecutorNext
  <2>1. CASE HostDies
    BY <2>1, HostDiesKeepsInv
  <2>2. ASSUME NEW r \in Requests,
               \/ \E ok, keep \in BOOLEAN : Receive(r, ok, keep)
               \/ \E status \in Statuses : GetStatus(r, status)
        PROVE  ExecutorInv'
    BY <2>2, ReceiveKeepsInv, GetStatusKeepsInv
  <2>3. ASSUME NEW r \in Requests,
               \/ \E result \in Results : OnResult(r, result)
               \/ \E tip \in Tips : OnTip(r, tip)
               \/ OnMessage(r, "destRole")
        PROVE  ExecutorInv'
    BY <2>3, EventKeepsInv
  <2>4. ASSUME NEW r \in Requests, NEW i \in 1..MaxEvents,
               (\E works \in BOOLEAN : DoVibrator(r, i, works)) \/ Deliver(r, i)
        PROVE  ExecutorInv'
    BY <2>4, VibratorKeepsInv, DeliverKeepsInv
  <2>5. ASSUME NEW r \in Requests, \E op, what : Asking(r, op, what)
        PROVE  ExecutorInv'
    BY <2>5, AskingKeepsInv
  <2>6. QED
    BY <1>2, <2>1, <2>2, <2>3, <2>4, <2>5, OperationsAsk DEF ExecutorNext
<1>3. QED
  BY <1>1, <1>2

\* The invariant holds of every behavior.
LEMMA ExecutorInvAlways == ExecutorSpec => []ExecutorInv
BY ExecutorInitInv, ExecutorNextInv, PTL DEF ExecutorSpec

-----------------------------------------------------------------------------
(***************************************************************************)
(* SUCCESS is returned only for what the host served, both calls of it if  *)
(* it is a registration, however answers are lost and hosts die.           *)
(***************************************************************************)
THEOREM SuccessIsServed == ExecutorSpec => []SuccessMeansServed
<1>1. ExecutorInv => SuccessMeansServed
  BY DEF ExecutorInv, CallInv, CallsOf, SuccessMeansServed
<1>2. QED
  BY <1>1, ExecutorInvAlways, PTL

(***************************************************************************)
(* The host could tell from what it gets what was asked, for all modes and *)
(* key vectors and all values of the codes that tell the commands and      *)
(* modes apart.                                                            *)
(***************************************************************************)
THEOREM CallsAreTrue == ExecutorSpec => []HostGetsWhatWasAsked
<1>1. ExecutorInv => HostGetsWhatWasAsked
  <2> SUFFICES ASSUME ExecutorInv PROVE HostGetsWhatWasAsked
    OBVIOUS
  <2>1. \A r \in Requests : CallsOf(r)
    BY DEF ExecutorInv, CallInv
  <2>2. ASSUME NEW r \in Requests, <<r, "SendCommand">> \in reached
        PROVE  /\ \/ argument[r][2] \in DriverCommandIds
                  \/ argument[r][2] > VENDOR_COMMAND_BEGIN
               /\ \A mode \in Modes :
                    ValidCommand(mode) /\ ConvertCommandId(mode) = argument[r][2]
                        => asked[r] = <<"mode", mode>>
    <3>1. AskedByMode(r)
      <4>1. CallsOf(r)
        BY <2>1
      <4>2. hdi[r] = "SendCommand"
        BY <2>2, <4>1 DEF CallsOf
      <4>3. QED
        BY <4>1, <4>2 DEF CallsOf
    <3>2. PICK m \in Modes :
            /\ ValidCommand(m) /\ asked[r] = <<"mode", m>>
            /\ argument[r] = <<"command", ConvertCommandId(m)>>
      BY <3>1 DEF AskedByMode
    <3>3. argument[r][2] = ConvertCommandId(m) /\ Modes \subseteq Int
      BY <3>2, ExecutorAssumption DEF ExecutorAssumption
    <3>4. QED
      BY <3>2, <3>3, CommandsDiffer, CommandsAreKnown
  <2>3. ASSUME NEW r \in Requests, <<r, "GetProperty">> \in reached,
               NEW keys \in KeyVectors, ValidKeys(keys),
               ConvertKeys(keys) = argument[r][2]
        PROVE  asked[r] = <<"keys", keys>>
    <3>1. AskedByKeys(r)
      <4>1. CallsOf(r)
        BY <2>1
      <4>2. hdi[r] = "GetProperty"
        BY <2>3, <4>1 DEF CallsOf
      <4>3. QED
        BY <4>1, <4>2 DEF CallsOf
    <3>2. PICK k \in KeyVectors :
            /\ ValidKeys(k) /\ asked[r] = <<"keys", k>>
            /\ argument[r] = <<"types", ConvertKeys(k)>>
      BY <3>1 DEF AskedByKeys
    <3>3. ConvertKeys(keys) = ConvertKeys(k) /\ KeyVectors \subseteq Seq(STRING)
      BY <2>3, <3>2, ExecutorAssumption DEF ExecutorAssumption
    <3>4. keys = k
      BY <2>3, <3>2, <3>3, KeysDiffer
    <3>5. QED
      BY <3>2, <3>4
  <2>4. QED
    BY <2>2, <2>3 DEF HostGetsWhatWasAsked
<1>2. QED
  BY <1>1, ExecutorInvAlways, PTL

(***************************************************************************)
(* The framework hears every event of a callback once its handler has      *)
(* returned and not before, never twice, and no better than it was said,   *)
(* in whatever order the handlers of the callback run.                     *)
(***************************************************************************)
THEOREM EventsAreTrue == ExecutorSpec => []HeardAsSaid
<1>1. ExecutorInv => HeardAsSaid
  <2> SUFFICES ASSUME ExecutorInv PROVE HeardAsSaid
    OBVIOUS
  <2>1. \A r \in Requests :
          /\ EventsOf(r) /\ HearingOf(r)
          /\ said[r] \in Seq(Events)
          /\ heard[r] \in Seq(Nat \X Kinds \X Values)
    BY DEF ExecutorInv, EventInv, EventTypes, EventsOf
  <2>2. ASSUME NEW r \in Requests, NEW i \in DOMAIN said[r]
        PROVE  IsHeard(r, i) <=> handling[r][i] = "returned"
    <3>1. IsHeard(r, i) => handling[r][i] = "returned"
      BY <2>1 DEF HearingOf, HeardFrom, IsHeard
    <3>2. handling[r][i] = "returned" => IsHeard(r, i)
      BY <2>1, <2>2 DEF EventsOf
    <3>3. QED
      BY <3>1, <3>2
  <2>3. ASSUME NEW r \in Requests, NEW m \in DOMAIN heard[r],
               NEW n \in DOMAIN heard[r], heard[r][m][1] = heard[r][n][1]
        PROVE  m = n
    BY <2>1, <2>3 DEF HearingOf
  <2>4. ASSUME NEW r \in Requests, NEW n \in DOMAIN heard[r]
        PROVE  LET event == said[r][heard[r][n][1]]
                   value == heard[r][n][3]
               IN /\ heard[r][n][2] = event[1]
                  /\ event[1] = "result" =>
                       /\ value = SUCCESS <=> event[2] = SUCCESS
                       /\ \/ value \in KnownResults
                          \/ /\ value = event[2]
                             /\ value > VENDOR_RESULT_CODE_BEGIN
    <3> DEFINE i == heard[r][n][1]
    <3>1. i \in 1..Len(said[r]) /\ heard[r][n] = Heard(i, said[r][i])
      BY <2>1, <2>4 DEF HearingOf, HeardFrom
    <3>2. said[r][i] \in Events
      BY <2>1, <3>1
    <3>3. /\ heard[r][n][2] = said[r][i][1]
          /\ heard[r][n][3] = Translate(said[r][i][1], said[r][i][2])
      BY <3>1 DEF Heard
    <3> HIDE DEF i
    <3>4. ASSUME said[r][i][1] = "result"
          PROVE  /\ said[r][i][2] \in Int
                 /\ heard[r][n][3] = ConvertResult(said[r][i][2])
      <4>1. said[r][i] \in {"result"} \X Results
        BY <3>2, <3>4 DEF Events
      <4>2. QED
        BY <3>3, <3>4, <4>1, ExecutorAssumption DEF Translate, ExecutorAssumption
    <3>5. QED
      BY <3>3, <3>4, ResultIsNoBetter DEF i
  <2>5. QED
    BY <2>2, <2>3, <2>4 DEF HeardAsSaid
<1>2. QED
  BY <1>1, ExecutorInvAlways, PTL

(***************************************************************************)
(* The device buzzes only for a failed authentication, and before the      *)
(* framework hears of the failure.                                         *)
(***************************************************************************)
THEOREM BuzzComesFirst == ExecutorSpec => []BuzzAnnouncesFailure
<1>1. ExecutorInv => BuzzAnnouncesFailure
  <2> SUFFICES ASSUME ExecutorInv PROVE BuzzAnnouncesFailure
    OBVIOUS
  <2>1. \A r \in Requests :
          /\ EventsOf(r) /\ HearingOf(r)
          /\ handling[r] \in Seq(Handlers)
          /\ heard[r] \in Seq(Nat \X Kinds \X Values)
    BY DEF ExecutorInv, EventInv, EventTypes, EventsOf
  <2>2. ASSUME NEW r \in Requests, NEW i \in 1..MaxEvents, <<r, i>> \in vibrated
        PROVE  /\ call[r] = "Authenticate"
               /\ \/ handling[r][i] = "deliver"
                  \/ \E n \in DOMAIN heard[r] : heard[r][n] = <<i, "result", FAIL>>
    <3>1. /\ i \in 1..Len(said[r]) /\ call[r] = "Authenticate"
          /\ Failure(said[r][i]) /\ handling[r][i] # "vibrate"
          /\ Len(handling[r]) = Len(said[r])
      BY <2>1, <2>2 DEF EventsOf
    <3>2. CASE handling[r][i] = "returned"
      <4>1. PICK n \in DOMAIN heard[r] : heard[r][n][1] = i
        BY <2>1, <3>1, <3>2 DEF EventsOf, IsHeard
      <4>2. heard[r][n] = Heard(i, said[r][i])
        BY <2>1, <4>1 DEF HearingOf, HeardFrom
      <4>3. heard[r][n] = <<i, "result", FAIL>>
        BY <3>1, <4>2 DEF Heard, Translate, Failure
      <4>4. QED
        BY <3>1, <4>3
    <3>3. CASE handling[r][i] # "returned"
      <4>1. handling[r][i] \in Handlers
        BY <2>1, <3>1
      <4>2. QED
        BY <3>1, <3>3, <4>1 DEF Handlers
    <3>4. QED
      BY <3>2, <3>3
  <2>3. QED
    BY <2>2 DEF BuzzAnnouncesFailure
<1>2. QED
  BY <1>1, ExecutorInvAlways, PTL

=============================================================================
