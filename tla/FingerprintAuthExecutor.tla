----------------------- MODULE FingerprintAuthExecutor -----------------------
(***************************************************************************)
(* One FingerprintAllInOneExecutorHdi and the callbacks it hands to the    *)
(* host (services/src: fingerprint_auth_all_in_one_executor_hdi.cpp and    *)
(* fingerprint_auth_executor_callback_hdi.cpp).                            *)
(*                                                                         *)
(* The framework calls the executor once per request.  A call converts its *)
(* arguments, makes one call to the host (OnRegisterFinish two) and        *)
(* converts the status.  The host keeps the callback it got with the call  *)
(* and uses it from an IPC thread of its own, so results may be heard      *)
(* before the call that asked for them has returned; the host may fail or  *)
(* die at any point, and the status of a call it served may get lost.      *)
(*                                                                         *)
(* A callback has no lock: several of its events may be in their handlers  *)
(* at once, each on an IPC thread of its own, and be heard in any order.   *)
(***************************************************************************)
EXTENDS HdiConversions

CONSTANTS
    Requests,
    Modes,       \* the PropertyMode values of SendCommand (model only)
    KeyVectors,  \* the key vectors of GetProperty (model only)
    Results,     \* the result codes the host reports (model only)
    MaxEvents    \* bound on the events of one callback (model only)

ASSUME ExecutorAssumption ==
    /\ MaxEvents \in Nat
    /\ Modes \subseteq Int
    /\ KeyVectors \subseteq Seq(STRING)
    /\ Results \subseteq Int

VARIABLES
    hostUp,    \* external: the host that executorProxy_ reaches is alive
    stage,     \* of a request: "idle", "sent", "received" or "returned"
    call,      \* the operation the framework asked for
    asked,     \* its argument, where it is converted
    hdi,       \* the call to the host the request is at
    argument,  \* what that call says
    reached,   \* history: <<r, h>> if call h of request r got to the host
    served,    \* history: <<r, h>> if the host did as it said
    returned,  \* the result of the operation
    callback,  \* external: the requests whose callback the host holds
    said,      \* the events of the callback, as the host said them
    handling,  \* where the handler of each event is: "vibrate", "deliver"
               \* or "returned"
    vibrated,  \* history: <<r, i>> if the i-th event of r made the device buzz
    heard      \* the events in the order in which the framework heard them:
               \* which of them it was, its kind and what it said

callVars == <<stage, call, asked, hdi, argument, returned>>
hostVars == <<hostUp, reached, served, callback>>
eventVars == <<said, handling, vibrated, heard>>
executorVars == <<callVars, hostVars, eventVars>>

Nothing == <<"nothing">>
NoResult == -1
CallbackCalls == {"Enroll", "Authenticate", "Identify", "SendCommand"}
PlainCalls ==
    {"GetExecutorInfo", "OnRegisterFinish", "SendMessage", "Delete", "Cancel",
     "GetProperty", "SetCachedTemplates"}
HdiCalls == CallbackCalls \cup PlainCalls \cup {"RegisterSaCommandCallback"}

ExecutorInit ==
    /\ hostUp = TRUE
    /\ stage = [r \in Requests |-> "idle"]
    /\ call = [r \in Requests |-> "none"]
    /\ asked = [r \in Requests |-> Nothing]
    /\ hdi = [r \in Requests |-> "none"]
    /\ argument = [r \in Requests |-> Nothing]
    /\ reached = {}
    /\ served = {}
    /\ returned = [r \in Requests |-> NoResult]
    /\ callback = {}
    /\ said = [r \in Requests |-> << >>]
    /\ handling = [r \in Requests |-> << >>]
    /\ vibrated = {}
    /\ heard = [r \in Requests |-> << >>]

-----------------------------------------------------------------------------
\* The operation goes to the host, or is refused before it gets there.
Ask(r, op, what) ==
    /\ stage[r] = "idle"
    /\ call' = [call EXCEPT ![r] = op]
    /\ asked' = [asked EXCEPT ![r] = what]
    /\ UNCHANGED <<hostVars, eventVars>>

Send(r, op, what) ==
    /\ stage' = [stage EXCEPT ![r] = "sent"]
    /\ hdi' = [hdi EXCEPT ![r] = op]
    /\ argument' = [argument EXCEPT ![r] = what]
    /\ UNCHANGED returned

Answer(r, result) ==
    /\ stage' = [stage EXCEPT ![r] = "returned"]
    /\ returned' = [returned EXCEPT ![r] = result]
    /\ UNCHANGED <<hdi, argument>>

\* Operations that convert no argument and hand over no callback.
Plain(r, op) == Ask(r, op, Nothing) /\ Send(r, op, Nothing)

GetExecutorInfo(r) == Plain(r, "GetExecutorInfo")
OnRegisterFinish(r) == Plain(r, "OnRegisterFinish")
SendMessage(r) == Plain(r, "SendMessage")
Delete(r) == Plain(r, "Delete")
Cancel(r) == Plain(r, "Cancel")
SetCachedTemplates(r) == Plain(r, "SetCachedTemplates")

(***************************************************************************)
(* Operations whose result comes later: made says that the framework       *)
(* passed a callback and that the one for the host could be allocated.     *)
(***************************************************************************)
Later(r, op, made) ==
    /\ Ask(r, op, Nothing)
    /\ IF made THEN Send(r, op, Nothing) ELSE Answer(r, GENERAL_ERROR)

Enroll(r, made) == Later(r, "Enroll", made)
Authenticate(r, made) == Later(r, "Authenticate", made)
Identify(r, made) == Later(r, "Identify", made)

\* SendCommand: the mode is converted between the check and the allocation.
SendCommand(r, mode, given, allocated) ==
    /\ Ask(r, "SendCommand", <<"mode", mode>>)
    /\ CASE ~given -> Answer(r, GENERAL_ERROR)
         [] given /\ ~ValidCommand(mode) -> Answer(r, INVALID_PARAMETERS)
         [] given /\ ValidCommand(mode) /\ ~allocated ->
              Answer(r, GENERAL_ERROR)
         [] OTHER ->
              Send(r, "SendCommand", <<"command", ConvertCommandId(mode)>>)

GetProperty(r, keys) ==
    /\ Ask(r, "GetProperty", <<"keys", keys>>)
    /\ IF ValidKeys(keys)
         THEN Send(r, "GetProperty", <<"types", ConvertKeys(keys)>>)
         ELSE Answer(r, GENERAL_ERROR)

-----------------------------------------------------------------------------
(***************************************************************************)
(* External: the call gets to the host, which does as it says (ok) or      *)
(* fails; it may keep the callback either way.                             *)
(***************************************************************************)
Receive(r, ok, keep) ==
    /\ hostUp
    /\ stage[r] = "sent"
    /\ keep => hdi[r] \in CallbackCalls
    /\ ok /\ hdi[r] \in CallbackCalls => keep
    /\ stage' = [stage EXCEPT ![r] = "received"]
    /\ reached' = reached \cup {<<r, hdi[r]>>}
    /\ served' = IF ok THEN served \cup {<<r, hdi[r]>>} ELSE served
    /\ callback' = IF keep THEN callback \cup {r} ELSE callback
    /\ UNCHANGED <<hostUp, call, asked, hdi, argument, returned, eventVars>>

\* External: the host dies, with every callback it holds.
HostDies ==
    /\ hostUp
    /\ hostUp' = FALSE
    /\ callback' = {}
    /\ UNCHANGED <<reached, served, callVars, eventVars>>

\* Mutant of Registered: a host without the SA callback will do.
IgnoreSaCallback(r, result) ==
    /\ hdi[r] = "OnRegisterFinish"
    /\ result = SUCCESS
    /\ Answer(r, SUCCESS)

\* OnRegisterFinish goes on with RegisterSaCommandCallback.
Registered(r, result) ==
    /\ hdi[r] = "OnRegisterFinish"
    /\ result = SUCCESS
    /\ Send(r, "RegisterSaCommandCallback", Nothing)

\* The callback for it cannot be allocated.
NotRegistered(r, result) ==
    /\ hdi[r] = "OnRegisterFinish"
    /\ result = SUCCESS
    /\ Answer(r, GENERAL_ERROR)

(***************************************************************************)
(* The call returns with a status: HDF_SUCCESS only if the host did as it  *)
(* said, an error at any time.                                             *)
(***************************************************************************)
Statuses ==
    {"HDF_SUCCESS", "HDF_FAILURE", "HDF_ERR_TIMEOUT", "HDF_ERR_QUEUE_FULL",
     "HDF_ERR_DEVICE_BUSY", "HDF_DEV_ERR_DEAD_OBJECT"}

HostInfos ==
    [executorRole : KnownField.executorRole \cup {"other"},
     authType : KnownField.authType \cup {"other"},
     esl : KnownField.esl \cup {"other"}]

GetStatus(r, status) ==
    /\ stage[r] \in {"sent", "received"}
    /\ status = "HDF_SUCCESS" =>
         stage[r] = "received" /\ <<r, hdi[r]>> \in served
    /\ LET result == ConvertStatus(status)
       IN \/ Registered(r, result)
          \/ NotRegistered(r, result)
          \/ /\ hdi[r] = "GetExecutorInfo"
             /\ result = SUCCESS
             /\ \E info \in HostInfos : Answer(r, MoveHdiExecutorInfo(info))
          \/ /\ \/ result # SUCCESS
                \/ hdi[r] \notin {"OnRegisterFinish", "GetExecutorInfo"}
             /\ Answer(r, result)
    /\ UNCHANGED <<call, asked, hostVars, eventVars>>

-----------------------------------------------------------------------------
\* An event of the callback arrives on an IPC thread, which stays with it.
Say(r, kind, value, next) ==
    /\ r \in callback
    /\ Len(said[r]) < MaxEvents
    /\ said' = [said EXCEPT ![r] = Append(said[r], <<kind, value>>)]
    /\ handling' = [handling EXCEPT ![r] = Append(handling[r], next)]
    /\ UNCHANGED <<vibrated, heard, callVars, hostVars>>

\* Mutant of Buzzes: any request that fails makes the device buzz.
BuzzForAll(r, result) == ConvertResult(result) = FAIL

Buzzes(r, result) ==
    call[r] = "Authenticate" /\ ConvertResult(result) = FAIL

OnResult(r, result) ==
    Say(r, "result", result, IF Buzzes(r, result) THEN "vibrate" ELSE "deliver")

OnTip(r, tip) == Say(r, "tip", tip, "deliver")

OnMessage(r, destRole) == Say(r, "message", destRole, "deliver")

\* Mutant of AfterVibrator: OnResult gives up with the vibrator.
OnlyIfWorks(works) == IF works THEN "deliver" ELSE "returned"

AfterVibrator(works) == "deliver"

\* DoVibrator: each of its four calls may fail, which is only logged.
DoVibrator(r, i, works) ==
    /\ i \in DOMAIN handling[r]
    /\ handling[r][i] = "vibrate"
    /\ vibrated' = IF works THEN vibrated \cup {<<r, i>>} ELSE vibrated
    /\ handling' = [handling EXCEPT ![r][i] = AfterVibrator(works)]
    /\ UNCHANGED <<said, heard, callVars, hostVars>>

Translate(kind, value) ==
    CASE kind = "result" -> ConvertResult(value)
      [] kind = "tip" /\ value = "FINGERPRINT_AUTH_TIP_SINGLE_AUTH_RESULT" ->
           "USER_AUTH_TIP_SINGLE_AUTH_RESULT"
      [] OTHER -> value

\* Mutant of Event: the callback keeps the event in a member.
LastEvent(r, i) == said[r][Len(said[r])]

\* What a handler has of its event are its own arguments.
Event(r, i) == said[r][i]

\* The framework hears the event, and the handler returns HDF_SUCCESS.
Deliver(r, i) ==
    /\ i \in DOMAIN handling[r]
    /\ handling[r][i] = "deliver"
    /\ LET event == Event(r, i)
       IN heard' = [heard EXCEPT ![r] =
                      Append(heard[r],
                             <<i, event[1], Translate(event[1], event[2])>>)]
    /\ handling' = [handling EXCEPT ![r][i] = "returned"]
    /\ UNCHANGED <<said, vibrated, callVars, hostVars>>

-----------------------------------------------------------------------------
Tips == {"FINGERPRINT_AUTH_TIP_SINGLE_AUTH_RESULT", "other tip"}

ExecutorNext ==
    \/ \E r \in Requests :
         \/ GetExecutorInfo(r)
         \/ OnRegisterFinish(r)
         \/ SendMessage(r)
         \/ Delete(r)
         \/ Cancel(r)
         \/ SetCachedTemplates(r)
         \/ \E made \in BOOLEAN :
              Enroll(r, made) \/ Authenticate(r, made) \/ Identify(r, made)
         \/ \E mode \in Modes, given, allocated \in BOOLEAN :
              SendCommand(r, mode, given, allocated)
         \/ \E keys \in KeyVectors : GetProperty(r, keys)
         \/ \E ok, keep \in BOOLEAN : Receive(r, ok, keep)
         \/ \E status \in Statuses : GetStatus(r, status)
         \/ \E result \in Results : OnResult(r, result)
         \/ \E tip \in Tips : OnTip(r, tip)
         \/ OnMessage(r, "destRole")
         \/ \E i \in 1..MaxEvents, works \in BOOLEAN : DoVibrator(r, i, works)
         \/ \E i \in 1..MaxEvents : Deliver(r, i)
    \/ HostDies

ExecutorSpec == ExecutorInit /\ [][ExecutorNext]_executorVars

\* A handler that has started runs to its end.
ExecutorFairSpec ==
    /\ ExecutorSpec
    /\ \A r \in Requests, i \in 1..MaxEvents :
         /\ WF_executorVars(\E works \in BOOLEAN : DoVibrator(r, i, works))
         /\ WF_executorVars(Deliver(r, i))

-----------------------------------------------------------------------------
ExecutorTypeOK ==
    /\ hostUp \in BOOLEAN
    /\ stage \in [Requests -> {"idle", "sent", "received", "returned"}]
    /\ call \in [Requests -> HdiCalls \cup {"none"}]
    /\ hdi \in [Requests -> HdiCalls \cup {"none"}]
    /\ reached \subseteq Requests \X HdiCalls
    /\ served \subseteq reached
    /\ returned \in [Requests -> Int]
    /\ callback \subseteq Requests
    /\ handling \in [Requests -> Seq({"vibrate", "deliver", "returned"})]
    /\ \A r \in Requests :
         /\ Len(handling[r]) = Len(said[r])
         /\ Len(heard[r]) <= Len(said[r])
    /\ vibrated \subseteq Requests \X (1..MaxEvents)

(***************************************************************************)
(* An operation returns SUCCESS only if the host did all that it stands    *)
(* for, however calls fail, time out or lose their answer: a registration  *)
(* that succeeded left the host with both the templates and the callback   *)
(* for SA commands.                                                        *)
(***************************************************************************)
SuccessMeansServed ==
    \A r \in Requests :
        returned[r] = SUCCESS =>
            /\ <<r, call[r]>> \in served
            /\ call[r] = "OnRegisterFinish" =>
                 <<r, "RegisterSaCommandCallback">> \in served

(***************************************************************************)
(* The host is never asked for anything else than the framework asked:     *)
(* every command it gets is one of its own or a vendor's, and from what it *)
(* gets it could tell which mode, or which keys, the framework meant; no   *)
(* other mode or key vector would have looked the same to it.              *)
(***************************************************************************)
HostGetsWhatWasAsked ==
    \A r \in Requests :
        /\ <<r, "SendCommand">> \in reached =>
             /\ \/ argument[r][2] \in DriverCommandIds
                \/ argument[r][2] > VENDOR_COMMAND_BEGIN
             /\ \A mode \in Modes :
                  ValidCommand(mode) /\ ConvertCommandId(mode) = argument[r][2]
                      => asked[r] = <<"mode", mode>>
        /\ <<r, "GetProperty">> \in reached =>
             \A keys \in KeyVectors :
                 ValidKeys(keys) /\ ConvertKeys(keys) = argument[r][2]
                     => asked[r] = <<"keys", keys>>

\* The framework has heard the i-th event of the callback of r.
IsHeard(r, i) == \E n \in DOMAIN heard[r] : heard[r][n][1] = i

(***************************************************************************)
(* However the events of a callback overtake each other, and whether the   *)
(* vibrator works or not: the framework has heard each of them once when   *)
(* its handler has returned and not before, as the event that it was, and  *)
(* none turned into better news: SUCCESS only where the host said SUCCESS, *)
(* and no code that the framework does not know or a vendor did not add.   *)
(***************************************************************************)
HeardAsSaid ==
    \A r \in Requests :
        /\ \A i \in DOMAIN said[r] :
             IsHeard(r, i) <=> handling[r][i] = "returned"
        /\ \A m, n \in DOMAIN heard[r] :
             heard[r][m][1] = heard[r][n][1] => m = n
        /\ \A n \in DOMAIN heard[r] :
             LET event == said[r][heard[r][n][1]]
                 value == heard[r][n][3]
             IN /\ heard[r][n][2] = event[1]
                /\ event[1] = "result" =>
                     /\ value = SUCCESS <=> event[2] = SUCCESS
                     /\ \/ value \in KnownResults
                        \/ value = event[2] /\ value > VENDOR_RESULT_CODE_BEGIN

(***************************************************************************)
(* The device buzzes for a finger that failed to authenticate only, and    *)
(* before the framework hears of that failure, whatever else it hears      *)
(* meanwhile.                                                              *)
(***************************************************************************)
BuzzAnnouncesFailure ==
    \A r \in Requests, i \in 1..MaxEvents :
        <<r, i>> \in vibrated =>
            /\ call[r] = "Authenticate"
            /\ \/ handling[r][i] = "deliver"
               \/ \E n \in DOMAIN heard[r] : heard[r][n] = <<i, "result", FAIL>>

(***************************************************************************)
(* Whatever the vibrator does, and even if the host dies meanwhile, the    *)
(* framework hears each event that the host said, also one that was        *)
(* overtaken.                                                              *)
(***************************************************************************)
EventsAreHeard ==
    \A r \in Requests, i \in 1..MaxEvents :
        i \in DOMAIN said[r] ~> IsHeard(r, i)

(***************************************************************************)
(* "should be UserAuth::ResultCode::OPERATION_NOT_SUPPORT"                 *)
(* (fingerprint_auth_executor_callback_hdi.cpp:124): the framework hears   *)
(* FAIL, "the authenticator fails to identify user", only if the host said *)
(* so.                                                                     *)
(***************************************************************************)
FailMeansNotIdentified ==
    \A r \in Requests :
        \A n \in DOMAIN heard[r] :
            LET i == heard[r][n][1]
            IN heard[r][n] = <<i, "result", FAIL>> =>
                 said[r][i] = <<"result", FAIL>>

=============================================================================
