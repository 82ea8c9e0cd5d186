------------------------- MODULE ScreenStateMonitor -------------------------
(***************************************************************************)
(* ScreenStateMonitor (services_ex/src/screen_state_monitor.cpp) caches    *)
(* whether the screen is on.  While it is subscribed, the common event     *)
(* service (CES) calls back on an IPC thread for every change of the       *)
(* screen; the cache is primed by asking the power manager once, after the *)
(* subscription is in place.  The monitor is a singleton: every            *)
(* illumination task subscribes and unsubscribes the same object.          *)
(*                                                                         *)
(* All methods hold mutex_.  Subscribe is split in two, because the screen *)
(* may change between the subscription and the question to the power       *)
(* manager; the variable subscribing says that mutex_ is held there.       *)
(*                                                                         *)
(* Subscribe, FinishSubscribe and Unsubscribe are the operations a         *)
(* composing module calls; they and the environment's steps leave no       *)
(* variable of this module unspecified.                                    *)
(***************************************************************************)
EXTENDS Naturals, Sequences

CONSTANTS
    MaxEvents,       \* bound on the screen events in flight (model only)
    CesReliable,     \* CES calls succeed, and leaving CES cancels what is
                     \* still on its way
    HasPowerManager  \* the build flag CONFIG_USE_POWER_MANAGER_COMPONENT

ASSUME MonitorAssumption ==
    /\ MaxEvents \in Nat \ {0}
    /\ CesReliable \in BOOLEAN
    /\ HasPowerManager \in BOOLEAN

VARIABLES
    screenOn,       \* environment: the screen is on
    subscribed,     \* environment: CES routes screen events to the subscriber
    events,         \* environment: events on their way, oldest first
    stray,          \* how many of them belong to a subscription that was ended
    isSubscribing,  \* isSubscribing_
    isOn,           \* isOn_
    subscribing,    \* Subscribe is past line 167 and has not returned
    fresh,          \* history: isOn_ was written for the present subscription
    refused         \* history: CES refused when last asked to let go

monitorVars ==
    <<screenOn, subscribed, events, stray, isSubscribing, isOn, subscribing,
      fresh, refused>>

MonitorTypeOK ==
    /\ screenOn \in BOOLEAN
    /\ subscribed \in BOOLEAN
    /\ events \in Seq(BOOLEAN)
    /\ Len(events) <= MaxEvents
    /\ stray \in 0..Len(events)
    /\ isSubscribing \in BOOLEAN
    /\ isOn \in BOOLEAN
    /\ subscribing \in BOOLEAN
    /\ fresh \in BOOLEAN
    /\ refused \in BOOLEAN

MonitorInit ==
    /\ screenOn \in BOOLEAN
    /\ subscribed = FALSE
    /\ events = << >>
    /\ stray = 0
    /\ isSubscribing = FALSE
    /\ isOn = FALSE
    /\ subscribing = FALSE
    /\ fresh = FALSE
    /\ refused = FALSE

-----------------------------------------------------------------------------
(***************************************************************************)
(* NewUnSubscribeCommonEvent.  When it succeeds no further event is sent;  *)
(* those already sent may be dropped or may still arrive.  When it fails   *)
(* EventSubscriber::Unsubscribe only logs and the events keep coming.      *)
(***************************************************************************)
LeaveCes(left) ==
    /\ refused' = ~left
    /\ IF left
         THEN /\ events' \in IF CesReliable THEN {<< >>} ELSE {<< >>, events}
              /\ stray' = Len(events')
         ELSE /\ ~CesReliable
              /\ UNCHANGED <<events, stray>>

\* EventSubscriber::Subscribe: any earlier subscription is left first.
JoinCes(left, accepted) ==
    /\ LeaveCes(left)
    /\ accepted \/ ~CesReliable
    /\ subscribed' = (accepted \/ (subscribed /\ ~left))

(***************************************************************************)
(* Subscribe up to the answer of CES: a duplicate subscribe returns.  If   *)
(* CES refuses, it returns with isSubscribing_ and isOn_ as they were.     *)
(***************************************************************************)
Subscribe ==
    /\ ~subscribing
    /\ IF isSubscribing
         THEN UNCHANGED monitorVars
         ELSE \E left, accepted \in BOOLEAN :
                /\ JoinCes(left, accepted)
                /\ subscribing' = accepted
                /\ fresh' = FALSE
                /\ UNCHANGED <<screenOn, isSubscribing, isOn>>

\* Mutant of AskPowerManager: the cache keeps the value of an earlier task.
KeepCachedState == isOn' = isOn

\* The question to the power manager; without the component there is none.
AskPowerManager == isOn' = IF HasPowerManager THEN screenOn ELSE isOn

\* The rest of Subscribe: the cache is primed.
FinishSubscribe ==
    /\ subscribing
    /\ subscribing' = FALSE
    /\ isSubscribing' = TRUE
    /\ AskPowerManager
    /\ fresh' = HasPowerManager
    /\ UNCHANGED <<screenOn, subscribed, events, stray, refused>>

\* Unsubscribe clears isSubscribing_ whatever CES answers, and keeps isOn_.
Unsubscribe ==
    /\ ~subscribing
    /\ isSubscribing' = FALSE
    /\ \E left \in BOOLEAN :
         /\ LeaveCes(left)
         /\ subscribed' = (subscribed /\ ~left)
    /\ UNCHANGED <<screenOn, isOn, subscribing, fresh>>

\* Mutant of SetScreenOn: the event that the screen went off is ignored.
SetScreenOnOnly(on) == isOn' = (isOn \/ on)

SetScreenOn(on) == isOn' = on

\* OnReceiveEvent on an IPC thread: the callback with the oldest event.
OnReceiveEvent ==
    /\ ~subscribing
    /\ events # << >>
    /\ SetScreenOn(Head(events))
    /\ events' = Tail(events)
    /\ stray' = IF stray = 0 THEN 0 ELSE stray - 1
    /\ fresh' = (stray = 0)
    /\ UNCHANGED <<screenOn, subscribed, isSubscribing, subscribing, refused>>

\* Environment: the screen is switched, and CES sends the event.
ScreenChange ==
    /\ screenOn' = ~screenOn
    /\ IF subscribed
         THEN /\ Len(events) < MaxEvents
              /\ events' = Append(events, screenOn')
         ELSE UNCHANGED events
    /\ UNCHANGED <<subscribed, stray, isSubscribing, isOn, subscribing, fresh,
                   refused>>

-----------------------------------------------------------------------------
MonitorNext ==
    \/ Subscribe
    \/ FinishSubscribe
    \/ Unsubscribe
    \/ OnReceiveEvent
    \/ ScreenChange

\* Subscribe returns and CES delivers what it has sent.
MonitorFairness ==
    /\ WF_monitorVars(FinishSubscribe)
    /\ WF_monitorVars(OnReceiveEvent)

MonitorSpec == MonitorInit /\ [][MonitorNext]_monitorVars /\ MonitorFairness

-----------------------------------------------------------------------------
(***************************************************************************)
(* A subscribed monitor misses no change of the screen: either an event of *)
(* the present subscription is on its way and the last of them carries the *)
(* state of the screen, or the cache, if it was written for this           *)
(* subscription, holds that state.  It rests on the order of lines 167 and *)
(* 171: subscribing after asking would lose a change in between.           *)
(***************************************************************************)
TracksScreen ==
    isSubscribing =>
        /\ subscribed
        /\ IF Len(events) > stray
             THEN events[Len(events)] = screenOn
             ELSE fresh => isOn = screenOn

(***************************************************************************)
(* If the monitor stays subscribed and the screen stays in one state, the  *)
(* cache, unless a stray event overwrote it last, comes to hold that state.*)
(***************************************************************************)
CatchesUp ==
    \A on \in BOOLEAN :
        <>[](isSubscribing /\ screenOn = on) => <>[](fresh => isOn = on)

(***************************************************************************)
(* A stray event may overwrite the answer of the power manager, and then   *)
(* the cache is wrong until the screen changes.  No longer than that: if   *)
(* the screen changes for the last time during a subscription that lasts,  *)
(* the cache comes to hold the new state for good, whatever events of      *)
(* earlier subscriptions arrive in between.                                *)
(***************************************************************************)
RecoversFromStray ==
    \A on \in BOOLEAN :
        <>(screenOn # on /\ []isSubscribing) /\ <>[](screenOn = on) =>
            <>[](isOn = on)

=============================================================================
