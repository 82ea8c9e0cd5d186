---------------------- MODULE ScreenStateMonitorProofs ----------------------
(***************************************************************************)
(* The monitor keeps its types and misses no change of the screen, for     *)
(* every bound on the events, every behaviour of CES and either build.     *)
(* Its operations are shown to preserve the types one by one, so that the  *)
(* modules that conjoin them can cite the lemmas.                          *)
(***************************************************************************)
EXTENDS ScreenStateMonitor, TLAPS

(***************************************************************************)
(* TracksScreen is made inductive by what holds while not subscribed: what *)
(* is on its way is stray, and a subscription in the making is in place.   *)
(***************************************************************************)
EventsFollowScreen ==
    /\ ~subscribed => Len(events) = stray
    /\ Len(events) > stray => events[Len(events)] = screenOn
    /\ subscribing => subscribed /\ ~isSubscribing
    /\ isSubscribing =>
         /\ subscribed
         /\ Len(events) = stray /\ fresh => isOn = screenOn

MonitorInv == MonitorTypeOK /\ EventsFollowScreen

-----------------------------------------------------------------------------
\* Types: at first,
LEMMA InitTypedMonitor ==
    ASSUME MonitorInit PROVE MonitorTypeOK
<1>1. << >> \in Seq(BOOLEAN) /\ Len(<< >>) = 0
  OBVIOUS
<1>2. events \in Seq(BOOLEAN) /\ Len(events) = 0
  BY <1>1 DEF MonitorInit
<1>3. Len(events) <= MaxEvents /\ stray \in 0..Len(events)
  BY <1>2, MonitorAssumption DEF MonitorAssumption, MonitorInit
<1> QED
  BY <1>2, <1>3 DEF MonitorInit, MonitorTypeOK

\* of the events in flight when a subscription is left,
LEMMA LeaveCesTyped ==
    ASSUME MonitorTypeOK, NEW left \in BOOLEAN, LeaveCes(left)
    PROVE  /\ events' \in Seq(BOOLEAN)
           /\ Len(events') <= MaxEvents
           /\ stray' \in 0..Len(events')
           /\ refused' \in BOOLEAN
<1> USE MonitorAssumption DEF MonitorAssumption
<1>1. CASE left
  <2>1. events' \in {<< >>, events} /\ stray' = Len(events') /\ refused' \in BOOLEAN
    BY <1>1 DEF LeaveCes
  <2>2. CASE events' = << >>
    <3>1. << >> \in Seq(BOOLEAN) /\ Len(<< >>) = 0
      OBVIOUS
    <3>2. Len(events') = 0 /\ stray' = 0
      BY <2>1, <2>2, <3>1
    <3> QED
      BY <2>1, <2>2, <3>1, <3>2
  <2>3. CASE events' = events
    BY <2>1, <2>3 DEF MonitorTypeOK
  <2> QED
    BY <2>1, <2>2, <2>3
<1>2. CASE ~left
  BY <1>2 DEF LeaveCes, MonitorTypeOK
<1> QED
  BY <1>1, <1>2

\* after Subscribe up to its question to the power manager,
LEMMA SubscribeTyped ==
    ASSUME MonitorTypeOK, Subscribe PROVE MonitorTypeOK'
<1>1. CASE isSubscribing
  BY <1>1 DEF Subscribe, MonitorTypeOK, monitorVars
<1>2. CASE ~isSubscribing
  <2>1. PICK left \in BOOLEAN, accepted \in BOOLEAN :
          /\ LeaveCes(left)
          /\ subscribed' = (accepted \/ (subscribed /\ ~left))
          /\ subscribing' = accepted
          /\ fresh' = FALSE
          /\ UNCHANGED <<screenOn, isSubscribing, isOn>>
    BY <1>2 DEF Subscribe, JoinCes
  <2> QED
    BY <2>1, LeaveCesTyped DEF MonitorTypeOK
<1> QED
  BY <1>1, <1>2

\* after the rest of it,
LEMMA FinishSubscribeTyped ==
    ASSUME MonitorTypeOK, FinishSubscribe PROVE MonitorTypeOK'
  BY MonitorAssumption
  DEF MonitorAssumption, FinishSubscribe, AskPowerManager, MonitorTypeOK

\* after Unsubscribe,
LEMMA UnsubscribeTyped ==
    ASSUME MonitorTypeOK, Unsubscribe PROVE MonitorTypeOK'
<1>1. PICK left \in BOOLEAN :
        LeaveCes(left) /\ subscribed' = (subscribed /\ ~left)
  BY DEF Unsubscribe
<1> QED
  BY <1>1, LeaveCesTyped DEF Unsubscribe, MonitorTypeOK

\* after the event callback,
LEMMA OnReceiveEventTyped ==
    ASSUME MonitorTypeOK, OnReceiveEvent PROVE MonitorTypeOK'
<1>1. /\ Head(events) \in BOOLEAN
      /\ Tail(events) \in Seq(BOOLEAN)
      /\ Len(Tail(events)) = Len(events) - 1
  BY DEF OnReceiveEvent, MonitorTypeOK
<1> QED
  BY <1>1, MonitorAssumption
  DEF MonitorAssumption, OnReceiveEvent, SetScreenOn, MonitorTypeOK

\* and after a change of the screen.
LEMMA ScreenChangeTyped ==
    ASSUME MonitorTypeOK, ScreenChange PROVE MonitorTypeOK'
<1> USE MonitorAssumption DEF MonitorAssumption, ScreenChange, MonitorTypeOK
<1>1. screenOn' \in BOOLEAN
  OBVIOUS
<1>2. CASE subscribed
  <2>1. /\ Append(events, screenOn') \in Seq(BOOLEAN)
        /\ Len(Append(events, screenOn')) = Len(events) + 1
    BY <1>1
  <2>2. events' = Append(events, screenOn') /\ Len(events) < MaxEvents
    BY <1>2
  <2> QED
    BY <1>1, <2>1, <2>2
<1>3. CASE ~subscribed
  BY <1>1, <1>3
<1> QED
  BY <1>2, <1>3

-----------------------------------------------------------------------------
\* Every step of the monitor keeps its invariant.
LEMMA MonitorInductive ==
    ASSUME MonitorInv, [MonitorNext]_monitorVars PROVE MonitorInv'
<1> USE DEF MonitorInv
<1>1. MonitorTypeOK'
  <2>1. CASE UNCHANGED monitorVars
    BY <2>1 DEF MonitorTypeOK, monitorVars
  <2> QED
    BY <2>1, SubscribeTyped, FinishSubscribeTyped, UnsubscribeTyped,
       OnReceiveEventTyped, ScreenChangeTyped DEF MonitorNext
<1>2. EventsFollowScreen'
  <2> USE DEF EventsFollowScreen, MonitorTypeOK
  <2>1. CASE Subscribe
    <3>1. CASE isSubscribing
      BY <2>1, <3>1 DEF Subscribe, monitorVars
    <3>2. CASE ~isSubscribing
      <4>1. PICK left \in BOOLEAN, accepted \in BOOLEAN :
              /\ LeaveCes(left)
              /\ subscribed' = (accepted \/ (subscribed /\ ~left))
              /\ subscribing' = accepted
              /\ fresh' = FALSE
              /\ UNCHANGED <<screenOn, isSubscribing, isOn>>
        BY <2>1, <3>2 DEF Subscribe, JoinCes
      <4> QED
        BY <3>2, <4>1 DEF LeaveCes
    <3> QED
      BY <3>1, <3>2
  <2>2. CASE FinishSubscribe
    BY <2>2 DEF FinishSubscribe, AskPowerManager
  <2>3. CASE Unsubscribe
    <3>1. PICK left \in BOOLEAN :
            LeaveCes(left) /\ subscribed' = (subscribed /\ ~left)
      BY <2>3 DEF Unsubscribe
    <3> QED
      BY <2>3, <3>1 DEF Unsubscribe, LeaveCes
  <2>4. CASE OnReceiveEvent
    <3>1. /\ Len(events) > 0
          /\ Len(Tail(events)) = Len(events) - 1
          /\ \A i \in 1..Len(Tail(events)) : Tail(events)[i] = events[i + 1]
          /\ Head(events) = events[1]
      BY <2>4 DEF OnReceiveEvent
    <3>2. /\ events' = Tail(events)
          /\ stray' = (IF stray = 0 THEN 0 ELSE stray - 1)
          /\ fresh' = (stray = 0)
          /\ isOn' = Head(events)
          /\ UNCHANGED <<screenOn, subscribed, isSubscribing, subscribing>>
      BY <2>4 DEF OnReceiveEvent, SetScreenOn
    <3>3. Len(events) \in Nat /\ stray \in Nat /\ stray <= Len(events)
      OBVIOUS
    <3>4. ~subscribed' => Len(events') = stray'
      BY <3>1, <3>2, <3>3
    <3>5. Len(events') > stray' => events'[Len(events')] = screenOn'
      <4> SUFFICES ASSUME Len(events') > stray'
                   PROVE  events'[Len(events')] = screenOn'
        OBVIOUS
      <4>1. Len(events) > stray
        BY <3>1, <3>2, <3>3
      <4>2. events'[Len(events')] = events[Len(events)]
        BY <3>1, <3>2, <3>3
      <4> QED
        BY <4>1, <4>2, <3>2
    <3>6. ASSUME isSubscribing', Len(events') = stray', fresh'
          PROVE  isOn' = screenOn'
      <4>1. stray = 0
        BY <3>2, <3>6, Zenon
      <4>2. Len(events) = 1
        BY <4>1, <3>1, <3>2, <3>3, <3>6
      <4> QED
        BY <4>1, <4>2, <3>1, <3>2
    <3> QED
      BY <3>2, <3>4, <3>5, <3>6
  <2>5. CASE ScreenChange
    <3>1. CASE subscribed
      <4>1. /\ Len(events') = Len(events) + 1
            /\ events'[Len(events')] = screenOn'
        BY <2>5, <3>1 DEF ScreenChange
      <4>2. Len(events') > stray'
        BY <2>5, <4>1 DEF ScreenChange
      <4>3. subscribed' /\ (subscribing' => ~isSubscribing')
        BY <2>5, <3>1 DEF ScreenChange
      <4>4. Len(events') # stray'
        BY <2>5, <4>1 DEF ScreenChange
      <4>5. EventsFollowScreen'
        <5> HIDE DEF MonitorTypeOK
        <5> QED BY <4>1, <4>2, <4>3, <4>4, Zenon
      <4> QED
        BY <4>5
    <3>2. CASE ~subscribed
      BY <2>5, <3>2 DEF ScreenChange
    <3> QED
      BY <3>1, <3>2
  <2>6. CASE UNCHANGED monitorVars
    BY <2>6 DEF monitorVars
  <2> QED
    BY <2>1, <2>2, <2>3, <2>4, <2>5, <2>6 DEF MonitorNext
<1> QED
  BY <1>1, <1>2

\* Nothing is in flight at first.
LEMMA MonitorStarts == MonitorInit => MonitorInv
<1>1. << >> \in Seq(BOOLEAN) /\ Len(<< >>) = 0
  OBVIOUS
<1>2. MonitorInit => EventsFollowScreen
  BY <1>1 DEF MonitorInit, EventsFollowScreen
<1> QED
  BY <1>2, InitTypedMonitor DEF MonitorInv

\* The last event in flight tells the state of the screen; with none, the cache does.
LEMMA MonitorTracks == MonitorInv => MonitorTypeOK /\ TracksScreen
  BY DEF MonitorInv, MonitorTypeOK, EventsFollowScreen, TracksScreen

(***************************************************************************)
(* The monitor of screen_state_monitor.cpp misses no change of the screen  *)
(* while it is subscribed, and its variables keep their types.             *)
(***************************************************************************)
THEOREM MonitorTracksScreen == MonitorSpec => [](MonitorTypeOK /\ TracksScreen)
  BY MonitorStarts, MonitorInductive, MonitorTracks, PTL DEF MonitorSpec

=============================================================================
