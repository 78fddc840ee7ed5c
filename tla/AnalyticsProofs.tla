-------------------------- MODULE AnalyticsProofs ---------------------------
(* Theorems about Analytics for every value of its constants. *)
EXTENDS Analytics, CountingLemmas

-----------------------------------------------------------------------------
LEMMA Becomes ==
  ASSUME TypeOK, NEW c \in Calls, NEW st, Become(c, st)
  PROVE  call'[c] = st /\ \A d \in Calls \ {c} : call'[d] = call[d]
  BY DEF Become, TypeOK

LEMMA Membership ==
  /\ Requests \subseteq Calls /\ DurationRuns \subseteq Calls
  /\ CleanupRuns \subseteq Calls
  /\ NoSession \in SessionRow
  /\ Idle \in CallState
  BY DEF Calls, SessionRow, CallState, NoSession, Idle

(* What a call that works on a session holds. *)
LEMMA Holds ==
  ASSUME TypeOK, LocalsInv, NEW c \in Calls,
         call[c].at \notin {"idle", "durations", "cleanup"}
  PROVE  /\ call[c].s \in Sessions
         /\ Exists(call[c].s)
         /\ sessions[call[c].s] \in SessionRow
  BY DEF LocalsInv, Sound, TypeOK

(* A session's age, at a time at which it existed. *)
LEMMA Ages ==
  ASSUME TypeOK, NEW s \in Sessions, NEW t \in Nat, sessions[s].startTime <= t
  PROVE  t - sessions[s].startTime \in Nat
<1>1. sessions[s].startTime \in Nat
  BY DEF TypeOK, SessionRow
<1> QED
  BY <1>1

-----------------------------------------------------------------------------
(* Types. *)

LEMMA InitTypeOK == Init => TypeOK
<1> SUFFICES ASSUME Init
             PROVE  TypeOK
  OBVIOUS
<1>1. now \in Nat /\ sessions \in [Sessions -> SessionRow]
  BY Membership DEF Init
<1>2. {pageViewEvents, endpointStats} \subseteq [Sessions -> Nat]
  BY DEF Init
<1>3. call \in [Calls -> CallState]
  BY Membership DEF Init
<1>4. \A s \in Sessions : sessions[s].endTime = None /\ sessions[s].status = "none"
  BY DEF Init, NoSession
<1> QED
  BY <1>1, <1>2, <1>3, <1>4 DEF TypeOK

LEMMA CallTypes == TypeOK /\ LocalsInv /\ [Next]_vars => call' \in [Calls -> CallState]
<1> SUFFICES ASSUME TypeOK, LocalsInv, [Next]_vars
             PROVE  call' \in [Calls -> CallState]
  OBVIOUS
<1>1. ASSUME NEW c \in Calls, NEW st \in CallState, Become(c, st)
      PROVE  call' \in [Calls -> CallState]
  BY <1>1 DEF TypeOK, Become
<1>2. \A c \in Calls : call[c] \in CallState
  BY DEF TypeOK
<1>3. ASSUME NEW c \in Calls, GetPageViews(c)
      PROVE  call' \in [Calls -> CallState]
  <2>1. sessions[call[c].s].pageViews \in Nat
    BY <1>3, Holds DEF GetPageViews, SessionRow
  <2>2. [call[c] EXCEPT !.at = "view.update",
                        !.count = sessions[call[c].s].pageViews] \in CallState
    BY <1>2, <2>1 DEF CallState
  <2> QED
    BY <1>1, <1>3, <2>2 DEF GetPageViews
<1>4. ASSUME NEW c \in Calls, GetApiCalls(c)
      PROVE  call' \in [Calls -> CallState]
  <2>1. sessions[call[c].s].apiCalls \in Nat
    BY <1>4, Holds DEF GetApiCalls, SessionRow
  <2>2. [call[c] EXCEPT !.at = "api.update",
                        !.count = sessions[call[c].s].apiCalls] \in CallState
    BY <1>2, <2>1 DEF CallState
  <2> QED
    BY <1>1, <1>4, <2>2 DEF GetApiCalls
<1>5. ASSUME NEW c \in Calls, UpdateApiCalls(c) \/ CountFails(c)
      PROVE  call' \in [Calls -> CallState]
  <2>1. [call[c] EXCEPT !.at = "activity.get", !.count = 0] \in CallState
    BY <1>2 DEF CallState
  <2> QED
    BY <1>1, <1>5, <2>1 DEF UpdateApiCalls, CountFails, GoOn
<1>6. ASSUME NEW c \in Calls, GetOwner(c)
      PROVE  call' \in [Calls -> CallState]
  <2>1. PICK user \in {call[c].user, None} :
           Become(c, [call[c] EXCEPT !.at = "activity.update", !.user = user])
    BY <1>6 DEF GetOwner
  <2>2. [call[c] EXCEPT !.at = "activity.update", !.user = user] \in CallState
    BY <1>2, <2>1 DEF CallState
  <2> QED
    BY <1>1, <2>1, <2>2
<1>7. ASSUME NEW c \in Calls, NEW s \in Sessions, NEW todo \in SUBSET Sessions,
             GetSession(c, s, todo)
      PROVE  call' \in [Calls -> CallState]
  <2>1. now \in Nat /\ now - sessions[s].startTime \in Nat
    BY Ages DEF LocalsInv, TypeOK
  <2>2. [at |-> "end.update", s |-> s, user |-> None,
         count |-> now - sessions[s].startTime, time |-> now, todo |-> todo]
           \in CallState
    BY <2>1 DEF CallState
  <2> QED
    BY <1>1, <1>7, <2>2 DEF GetSession
<1>8. ASSUME NEW c \in Calls, NEW todo \in SUBSET Sessions, Return(c, todo)
      PROVE  call' \in [Calls -> CallState]
  <2>1. [Idle EXCEPT !.at = "cleanup", !.todo = todo] \in CallState
    BY DEF CallState, Idle
  <2> QED
    BY <1>1, <1>8, <2>1, Membership DEF Return, Finish
<1>9. ASSUME NEW c \in Calls, NEW s \in Sessions, UpdateDuration(c, s)
      PROVE  call' \in [Calls -> CallState]
  <2>1. [call[c] EXCEPT !.todo = call[c].todo \ {s}] \in CallState
    BY <1>2 DEF CallState
  <2> QED
    BY <1>1, <1>9, <2>1, Membership DEF UpdateDuration, Finish
<1>10. \A c \in Calls, s \in Sessions :
          /\ call[c].todo \in SUBSET Sessions
          /\ call[c].todo \ {s} \in SUBSET Sessions
          /\ {x \in ActiveSessions : Old(x)} \in SUBSET Sessions
          /\ ActiveSessions \in SUBSET Sessions
  BY <1>2 DEF CallState, ActiveSessions
<1>11. ASSUME NEW c \in Calls, NEW s \in Sessions, NEW user \in Users \cup {None},
              \/ CreatePageView(c, s)
              \/ CreateEndpointStat(c, s, user)
              \/ CreateFails(c, s, user)
       PROVE  call' \in [Calls -> CallState]
  <2>1. /\ [Idle EXCEPT !.at = "view.get", !.s = s] \in CallState
        /\ [Idle EXCEPT !.at = "api.get", !.s = s, !.user = user] \in CallState
        /\ [Idle EXCEPT !.at = "activity.get", !.s = s, !.user = user] \in CallState
    BY DEF CallState, Idle
  <2> QED
    BY <1>1, <1>11, <2>1 DEF CreatePageView, CreateEndpointStat, CreateFails
<1>12. ASSUME NEW c \in Calls, NEW s \in Sessions, EndSession(c, s) \/ EndOldSession(c, s)
       PROVE  call' \in [Calls -> CallState]
  <2>1. {} \in SUBSET Sessions
    OBVIOUS
  <2> QED
    BY <1>7, <1>10, <1>12, <2>1 DEF EndSession, EndOldSession
<1>13. ASSUME NEW c \in Calls, ListOldSessions(c) \/ EndFails(c) \/ UpdateEnd(c)
       PROVE  call' \in [Calls -> CallState]
  <2>1. CASE ListOldSessions(c)
    <3>1. {x \in ActiveSessions : Old(x)} \in SUBSET Sessions
      BY DEF ActiveSessions
    <3> QED
      BY <1>8, <2>1, <3>1 DEF ListOldSessions
  <2>2. CASE EndFails(c) \/ UpdateEnd(c)
    <3>1. \/ Return(c, call[c].todo)
          \/ \E s \in call[c].todo : Return(c, call[c].todo \ {s})
      BY <2>2 DEF EndFails, UpdateEnd
    <3>2. \A s : call[c].todo \in SUBSET Sessions
                 /\ call[c].todo \ {s} \in SUBSET Sessions
      BY <1>2 DEF CallState
    <3> QED
      BY <1>8, <3>1, <3>2
  <2> QED
    BY <1>13, <2>1, <2>2
<1>14. ASSUME NEW c \in Calls, ListActiveSessions(c)
       PROVE  call' \in [Calls -> CallState]
  <2>1. ActiveSessions \in SUBSET Sessions /\ now \in Nat
    BY DEF ActiveSessions, TypeOK
  <2>2. [Idle EXCEPT !.at = "durations", !.time = now, !.todo = ActiveSessions]
           \in CallState
    BY <2>1 DEF CallState, Idle
  <2> QED
    BY <1>1, <1>14, <2>2 DEF ListActiveSessions
<1>15. ASSUME NEW c \in Calls, UpdatePageViews(c) \/ UpdateActivity(c) \/ Abort(c)
       PROVE  call' \in [Calls -> CallState]
  BY <1>1, <1>15, Membership DEF UpdatePageViews, UpdateActivity, Abort, Finish
<1>16. ASSUME UNCHANGED call
       PROVE  call' \in [Calls -> CallState]
  BY <1>16 DEF TypeOK
<1>17. ASSUME NEW c \in Calls,
              PageViewStep(c) \/ EndpointStep(c) \/ CleanupStep(c) \/ DurationStep(c)
       PROVE  call' \in [Calls -> CallState]
  BY <1>3, <1>4, <1>5, <1>6, <1>9, <1>11, <1>12, <1>13, <1>14, <1>15, <1>17
     DEF PageViewStep, EndpointStep, CleanupStep, DurationStep
<1>18. ASSUME NEW s, NEW user, StartSession(s, user) \/ TrackEvent(s) \/ Tick
       PROVE  call' \in [Calls -> CallState]
  <2>1. UNCHANGED call
    BY <1>18 DEF StartSession, TrackEvent, Tick
  <2> QED
    BY <1>16, <2>1
<1>19. CASE UNCHANGED vars
  <2>1. UNCHANGED call
    BY <1>19 DEF vars
  <2> QED
    BY <1>16, <2>1
<1> QED
  BY <1>12, <1>13, <1>15, <1>17, <1>18, <1>19, Membership DEF Next

LEMMA NextTypeOK == TypeOK /\ LocalsInv /\ [Next]_vars => TypeOK'
<1> SUFFICES ASSUME TypeOK, LocalsInv, [Next]_vars
             PROVE  TypeOK'
  OBVIOUS
<1>1. call' \in [Calls -> CallState]
  BY CallTypes
<1>2. /\ \A s \in Sessions : sessions[s] \in SessionRow
      /\ \A c \in Calls : /\ call[c].count \in Nat /\ call[c].time \in Nat
                          /\ call[c].user \in Users \cup {None}
  BY DEF TypeOK, CallState
<1>3. ASSUME NEW s \in Sessions, NEW row \in SessionRow,
             row.endTime # None <=> row.status = "ended",
             sessions' = [sessions EXCEPT ![s] = row],
             UNCHANGED <<now, pageViewEvents, endpointStats>>
      PROVE  TypeOK'
  BY <1>1, <1>3 DEF TypeOK
<1>4. ASSUME NEW s \in Sessions, NEW user \in Users \cup {None}, StartSession(s, user)
      PROVE  TypeOK'
  <2> DEFINE row == [NoSession EXCEPT !.status = "active", !.startTime = now,
                                      !.user = user]
  <2>1. row \in SessionRow /\ row.endTime = None /\ row.status = "active"
    BY DEF NoSession, SessionRow, TypeOK
  <2>2. sessions' = [sessions EXCEPT ![s] = row]
    BY <1>4 DEF StartSession
  <2> HIDE DEF row
  <2> QED
    BY <1>3, <1>4, <2>1, <2>2 DEF StartSession
<1>5. ASSUME NEW c \in Calls, UpdatePageViews(c)
      PROVE  TypeOK'
  <2> DEFINE s == call[c].s
             row == [sessions[s] EXCEPT !.pageViews = call[c].count + 1]
  <2>1. s \in Sessions
    BY <1>5, Holds DEF UpdatePageViews
  <2>2. row \in SessionRow /\ (row.endTime # None <=> row.status = "ended")
    BY <1>2, <2>1 DEF SessionRow, TypeOK
  <2>3. sessions' = [sessions EXCEPT ![s] = row]
    BY <1>5, <2>1 DEF UpdatePageViews, TypeOK
  <2> HIDE DEF s, row
  <2> QED
    BY <1>3, <1>5, <2>1, <2>2, <2>3 DEF UpdatePageViews
<1>6. ASSUME NEW c \in Calls, UpdateApiCalls(c)
      PROVE  TypeOK'
  <2> DEFINE s == call[c].s
             row == [sessions[s] EXCEPT !.apiCalls = call[c].count + 1]
  <2>1. s \in Sessions
    BY <1>6, Holds DEF UpdateApiCalls
  <2>2. row \in SessionRow /\ (row.endTime # None <=> row.status = "ended")
    BY <1>2, <2>1 DEF SessionRow, TypeOK
  <2>3. sessions' = [sessions EXCEPT ![s] = row]
    BY <1>6, <2>1 DEF UpdateApiCalls, TypeOK
  <2> HIDE DEF s, row
  <2> QED
    BY <1>3, <1>6, <2>1, <2>2, <2>3 DEF UpdateApiCalls
<1>7. ASSUME NEW c \in Calls, UpdateActivity(c)
      PROVE  TypeOK'
  <2> DEFINE s == call[c].s
             row == [sessions[s] EXCEPT !.user = call[c].user]
  <2>1. s \in Sessions
    BY <1>7, Holds DEF UpdateActivity
  <2>2. row \in SessionRow /\ (row.endTime # None <=> row.status = "ended")
    BY <1>2, <2>1 DEF SessionRow, TypeOK
  <2>3. sessions' = [sessions EXCEPT ![s] = row] \/ UNCHANGED sessions
    BY <1>7, <2>1 DEF UpdateActivity, TypeOK
  <2>4. CASE UNCHANGED sessions
    BY <1>1, <1>7, <2>4 DEF UpdateActivity, TypeOK
  <2> HIDE DEF s, row
  <2> QED
    BY <1>3, <1>7, <2>1, <2>2, <2>3, <2>4 DEF UpdateActivity
<1>8. ASSUME NEW c \in Calls, UpdateEnd(c)
      PROVE  TypeOK'
  <2> DEFINE s == call[c].s
             row == [sessions[s] EXCEPT !.endTime = call[c].time,
                                        !.duration = call[c].count,
                                        !.status = "ended"]
  <2>1. s \in Sessions
    BY <1>8, Holds DEF UpdateEnd
  <2>2. row \in SessionRow /\ row.endTime # None /\ row.status = "ended"
    BY <1>2, <2>1, NoneAssumption DEF SessionRow
  <2>3. sessions' = [sessions EXCEPT ![s] = row]
    BY <1>8, <2>1 DEF UpdateEnd, TypeOK
  <2> HIDE DEF s, row
  <2> QED
    BY <1>3, <1>8, <2>1, <2>2, <2>3 DEF UpdateEnd
<1>9. ASSUME NEW c \in Calls, NEW s \in Sessions, UpdateDuration(c, s)
      PROVE  TypeOK'
  <2> DEFINE row == [sessions[s] EXCEPT !.duration =
                        call[c].time - sessions[s].startTime]
  <2>1. call[c].time - sessions[s].startTime \in Nat
    BY <1>2, <1>9, Ages DEF UpdateDuration, LocalsInv, Sound
  <2>2. row \in SessionRow /\ (row.endTime # None <=> row.status = "ended")
    BY <1>2, <2>1 DEF SessionRow, TypeOK
  <2>3. sessions' = [sessions EXCEPT ![s] = row]
    BY <1>9 DEF UpdateDuration, TypeOK
  <2> HIDE DEF row
  <2> QED
    BY <1>3, <1>9, <2>2, <2>3 DEF UpdateDuration
<1>10. ASSUME NEW s \in Sessions, NEW c, NEW user,
              TrackEvent(s) \/ CreatePageView(c, s) \/ CreateEndpointStat(c, s, user)
       PROVE  TypeOK'
  <2>1. UNCHANGED <<now, sessions>>
    BY <1>10 DEF TrackEvent, CreatePageView, CreateEndpointStat
  <2>2. {pageViewEvents, endpointStats}' \subseteq [Sessions -> Nat]
    BY <1>10 DEF TrackEvent, CreatePageView, CreateEndpointStat, TypeOK
  <2> QED
    BY <1>1, <2>1, <2>2 DEF TypeOK
<1>11. ASSUME UNCHANGED tables, now' \in {now, now + 1}
       PROVE  TypeOK'
  BY <1>1, <1>11 DEF TypeOK, tables
<1>12. ASSUME NEW c \in Calls, PageViewStep(c) \/ EndpointStep(c)
       PROVE  TypeOK'
  <2>1. CASE PageViewStep(c)
    BY <1>5, <1>10, <1>11, <2>1 DEF PageViewStep, GetPageViews
  <2>2. CASE \E s \in Sessions, user \in Users \cup {None} :
                CreateEndpointStat(c, s, user) \/ CreateFails(c, s, user)
    BY <1>10, <1>11, <2>2 DEF CreateFails
  <2> QED
    BY <1>6, <1>7, <1>11, <1>12, <2>1, <2>2
       DEF EndpointStep, GetApiCalls, CountFails, GetOwner
<1>13. ASSUME NEW c \in Calls, CleanupStep(c) \/ DurationStep(c)
       PROVE  TypeOK'
  BY <1>9, <1>11, <1>13
     DEF CleanupStep, DurationStep, ListOldSessions, EndOldSession, EndFails,
         ListActiveSessions
<1>14. CASE UNCHANGED vars
  BY <1>11, <1>14 DEF vars, tables
<1> QED
  BY <1>4, <1>8, <1>10, <1>11, <1>12, <1>13, <1>14, Membership
     DEF Next, EndSession, Abort, Tick

-----------------------------------------------------------------------------
(* What the calls hold stays right: rows are never deleted, and a row keeps *)
(* the startTime it was inserted with.                                      *)

LEMMA RowsStay ==
  ASSUME TypeOK, LocalsInv, [Next]_vars
  PROVE  /\ now <= now'
         /\ \A s \in Sessions :
              /\ Exists(s) => Exists(s)' /\ sessions'[s].startTime = sessions[s].startTime
              /\ sessions'[s].startTime <= now'
              /\ ~Exists(s)' => sessions'[s] = sessions[s] /\ ~Exists(s)
<1> DEFINE Stay == \A s \in Sessions :
              /\ Exists(s) => Exists(s)' /\ sessions'[s].startTime = sessions[s].startTime
              /\ sessions'[s].startTime \in {sessions[s].startTime, now}
              /\ ~Exists(s)' => sessions'[s] = sessions[s] /\ ~Exists(s)
<1>1. now \in Nat /\ \A s \in Sessions : sessions[s].startTime \in Nat
                                         /\ sessions[s].startTime <= now
  BY DEF TypeOK, SessionRow, LocalsInv
<1>2. ASSUME NEW s \in Sessions, NEW user, StartSession(s, user)
      PROVE  Stay /\ now' = now
  BY <1>2 DEF StartSession, Exists, NoSession, TypeOK
<1>3. ASSUME NEW c \in Calls, UpdatePageViews(c) \/ UpdateApiCalls(c) \/ UpdateActivity(c)
      PROVE  Stay /\ now' = now
  <2>1. call[c].s \in Sessions /\ Exists(call[c].s)
    BY <1>3, Holds DEF UpdatePageViews, UpdateApiCalls, UpdateActivity
  <2>2. CASE UpdatePageViews(c)
    BY <2>1, <2>2 DEF UpdatePageViews, Exists, TypeOK
  <2>3. CASE UpdateApiCalls(c)
    BY <2>1, <2>3 DEF UpdateApiCalls, Exists, TypeOK
  <2>4. CASE UpdateActivity(c)
    <3>1. CASE UNCHANGED sessions
      BY <2>4, <3>1 DEF UpdateActivity, Exists
    <3>2. CASE sessions' = [sessions EXCEPT ![call[c].s].user = call[c].user]
      BY <2>1, <2>4, <3>2 DEF UpdateActivity, Exists, TypeOK
    <3> QED
      BY <2>4, <3>1, <3>2 DEF UpdateActivity
  <2> QED
    BY <1>3, <2>2, <2>3, <2>4
<1>4. ASSUME NEW c \in Calls, UpdateEnd(c)
      PROVE  Stay /\ now' = now
  <2>1. call[c].s \in Sessions /\ Exists(call[c].s)
    BY <1>4, Holds DEF UpdateEnd
  <2> QED
    BY <1>4, <2>1 DEF UpdateEnd, Exists, TypeOK
<1>5. ASSUME NEW c \in Calls, NEW s \in Sessions, UpdateDuration(c, s)
      PROVE  Stay /\ now' = now
  <2>1. Exists(s)
    BY <1>5 DEF UpdateDuration, LocalsInv, Sound
  <2> QED
    BY <1>5, <2>1 DEF UpdateDuration, Exists, TypeOK
<1>6. ASSUME UNCHANGED sessions
      PROVE  Stay
  BY <1>6 DEF Exists
<1> HIDE DEF Stay
<1>7. ASSUME NEW c \in Calls, PageViewStep(c) \/ EndpointStep(c)
      PROVE  Stay /\ now' = now
  <2>1. CASE GetPageViews(c)
    BY <1>6, <2>1 DEF GetPageViews, tables
  <2>2. CASE \E s \in Sessions, user \in Users \cup {None} :
                CreateEndpointStat(c, s, user) \/ CreateFails(c, s, user)
    BY <1>6, <2>2 DEF CreateEndpointStat, CreateFails, tables
  <2>3. CASE \E s \in Sessions : CreatePageView(c, s)
    BY <1>6, <2>3 DEF CreatePageView
  <2> QED
    BY <1>3, <1>6, <1>7, <2>1, <2>2, <2>3
       DEF PageViewStep, EndpointStep, GetApiCalls, CountFails, GetOwner, tables
<1>8. ASSUME NEW c \in Calls, CleanupStep(c) \/ DurationStep(c)
      PROVE  Stay /\ now' = now
  BY <1>5, <1>6, <1>8
     DEF CleanupStep, DurationStep, ListOldSessions, EndOldSession, EndFails,
         ListActiveSessions, tables
<1>9. ASSUME NEW c \in Calls, Abort(c) \/ \E s \in Sessions : EndSession(c, s)
      PROVE  Stay /\ now' = now
  BY <1>6, <1>9 DEF EndSession, Abort, tables
<1>10. ASSUME Tick
       PROVE  Stay /\ now' = now + 1
  BY <1>6, <1>10 DEF Tick, tables
<1>11. ASSUME UNCHANGED vars
       PROVE  Stay /\ now' = now
  BY <1>6, <1>11 DEF vars
<1>12. Stay /\ now' \in {now, now + 1}
  <2>1. CASE Tick \/ UNCHANGED vars
    BY <1>10, <1>11, <2>1
  <2>2. CASE \E s \in Sessions : TrackEvent(s)
    BY <1>6, <2>2 DEF TrackEvent
  <2> QED
    BY <1>2, <1>4, <1>7, <1>8, <1>9, <2>1, <2>2, Membership DEF Next
<1> QED
  BY <1>1, <1>12 DEF Stay

LEMMA KeepsSound ==
  ASSUME TypeOK, LocalsInv, [Next]_vars, NEW c \in Calls, call'[c] = call[c]
  PROVE  Sound(c)'
<1>1. Sound(c) /\ call[c].todo \subseteq Sessions
  BY DEF LocalsInv, TypeOK, CallState
<1> QED
  BY <1>1, RowsStay DEF Sound

LEMMA NextLocalsInv == TypeOK /\ LocalsInv /\ [Next]_vars => LocalsInv'
<1> SUFFICES ASSUME TypeOK, LocalsInv, [Next]_vars
             PROVE  LocalsInv'
  OBVIOUS
<1>1. ASSUME NEW c \in Calls, NEW st, Become(c, st), Sound(c)'
      PROVE  LocalsInv'
  <2>1. \A d \in Calls \ {c} : call'[d] = call[d]
    BY <1>1, Becomes
  <2> QED
    BY <1>1, <2>1, KeepsSound, RowsStay DEF LocalsInv
<1>2. \A c \in Calls : Sound(c) /\ call[c].todo \subseteq Sessions
  BY DEF LocalsInv, TypeOK, CallState
<1>3. ASSUME NEW c \in Calls, Finish(c)
      PROVE  LocalsInv'
  BY <1>1, <1>3, Becomes DEF Finish, Sound, Idle
<1>4. ASSUME NEW c \in Calls, NEW s \in Sessions, Exists(s), NEW st, Become(c, st),
             st.at \in {"view.get", "api.get", "activity.get"}, st.s = s, st.todo = {}
      PROVE  LocalsInv'
  <2>1. call'[c] = st
    BY <1>4, Becomes
  <2>2. Sound(c)'
    BY <1>4, <2>1, RowsStay DEF Sound
  <2> QED
    BY <1>1, <1>4, <2>2
<1>5. ASSUME NEW c \in Calls, NEW st, Become(c, st), st.s = call[c].s, st.todo = call[c].todo,
             call[c].at \notin {"idle", "durations", "cleanup"},
             st.at \notin {"durations", "end.update"}
      PROVE  LocalsInv'
  <2>1. call'[c] = st
    BY <1>5, Becomes
  <2>2. Sound(c)'
    BY <1>2, <1>5, <2>1, RowsStay DEF Sound
  <2> QED
    BY <1>1, <1>5, <2>2
<1>6. ASSUME NEW c \in Calls, NEW s \in Sessions, Exists(s), NEW todo,
             todo \subseteq call[c].todo, GetSession(c, s, todo)
      PROVE  LocalsInv'
  <2>1. /\ call'[c].at = "end.update" /\ call'[c].s = s /\ call'[c].todo = todo
        /\ call'[c].time = now /\ call'[c].count = now - sessions[s].startTime
    BY <1>6, Becomes DEF GetSession
  <2>2. Sound(c)'
    BY <1>2, <1>6, <2>1, RowsStay DEF Sound, LocalsInv
  <2> QED
    BY <1>1, <1>6, <2>2 DEF GetSession
<1>7. ASSUME NEW c \in Calls, NEW todo \in SUBSET Sessions, \A s \in todo : Exists(s),
             Return(c, todo)
      PROVE  LocalsInv'
  <2> DEFINE st == [Idle EXCEPT !.at = "cleanup", !.todo = todo]
  <2>1. CASE Become(c, st)
    <3>1. call'[c] = st /\ st.at = "cleanup" /\ st.todo = todo
      BY <2>1, Becomes DEF Idle
    <3>2. Sound(c)'
      BY <1>7, <3>1, RowsStay DEF Sound
    <3> QED
      BY <1>1, <2>1, <3>2
  <2> QED
    BY <1>3, <1>7, <2>1 DEF Return
<1>8. ASSUME NEW c \in Calls, ListActiveSessions(c)
      PROVE  LocalsInv'
  <2> DEFINE st == [Idle EXCEPT !.at = "durations", !.time = now, !.todo = ActiveSessions]
  <2>1. /\ call'[c].at = "durations" /\ call'[c].time = now
        /\ call'[c].todo = ActiveSessions
    <3>1. call'[c] = st
      BY <1>8, Becomes DEF ListActiveSessions
    <3> QED
      BY <3>1 DEF Idle
  <2>2. Sound(c)'
    BY <2>1, RowsStay DEF Sound, LocalsInv, ActiveSessions, Exists
  <2> QED
    BY <1>1, <1>8, <2>2 DEF ListActiveSessions
<1>9. ASSUME NEW c \in Calls, NEW s \in Sessions, UpdateDuration(c, s)
      PROVE  LocalsInv'
  <2>1. CASE Become(c, [call[c] EXCEPT !.todo = call[c].todo \ {s}])
    <3>1. /\ call'[c].at = "durations" /\ call'[c].time = call[c].time
          /\ call'[c].todo = call[c].todo \ {s}
      BY <1>9, <2>1, Becomes DEF UpdateDuration, TypeOK, CallState
    <3>2. Sound(c)'
      BY <1>2, <1>9, <3>1, RowsStay DEF UpdateDuration, Sound
    <3> QED
      BY <1>1, <2>1, <3>2
  <2> QED
    BY <1>3, <1>9, <2>1 DEF UpdateDuration
<1>10. ASSUME UNCHANGED call
       PROVE  LocalsInv'
  BY <1>10, KeepsSound, RowsStay DEF LocalsInv
<1>11. ASSUME NEW c \in Calls, NEW s \in Sessions, NEW user,
              \/ CreatePageView(c, s)
              \/ CreateEndpointStat(c, s, user)
              \/ CreateFails(c, s, user)
       PROVE  LocalsInv'
  <2>1. \A at : LET st == [Idle EXCEPT !.at = at, !.s = s]
               IN  st.at = at /\ st.s = s /\ st.todo = {}
    BY DEF Idle
  <2>2. \A at : LET st == [Idle EXCEPT !.at = at, !.s = s, !.user = user]
               IN  st.at = at /\ st.s = s /\ st.todo = {}
    BY DEF Idle
  <2>3. CASE CreatePageView(c, s)
    BY <1>4, <2>1, <2>3 DEF CreatePageView
  <2>4. CASE CreateEndpointStat(c, s, user)
    BY <1>4, <2>2, <2>4 DEF CreateEndpointStat
  <2>5. CASE CreateFails(c, s, user)
    BY <1>4, <2>2, <2>5 DEF CreateFails
  <2> QED
    BY <1>11, <2>3, <2>4, <2>5
<1>12. ASSUME NEW c \in Calls,
              \/ GetPageViews(c) \/ GetApiCalls(c)
              \/ UpdateApiCalls(c) \/ CountFails(c) \/ GetOwner(c)
       PROVE  LocalsInv'
  <2>1. CASE GetPageViews(c)
    <3> DEFINE st == [call[c] EXCEPT !.at = "view.update",
                                     !.count = sessions[call[c].s].pageViews]
    <3>1. st.at = "view.update" /\ st.s = call[c].s /\ st.todo = call[c].todo
      BY DEF TypeOK, CallState
    <3>2. Become(c, st) /\ call[c].at = "view.get"
      BY <2>1 DEF GetPageViews
    <3> HIDE DEF st
    <3> QED
      BY <1>5, <3>1, <3>2
  <2>2. CASE GetApiCalls(c)
    <3> DEFINE st == [call[c] EXCEPT !.at = "api.update",
                                     !.count = sessions[call[c].s].apiCalls]
    <3>1. st.at = "api.update" /\ st.s = call[c].s /\ st.todo = call[c].todo
      BY DEF TypeOK, CallState
    <3>2. Become(c, st) /\ call[c].at = "api.get"
      BY <2>2 DEF GetApiCalls
    <3> HIDE DEF st
    <3> QED
      BY <1>5, <3>1, <3>2
  <2>3. CASE UpdateApiCalls(c) \/ CountFails(c)
    <3> DEFINE st == [call[c] EXCEPT !.at = "activity.get", !.count = 0]
    <3>1. st.at = "activity.get" /\ st.s = call[c].s /\ st.todo = call[c].todo
      BY DEF TypeOK, CallState
    <3>2. Become(c, st) /\ call[c].at \in {"api.get", "api.update"}
      BY <2>3 DEF UpdateApiCalls, CountFails, GoOn
    <3> HIDE DEF st
    <3> QED
      BY <1>5, <3>1, <3>2
  <2>4. CASE GetOwner(c)
    <3>1. PICK u \in {call[c].user, None} :
             Become(c, [call[c] EXCEPT !.at = "activity.update", !.user = u])
      BY <2>4 DEF GetOwner
    <3> DEFINE st == [call[c] EXCEPT !.at = "activity.update", !.user = u]
    <3>2. st.at = "activity.update" /\ st.s = call[c].s /\ st.todo = call[c].todo
      BY DEF TypeOK, CallState
    <3>3. Become(c, st) /\ call[c].at = "activity.get"
      BY <2>4, <3>1 DEF GetOwner
    <3> HIDE DEF st
    <3> QED
      BY <1>5, <3>2, <3>3
  <2> QED
    BY <1>12, <2>1, <2>2, <2>3, <2>4
<1>13. ASSUME NEW c \in Calls, UpdatePageViews(c) \/ UpdateActivity(c) \/ Abort(c)
       PROVE  LocalsInv'
  BY <1>3, <1>13 DEF UpdatePageViews, UpdateActivity, Abort
<1>14. ASSUME NEW c \in Calls, NEW s \in Sessions, EndSession(c, s) \/ EndOldSession(c, s)
       PROVE  LocalsInv'
  <2>1. Exists(s)
    BY <1>2, <1>14 DEF EndSession, EndOldSession, Sound
  <2> QED
    BY <1>6, <1>14, <2>1 DEF EndSession, EndOldSession
<1>15. ASSUME NEW c \in Calls, ListOldSessions(c) \/ EndFails(c) \/ UpdateEnd(c)
       PROVE  LocalsInv'
  <2>1. CASE ListOldSessions(c)
    <3> DEFINE old == {s \in ActiveSessions : Old(s)}
    <3>1. old \in SUBSET Sessions /\ (\A s \in old : Exists(s)) /\ Return(c, old)
      BY <2>1 DEF ListOldSessions, ActiveSessions, Exists
    <3> HIDE DEF old
    <3> QED
      BY <1>7, <3>1
  <2>2. CASE EndFails(c) \/ UpdateEnd(c)
    <3>1. \/ Return(c, call[c].todo)
          \/ \E s \in call[c].todo : Return(c, call[c].todo \ {s})
      BY <2>2 DEF EndFails, UpdateEnd
    <3>2. \A T \in SUBSET call[c].todo : T \in SUBSET Sessions /\ \A s \in T : Exists(s)
      BY <1>2 DEF Sound
    <3> QED
      BY <1>7, <3>1, <3>2
  <2> QED
    BY <1>15, <2>1, <2>2
<1>16. ASSUME NEW c \in Calls,
              PageViewStep(c) \/ EndpointStep(c) \/ CleanupStep(c) \/ DurationStep(c)
       PROVE  LocalsInv'
  BY <1>8, <1>9, <1>11, <1>12, <1>13, <1>14, <1>15, <1>16
     DEF PageViewStep, EndpointStep, CleanupStep, DurationStep
<1>17. ASSUME NEW s, NEW user, StartSession(s, user) \/ TrackEvent(s) \/ Tick
       PROVE  LocalsInv'
  <2>1. UNCHANGED call
    BY <1>17 DEF StartSession, TrackEvent, Tick
  <2> QED
    BY <1>10, <2>1
<1>18. CASE UNCHANGED vars
  <2>1. UNCHANGED call
    BY <1>18 DEF vars
  <2> QED
    BY <1>10, <2>1
<1> QED
  BY <1>13, <1>14, <1>15, <1>16, <1>17, <1>18, Membership DEF Next

-----------------------------------------------------------------------------
(* Steps, seen from one counter. *)

(* One call moves: to where it counts as a reader or a writer, or away.     *)
LEMMA AtMoves ==
  ASSUME TypeOK, NEW c \in Calls, NEW st, Become(c, st), NEW s, NEW at
  PROVE  /\ st.at # at \/ st.s # s =>
              /\ At(s, at)' \subseteq At(s, at) \ {c}
              /\ Pending(s, at)' \subseteq Pending(s, at)
         /\ At(s, at)' \subseteq At(s, at) \cup {c}
         /\ Pending(s, at)' \subseteq Pending(s, at) \cup {st.count + 1}
         /\ call[c].at = at /\ call[c].s = s /\ st.at # at =>
              c \in At(s, at) /\ At(s, at)' = At(s, at) \ {c}
<1>1. call'[c] = st /\ \A d \in Calls \ {c} : call'[d] = call[d]
  BY Becomes
<1> QED
  BY <1>1 DEF At, Pending

(* A step that has nothing to do with the counters of s and the rows that   *)
(* they count.                                                              *)
ElsewhereOn(s) ==
  /\ sessions'[s].pageViews = sessions[s].pageViews
  /\ sessions'[s].apiCalls = sessions[s].apiCalls
  /\ UNCHANGED <<pageViewEvents, endpointStats>>
  /\ \/ UNCHANGED call
     \/ \E c \in Calls : \E st :
           /\ Become(c, st)
           /\ st.at \notin {"view.get", "view.update", "api.get", "api.update"}

LEMMA Steps ==
  ASSUME TypeOK, LocalsInv, [Next]_vars, NEW s \in Sessions
  PROVE  \/ ElsewhereOn(s)
         \/ \E x \in Sessions, user \in Users \cup {None} : StartSession(x, user)
         \/ \E x \in Sessions : TrackEvent(x)
         \/ \E c \in Calls :
              \/ PageViewStep(c)
              \/ \E x \in Sessions, user \in Users \cup {None} :
                    CreateEndpointStat(c, x, user)
              \/ GetApiCalls(c)
              \/ UpdateApiCalls(c)
<1> DEFINE Away == {"idle", "activity.get", "activity.update", "end.update",
                    "durations", "cleanup"}
<1>1. ASSUME UNCHANGED tables, NEW c \in Calls, NEW st, Become(c, st), st.at \in Away
      PROVE  ElsewhereOn(s)
  BY <1>1 DEF ElsewhereOn, tables
<1>2. ASSUME sessions'[s].pageViews = sessions[s].pageViews,
             sessions'[s].apiCalls = sessions[s].apiCalls,
             UNCHANGED <<pageViewEvents, endpointStats>>,
             NEW c \in Calls, NEW st, Become(c, st), st.at \in Away
      PROVE  ElsewhereOn(s)
  BY <1>2 DEF ElsewhereOn
<1> HIDE DEF Away
<1>3. Idle.at = "idle" /\ "idle" \in Away
  BY DEF Idle, Away
<1>4. ASSUME NEW c \in Calls, NEW todo, Return(c, todo)
      PROVE  \E st : Become(c, st) /\ st.at \in Away
  <2> DEFINE st == [Idle EXCEPT !.at = "cleanup", !.todo = todo]
  <2>1. st.at \in Away
    BY DEF Idle, Away
  <2> HIDE DEF st
  <2>2. Become(c, Idle) \/ Become(c, st)
    BY <1>4 DEF Return, Finish, st
  <2> QED
    BY <1>3, <2>1, <2>2
<1>5. ASSUME NEW c \in Calls, CountFails(c)
      PROVE  ElsewhereOn(s)
  <2> DEFINE st == [call[c] EXCEPT !.at = "activity.get", !.count = 0]
  <2>1. st.at \in Away
    BY DEF Away, TypeOK, CallState
  <2>2. Become(c, st) /\ UNCHANGED tables
    BY <1>5 DEF CountFails, GoOn
  <2> HIDE DEF st
  <2> QED
    BY <1>1, <2>1, <2>2
<1>6. ASSUME NEW c \in Calls, NEW x \in Sessions, NEW user, CreateFails(c, x, user)
      PROVE  ElsewhereOn(s)
  <2> DEFINE st == [Idle EXCEPT !.at = "activity.get", !.s = x, !.user = user]
  <2>1. st.at \in Away
    BY DEF Away, Idle
  <2>2. Become(c, st) /\ UNCHANGED tables
    BY <1>6 DEF CreateFails
  <2> HIDE DEF st
  <2> QED
    BY <1>1, <2>1, <2>2
<1>7. ASSUME NEW c \in Calls, GetOwner(c)
      PROVE  ElsewhereOn(s)
  <2>1. PICK u \in {call[c].user, None} :
           Become(c, [call[c] EXCEPT !.at = "activity.update", !.user = u])
    BY <1>7 DEF GetOwner
  <2> DEFINE st == [call[c] EXCEPT !.at = "activity.update", !.user = u]
  <2>2. st.at \in Away
    BY DEF Away, TypeOK, CallState
  <2>3. Become(c, st) /\ UNCHANGED tables
    BY <1>7, <2>1 DEF GetOwner
  <2> HIDE DEF st
  <2> QED
    BY <1>1, <2>2, <2>3
<1>8. ASSUME NEW c \in Calls, NEW x \in Sessions, EndSession(c, x) \/ EndOldSession(c, x)
      PROVE  ElsewhereOn(s)
  <2>1. PICK todo : GetSession(c, x, todo)
    BY <1>8 DEF EndSession, EndOldSession
  <2> DEFINE st == [at |-> "end.update", s |-> x, user |-> None,
                    count |-> now - sessions[x].startTime, time |-> now, todo |-> todo]
  <2>2. st.at \in Away
    BY DEF Away
  <2>3. Become(c, st) /\ UNCHANGED tables
    BY <1>8, <2>1 DEF GetSession, EndSession, EndOldSession
  <2> HIDE DEF st
  <2> QED
    BY <1>1, <2>2, <2>3
<1>9. ASSUME NEW c \in Calls, ListOldSessions(c) \/ EndFails(c)
      PROVE  ElsewhereOn(s)
  <2>1. PICK todo : Return(c, todo)
    BY <1>9 DEF ListOldSessions, EndFails
  <2> QED
    BY <1>1, <1>4, <1>9, <2>1 DEF ListOldSessions, EndFails
<1>10. ASSUME NEW c \in Calls, ListActiveSessions(c)
       PROVE  ElsewhereOn(s)
  <2> DEFINE st == [Idle EXCEPT !.at = "durations", !.time = now, !.todo = ActiveSessions]
  <2>1. st.at \in Away
    BY DEF Away, Idle
  <2>2. Become(c, st) /\ UNCHANGED tables
    BY <1>10 DEF ListActiveSessions
  <2> HIDE DEF st
  <2> QED
    BY <1>1, <2>1, <2>2
<1>11. ASSUME NEW c \in Calls, UpdateActivity(c)
       PROVE  ElsewhereOn(s)
  <2>1. /\ sessions'[s].pageViews = sessions[s].pageViews
        /\ sessions'[s].apiCalls = sessions[s].apiCalls
    BY <1>11 DEF UpdateActivity, TypeOK, SessionRow
  <2> QED
    BY <1>2, <1>3, <1>11, <2>1 DEF UpdateActivity, Finish
<1>12. ASSUME NEW c \in Calls, UpdateEnd(c)
       PROVE  ElsewhereOn(s)
  <2>1. /\ sessions'[s].pageViews = sessions[s].pageViews
        /\ sessions'[s].apiCalls = sessions[s].apiCalls
    BY <1>12 DEF UpdateEnd, TypeOK, SessionRow
  <2> QED
    BY <1>2, <1>4, <1>12, <2>1 DEF UpdateEnd
<1>13. ASSUME NEW c \in Calls, NEW x \in Sessions, UpdateDuration(c, x)
       PROVE  ElsewhereOn(s)
  <2> DEFINE st == [call[c] EXCEPT !.todo = call[c].todo \ {x}]
  <2>1. /\ sessions'[s].pageViews = sessions[s].pageViews
        /\ sessions'[s].apiCalls = sessions[s].apiCalls
    BY <1>13 DEF UpdateDuration, TypeOK, SessionRow
  <2>2. st.at \in Away
    BY <1>13 DEF UpdateDuration, Away, TypeOK, CallState
  <2>3. /\ Become(c, Idle) \/ Become(c, st)
        /\ UNCHANGED <<pageViewEvents, endpointStats>>
    BY <1>13 DEF UpdateDuration, Finish
  <2> HIDE DEF st
  <2> QED
    BY <1>2, <1>3, <2>1, <2>2, <2>3
<1>14. ASSUME NEW c \in Calls, Abort(c)
       PROVE  ElsewhereOn(s)
  BY <1>1, <1>3, <1>14 DEF Abort, Finish
<1>15. ASSUME Tick \/ UNCHANGED vars
       PROVE  ElsewhereOn(s)
  BY <1>15 DEF ElsewhereOn, Tick, vars, tables
<1>16. ASSUME NEW c \in Calls, CleanupStep(c) \/ DurationStep(c)
       PROVE  ElsewhereOn(s)
  BY <1>8, <1>9, <1>10, <1>13, <1>16 DEF CleanupStep, DurationStep
<1>17. ASSUME NEW c \in Calls, EndpointStep(c)
       PROVE  \/ ElsewhereOn(s)
              \/ \E x \in Sessions, user \in Users \cup {None} :
                    CreateEndpointStat(c, x, user)
              \/ GetApiCalls(c)
              \/ UpdateApiCalls(c)
  BY <1>5, <1>6, <1>7, <1>11, <1>17 DEF EndpointStep
<1> QED
  BY <1>8, <1>12, <1>14, <1>15, <1>16, <1>17, Membership DEF Next

LEMMA ViewsStep ==
  ASSUME TypeOK, LocalsInv, [Next]_vars, NEW s \in Sessions
  PROVE  LET P == {sessions[s].pageViews} \cup Pending(s, "view.update")
             G == At(s, "view.get")
             N == pageViewEvents[s]
         IN  Proceeds(P, P', G, G', N, N')
<1> DEFINE P == {sessions[s].pageViews} \cup Pending(s, "view.update")
           G == At(s, "view.get")
           N == pageViewEvents[s]
           Quiet == P' \subseteq P /\ G' \subseteq G /\ N <= N'
           Stored == P' \subseteq P /\ N' = N + 1 /\ \E c : G' \subseteq G \cup {c}
           Read == /\ \E n \in P : P' \subseteq P \cup {n + 1}
                   /\ \E c \in G : G' = G \ {c}
                   /\ N = N'
<1>1. N \in Nat
  BY DEF TypeOK
<1>2. ASSUME NEW c \in Calls, NEW st, Become(c, st),
             st.at \notin {"view.get", "view.update"} \/ st.s # s,
             sessions'[s].pageViews \in P, N <= N'
      PROVE  Quiet
  BY <1>2, AtMoves
<1>3. ASSUME UNCHANGED call, sessions'[s].pageViews \in P, N <= N'
      PROVE  Quiet
  BY <1>3 DEF At, Pending
<1>4. UNCHANGED sessions => sessions'[s].pageViews \in P
  OBVIOUS
<1>5. UNCHANGED pageViewEvents => N <= N'
  BY <1>1
<1> HIDE DEF Quiet, Stored, Read
<1>6. ASSUME NEW x \in Sessions, NEW user, StartSession(x, user)
      PROVE  Quiet
  <2>1. sessions'[s].pageViews \in P
    BY <1>6 DEF StartSession, LocalsInv, TypeOK, NoSession
  <2> QED
    BY <1>3, <1>5, <1>6, <2>1 DEF StartSession
<1>7. ASSUME NEW x \in Sessions, TrackEvent(x)
      PROVE  Quiet
  <2>1. N <= N'
    BY <1>1, <1>7 DEF TrackEvent, TypeOK
  <2> QED
    BY <1>3, <1>4, <1>7, <2>1 DEF TrackEvent
<1>8. ASSUME NEW c \in Calls, NEW x \in Sessions, CreatePageView(c, x)
      PROVE  Quiet \/ Stored
  <2> DEFINE st == [Idle EXCEPT !.at = "view.get", !.s = x]
  <2>1. Become(c, st) /\ st.at = "view.get" /\ st.s = x /\ UNCHANGED sessions
    BY <1>8 DEF CreatePageView, Idle
  <2> HIDE DEF st
  <2>2. CASE x # s
    <3>1. N <= N'
      BY <1>1, <1>8, <2>2 DEF CreatePageView, TypeOK
    <3> QED
      BY <1>2, <1>4, <2>1, <2>2, <3>1
  <2>3. CASE x = s
    <3>1. N' = N + 1
      BY <1>8, <2>3 DEF CreatePageView, TypeOK
    <3>2. Pending(s, "view.update")' \subseteq Pending(s, "view.update")
      BY <2>1, AtMoves
    <3>3. G' \subseteq G \cup {c}
      BY <2>1, AtMoves
    <3> QED
      BY <2>1, <3>1, <3>2, <3>3 DEF Stored
  <2> QED
    BY <2>2, <2>3
<1>9. ASSUME NEW c \in Calls, GetPageViews(c)
      PROVE  Quiet \/ Read
  <2> DEFINE st == [call[c] EXCEPT !.at = "view.update",
                                   !.count = sessions[call[c].s].pageViews]
  <2>1. /\ Become(c, st) /\ call[c].at = "view.get"
        /\ UNCHANGED <<sessions, pageViewEvents>>
    BY <1>9 DEF GetPageViews, tables
  <2>2. st.at = "view.update" /\ st.s = call[c].s /\ st.count = sessions[call[c].s].pageViews
    BY DEF TypeOK, CallState
  <2> HIDE DEF st
  <2>3. CASE call[c].s # s
    BY <1>2, <1>4, <1>5, <2>1, <2>2, <2>3
  <2>4. CASE call[c].s = s
    <3>1. Pending(s, "view.update")'
             \subseteq Pending(s, "view.update") \cup {sessions[s].pageViews + 1}
      BY <2>1, <2>2, <2>4, AtMoves
    <3>2. c \in G /\ G' = G \ {c}
      BY <2>1, <2>2, <2>4, AtMoves
    <3>3. N' = N
      BY <2>1
    <3>4. \E n \in P : P' \subseteq P \cup {n + 1}
      BY <2>1, <3>1
    <3> QED
      BY <3>2, <3>3, <3>4 DEF Read
  <2> QED
    BY <2>3, <2>4
<1>10. ASSUME NEW c \in Calls, UpdatePageViews(c)
       PROVE  Quiet
  <2>1. call[c].s \in Sessions
    BY <1>10, Holds DEF UpdatePageViews
  <2>2. sessions'[s].pageViews \in P
    BY <1>10, <2>1 DEF UpdatePageViews, TypeOK, Pending, At
  <2>3. Become(c, Idle) /\ Idle.at = "idle"
    BY <1>10 DEF UpdatePageViews, Finish, Idle
  <2> QED
    BY <1>2, <1>5, <1>10, <2>2, <2>3 DEF UpdatePageViews
<1>11. ASSUME sessions'[s].pageViews = sessions[s].pageViews, UNCHANGED pageViewEvents,
              \/ UNCHANGED call
              \/ \E c \in Calls : \E st :
                    Become(c, st) /\ st.at \notin {"view.get", "view.update"}
       PROVE  Quiet
  BY <1>2, <1>3, <1>5, <1>11
<1>12. ASSUME NEW c \in Calls, NEW x \in Sessions, NEW user, CreateEndpointStat(c, x, user)
       PROVE  Quiet
  <2> DEFINE st == [Idle EXCEPT !.at = "api.get", !.s = x, !.user = user]
  <2>1. Become(c, st) /\ st.at = "api.get"
    BY <1>12 DEF CreateEndpointStat, Idle
  <2> HIDE DEF st
  <2> QED
    BY <1>11, <1>12, <2>1 DEF CreateEndpointStat
<1>13. ASSUME NEW c \in Calls, GetApiCalls(c)
       PROVE  Quiet
  <2> DEFINE st == [call[c] EXCEPT !.at = "api.update",
                                   !.count = sessions[call[c].s].apiCalls]
  <2>1. Become(c, st) /\ st.at = "api.update"
    BY <1>13 DEF GetApiCalls, TypeOK, CallState
  <2> HIDE DEF st
  <2> QED
    BY <1>11, <1>13, <2>1 DEF GetApiCalls, tables
<1>14. ASSUME NEW c \in Calls, UpdateApiCalls(c)
       PROVE  Quiet
  <2> DEFINE st == [call[c] EXCEPT !.at = "activity.get", !.count = 0]
  <2>1. Become(c, st) /\ st.at = "activity.get"
    BY <1>14 DEF UpdateApiCalls, GoOn, Finish, Idle, TypeOK, CallState
  <2> HIDE DEF st
  <2>2. sessions'[s].pageViews = sessions[s].pageViews
    BY <1>14 DEF UpdateApiCalls, TypeOK, SessionRow
  <2> QED
    BY <1>11, <1>14, <2>1, <2>2 DEF UpdateApiCalls
<1>15. Quiet \/ Stored \/ Read
  <2>1. CASE ElsewhereOn(s)
    BY <1>11, <2>1 DEF ElsewhereOn
  <2> QED
    BY <1>6, <1>7, <1>8, <1>9, <1>10, <1>12, <1>13, <1>14, <2>1, Steps DEF PageViewStep
<1> QED
  BY <1>15 DEF Quiet, Stored, Read, Proceeds

LEMMA CallsStep ==
  ASSUME TypeOK, LocalsInv, [Next]_vars, NEW s \in Sessions
  PROVE  LET P == {sessions[s].apiCalls} \cup Pending(s, "api.update")
             G == At(s, "api.get")
             N == endpointStats[s]
         IN  Proceeds(P, P', G, G', N, N')
<1> DEFINE P == {sessions[s].apiCalls} \cup Pending(s, "api.update")
           G == At(s, "api.get")
           N == endpointStats[s]
           Quiet == P' \subseteq P /\ G' \subseteq G /\ N <= N'
           Stored == P' \subseteq P /\ N' = N + 1 /\ \E c : G' \subseteq G \cup {c}
           Read == /\ \E n \in P : P' \subseteq P \cup {n + 1}
                   /\ \E c \in G : G' = G \ {c}
                   /\ N = N'
<1>1. N \in Nat
  BY DEF TypeOK
<1>2. ASSUME NEW c \in Calls, NEW st, Become(c, st),
             st.at \notin {"api.get", "api.update"} \/ st.s # s,
             sessions'[s].apiCalls \in P, N <= N'
      PROVE  Quiet
  BY <1>2, AtMoves
<1>3. ASSUME UNCHANGED call, sessions'[s].apiCalls \in P, N <= N'
      PROVE  Quiet
  BY <1>3 DEF At, Pending
<1>4. UNCHANGED sessions => sessions'[s].apiCalls \in P
  OBVIOUS
<1>5. UNCHANGED endpointStats => N <= N'
  BY <1>1
<1> HIDE DEF Quiet, Stored, Read
<1>6. ASSUME NEW x \in Sessions, NEW user, StartSession(x, user)
      PROVE  Quiet
  <2>1. sessions'[s].apiCalls \in P
    BY <1>6 DEF StartSession, LocalsInv, TypeOK, NoSession
  <2> QED
    BY <1>3, <1>5, <1>6, <2>1 DEF StartSession
<1>7. ASSUME NEW x \in Sessions, TrackEvent(x)
      PROVE  Quiet
  BY <1>3, <1>4, <1>5, <1>7 DEF TrackEvent
<1>8. ASSUME NEW c \in Calls, NEW x \in Sessions, NEW user, CreateEndpointStat(c, x, user)
      PROVE  Quiet \/ Stored
  <2> DEFINE st == [Idle EXCEPT !.at = "api.get", !.s = x, !.user = user]
  <2>1. Become(c, st) /\ st.at = "api.get" /\ st.s = x /\ UNCHANGED sessions
    BY <1>8 DEF CreateEndpointStat, Idle
  <2> HIDE DEF st
  <2>2. CASE x # s
    <3>1. N <= N'
      BY <1>1, <1>8, <2>2 DEF CreateEndpointStat, TypeOK
    <3> QED
      BY <1>2, <1>4, <2>1, <2>2, <3>1
  <2>3. CASE x = s
    <3>1. N' = N + 1
      BY <1>8, <2>3 DEF CreateEndpointStat, TypeOK
    <3>2. Pending(s, "api.update")' \subseteq Pending(s, "api.update")
      BY <2>1, AtMoves
    <3>3. G' \subseteq G \cup {c}
      BY <2>1, AtMoves
    <3> QED
      BY <2>1, <3>1, <3>2, <3>3 DEF Stored
  <2> QED
    BY <2>2, <2>3
<1>9. ASSUME NEW c \in Calls, GetApiCalls(c)
      PROVE  Quiet \/ Read
  <2> DEFINE st == [call[c] EXCEPT !.at = "api.update",
                                   !.count = sessions[call[c].s].apiCalls]
  <2>1. /\ Become(c, st) /\ call[c].at = "api.get"
        /\ UNCHANGED <<sessions, endpointStats>>
    BY <1>9 DEF GetApiCalls, tables
  <2>2. st.at = "api.update" /\ st.s = call[c].s /\ st.count = sessions[call[c].s].apiCalls
    BY DEF TypeOK, CallState
  <2> HIDE DEF st
  <2>3. CASE call[c].s # s
    BY <1>2, <1>4, <1>5, <2>1, <2>2, <2>3
  <2>4. CASE call[c].s = s
    <3>1. Pending(s, "api.update")'
             \subseteq Pending(s, "api.update") \cup {sessions[s].apiCalls + 1}
      BY <2>1, <2>2, <2>4, AtMoves
    <3>2. c \in G /\ G' = G \ {c}
      BY <2>1, <2>2, <2>4, AtMoves
    <3>3. N' = N
      BY <2>1
    <3>4. \E n \in P : P' \subseteq P \cup {n + 1}
      BY <2>1, <3>1
    <3> QED
      BY <3>2, <3>3, <3>4 DEF Read
  <2> QED
    BY <2>3, <2>4
<1>10. ASSUME NEW c \in Calls, UpdateApiCalls(c)
       PROVE  Quiet
  <2>1. call[c].s \in Sessions
    BY <1>10, Holds DEF UpdateApiCalls
  <2>2. sessions'[s].apiCalls \in P
    BY <1>10, <2>1 DEF UpdateApiCalls, TypeOK, Pending, At
  <2> DEFINE st == [call[c] EXCEPT !.at = "activity.get", !.count = 0]
  <2>3. Become(c, st) /\ st.at = "activity.get"
    BY <1>10 DEF UpdateApiCalls, GoOn, TypeOK, CallState
  <2> HIDE DEF st
  <2> QED
    BY <1>2, <1>5, <1>10, <2>2, <2>3 DEF UpdateApiCalls
<1>11. ASSUME sessions'[s].apiCalls = sessions[s].apiCalls, UNCHANGED endpointStats,
              \/ UNCHANGED call
              \/ \E c \in Calls : \E st :
                    Become(c, st) /\ st.at \notin {"api.get", "api.update"}
       PROVE  Quiet
  BY <1>2, <1>3, <1>5, <1>11
<1>12. ASSUME NEW c \in Calls, NEW x \in Sessions, CreatePageView(c, x)
       PROVE  Quiet
  <2> DEFINE st == [Idle EXCEPT !.at = "view.get", !.s = x]
  <2>1. Become(c, st) /\ st.at = "view.get"
    BY <1>12 DEF CreatePageView, Idle
  <2> HIDE DEF st
  <2> QED
    BY <1>11, <1>12, <2>1 DEF CreatePageView
<1>13. ASSUME NEW c \in Calls, GetPageViews(c)
       PROVE  Quiet
  <2> DEFINE st == [call[c] EXCEPT !.at = "view.update",
                                   !.count = sessions[call[c].s].pageViews]
  <2>1. Become(c, st) /\ st.at = "view.update"
    BY <1>13 DEF GetPageViews, TypeOK, CallState
  <2> HIDE DEF st
  <2> QED
    BY <1>11, <1>13, <2>1 DEF GetPageViews, tables
<1>14. ASSUME NEW c \in Calls, UpdatePageViews(c)
       PROVE  Quiet
  <2> DEFINE st == Idle
  <2>1. Become(c, st) /\ st.at = "idle"
    BY <1>14 DEF UpdatePageViews, GoOn, Finish, Idle, TypeOK, CallState
  <2> HIDE DEF st
  <2>2. sessions'[s].apiCalls = sessions[s].apiCalls
    BY <1>14 DEF UpdatePageViews, TypeOK, SessionRow
  <2> QED
    BY <1>11, <1>14, <2>1, <2>2 DEF UpdatePageViews
<1>15. Quiet \/ Stored \/ Read
  <2>1. CASE ElsewhereOn(s)
    BY <1>11, <2>1 DEF ElsewhereOn
  <2> QED
    BY <1>6, <1>7, <1>8, <1>9, <1>10, <1>12, <1>13, <1>14, <2>1, Steps DEF PageViewStep
<1> QED
  BY <1>15 DEF Quiet, Stored, Read, Proceeds

-----------------------------------------------------------------------------
(* The counters, and the inductive invariant. *)

LEMMA AtIsFinite == \A s, at : At(s, at) \in SUBSET Calls
                               /\ At(s, at)' \in SUBSET Calls
  BY DEF At

LEMMA PendingIsNat == TypeOK => \A s, at : Pending(s, at) \subseteq Nat
<1> SUFFICES ASSUME TypeOK
             PROVE  \A s, at : Pending(s, at) \subseteq Nat
  OBVIOUS
<1>1. \A c \in Calls : call[c].count + 1 \in Nat
  BY DEF TypeOK, CallState
<1> QED
  BY <1>1 DEF Pending, At

LEMMA PendingStaysNat == TypeOK' => \A s, at : Pending(s, at)' \subseteq Nat
<1> SUFFICES ASSUME TypeOK'
             PROVE  \A s, at : Pending(s, at)' \subseteq Nat
  OBVIOUS
<1>1. \A c \in Calls : call'[c].count + 1 \in Nat
  BY DEF TypeOK, CallState
<1> QED
  BY <1>1 DEF Pending, At

LEMMA InitIInv == Init => IInv
<1> SUFFICES ASSUME Init
             PROVE  IInv
  OBVIOUS
<1>1. LocalsInv
  BY DEF Init, LocalsInv, Sound, Idle, NoSession
<1>2. \A s \in Sessions, at \in {"view.get", "view.update", "api.get", "api.update"} :
         At(s, at) = {} /\ Pending(s, at) = {}
  BY DEF Init, At, Pending, Idle
<1>3. Cardinality({}) = 0
  BY FS_EmptySet
<1>4. \A s \in Sessions : /\ sessions[s].pageViews = 0 /\ sessions[s].apiCalls = 0
                          /\ pageViewEvents[s] = 0 /\ endpointStats[s] = 0
  BY DEF Init, NoSession
<1>5. \A s \in Sessions : /\ Cardinality(At(s, "view.get")) = 0
                          /\ Cardinality(At(s, "api.get")) = 0
  BY <1>2, <1>3
<1>6. \A s \in Sessions : /\ Pending(s, "view.update") = {}
                          /\ Pending(s, "api.update") = {}
  BY <1>2
<1>7. CountersInv
  BY <1>4, <1>5, <1>6 DEF CountersInv, NoneAhead
<1> QED
  BY <1>1, <1>7, InitTypeOK DEF IInv

LEMMA NextIInv == IInv /\ [Next]_vars => IInv'
<1> SUFFICES ASSUME IInv, [Next]_vars
             PROVE  IInv'
  OBVIOUS
<1>1. /\ TypeOK /\ LocalsInv /\ CountersInv
      /\ TypeOK' /\ LocalsInv'
  BY NextTypeOK, NextLocalsInv DEF IInv
<1>2. ASSUME NEW s \in Sessions
      PROVE  NoneAhead(s, sessions[s].pageViews, pageViewEvents[s],
                       "view.get", "view.update")'
  <2> DEFINE P == {sessions[s].pageViews} \cup Pending(s, "view.update")
             G == At(s, "view.get")
             N == pageViewEvents[s]
  <2>1. P \subseteq Nat /\ P' \subseteq Nat /\ N \in Nat /\ N' \in Nat
    BY <1>1, PendingIsNat, PendingStaysNat DEF TypeOK, SessionRow
  <2>2. G \in SUBSET Calls /\ G' \in SUBSET Calls
    BY AtIsFinite
  <2>3. Counted(P, G, N)
    BY <1>1 DEF CountersInv, NoneAhead, Counted
  <2>4. Proceeds(P, P', G, G', N, N')
    BY <1>1, ViewsStep
  <2> HIDE DEF P, G, N
  <2>5. Counted(P', G', N')
    BY <2>1, <2>2, <2>3, <2>4, CallsAssumption, ReadThenWrite
  <2> QED
    BY <2>5 DEF NoneAhead, Counted, P, G, N
<1>3. ASSUME NEW s \in Sessions
      PROVE  NoneAhead(s, sessions[s].apiCalls, endpointStats[s],
                       "api.get", "api.update")'
  <2> DEFINE P == {sessions[s].apiCalls} \cup Pending(s, "api.update")
             G == At(s, "api.get")
             N == endpointStats[s]
  <2>1. P \subseteq Nat /\ P' \subseteq Nat /\ N \in Nat /\ N' \in Nat
    BY <1>1, PendingIsNat, PendingStaysNat DEF TypeOK, SessionRow
  <2>2. G \in SUBSET Calls /\ G' \in SUBSET Calls
    BY AtIsFinite
  <2>3. Counted(P, G, N)
    BY <1>1 DEF CountersInv, NoneAhead, Counted
  <2>4. Proceeds(P, P', G, G', N, N')
    BY <1>1, CallsStep
  <2> HIDE DEF P, G, N
  <2>5. Counted(P', G', N')
    BY <2>1, <2>2, <2>3, <2>4, CallsAssumption, ReadThenWrite
  <2> QED
    BY <2>5 DEF NoneAhead, Counted, P, G, N
<1> QED
  BY <1>1, <1>2, <1>3 DEF IInv, CountersInv

LEMMA Inductive == Spec => []IInv
<1>1. IInv /\ UNCHANGED vars => IInv'
  BY NextIInv
<1> QED
  BY InitIInv, NextIInv, PTL DEF Spec

LEMMA IInvBounds == IInv => CountersBounded
<1> SUFFICES ASSUME IInv
             PROVE  CountersBounded
  OBVIOUS
<1>1. \A s, at : Cardinality(At(s, at)) \in Nat
  BY AtIsFinite, CallsAssumption, FS_Subset, FS_CardinalityType
<1>2. \A s \in Sessions : /\ sessions[s].pageViews \in Nat /\ sessions[s].apiCalls \in Nat
                          /\ pageViewEvents[s] \in Nat /\ endpointStats[s] \in Nat
  BY DEF IInv, TypeOK, SessionRow
<1>3. \A s \in Sessions :
         /\ sessions[s].pageViews + Cardinality(At(s, "view.get")) <= pageViewEvents[s]
         /\ sessions[s].apiCalls + Cardinality(At(s, "api.get")) <= endpointStats[s]
  BY DEF IInv, CountersInv, NoneAhead
<1> QED
  BY <1>1, <1>2, <1>3 DEF CountersBounded

-----------------------------------------------------------------------------
(* What a step may do to a call: a job lists active sessions only, and      *)
(* updateSessionActivity writes after it has read.                          *)

LEMMA CallStep ==
  ASSUME TypeOK, [Next]_vars, NEW d \in Calls
  PROVE  /\ call'[d].todo \subseteq call[d].todo \cup ActiveSessions
         /\ call'[d].at = "activity.update" => call'[d] = call[d] \/ GetOwner(d)
<1> DEFINE Goal == /\ call'[d].todo \subseteq call[d].todo \cup ActiveSessions
                   /\ call'[d].at = "activity.update" => call'[d] = call[d] \/ GetOwner(d)
<1>1. ASSUME NEW c \in Calls, NEW st, Become(c, st),
             st.todo \subseteq call[c].todo \cup ActiveSessions,
             st.at # "activity.update" \/ GetOwner(c)
      PROVE  Goal
  <2>1. call'[c] = st /\ (d # c => call'[d] = call[d])
    BY <1>1, Becomes
  <2> QED
    BY <1>1, <2>1
<1>2. ASSUME UNCHANGED call
      PROVE  Goal
  BY <1>2
<1> HIDE DEF Goal
<1>3. ASSUME NEW c \in Calls, Finish(c)
      PROVE  Goal
  <2>1. Idle.todo = {} /\ Idle.at = "idle"
    BY DEF Idle
  <2> QED
    BY <1>1, <1>3, <2>1 DEF Finish
<1>4. ASSUME NEW c \in Calls, NEW todo, Return(c, todo),
             todo \subseteq call[c].todo \cup ActiveSessions
      PROVE  Goal
  <2> DEFINE st == [Idle EXCEPT !.at = "cleanup", !.todo = todo]
  <2>1. st.at = "cleanup" /\ st.todo = todo
    BY DEF Idle
  <2>2. Finish(c) \/ Become(c, st)
    BY <1>4 DEF Return
  <2> HIDE DEF st
  <2> QED
    BY <1>1, <1>3, <1>4, <2>1, <2>2
<1>5. ASSUME NEW c \in Calls, NEW x \in Sessions, CreatePageView(c, x)
      PROVE  Goal
  <2> DEFINE st == [Idle EXCEPT !.at = "view.get", !.s = x]
  <2>1. st.at = "view.get" /\ st.todo = {}
    BY DEF Idle
  <2>2. Become(c, st)
    BY <1>5 DEF CreatePageView
  <2> HIDE DEF st
  <2> QED
    BY <1>1, <2>1, <2>2
<1>6. ASSUME NEW c \in Calls, NEW x \in Sessions, NEW user,
             CreateEndpointStat(c, x, user) \/ CreateFails(c, x, user)
      PROVE  Goal
  <2>1. PICK at \in {"api.get", "activity.get"} :
           Become(c, [Idle EXCEPT !.at = at, !.s = x, !.user = user])
    BY <1>6 DEF CreateEndpointStat, CreateFails
  <2> DEFINE st == [Idle EXCEPT !.at = at, !.s = x, !.user = user]
  <2>2. st.at \in {"api.get", "activity.get"} /\ st.todo = {} /\ Become(c, st)
    BY <2>1 DEF Idle
  <2> HIDE DEF st
  <2> QED
    BY <1>1, <2>2
<1>7. ASSUME NEW c \in Calls,
             GetPageViews(c) \/ GetApiCalls(c) \/ UpdateApiCalls(c) \/ CountFails(c)
      PROVE  Goal
  <2>1. CASE GetPageViews(c)
    <3> DEFINE st == [call[c] EXCEPT !.at = "view.update", !.count = sessions[call[c].s].pageViews]
    <3>1. st.at = "view.update" /\ st.todo = call[c].todo
      BY DEF TypeOK, CallState
    <3>2. Become(c, st)
      BY <2>1 DEF GetPageViews
    <3> HIDE DEF st
    <3> QED
      BY <1>1, <3>1, <3>2
  <2>2. CASE GetApiCalls(c)
    <3> DEFINE st == [call[c] EXCEPT !.at = "api.update", !.count = sessions[call[c].s].apiCalls]
    <3>1. st.at = "api.update" /\ st.todo = call[c].todo
      BY DEF TypeOK, CallState
    <3>2. Become(c, st)
      BY <2>2 DEF GetApiCalls
    <3> HIDE DEF st
    <3> QED
      BY <1>1, <3>1, <3>2
  <2>3. CASE UpdateApiCalls(c) \/ CountFails(c)
    <3> DEFINE st == [call[c] EXCEPT !.at = "activity.get", !.count = 0]
    <3>1. st.at = "activity.get" /\ st.todo = call[c].todo
      BY DEF TypeOK, CallState
    <3>2. Become(c, st)
      BY <2>3 DEF UpdateApiCalls, CountFails, GoOn
    <3> HIDE DEF st
    <3> QED
      BY <1>1, <3>1, <3>2
  <2> QED
    BY <1>7, <2>1, <2>2, <2>3
<1>8. ASSUME NEW c \in Calls, GetOwner(c)
      PROVE  Goal
  <2>1. PICK u \in {call[c].user, None} :
           Become(c, [call[c] EXCEPT !.at = "activity.update", !.user = u])
    BY <1>8 DEF GetOwner
  <2> DEFINE st == [call[c] EXCEPT !.at = "activity.update", !.user = u]
  <2>2. st.todo = call[c].todo /\ Become(c, st)
    BY <2>1 DEF TypeOK, CallState
  <2> HIDE DEF st
  <2> QED
    BY <1>1, <1>8, <2>2
<1>9. ASSUME NEW c \in Calls, NEW x \in Sessions, EndSession(c, x) \/ EndOldSession(c, x)
       PROVE  Goal
  <2>1. PICK todo \in SUBSET call[c].todo : GetSession(c, x, todo)
    BY <1>9 DEF EndSession, EndOldSession
  <2> DEFINE st == [at |-> "end.update", s |-> x, user |-> None,
                    count |-> now - sessions[x].startTime, time |-> now, todo |-> todo]
  <2>2. st.at = "end.update" /\ st.todo = todo /\ Become(c, st)
    BY <2>1 DEF GetSession
  <2> HIDE DEF st
  <2> QED
    BY <1>1, <2>1, <2>2
<1>10. ASSUME NEW c \in Calls, UpdateEnd(c) \/ EndFails(c) \/ ListOldSessions(c)
       PROVE  Goal
  <2>1. PICK todo : Return(c, todo) /\ todo \subseteq call[c].todo \cup ActiveSessions
    BY <1>10 DEF UpdateEnd, EndFails, ListOldSessions
  <2> QED
    BY <1>4, <2>1
<1>11. ASSUME NEW c \in Calls, ListActiveSessions(c)
       PROVE  Goal
  <2> DEFINE st == [Idle EXCEPT !.at = "durations", !.time = now, !.todo = ActiveSessions]
  <2>1. st.at = "durations" /\ st.todo = ActiveSessions
    BY DEF Idle
  <2>2. Become(c, st)
    BY <1>11 DEF ListActiveSessions
  <2> HIDE DEF st
  <2> QED
    BY <1>1, <2>1, <2>2
<1>12. ASSUME NEW c \in Calls, NEW x \in Sessions, UpdateDuration(c, x)
       PROVE  Goal
  <2> DEFINE st == [call[c] EXCEPT !.todo = call[c].todo \ {x}]
  <2>1. st.at = "durations" /\ st.todo \subseteq call[c].todo
    BY <1>12 DEF UpdateDuration, TypeOK, CallState
  <2>2. Finish(c) \/ Become(c, st)
    BY <1>12 DEF UpdateDuration
  <2> HIDE DEF st
  <2> QED
    BY <1>1, <1>3, <2>1, <2>2
<1>13. ASSUME NEW c \in Calls, UpdatePageViews(c) \/ UpdateActivity(c) \/ Abort(c)
       PROVE  Goal
  BY <1>3, <1>13 DEF UpdatePageViews, UpdateActivity, Abort
<1>14. ASSUME NEW x, NEW user, StartSession(x, user) \/ TrackEvent(x) \/ Tick
       PROVE  Goal
  <2>1. UNCHANGED call
    BY <1>14 DEF StartSession, TrackEvent, Tick
  <2> QED
    BY <1>2, <2>1
<1>15. ASSUME UNCHANGED vars
       PROVE  Goal
  <2>1. UNCHANGED call
    BY <1>15 DEF vars
  <2> QED
    BY <1>2, <2>1
<1>16. ASSUME NEW c \in Calls,
              PageViewStep(c) \/ EndpointStep(c) \/ CleanupStep(c) \/ DurationStep(c)
       PROVE  Goal
  BY <1>5, <1>6, <1>7, <1>8, <1>9, <1>10, <1>11, <1>12, <1>13, <1>16
     DEF PageViewStep, EndpointStep, CleanupStep, DurationStep
<1>17. Goal
  BY <1>9, <1>10, <1>13, <1>14, <1>15, <1>16, Membership DEF Next
<1> QED
  BY <1>17 DEF Goal

(* What a step may do to the row of a session that exists: only endSession, *)
(* the hourly job and updateSessionActivity touch these columns.            *)
LEMMA RowStep ==
  ASSUME TypeOK, LocalsInv, [Next]_vars, NEW s \in Sessions, Exists(s)
  PROVE  /\ \/ /\ sessions'[s].status = sessions[s].status
               /\ sessions'[s].startTime = sessions[s].startTime
               /\ sessions'[s].endTime = sessions[s].endTime
               /\ sessions'[s].duration = sessions[s].duration
            \/ \E c \in Calls : UpdateEnd(c) /\ call[c].s = s
            \/ \E c \in DurationRuns : UpdateDuration(c, s)
         /\ \/ sessions'[s].user = sessions[s].user
            \/ \E c \in Requests : /\ UpdateActivity(c)
                                   /\ call[c].s = s /\ call[c].user # None
<1> DEFINE Same == /\ sessions'[s].status = sessions[s].status
                   /\ sessions'[s].startTime = sessions[s].startTime
                   /\ sessions'[s].endTime = sessions[s].endTime
                   /\ sessions'[s].duration = sessions[s].duration
           SameUser == sessions'[s].user = sessions[s].user
<1>1. ASSUME NEW x \in Sessions, NEW user, StartSession(x, user)
      PROVE  Same /\ SameUser
  BY <1>1 DEF StartSession, Exists, TypeOK
<1>2. ASSUME NEW c \in Calls, UpdatePageViews(c)
      PROVE  Same /\ SameUser
  BY <1>2 DEF UpdatePageViews, TypeOK, SessionRow
<1>3. ASSUME NEW c \in Calls, UpdateApiCalls(c)
      PROVE  Same /\ SameUser
  BY <1>3 DEF UpdateApiCalls, TypeOK, SessionRow
<1>4. ASSUME NEW c \in Calls, UpdateActivity(c)
      PROVE  /\ Same
             /\ SameUser \/ (call[c].s = s /\ call[c].user # None)
  <2>1. CASE UNCHANGED sessions
    BY <2>1
  <2>2. CASE /\ call[c].user # None
             /\ sessions' = [sessions EXCEPT ![call[c].s].user = call[c].user]
    BY <2>2 DEF TypeOK, SessionRow
  <2> QED
    BY <1>4, <2>1, <2>2 DEF UpdateActivity
<1>5. ASSUME NEW c \in Calls, UpdateEnd(c)
      PROVE  SameUser /\ (Same \/ call[c].s = s)
  BY <1>5 DEF UpdateEnd, TypeOK, SessionRow
<1>6. ASSUME NEW c \in Calls, NEW x \in Sessions, UpdateDuration(c, x)
      PROVE  SameUser /\ (Same \/ x = s)
  BY <1>6 DEF UpdateDuration, TypeOK, SessionRow
<1>7. ASSUME UNCHANGED sessions
      PROVE  Same /\ SameUser
  BY <1>7
<1> HIDE DEF Same, SameUser
<1>8. ASSUME NEW c \in Calls, PageViewStep(c)
      PROVE  Same /\ SameUser
  <2>1. CASE GetPageViews(c)
    BY <1>7, <2>1 DEF GetPageViews, tables
  <2>2. CASE \E x \in Sessions : CreatePageView(c, x)
    BY <1>7, <2>2 DEF CreatePageView
  <2> QED
    BY <1>2, <1>8, <2>1, <2>2 DEF PageViewStep
<1>9. ASSUME NEW c \in Calls, EndpointStep(c)
      PROVE  /\ Same
             /\ SameUser \/ (UpdateActivity(c) /\ call[c].s = s /\ call[c].user # None)
  <2>1. CASE \E x \in Sessions, user \in Users \cup {None} :
                CreateEndpointStat(c, x, user) \/ CreateFails(c, x, user)
    BY <1>7, <2>1 DEF CreateEndpointStat, CreateFails, tables
  <2>2. CASE GetApiCalls(c) \/ CountFails(c) \/ GetOwner(c)
    BY <1>7, <2>2 DEF GetApiCalls, CountFails, GetOwner, tables
  <2> QED
    BY <1>3, <1>4, <1>9, <2>1, <2>2 DEF EndpointStep
<1>10. ASSUME NEW c \in Calls, CleanupStep(c)
       PROVE  Same /\ SameUser
  BY <1>7, <1>10 DEF CleanupStep, ListOldSessions, EndOldSession, EndFails, tables
<1>11. ASSUME NEW c \in Calls, DurationStep(c)
       PROVE  SameUser /\ (Same \/ UpdateDuration(c, s))
  <2>1. CASE ListActiveSessions(c)
    BY <1>7, <2>1 DEF ListActiveSessions, tables
  <2> QED
    BY <1>6, <1>11, <2>1 DEF DurationStep
<1>12. ASSUME NEW c \in Calls, Abort(c) \/ \E x \in Sessions : EndSession(c, x)
       PROVE  Same /\ SameUser
  BY <1>7, <1>12 DEF Abort, EndSession, tables
<1>13. ASSUME Tick \/ (\E x \in Sessions : TrackEvent(x)) \/ UNCHANGED vars
       PROVE  Same /\ SameUser
  <2>1. CASE Tick
    BY <1>7, <2>1 DEF Tick, tables
  <2>2. CASE \E x \in Sessions : TrackEvent(x)
    BY <1>7, <2>2 DEF TrackEvent
  <2>3. CASE UNCHANGED vars
    BY <1>7, <2>3 DEF vars
  <2> QED
    BY <1>13, <2>1, <2>2, <2>3
<1>14. \/ Same
       \/ \E c \in Calls : UpdateEnd(c) /\ call[c].s = s
       \/ \E c \in DurationRuns : UpdateDuration(c, s)
  BY <1>1, <1>5, <1>8, <1>9, <1>10, <1>11, <1>12, <1>13, Membership DEF Next
<1>15. \/ SameUser
       \/ \E c \in Requests : /\ UpdateActivity(c)
                              /\ call[c].s = s /\ call[c].user # None
  BY <1>1, <1>5, <1>8, <1>9, <1>10, <1>11, <1>12, <1>13, Membership DEF Next
<1> QED
  BY <1>14, <1>15 DEF Same, SameUser

LEMMA SettledStep ==
  ASSUME IInv, [Next]_vars, NEW s \in Sessions, Settled(s)
  PROVE  Settled(s)'
<1>1. TypeOK /\ LocalsInv /\ Exists(s) /\ s \notin ActiveSessions
  BY DEF IInv, Settled, Exists, ActiveSessions
<1>2. \A c \in DurationRuns : s \notin call'[c].todo
  BY <1>1, CallStep, Membership DEF Settled
<1>3. ASSUME NEW c \in Calls, UpdateEnd(c), call[c].s = s
      PROVE  /\ sessions'[s].status = "ended"
             /\ sessions'[s].duration = sessions'[s].endTime - sessions'[s].startTime
  <2>1. call[c].count = call[c].time - sessions[s].startTime
    BY <1>1, <1>3 DEF UpdateEnd, LocalsInv, Sound
  <2>2. /\ sessions'[s].status = "ended"
        /\ sessions'[s].duration = call[c].count
        /\ sessions'[s].endTime = call[c].time
        /\ sessions'[s].startTime = sessions[s].startTime
    BY <1>1, <1>3 DEF UpdateEnd, TypeOK, SessionRow
  <2> QED
    BY <2>1, <2>2
<1>4. ~ \E c \in DurationRuns : UpdateDuration(c, s)
  BY DEF Settled, UpdateDuration
<1>5. /\ sessions'[s].status = "ended"
      /\ sessions'[s].duration = sessions'[s].endTime - sessions'[s].startTime
  BY <1>1, <1>3, <1>4, RowStep DEF Settled
<1> QED
  BY <1>2, <1>5 DEF Settled

LEMMA OwnedStep ==
  ASSUME IInv, [Next]_vars, NEW s \in Sessions, Owned(s)
  PROVE  Owned(s)' /\ sessions'[s].user = sessions[s].user
<1>1. TypeOK /\ LocalsInv /\ Exists(s)
  BY DEF IInv, Owned, LocalsInv, NoSession
<1>2. sessions'[s].user = sessions[s].user
  <2>1. ~ \E c \in Requests : /\ UpdateActivity(c)
                              /\ call[c].s = s /\ call[c].user # None
    BY DEF Owned, UpdateActivity
  <2> QED
    BY <1>1, <2>1, RowStep
<1>3. ASSUME NEW c \in Requests, call'[c].at = "activity.update", call'[c].s = s
      PROVE  call'[c].user = None
  <2>1. CASE call'[c] = call[c]
    BY <1>3, <2>1 DEF Owned
  <2>2. CASE GetOwner(c)
    <3> DEFINE user == IF sessions[call[c].s].user = None THEN call[c].user ELSE None
               st == [call[c] EXCEPT !.at = "activity.update", !.user = user]
    <3>1. call'[c] = st
      BY <1>1, <2>2, Becomes, Membership DEF GetOwner
    <3>2. st.s = call[c].s /\ st.user = user
      BY <1>1, Membership DEF TypeOK, CallState
    <3>3. user = None
      BY <1>3, <3>1, <3>2 DEF Owned
    <3> QED
      BY <3>1, <3>2, <3>3
  <2> QED
    BY <1>1, <1>3, <2>1, <2>2, CallStep, Membership
<1> QED
  BY <1>2, <1>3 DEF Owned

-----------------------------------------------------------------------------
(* The tables and the calls in flight keep their types, and the rows of     *)
(* ended sessions, and no others, have an endTime (updateSession).          *)
THEOREM TypeCorrect == Spec => []TypeOK
<1>1. IInv => TypeOK
  BY DEF IInv
<1> QED
  BY <1>1, Inductive, PTL

(* The counters of a session never count what no row records, however many  *)
(* requests race on them and whatever fails (trackPageView,                 *)
(* trackEndpointCall).                                                      *)
THEOREM CountersStayBounded == Spec => []CountersBounded
  BY Inductive, IInvBounds, PTL

(* The duration of an ended session that no hourly run holds stays the time *)
(* between its start and its end (endSession, updateSessionDurations).      *)
THEOREM SettledStays == Spec => SettledDuration
<1>1. IInv /\ [Next]_vars => [\A s \in Sessions : Settled(s) => Settled(s)']_vars
  BY SettledStep
<1> QED
  BY <1>1, Inductive, PTL DEF Spec, SettledDuration

(* A session keeps its owner once no request has read it without one        *)
(* (updateSessionActivity).                                                 *)
THEOREM OwnerStays == Spec => OwnerIsFinal
<1>1. IInv /\ [Next]_vars =>
        [\A s \in Sessions :
            Owned(s) => Owned(s)' /\ sessions'[s].user = sessions[s].user]_vars
  BY OwnedStep
<1> QED
  BY <1>1, Inductive, PTL DEF Spec, OwnerIsFinal

-----------------------------------------------------------------------------
(* The nightly job. *)

(* What a step may do to a nightly run. *)
LEMMA RunStep ==
  ASSUME TypeOK, RunsInv, [Next]_vars, NEW c \in CleanupRuns
  PROVE  \/ call'[c] = call[c]
         \/ ListOldSessions(c)
         \/ \E s \in Sessions : EndOldSession(c, s)
         \/ EndFails(c) \/ UpdateEnd(c) \/ Abort(c)
<1> DEFINE Own == \/ ListOldSessions(c)
                  \/ \E s \in Sessions : EndOldSession(c, s)
                  \/ EndFails(c) \/ UpdateEnd(c) \/ Abort(c)
           Moves(d) == \E st : Become(d, st)
<1>a. c \in Calls /\ c \notin Requests \cup DurationRuns
  BY RunsAssumption, Membership
<1>1. ASSUME NEW d \in Calls, d # c, Moves(d)
      PROVE  call'[c] = call[c]
  BY <1>1, <1>a, Becomes
<1>2. ASSUME NEW d, NEW todo, Return(d, todo)
      PROVE  Moves(d)
  BY <1>2 DEF Return, Finish
<1>3. ASSUME NEW d, PageViewStep(d)
      PROVE  Moves(d)
  BY <1>3 DEF PageViewStep, CreatePageView, GetPageViews, UpdatePageViews, Finish
<1>4. ASSUME NEW d, EndpointStep(d)
      PROVE  Moves(d)
  BY <1>4 DEF EndpointStep, CreateEndpointStat, CreateFails, GetApiCalls, UpdateApiCalls,
              CountFails, GetOwner, UpdateActivity, GoOn, Finish
<1>5. ASSUME NEW d, NEW s, EndSession(d, s) \/ EndOldSession(d, s)
      PROVE  Moves(d)
  BY <1>5 DEF EndSession, EndOldSession, GetSession
<1>6. ASSUME NEW d, DurationStep(d)
      PROVE  Moves(d)
  BY <1>6 DEF DurationStep, ListActiveSessions, UpdateDuration, Finish
<1>7. ASSUME NEW d, ListOldSessions(d) \/ EndFails(d) \/ UpdateEnd(d) \/ Abort(d)
      PROVE  Moves(d)
  <2>1. CASE Abort(d)
    BY <2>1 DEF Abort, Finish
  <2> QED
    BY <1>2, <1>7, <2>1 DEF ListOldSessions, EndFails, UpdateEnd
<1> HIDE DEF Moves
<1>8. ASSUME NEW d \in CleanupRuns, CleanupStep(d)
      PROVE  call'[c] = call[c] \/ Own
  <2>1. CASE d = c
    BY <1>8, <2>1 DEF CleanupStep
  <2>2. CASE d # c
    BY <1>1, <1>5, <1>7, <1>8, <2>2, Membership DEF CleanupStep
  <2> QED
    BY <2>1, <2>2
<1>9. ASSUME NEW d \in Calls, UpdateEnd(d) \/ Abort(d)
      PROVE  call'[c] = call[c] \/ Own
  BY <1>1, <1>7, <1>9
<1>10. ASSUME NEW d \in Requests,
              \/ PageViewStep(d) \/ EndpointStep(d)
              \/ \E s \in Sessions : EndSession(d, s)
       PROVE  call'[c] = call[c]
  BY <1>1, <1>3, <1>4, <1>5, <1>10, <1>a, Membership
<1>11. ASSUME NEW d \in DurationRuns, DurationStep(d)
       PROVE  call'[c] = call[c]
  BY <1>1, <1>6, <1>11, <1>a, Membership
<1>12. ASSUME \/ \E s \in Sessions, user \in Users \cup {None} : StartSession(s, user)
              \/ \E s \in Sessions : TrackEvent(s)
              \/ Tick \/ UNCHANGED vars
       PROVE  call'[c] = call[c]
  BY <1>12 DEF StartSession, TrackEvent, Tick, vars
<1> HIDE DEF Own
<1>13. call'[c] = call[c] \/ Own
  BY <1>8, <1>9, <1>10, <1>11, <1>12 DEF Next
<1> QED
  BY <1>13 DEF Own

(* What each query leaves of a nightly run. *)
LEMMA RunMoves ==
  ASSUME TypeOK, RunsInv, [Next]_vars, NEW c \in CleanupRuns
  PROVE  \/ call'[c] = call[c]
         \/ call'[c].at = "idle" /\ call'[c].todo = {}
         \/ /\ call[c].at = "idle" /\ call'[c].at = "cleanup"
            /\ call'[c].todo = {s \in ActiveSessions : Old(s)} /\ call'[c].todo # {}
         \/ \E s \in call[c].todo :
               /\ call[c].at = "cleanup" /\ call'[c].todo = call[c].todo \ {s}
               /\ \/ call'[c].at = "end.update" /\ call'[c].s = s
                  \/ call'[c].at = "cleanup" /\ call'[c].todo # {}
         \/ /\ call[c].at = "end.update" /\ call'[c].at = "cleanup"
            /\ call'[c].todo = call[c].todo /\ call'[c].todo # {}
<1>a. c \in Calls
  BY Membership
<1>1. ASSUME NEW todo, Return(c, todo)
      PROVE  \/ call'[c].at = "idle" /\ call'[c].todo = {}
             \/ call'[c].at = "cleanup" /\ call'[c].todo = todo /\ todo # {}
  <2>1. Idle.at = "idle" /\ Idle.todo = {}
    BY DEF Idle
  <2>2. /\ [Idle EXCEPT !.at = "cleanup", !.todo = todo].at = "cleanup"
        /\ [Idle EXCEPT !.at = "cleanup", !.todo = todo].todo = todo
    BY DEF Idle
  <2>3. \/ call'[c] = Idle
        \/ call'[c] = [Idle EXCEPT !.at = "cleanup", !.todo = todo] /\ todo # {}
    BY <1>1, <1>a, Becomes DEF Return, Finish
  <2> QED
    BY <2>1, <2>2, <2>3
<1>2. CASE ListOldSessions(c)
  <2> DEFINE old == {s \in ActiveSessions : Old(s)}
  <2>1. call[c].at = "idle" /\ Return(c, old)
    BY <1>2 DEF ListOldSessions
  <2> HIDE DEF old
  <2>2. \/ call'[c].at = "idle" /\ call'[c].todo = {}
        \/ call'[c].at = "cleanup" /\ call'[c].todo = old /\ old # {}
    BY <1>1, <2>1
  <2> QED
    BY <2>1, <2>2 DEF old
<1>3. ASSUME NEW s \in Sessions, EndOldSession(c, s)
      PROVE  /\ s \in call[c].todo /\ call[c].at = "cleanup"
             /\ call'[c].todo = call[c].todo \ {s}
             /\ call'[c].at = "end.update" /\ call'[c].s = s
  <2>1. /\ s \in call[c].todo /\ call[c].at = "cleanup"
        /\ GetSession(c, s, call[c].todo \ {s})
    BY <1>3 DEF EndOldSession
  <2>2. call'[c] = [at |-> "end.update", s |-> s, user |-> None,
                    count |-> now - sessions[s].startTime, time |-> now,
                    todo |-> call[c].todo \ {s}]
    BY <2>1, <1>a, Becomes DEF GetSession
  <2> QED
    BY <2>1, <2>2
<1>4. CASE EndFails(c)
  <2>1. CASE call[c].at = "end.update" /\ Return(c, call[c].todo)
    BY <1>1, <2>1
  <2>2. ASSUME NEW s \in call[c].todo, call[c].at = "cleanup",
               Return(c, call[c].todo \ {s})
        PROVE  \/ call'[c].at = "idle" /\ call'[c].todo = {}
               \/ /\ call'[c].at = "cleanup" /\ call'[c].todo = call[c].todo \ {s}
                  /\ call'[c].todo # {}
    BY <1>1, <2>2
  <2> QED
    BY <1>4, <2>1, <2>2 DEF EndFails
<1>5. CASE UpdateEnd(c)
  BY <1>1, <1>5 DEF UpdateEnd
<1>6. CASE Abort(c)
  BY <1>6, <1>a, Becomes DEF Abort, Finish, Idle
<1> QED
  BY <1>2, <1>3, <1>4, <1>5, <1>6, RunStep

LEMMA OldStays ==
  ASSUME IInv, [Next]_vars, NEW s \in Sessions, Exists(s), Old(s)
  PROVE  Old(s)'
<1>1. TypeOK /\ TypeOK' /\ LocalsInv
  BY NextIInv DEF IInv
<1>2. sessions'[s].startTime = sessions[s].startTime /\ now <= now'
  BY <1>1, RowsStay
<1>3. now \in Nat /\ now' \in Nat /\ sessions[s].startTime \in Nat /\ MaxAge \in Nat
  BY <1>1, NumbersAssumption DEF TypeOK, SessionRow
<1>4. sessions'[s].startTime + MaxAge < now'
  BY <1>2, <1>3 DEF Old
<1> QED
  BY <1>4 DEF Old

LEMMA RunsInvStep == IInv /\ RunsInv /\ [Next]_vars => RunsInv'
<1> SUFFICES ASSUME IInv, RunsInv, [Next]_vars, NEW c \in CleanupRuns
             PROVE  OldInHand(c)'
  BY DEF RunsInv
<1>a. TypeOK /\ LocalsInv /\ c \in Calls /\ OldInHand(c) /\ Sound(c)
      /\ call[c].todo \subseteq Sessions
  BY Membership DEF IInv, RunsInv, LocalsInv, TypeOK, CallState
<1>b. \A s \in call[c].todo : Old(s) /\ Old(s)'
  BY <1>a, OldStays DEF OldInHand, Sound
<1>1. CASE call'[c] = call[c]
  <2>1. call[c].at = "end.update" => Old(call[c].s)'
    <3>1. ASSUME call[c].at = "end.update"
          PROVE  \E s \in Sessions : s = call[c].s /\ Exists(s) /\ Old(s)
      BY <1>a, <3>1 DEF OldInHand, Sound
    <3>2. ASSUME NEW s \in Sessions, s = call[c].s, Exists(s), Old(s), call'[c] = call[c]
          PROVE  Old(call[c].s)'
      <4>1. Old(s)'
        BY <3>2, OldStays
      <4> QED
        BY <4>1, <3>2 DEF Old
    <3> QED
      BY <3>1, <3>2, <1>1
  <2> QED
    BY <1>1, <1>a, <1>b, <2>1 DEF OldInHand
<1>2. CASE call'[c].at = "idle" /\ call'[c].todo = {}
  BY <1>2 DEF OldInHand
<1>3. CASE /\ call'[c].at = "cleanup"
           /\ call'[c].todo = {s \in ActiveSessions : Old(s)} /\ call'[c].todo # {}
  <2>1. ASSUME NEW s \in ActiveSessions, Old(s)
        PROVE  Old(s)'
    BY <2>1, OldStays DEF ActiveSessions, Exists
  <2> QED
    BY <1>3, <2>1 DEF OldInHand
<1>4. ASSUME NEW s \in call[c].todo, call'[c].todo = call[c].todo \ {s},
             \/ call'[c].at = "end.update" /\ call'[c].s = s
             \/ call'[c].at = "cleanup" /\ call'[c].todo # {}
      PROVE  OldInHand(c)'
  <2>1. call'[c].at = "end.update" => Old(call[c].s)'
    BY <1>b, <1>4 DEF Old
  <2> QED
    BY <1>b, <1>4, <2>1 DEF OldInHand
<1>5. CASE call'[c].at = "cleanup" /\ call'[c].todo = call[c].todo /\ call'[c].todo # {}
  BY <1>b, <1>5 DEF OldInHand
<1> QED
  BY <1>a, <1>1, <1>2, <1>3, <1>4, <1>5, RunMoves

LEMMA RunsKept == Spec => []RunsInv
<1>1. Init => RunsInv
  BY Membership DEF Init, RunsInv, OldInHand, Idle
<1> QED
  BY <1>1, Inductive, RunsInvStep, PTL DEF Spec

(* OldUntilEnded: an old session stays active and old until endSession ends *)
(* it, for a client or for the job, and an ended one does not come back.    *)
THEOREM OldOnesWait == Spec => OldUntilEnded
<1>1. ASSUME IInv, [Next]_vars, NEW s \in Sessions
      PROVE  /\ sessions[s].status = "active" /\ Old(s) =>
                   \/ sessions'[s].status = "active" /\ Old(s)'
                   \/ \E c \in Calls : UpdateEnd(c) /\ call[c].s = s
             /\ sessions[s].status = "ended" => sessions'[s].status = "ended"
  <2>a. TypeOK /\ LocalsInv
    BY <1>1 DEF IInv
  <2>1. ASSUME NEW c \in Calls, UpdateEnd(c), call[c].s = s
        PROVE  sessions'[s].status = "ended"
    BY <2>a, <2>1 DEF UpdateEnd, TypeOK, SessionRow
  <2>2. ASSUME NEW c \in DurationRuns, UpdateDuration(c, s)
        PROVE  sessions'[s].status = sessions[s].status
    BY <2>a, <2>2 DEF UpdateDuration, TypeOK, SessionRow
  <2>3. Exists(s) => \/ sessions'[s].status = sessions[s].status
                     \/ \E c \in Calls : UpdateEnd(c) /\ call[c].s = s
    BY <1>1, <2>a, <2>2, RowStep
  <2> QED
    BY <1>1, <2>1, <2>3, OldStays DEF Exists
<1>2. IInv /\ [Next]_vars =>
        [\A s \in Sessions :
            /\ sessions[s].status = "active" /\ Old(s) =>
                  \/ sessions'[s].status = "active" /\ Old(s)'
                  \/ \E c \in Calls : UpdateEnd(c) /\ call[c].s = s
            /\ sessions[s].status = "ended" => sessions'[s].status = "ended"]_vars
  BY <1>1
<1> QED
  BY <1>2, Inductive, PTL DEF Spec, OldUntilEnded

(* NightlyRunsEnd: every query of a run of cleanupOldSessions brings it     *)
(* nearer to its end, whether it fails or not, and the run ends old         *)
(* sessions only.                                                           *)
THEOREM NightlyRunsShrink == Spec => NightlyRunsEnd
<1>1. ASSUME IInv, RunsInv, [Next]_vars, NEW c \in CleanupRuns, call[c].at # "idle"
      PROVE  call'[c] = call[c] \/ QueriesLeft(c)' < QueriesLeft(c)
  <2> DEFINE n == Cardinality(call[c].todo)
  <2>a. TypeOK /\ OldInHand(c) /\ call[c].todo \subseteq Sessions
    BY <1>1, Membership DEF IInv, RunsInv, TypeOK, CallState
  <2>b. IsFiniteSet(call[c].todo)
    BY <2>a, SessionsAssumption, FS_Subset
  <2>c. n \in Nat /\ \A s \in call[c].todo : n # 0 /\ Cardinality(call[c].todo \ {s}) = n - 1
    BY <2>b, FS_CardinalityType, FS_RemoveElement, FS_EmptySet
  <2>d. Cardinality({}) = 0
    BY FS_EmptySet
  <2> HIDE DEF n
  <2>1. CASE call'[c].at = "idle" /\ call'[c].todo = {}
    <3>1. QueriesLeft(c)' = 0
      BY <2>1, <2>d DEF QueriesLeft, Updating
    <3>2. CASE call[c].at = "end.update"
      BY <3>1, <3>2, <2>c DEF QueriesLeft, Updating, n
    <3>3. CASE call[c].at = "cleanup"
      <4>1. n # 0
        BY <1>1, <2>a, <2>b, <3>3, FS_EmptySet DEF OldInHand, n
      <4> QED
        BY <3>1, <3>3, <4>1, <2>c DEF QueriesLeft, Updating, n
    <3> QED
      BY <1>1, <2>a, <3>2, <3>3 DEF OldInHand
  <2>2. ASSUME NEW s \in call[c].todo, call[c].at = "cleanup",
               call'[c].todo = call[c].todo \ {s},
               call'[c].at \in {"end.update", "cleanup"}
        PROVE  QueriesLeft(c)' < QueriesLeft(c)
    <3>1. /\ Cardinality(call'[c].todo) = n - 1 /\ n # 0
          /\ Updating(c)' \in {0, 1} /\ Updating(c) = 0
      BY <2>2, <2>c DEF Updating
    <3> QED
      BY <3>1, <2>c DEF QueriesLeft, n
  <2>3. CASE /\ call[c].at = "end.update" /\ call'[c].at = "cleanup"
             /\ call'[c].todo = call[c].todo
    BY <2>3, <2>c DEF QueriesLeft, Updating, n
  <2> QED
    BY <1>1, <2>a, <2>1, <2>2, <2>3, RunMoves
<1>2. ASSUME RunsInv, NEW c \in CleanupRuns, UpdateEnd(c)
      PROVE  Old(call[c].s)
  BY <1>2 DEF RunsInv, OldInHand, UpdateEnd
<1>3. IInv /\ RunsInv /\ [Next]_vars =>
        [\A c \in CleanupRuns :
            /\ call[c].at # "idle" =>
                  call'[c] = call[c] \/ QueriesLeft(c)' < QueriesLeft(c)
            /\ UpdateEnd(c) => Old(call[c].s)]_vars
  BY <1>1, <1>2
<1> QED
  BY <1>3, Inductive, RunsKept, PTL DEF Spec, NightlyRunsEnd

=============================================================================
