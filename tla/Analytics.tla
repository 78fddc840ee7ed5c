----------------------------- MODULE Analytics ------------------------------
(***************************************************************************)
(* The analytics service (src/modules/analytics): sessions of visitors,    *)
(* the rows that record page views and calls of endpoints, and the         *)
(* counters of a session, which are read, incremented and written back in  *)
(* queries of their own.  Two cron jobs work on the sessions beside the    *)
(* requests: one stores the duration of the active ones every hour, one    *)
(* ends at midnight those that are too old.                                *)
(*                                                                         *)
(* Every method catches what its queries throw.  A failure therefore ends  *)
(* the method, and its caller goes on as if it had succeeded.              *)
(***************************************************************************)
EXTENDS Naturals, FiniteSets

CONSTANTS
    Requests,       \* requests in flight: visitors and the middleware
    DurationRuns,   \* runs of updateSessionDurations that may overlap
    CleanupRuns,    \* runs of cleanupOldSessions that may overlap
    Sessions,       \* session ids; random, and so are the rows
    Users,          \* wallet addresses
    None,
    MaxAge,         \* thirty days
    MaxTime,        \* bound of the model: the clock stops there
    MaxEvents       \* bound of the model: rows of a session in those tables

Calls == Requests \cup DurationRuns \cup CleanupRuns

ASSUME NumbersAssumption == {MaxAge, MaxTime, MaxEvents} \subseteq Nat
ASSUME CallsAssumption == IsFiniteSet(Calls)
ASSUME RunsAssumption == CleanupRuns \cap (Requests \cup DurationRuns) = {}
ASSUME SessionsAssumption == IsFiniteSet(Sessions)
ASSUME NoneAssumption == None \notin Sessions \cup Users \cup Nat

VARIABLES
    now,                \* the wall clock, in seconds
    sessions,           \* table analytics_user_sessions
    pageViewEvents,     \* page_view rows of analytics_events, by session
    endpointStats,      \* rows of analytics_endpoint_stats, by session
    call                \* requests and runs: where each stands, its locals

vars == <<now, sessions, pageViewEvents, endpointStats, call>>

-----------------------------------------------------------------------------
SessionRow == [status: {"none", "active", "ended"}, startTime: Nat,
               endTime: Nat \cup {None}, duration: Nat,
               pageViews: Nat, apiCalls: Nat, user: Users \cup {None}]

(* A row that does not exist yet. *)
NoSession == [status |-> "none", startTime |-> 0, endTime |-> None,
              duration |-> 0, pageViews |-> 0, apiCalls |-> 0, user |-> None]

(* "count" is a counter that was read, or a duration that was computed;     *)
(* "todo" are the sessions that a job has listed and not yet worked on.     *)
CallState ==
    [at: {"idle", "view.get", "view.update", "api.get", "api.update",
          "activity.get", "activity.update", "end.update",
          "durations", "cleanup"},
     s: Sessions \cup {None}, user: Users \cup {None},
     count: Nat, time: Nat, todo: SUBSET Sessions]

Idle == [at |-> "idle", s |-> None, user |-> None,
         count |-> 0, time |-> 0, todo |-> {}]

Become(c, st) == call' = [call EXCEPT ![c] = st]
Finish(c) == Become(c, Idle)

Exists(s) == sessions[s].status # "none"
ActiveSessions == {s \in Sessions : sessions[s].status = "active"}

tables == <<sessions, pageViewEvents, endpointStats>>

Init ==
    /\ now = 0
    /\ sessions = [s \in Sessions |-> NoSession]
    /\ pageViewEvents = [s \in Sessions |-> 0]
    /\ endpointStats = [s \in Sessions |-> 0]
    /\ call = [c \in Calls |-> Idle]

-----------------------------------------------------------------------------
(* startSession, trackEvent *)

StartSession(s, user) ==
    /\ ~Exists(s)
    /\ sessions' = [sessions EXCEPT ![s] =
                       [NoSession EXCEPT !.status = "active",
                                         !.startTime = now, !.user = user]]
    /\ UNCHANGED <<now, pageViewEvents, endpointStats, call>>

(* A client may send an event of type page_view by itself; the counter of   *)
(* the session does not know of it.                                         *)
TrackEvent(s) ==
    /\ Exists(s)
    /\ pageViewEvents[s] + endpointStats[s] < MaxEvents
    /\ pageViewEvents' = [pageViewEvents EXCEPT ![s] = @ + 1]
    /\ UNCHANGED <<now, sessions, endpointStats, call>>

-----------------------------------------------------------------------------
(* trackPageView *)

(* Slip: the event is created in a try block of its own *)
CreatePageViewOrNot(c, s) ==
    /\ call[c].at = "idle"
    /\ Exists(s)
    /\ pageViewEvents[s] + endpointStats[s] < MaxEvents
    /\ \/ pageViewEvents' = [pageViewEvents EXCEPT ![s] = @ + 1]
       \/ UNCHANGED pageViewEvents
    /\ Become(c, [Idle EXCEPT !.at = "view.get", !.s = s])
    /\ UNCHANGED <<now, sessions, endpointStats>>

CreatePageView(c, s) ==
    /\ call[c].at = "idle"
    /\ Exists(s)
    /\ pageViewEvents[s] + endpointStats[s] < MaxEvents
    /\ pageViewEvents' = [pageViewEvents EXCEPT ![s] = @ + 1]
    /\ Become(c, [Idle EXCEPT !.at = "view.get", !.s = s])
    /\ UNCHANGED <<now, sessions, endpointStats>>

GetPageViews(c) ==
    /\ call[c].at = "view.get"
    /\ Become(c, [call[c] EXCEPT !.at = "view.update",
                                 !.count = sessions[call[c].s].pageViews])
    /\ UNCHANGED <<now, tables>>

UpdatePageViews(c) ==
    /\ call[c].at = "view.update"
    /\ sessions' = [sessions EXCEPT ![call[c].s].pageViews = call[c].count + 1]
    /\ Finish(c)
    /\ UNCHANGED <<now, pageViewEvents, endpointStats>>

-----------------------------------------------------------------------------
(* The middleware runs trackEndpointCall and then updateSessionActivity     *)
(* when the response to any other request has been sent.                    *)

GoOn(c) == Become(c, [call[c] EXCEPT !.at = "activity.get", !.count = 0])

CreateEndpointStat(c, s, user) ==
    /\ call[c].at = "idle"
    /\ Exists(s)
    /\ pageViewEvents[s] + endpointStats[s] < MaxEvents
    /\ endpointStats' = [endpointStats EXCEPT ![s] = @ + 1]
    /\ Become(c, [Idle EXCEPT !.at = "api.get", !.s = s, !.user = user])
    /\ UNCHANGED <<now, sessions, pageViewEvents>>

(* The insert fails: trackEndpointCall ends there, the middleware goes on. *)
CreateFails(c, s, user) ==
    /\ call[c].at = "idle"
    /\ Exists(s)
    /\ Become(c, [Idle EXCEPT !.at = "activity.get", !.s = s, !.user = user])
    /\ UNCHANGED <<now, tables>>

GetApiCalls(c) ==
    /\ call[c].at = "api.get"
    /\ Become(c, [call[c] EXCEPT !.at = "api.update",
                                 !.count = sessions[call[c].s].apiCalls])
    /\ UNCHANGED <<now, tables>>

UpdateApiCalls(c) ==
    /\ call[c].at = "api.update"
    /\ sessions' = [sessions EXCEPT ![call[c].s].apiCalls = call[c].count + 1]
    /\ GoOn(c)
    /\ UNCHANGED <<now, pageViewEvents, endpointStats>>

CountFails(c) ==
    /\ call[c].at \in {"api.get", "api.update"}
    /\ GoOn(c)
    /\ UNCHANGED <<now, tables>>

(* Slip: the session takes the address of whoever used it last *)
GetOwnerUnchecked(c) ==
    /\ call[c].at = "activity.get"
    /\ Become(c, [call[c] EXCEPT !.at = "activity.update"])
    /\ UNCHANGED <<now, tables>>

(* The address goes into the update only if the session has none. *)
GetOwner(c) ==
    LET owner == sessions[call[c].s].user
        user == IF owner = None THEN call[c].user ELSE None
    IN  /\ call[c].at = "activity.get"
        /\ Become(c, [call[c] EXCEPT !.at = "activity.update", !.user = user])
        /\ UNCHANGED <<now, tables>>

UpdateActivity(c) ==
    LET user == call[c].user IN
    /\ call[c].at = "activity.update"
    /\ \/ user = None /\ UNCHANGED sessions
       \/ user # None /\ sessions' = [sessions EXCEPT ![call[c].s].user = user]
    /\ Finish(c)
    /\ UNCHANGED <<now, pageViewEvents, endpointStats>>

-----------------------------------------------------------------------------
(* endSession, of a client or of the cleanup job.  Whether the session is   *)
(* still active is not looked at.                                           *)

GetSession(c, s, todo) ==
    Become(c, [at |-> "end.update", s |-> s, user |-> None,
               count |-> now - sessions[s].startTime, time |-> now,
               todo |-> todo])

EndSession(c, s) ==
    /\ call[c].at = "idle"
    /\ Exists(s)
    /\ GetSession(c, s, {})
    /\ UNCHANGED <<now, tables>>

(* The job goes on with the next session, a client's call is over. *)
Return(c, todo) ==
    \/ todo = {} /\ Finish(c)
    \/ todo # {} /\ Become(c, [Idle EXCEPT !.at = "cleanup", !.todo = todo])

(* Slip: isActive is left as it is *)
UpdateEndActive(c) ==
    /\ call[c].at = "end.update"
    /\ sessions' = [sessions EXCEPT ![call[c].s].endTime = call[c].time,
                                    ![call[c].s].duration = call[c].count]
    /\ Return(c, call[c].todo)
    /\ UNCHANGED <<now, pageViewEvents, endpointStats>>

UpdateEnd(c) ==
    /\ call[c].at = "end.update"
    /\ sessions' = [sessions EXCEPT ![call[c].s].endTime = call[c].time,
                                    ![call[c].s].duration = call[c].count,
                                    ![call[c].s].status = "ended"]
    /\ Return(c, call[c].todo)
    /\ UNCHANGED <<now, pageViewEvents, endpointStats>>

-----------------------------------------------------------------------------
(* cleanupOldSessions *)

Old(s) == sessions[s].startTime + MaxAge < now

(* Slip: the comparison the other way round *)
ListYoungSessions(c) ==
    LET old == {s \in ActiveSessions : ~Old(s)} IN
    /\ call[c].at = "idle"
    /\ old # {}
    /\ Return(c, old)
    /\ UNCHANGED <<now, tables>>

ListOldSessions(c) ==
    LET old == {s \in ActiveSessions : Old(s)} IN
    /\ call[c].at = "idle"
    /\ old # {}
    /\ Return(c, old)
    /\ UNCHANGED <<now, tables>>

EndOldSession(c, s) ==
    /\ call[c].at = "cleanup"
    /\ s \in call[c].todo
    /\ GetSession(c, s, call[c].todo \ {s})
    /\ UNCHANGED <<now, tables>>

(* endSession fails, at its find or at its update; the job goes on. *)
EndFails(c) ==
    /\ \/ /\ call[c].at = "cleanup"
          /\ \E s \in call[c].todo : Return(c, call[c].todo \ {s})
       \/ call[c].at = "end.update" /\ Return(c, call[c].todo)
    /\ UNCHANGED <<now, tables>>

-----------------------------------------------------------------------------
(* updateSessionDurations *)

(* Slip: all sessions are listed *)
ListSessions(c) ==
    LET all == {s \in Sessions : Exists(s)} IN
    /\ call[c].at = "idle"
    /\ all # {}
    /\ Become(c, [Idle EXCEPT !.at = "durations", !.time = now, !.todo = all])
    /\ UNCHANGED <<now, tables>>

ListActiveSessions(c) ==
    /\ call[c].at = "idle"
    /\ ActiveSessions # {}
    /\ Become(c, [Idle EXCEPT !.at = "durations", !.time = now,
                              !.todo = ActiveSessions])
    /\ UNCHANGED <<now, tables>>

UpdateDuration(c, s) ==
    LET rest == call[c].todo \ {s} IN
    /\ call[c].at = "durations"
    /\ s \in call[c].todo
    /\ sessions' = [sessions EXCEPT ![s].duration =
                       call[c].time - sessions[s].startTime]
    /\ \/ rest = {} /\ Finish(c)
       \/ rest # {} /\ Become(c, [call[c] EXCEPT !.todo = rest])
    /\ UNCHANGED <<now, pageViewEvents, endpointStats>>

-----------------------------------------------------------------------------
(* A query rejects and ends the handler or the run, or the process goes     *)
(* down.                                                                    *)
Abort(c) ==
    /\ call[c].at # "idle"
    /\ Finish(c)
    /\ UNCHANGED <<now, tables>>

Tick ==
    /\ now < MaxTime
    /\ now' = now + 1
    /\ UNCHANGED <<tables, call>>

PageViewStep(c) ==
    \/ \E s \in Sessions : CreatePageView(c, s)
    \/ GetPageViews(c)
    \/ UpdatePageViews(c)

EndpointStep(c) ==
    \/ \E s \in Sessions, user \in Users \cup {None} :
          CreateEndpointStat(c, s, user) \/ CreateFails(c, s, user)
    \/ GetApiCalls(c)
    \/ UpdateApiCalls(c)
    \/ CountFails(c)
    \/ GetOwner(c)
    \/ UpdateActivity(c)

CleanupStep(c) ==
    \/ ListOldSessions(c)
    \/ \E s \in Sessions : EndOldSession(c, s)
    \/ EndFails(c)

DurationStep(c) ==
    \/ ListActiveSessions(c)
    \/ \E s \in Sessions : UpdateDuration(c, s)

Next ==
    \/ \E s \in Sessions, user \in Users \cup {None} : StartSession(s, user)
    \/ \E s \in Sessions : TrackEvent(s)
    \/ \E c \in Requests : \/ PageViewStep(c)
                           \/ EndpointStep(c)
                           \/ \E s \in Sessions : EndSession(c, s)
    \/ \E c \in DurationRuns : DurationStep(c)
    \/ \E c \in CleanupRuns : CleanupStep(c)
    \/ \E c \in Calls : UpdateEnd(c) \/ Abort(c)
    \/ Tick

(* Midnight comes again and again, and a query of the nightly job that is   *)
(* tried again and again succeeds in the end.                               *)
CleanupFairness ==
    \A c \in CleanupRuns :
        /\ SF_vars(ListOldSessions(c))
        /\ \A s \in Sessions :
              /\ SF_vars(EndOldSession(c, s))
              /\ SF_vars(call[c].s = s /\ UpdateEnd(c))

Spec == Init /\ [][Next]_vars
LiveSpec == Spec /\ CleanupFairness

-----------------------------------------------------------------------------
(* The tables and the calls in flight keep their types; in particular the   *)
(* rows of ended sessions, and no others, have an endTime.                  *)
TypeOK ==
    /\ now \in Nat
    /\ sessions \in [Sessions -> SessionRow]
    /\ \A s \in Sessions : sessions[s].endTime # None <=> sessions[s].status = "ended"
    /\ {pageViewEvents, endpointStats} \subseteq [Sessions -> Nat]
    /\ call \in [Calls -> CallState]

(* Updates of a counter may be lost, when requests of a session read it     *)
(* before either has written it, but it never counts what no row records,   *)
(* whatever fails in between (trackPageView, trackEndpointCall).            *)
CountersBounded ==
    \A s \in Sessions : /\ sessions[s].pageViews <= pageViewEvents[s]
                        /\ sessions[s].apiCalls <= endpointStats[s]

(* An ended session that no run of updateSessionDurations has listed.       *)
Settled(s) ==
    /\ sessions[s].status = "ended"
    /\ sessions[s].duration = sessions[s].endTime - sessions[s].startTime
    /\ \A c \in DurationRuns : s \notin call[c].todo

(* The duration of an ended session stays the time between its start and    *)
(* its end, however often clients and the nightly job end it again, once no *)
(* hourly run holds it that listed it while it was active (endSession,      *)
(* updateSessionDurations).                                                 *)
SettledDuration == [][\A s \in Sessions : Settled(s) => Settled(s)']_vars

(* A session has an owner, and no request read it while it had none.        *)
Owned(s) ==
    /\ sessions[s].user # None
    /\ \A c \in Requests :
          call[c].at = "activity.update" /\ call[c].s = s => call[c].user = None

(* The session then keeps its owner (updateSessionActivity).  A request     *)
(* that read the row earlier may put another address in its place.          *)
OwnerIsFinal ==
    [][\A s \in Sessions :
          Owned(s) => Owned(s)' /\ sessions'[s].user = sessions[s].user]_vars

(* A session that outlives thirty days is ended in the end, however often   *)
(* a night's job fails (cleanupOldSessions).                                *)
OldSessionsEnd ==
    \A s \in Sessions :
        sessions[s].status = "active" /\ Old(s) ~> sessions[s].status = "ended"

(* Why it does: until somebody ends it, an old session stays active and     *)
(* old, so that the next night lists it again, and none that has ended      *)
(* comes back.                                                              *)
OldUntilEnded ==
    [][\A s \in Sessions :
          /\ sessions[s].status = "active" /\ Old(s) =>
                \/ sessions'[s].status = "active" /\ Old(s)'
                \/ \E c \in Calls : UpdateEnd(c) /\ call[c].s = s
          /\ sessions[s].status = "ended" => sessions'[s].status = "ended"]_vars

(* How many queries a nightly run has left at the most. *)
Updating(c) == IF call[c].at = "end.update" THEN 1 ELSE 0
QueriesLeft(c) == 2 * Cardinality(call[c].todo) + Updating(c)

(* A run of cleanupOldSessions is done after two queries for each session   *)
(* of its list, whatever fails or races it; and although it never looks at  *)
(* a session again once the list is made, it ends none that is not old.     *)
NightlyRunsEnd ==
    [][\A c \in CleanupRuns :
          /\ call[c].at # "idle" =>
                call'[c] = call[c] \/ QueriesLeft(c)' < QueriesLeft(c)
          /\ UpdateEnd(c) => Old(call[c].s)]_vars

(* What keeps it. *)
OldInHand(c) ==
    /\ call[c].at \in {"idle", "cleanup", "end.update"}
    /\ call[c].at = "cleanup" => call[c].todo # {}
    /\ \A s \in call[c].todo : Old(s)
    /\ call[c].at = "end.update" => Old(call[c].s)

RunsInv == \A c \in CleanupRuns : OldInHand(c)

-----------------------------------------------------------------------------
(* The inductive invariant.  The rows that calls hold exist, and what they  *)
(* have computed of them still is right.  A call whose row is stored and    *)
(* that has yet to read the counter keeps a place in the counter free.      *)

At(s, at) == {c \in Calls : call[c].at = at /\ call[c].s = s}

Pending(s, update) == {call[c].count + 1 : c \in At(s, update)}

NoneAhead(s, counter, rows, get, update) ==
    \A n \in {counter} \cup Pending(s, update) :
        n + Cardinality(At(s, get)) <= rows

CountersInv ==
    \A s \in Sessions :
        /\ NoneAhead(s, sessions[s].pageViews, pageViewEvents[s],
                     "view.get", "view.update")
        /\ NoneAhead(s, sessions[s].apiCalls, endpointStats[s],
                     "api.get", "api.update")

Sound(c) ==
    /\ call[c].at \notin {"idle", "durations", "cleanup"} =>
          call[c].s \in Sessions /\ Exists(call[c].s)
    /\ call[c].at = "end.update" =>
          /\ sessions[call[c].s].startTime <= call[c].time
          /\ call[c].count = call[c].time - sessions[call[c].s].startTime
    /\ \A s \in call[c].todo :
          /\ Exists(s)
          /\ call[c].at = "durations" => sessions[s].startTime <= call[c].time

LocalsInv ==
    /\ \A s \in Sessions : /\ sessions[s].startTime <= now
                           /\ ~Exists(s) => sessions[s] = NoSession
    /\ \A c \in Calls : Sound(c)

IInv == TypeOK /\ LocalsInv /\ CountersInv

=============================================================================
