------------------------------ MODULE Sessions ------------------------------
(***************************************************************************)
(* Signing in and out with several tabs of one browser.  The tabs share    *)
(* the session cookie and nothing else: each shows the session it was last *)
(* told of, asks again when it gets the focus, and is told by the others   *)
(* through a broadcast when they sign in or out.  Answers come late, in    *)
(* any order, or not at all; a counter in each tab makes it ignore the     *)
(* answers to questions it no longer asks.                                 *)
(*                                                                         *)
(* A session is a number; the user and the role behind it do not matter.   *)
(* The sign-in is the one with a token; the one through Google leaves the  *)
(* page and comes back to a tab that starts anew.                          *)
(***************************************************************************)
EXTENDS Integers, FiniteSets

CONSTANTS
  None,
  Tabs,
  MaxLogins,   \* bound: sessions ever created
  MaxFaults    \* bound: lost answers and refused sign-ins

Ids == 1..MaxLogins

\* A tab's question for the session, and its sign-in or sign-out.
Cookies == Nat \union {None}
Probes == [stage : {"sent", "answered"}, cookie : Cookies, found : Cookies]
Flows == [kind : {"login", "logout"},
          stage : {"sent", "served", "refused", "asking", "answered"},
          cookie : Cookies, csrf : Cookies, found : Cookies, current : BOOLEAN]

SessionsAssumption ==
  /\ MaxLogins \in Nat /\ MaxFaults \in Nat
  /\ None \notin Nat \union Probes \union Flows

VARIABLES
  sessions,    \* database: auth_sessions that are alive
  expired,     \* sessions whose time is over
  created,     \* how many sessions were created
  jar,         \* the browser's session cookie
  shown,       \* per tab: the session it shows, None if anonymous
  probe,       \* per tab: the refresh under way whose answer still counts
  flow,        \* per tab: the sign-in or sign-out under way (busy)
  mail,        \* per tab: is a broadcast on its way?
  faults,
  left         \* history, per tab: the sessions it has signed out of

server == <<sessions, expired, created>>
vars == <<sessions, expired, created, jar, shown, probe, flow, mail, faults, left>>

\* AuthService.session: the cookie's session if it is alive.
session(cookie) == IF cookie \in sessions THEN cookie ELSE None

Sent == [stage |-> "sent", cookie |-> jar, found |-> None]
Flow(kind, t) ==
  [kind |-> kind, stage |-> "sent", cookie |-> jar, csrf |-> shown[t], found |-> None, current |-> FALSE]

\* Every tab asks for the session when it is opened.
Init ==
  /\ sessions = {} /\ expired = {} /\ created = 0
  /\ jar = None
  /\ shown = [t \in Tabs |-> None]
  /\ probe = [t \in Tabs |-> [stage |-> "sent", cookie |-> None, found |-> None]]
  /\ flow = [t \in Tabs |-> None]
  /\ mail = [t \in Tabs |-> FALSE]
  /\ faults = 0 /\ left = [t \in Tabs |-> {}]

-----------------------------------------------------------------------------

\* A newer question takes the generation of the one a sign-in has asked.
Outdated(f) == IF f = None THEN None ELSE [f EXCEPT !.current = FALSE]

\* refresh: a new generation; the answers to older questions no longer count.
refresh(t) == probe' = [probe EXCEPT ![t] = Sent]

\* invalidate: shows nothing until the probe has answered.
invalidate(t) == shown' = [shown EXCEPT ![t] = None] /\ refresh(t)

Focus(t) ==
  /\ refresh(t)
  /\ flow' = [flow EXCEPT ![t] = Outdated(@)]
  /\ UNCHANGED <<server, jar, shown, mail, faults, left>>

\* GET /auth/session
ProbeServed(t) ==
  /\ probe[t] # None /\ probe[t].stage = "sent"
  /\ probe' = [probe EXCEPT ![t] = [@ EXCEPT !.stage = "answered", !.found = session(probe[t].cookie)]]
  /\ UNCHANGED <<server, jar, shown, flow, mail, faults, left>>

ProbeArrives(t) ==
  /\ probe[t] # None /\ probe[t].stage = "answered"
  /\ shown' = [shown EXCEPT ![t] = probe[t].found]
  /\ probe' = [probe EXCEPT ![t] = None]
  /\ UNCHANGED <<server, jar, flow, mail, faults, left>>

\* A probe that fails shows nobody signed in.
ProbeFails(t) ==
  /\ probe[t] # None /\ faults < MaxFaults
  /\ faults' = faults + 1
  /\ shown' = [shown EXCEPT ![t] = None]
  /\ probe' = [probe EXCEPT ![t] = None]
  /\ UNCHANGED <<server, jar, flow, mail, left>>

\* A broadcast or storage event of another tab.
Told(t) ==
  /\ mail[t] /\ mail' = [mail EXCEPT ![t] = FALSE]
  /\ invalidate(t) /\ flow' = [flow EXCEPT ![t] = Outdated(@)]
  /\ UNCHANGED <<server, jar, faults, left>>

\* Mutant of Expire: the time of a session is not looked at.
ExpireUnnoticed(s) ==
  /\ s \in sessions
  /\ expired' = expired \union {s}
  /\ UNCHANGED <<sessions, created, jar, shown, probe, flow, mail, faults, left>>

\* The time of a session is over; the timers of the tabs that show it fire.
Expire(s) ==
  /\ s \in sessions
  /\ sessions' = sessions \ {s} /\ expired' = expired \union {s}
  /\ UNCHANGED <<created, jar, shown, probe, flow, mail, faults, left>>

TimerFires(t) ==
  /\ shown[t] \in expired
  /\ invalidate(t) /\ flow' = [flow EXCEPT ![t] = Outdated(@)]
  /\ UNCHANGED <<server, jar, mail, faults, left>>

-----------------------------------------------------------------------------
\* A new generation: pending answers are ignored from here on.
ignorePending(t) == probe' = [probe EXCEPT ![t] = None]
moves(t, f) == flow' = [flow EXCEPT ![t] = f]
tellOthers(t) == mail' = [u \in Tabs |-> mail[u] \/ u # t]

\* loginWithToken
BeginLogin(t) ==
  /\ flow[t] = None
  /\ moves(t, Flow("login", t)) /\ ignorePending(t)
  /\ UNCHANGED <<server, jar, shown, mail, faults, left>>

\* createSession: the session of the cookie that came along is replaced.
LoginServed(t) ==
  /\ flow[t] # None /\ flow[t].kind = "login" /\ flow[t].stage = "sent"
  /\ created < MaxLogins /\ created' = created + 1
  /\ sessions' = (sessions \ {flow[t].cookie}) \union {created'}
  /\ moves(t, [flow[t] EXCEPT !.stage = "served", !.found = created'])
  /\ UNCHANGED <<expired, jar, shown, probe, mail, faults, left>>

\* The account is disabled: the transaction has deleted the replaced session all the same.
LoginRefused(t) ==
  /\ flow[t] # None /\ flow[t].kind = "login" /\ flow[t].stage = "sent"
  /\ faults < MaxFaults /\ faults' = faults + 1
  /\ sessions' = sessions \ {flow[t].cookie}
  /\ moves(t, None)
  /\ UNCHANGED <<expired, created, jar, shown, probe, mail, left>>

\* The answer sets the cookie, and the tab asks for its session.
LoginArrives(t) ==
  /\ flow[t] # None /\ flow[t].kind = "login" /\ flow[t].stage = "served"
  /\ jar' = flow[t].found
  /\ moves(t, [flow[t] EXCEPT !.stage = "asking", !.cookie = flow[t].found, !.current = TRUE])
  /\ ignorePending(t)
  /\ UNCHANGED <<server, shown, mail, faults, left>>

LoginProbeServed(t) ==
  /\ flow[t] # None /\ flow[t].stage = "asking"
  /\ moves(t, [flow[t] EXCEPT !.stage = "answered", !.found = session(flow[t].cookie)])
  /\ UNCHANGED <<server, jar, shown, probe, mail, faults, left>>

LoginEnds(t) ==
  /\ flow[t] # None /\ flow[t].stage = "answered"
  /\ shown' = IF flow[t].current THEN [shown EXCEPT ![t] = flow[t].found] ELSE shown
  /\ tellOthers(t) /\ moves(t, None)
  /\ UNCHANGED <<server, jar, probe, faults, left>>

-----------------------------------------------------------------------------
\* logout: pending probes are ignored.
BeginLogout(t) ==
  /\ flow[t] = None /\ shown[t] # None
  /\ moves(t, Flow("logout", t)) /\ ignorePending(t)
  /\ UNCHANGED <<server, jar, shown, mail, faults, left>>

\* requireUser: the request's CSRF token is that of the cookie's session.
Accepted(f) == session(f.cookie) # None /\ f.csrf = f.cookie

LogoutServed(t) ==
  /\ flow[t] # None /\ flow[t].kind = "logout" /\ flow[t].stage = "sent"
  /\ IF Accepted(flow[t])
     THEN /\ sessions' = sessions \ {flow[t].cookie}
          /\ moves(t, [flow[t] EXCEPT !.stage = "served"])
     ELSE moves(t, [flow[t] EXCEPT !.stage = "refused"]) /\ UNCHANGED sessions
  /\ UNCHANGED <<expired, created, jar, shown, probe, mail, faults, left>>

\* The answer clears the cookie, whichever it is by now; pending probes are ignored once more.
LogoutArrives(t) ==
  /\ flow[t] # None /\ flow[t].kind = "logout" /\ flow[t].stage = "served"
  /\ jar' = None
  /\ shown' = [shown EXCEPT ![t] = None]
  /\ left' = [left EXCEPT ![t] = @ \union {flow[t].csrf}]
  /\ ignorePending(t) /\ tellOthers(t) /\ moves(t, None)
  /\ UNCHANGED <<server, faults>>

\* 401 or 403: authenticatedFetch raises the event that invalidates.
LogoutRefused(t) ==
  /\ flow[t] # None /\ flow[t].stage = "refused"
  /\ moves(t, None) /\ invalidate(t)
  /\ UNCHANGED <<server, jar, mail, faults, left>>

\* An answer is lost, with the cookie it set.
AnswerLost(t) ==
  /\ flow[t] # None /\ faults < MaxFaults
  /\ faults' = faults + 1
  /\ moves(t, None)
  /\ UNCHANGED <<server, jar, shown, probe, mail, left>>

-----------------------------------------------------------------------------
TabStep(t) ==
  \/ Focus(t) \/ ProbeServed(t) \/ ProbeArrives(t) \/ ProbeFails(t) \/ Told(t) \/ TimerFires(t)
  \/ BeginLogin(t) \/ LoginServed(t) \/ LoginRefused(t) \/ LoginArrives(t)
  \/ LoginProbeServed(t) \/ LoginEnds(t)
  \/ BeginLogout(t) \/ LogoutServed(t) \/ LogoutArrives(t) \/ LogoutRefused(t) \/ AnswerLost(t)

Next == (\E t \in Tabs : TabStep(t)) \/ \E s \in Ids : Expire(s)
Spec == Init /\ [][Next]_vars

-----------------------------------------------------------------------------
\* Types: every session that is known anywhere was created, and none is alive and expired.
TypeOK ==
  /\ sessions \subseteq 1..created /\ expired \subseteq 1..created /\ sessions \intersect expired = {}
  /\ jar \in 1..created \union {None}
  /\ \A t \in Tabs :
       /\ shown[t] \in 1..created \union {None} /\ mail[t] \in BOOLEAN
       /\ flow[t] # None => ~flow[t].current \/ flow[t].stage \in {"asking", "answered"}

\* "Invalidate pending probes before and after logout to prevent stale roles": a tab never shows
\* a session again that it has signed out of, whichever answers are still on their way.
NoStaleRole == \A t \in Tabs : shown[t] \notin left[t]

\* A tab whose signing out was answered with success has ended the session it showed, not one
\* that another tab has begun since.
LogoutEndsShown == \A t \in Tabs : left[t] \intersect sessions = {}

Quiet(t) == probe[t] = None /\ ~mail[t]

\* When nothing is under way and nothing was lost, every tab shows the session of the cookie,
\* or one that has just expired, in whatever order tabs signed in and out and answers came.
SettledTabsAgree ==
  faults = 0 /\ (\A t \in Tabs : flow[t] = None) =>
    \A t \in Tabs : Quiet(t) => shown[t] = session(jar) \/ shown[t] \in expired
=============================================================================
