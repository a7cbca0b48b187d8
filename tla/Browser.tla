-------------------------------- MODULE Browser --------------------------------
(***************************************************************************)
(* The tabs of one browser (apps/web: refresh-coordinator, auth-provider)  *)
(* over the sessions of the API: the shared cookie, the access token that  *)
(* each tab keeps in memory, the lock that tabs take to refresh, and the   *)
(* channel on which they tell each other of a new token or of a logout.    *)
(***************************************************************************)
EXTENDS Sessions

VARIABLES tab,       \* what each tab shows and holds
          cookie,    \* the refresh token of the browser, 0 if it has none
          lock,      \* the tab that holds the Web Lock
          channel,   \* messages on their way to each tab
          aged,      \* sessions whose access token is due for renewal
          faults     \* connections that have broken

browserVars == <<tab, cookie, lock, channel, aged, faults>>
vars == <<account, sessions, call, act, acts,
          tab, cookie, lock, channel, aged, faults>>

\* Who waits for the refresh of a tab: the provider, when the page is loaded or a request
\* is answered 401, or the timer that renews the token in advance.
Callers == {"page", "timer"}

Tab == [status : {"initializing", "authenticated", "unauthenticated"},
        token : 0 .. MaxSessions, callers : SUBSET Callers]

Free == "FREE"

ASSUME BrowserAssumption == Free \notin Tabs

\* A message is the session of a token, or 0 for AUTH_LOGGED_OUT.
Messages == 0 .. MaxSessions

Loading == [status |-> "initializing", token |-> 0, callers |-> {"page"}]

Init ==
  /\ ApiInit
  /\ tab = [t \in Tabs |-> Loading]
  /\ cookie = 1
  /\ lock = Free
  /\ channel = [t \in Tabs |-> <<>>]
  /\ aged = {}
  /\ faults = 0

-----------------------------------------------------------------------------

IsFresh(s) == s # 0 /\ s \notin aged

\* postMessage reaches every tab but the one that posts.
Posts(t, message) ==
  channel' = [u \in Tabs |-> IF u = t THEN channel[u] ELSE Append(channel[u], message)]

\* What the callers of a refresh do when it fails (null or an error).
AfterFailure(t) ==
  tab' = [tab EXCEPT ![t].callers = {},
                     ![t].status = IF tab[t].callers \subseteq {"timer"}
                                   THEN @ ELSE "unauthenticated"]

\* The same when the tab has the token of session s.  The preventive refresh does not
\* tell the provider.
AfterSuccess(t, s) ==
  tab' = [tab EXCEPT ![t].callers = {}, ![t].token = s,
                     ![t].status = IF tab[t].callers \subseteq {"timer"}
                                   THEN @ ELSE "authenticated"]

-----------------------------------------------------------------------------
(***************************************************************************)
(* RefreshCoordinator.refresh.                                             *)
(***************************************************************************)
Joins(t, why) == tab' = [tab EXCEPT ![t].callers = @ \cup {why}]

\* The timer of a token, one minute before it expires.
PreventiveRefresh(t) ==
  /\ tab[t].status = "authenticated" /\ tab[t].token \in aged
  /\ Joins(t, "timer")
  /\ UNCHANGED <<apiVars, cookie, lock, channel, aged, faults>>

\* A request of the page is answered 401.
Unauthorized(t) ==
  /\ tab[t].status = "authenticated" /\ ~IsFresh(tab[t].token)
  /\ Joins(t, "page")
  /\ UNCHANGED <<apiVars, cookie, lock, channel, aged, faults>>

\* Mutant: tabs without Web Locks.
CanLockAlways(t) == TRUE

CanLock(t) == lock = Free

\* The lock is granted, and another tab has brought a fresh token in the meantime.
AdoptToken(t) ==
  /\ tab[t].callers # {} /\ CanLock(t) /\ call[t].at = "IDLE"
  /\ IsFresh(tab[t].token)
  /\ AfterSuccess(t, tab[t].token)
  /\ UNCHANGED <<apiVars, cookie, lock, channel, aged, faults>>

SendRefresh(t) ==
  /\ tab[t].callers # {} /\ CanLock(t) /\ call[t].at = "IDLE"
  /\ ~IsFresh(tab[t].token) /\ Room
  /\ lock' = t
  /\ call' = [call EXCEPT ![t] = [NoCall EXCEPT !.at = "SENT", !.token = cookie]]
  /\ UNCHANGED <<account, sessions, act, acts, tab, cookie, channel, aged, faults>>

\* The answer sets the cookie, then applyLocalSession sets the token and posts it.
HearRefresh(t) ==
  LET s == call[t].new IN
  /\ call[t].at = "ANSWERED" /\ call[t].heard
  /\ call' = [call EXCEPT ![t] = NoCall]
  /\ lock' = Free
  /\ IF s # 0
     THEN cookie' = s /\ AfterSuccess(t, s) /\ Posts(t, s)
     ELSE AfterFailure(t) /\ UNCHANGED <<cookie, channel>>
  /\ UNCHANGED <<account, sessions, act, acts, aged, faults>>

\* Mutant: an error leaves the lock taken.
LoseRefreshLocked(t) ==
  /\ call[t].at # "IDLE" /\ call[t].heard /\ faults < MaxFaults
  /\ call' = [call EXCEPT ![t].heard = FALSE]
  /\ AfterFailure(t)
  /\ faults' = faults + 1
  /\ UNCHANGED <<account, sessions, act, acts, cookie, lock, channel, aged>>

\* The connection breaks: the tab gives up, the API may go on.
LoseRefresh(t) ==
  /\ call[t].at # "IDLE" /\ call[t].heard /\ faults < MaxFaults
  /\ call' = [call EXCEPT ![t].heard = FALSE]
  /\ lock' = Free
  /\ AfterFailure(t)
  /\ faults' = faults + 1
  /\ UNCHANGED <<account, sessions, act, acts, cookie, channel, aged>>

\* Nobody hears the answer, or the request has never arrived.
ForgetRefresh(t) ==
  /\ call[t].at \in {"SENT", "ANSWERED"} /\ ~call[t].heard
  /\ call' = [call EXCEPT ![t] = NoCall]
  /\ UNCHANGED <<account, sessions, act, acts, browserVars>>

-----------------------------------------------------------------------------
(***************************************************************************)
(* The user, and what the tabs hear.                                       *)
(***************************************************************************)
AskLogin(t) ==
  /\ tab[t].status = "unauthenticated" /\ Room
  /\ Ask(t, Asked("login", 0))
  /\ UNCHANGED <<account, sessions, call, browserVars>>

AskLogout(t) ==
  /\ tab[t].status = "authenticated"
  /\ Ask(t, Asked("logout", cookie))
  /\ UNCHANGED <<account, sessions, call, browserVars>>

AskChange(t) ==
  /\ tab[t].status = "authenticated" /\ IsFresh(tab[t].token) /\ Room
  /\ Ask(t, Asked("change", 0))
  /\ UNCHANGED <<account, sessions, call, browserVars>>

AskElsewhere ==
  /\ \E op \in {"login", "logoutAll", "reset"} : (op = "login" => Room) /\ Ask(Elsewhere, Asked(op, 0))
  /\ UNCHANGED <<account, sessions, call, browserVars>>

Show(t, status, token) == tab' = [tab EXCEPT ![t].status = status, ![t].token = token]

\* login and changePassword: the cookie, then applyLocalSession and handleSession.
HearSession(t) ==
  LET s == act[t].new IN
  /\ act[t].at = "ANSWERED" /\ act[t].heard /\ act[t].op # "logout"
  /\ act' = [act EXCEPT ![t] = NoAct]
  /\ IF s # 0
     THEN cookie' = s /\ Show(t, "authenticated", s) /\ Posts(t, s)
     ELSE UNCHANGED <<cookie, tab, channel>>
  /\ UNCHANGED <<account, sessions, call, acts, lock, aged, faults>>

\* logout: the cookie is cleared, every tab is told.
HearLogout(t) ==
  /\ act[t].at = "ANSWERED" /\ act[t].heard /\ act[t].op = "logout"
  /\ act' = [act EXCEPT ![t] = NoAct]
  /\ cookie' = 0
  /\ Show(t, "unauthenticated", 0)
  /\ Posts(t, 0)
  /\ UNCHANGED <<account, sessions, call, acts, lock, aged, faults>>

\* The connection breaks.  A logout tells the tabs all the same (`finally').
LoseAnswer(t) ==
  /\ act[t].at # "IDLE" /\ act[t].heard /\ faults < MaxFaults
  /\ act' = [act EXCEPT ![t].heard = FALSE]
  /\ faults' = faults + 1
  /\ IF act[t].op = "logout"
     THEN Show(t, "unauthenticated", 0) /\ Posts(t, 0)
     ELSE UNCHANGED <<tab, channel>>
  /\ UNCHANGED <<account, sessions, call, acts, cookie, lock, aged>>

ForgetAnswer(c) ==
  /\ \/ act[c].at \in {"SENT", "ANSWERED"} /\ ~act[c].heard
     \/ act[c].at = "ANSWERED" /\ c = Elsewhere
  /\ act' = [act EXCEPT ![c] = NoAct]
  /\ UNCHANGED <<account, sessions, call, acts, browserVars>>

\* The listener of the channel.
Deliver(t) ==
  /\ channel[t] # <<>>
  /\ channel' = [channel EXCEPT ![t] = Tail(@)]
  /\ LET s == Head(channel[t]) IN
       Show(t, IF s = 0 THEN "unauthenticated" ELSE "authenticated", s)
  /\ UNCHANGED <<apiVars, cookie, lock, aged, faults>>

\* The page is loaded again, while it waits for nothing.
Reload(t) ==
  /\ tab[t].callers = {} /\ act[t].at = "IDLE" /\ Acts
  /\ tab' = [tab EXCEPT ![t] = Loading]
  /\ channel' = [channel EXCEPT ![t] = <<>>]
  /\ UNCHANGED <<account, sessions, call, act, cookie, lock, aged, faults>>

Ages(s) ==
  /\ s \notin aged /\ Acts
  /\ aged' = aged \cup {s}
  /\ UNCHANGED <<account, sessions, call, act, tab, cookie, lock, channel, faults>>

-----------------------------------------------------------------------------

Refreshes(t) ==
  PreventiveRefresh(t) \/ Unauthorized(t) \/ AdoptToken(t) \/ SendRefresh(t) \/ HearRefresh(t)

Asks(t) == AskLogin(t) \/ AskLogout(t) \/ AskChange(t)

Hears(t) == HearSession(t) \/ HearLogout(t) \/ Deliver(t)

Api ==
  /\ \/ \E t \in Tabs : Rotates(t)
     \/ \E c \in Clients : Handles(c)
     \/ Suspend
  /\ UNCHANGED browserVars

Next ==
  \/ Api
  \/ \E t \in Tabs : Refreshes(t) \/ Asks(t) \/ Hears(t) \/ Reload(t)
  \/ AskElsewhere
  \/ \E t \in Tabs : LoseRefresh(t) \/ ForgetRefresh(t) \/ LoseAnswer(t)
  \/ \E c \in Clients : ForgetAnswer(c)
  \/ \E s \in DOMAIN sessions : Ages(s)

Spec == Init /\ [][Next]_vars

\* The API answers and the browser's event loop runs; locks are granted in the order in
\* which they were asked for, so no tab is passed over for ever.  Nothing says that a user
\* acts, that a connection breaks or that a token ages.
Fairness ==
  /\ \A t \in Tabs : /\ WF_vars(Rotates(t) /\ UNCHANGED browserVars)
                     /\ WF_vars(HearRefresh(t)) /\ WF_vars(ForgetRefresh(t))
                     /\ SF_vars(AdoptToken(t) \/ SendRefresh(t))

FairSpec == Spec /\ Fairness

-----------------------------------------------------------------------------
(***************************************************************************)
(* Properties.                                                             *)
(***************************************************************************)
\* Every variable has a value of its type; a session that was replaced has ended, and its
\* replacement is a later session of the same family (rotate).
TypeOK ==
  /\ account \in Account
  /\ sessions \in Seq(SessionRecord) /\ Len(sessions) \in 1 .. MaxSessions
  /\ \A s \in DOMAIN sessions : sessions[s].next # 0 =>
        /\ ~IsLive(s)
        /\ sessions[s].next \in (s + 1) .. Len(sessions)
        /\ sessions[sessions[s].next].family = sessions[s].family
  /\ call \in [Tabs -> Call] /\ act \in [Clients -> Act] /\ acts \in 0 .. MaxActs
  /\ tab \in [Tabs -> Tab] /\ cookie \in 0 .. MaxSessions /\ lock \in Tabs \cup {Free}
  /\ channel \in [Tabs -> Seq(Messages)]
  /\ aged \subseteq DOMAIN sessions /\ faults \in 0 .. MaxFaults

\* However many refreshes, logouts and revocations run at once, a family never has two
\* sessions that may be used: the claim of rotate lets one of them through.
OneLivePerFamily ==
  /\ TypeOK
  /\ \A f \in DOMAIN sessions : Cardinality({s \in Family(f) : IsLive(s)}) <= 1

\* The tabs of a browser never take each other for a thief: as long as no connection has
\* broken, the reuse of a consumed token is not what ends a session.
ReuseNeedsALostAnswer ==
  faults = 0 => \A s \in DOMAIN sessions : sessions[s].end # "REUSE_DETECTED"

\* A family without a session that may be used, and without a rotation past its claim,
\* never has one again: a logout or a revocation cannot be undone by what read the session
\* before it.
Dead(f) ==
  /\ \A s \in Family(f) : ~IsLive(s)
  /\ \A t \in Tabs : call[t].at = "CLAIMED" => sessions[call[t].token].family # f

DeadFamiliesStayDead ==
  [][\A f \in DOMAIN sessions : Family(f) # {} /\ Dead(f) => Dead(f)']_vars

\* Every refresh ends, whatever becomes of its connection, and the tab that waits for the
\* lock gets it (refresh: the lock is released on every path).  The bound on sessions may stop it.
RefreshesEnd == \A t \in Tabs : tab[t].callers # {} ~> tab[t].callers = {} \/ ~Room
=============================================================================
