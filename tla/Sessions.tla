------------------------------- MODULE Sessions -------------------------------
(***************************************************************************)
(* The sessions of one user, as the API keeps them (modules/auth): login,  *)
(* the rotation of refresh tokens, logout, and what revokes every session: *)
(* logout-all and the changes of password.                                 *)
(*                                                                         *)
(* A refresh token is the session it belongs to: a number, 0 for no token. *)
(* An access token is the session it was signed for.  `call' holds the     *)
(* POST /auth/refresh of each tab and `act' the other request of each      *)
(* client; a handler runs in as many steps as it has statements that other *)
(* handlers can come between.                                              *)
(***************************************************************************)
EXTENDS Integers, Sequences, FiniteSets

CONSTANTS Tabs,          \* tabs of the user's browser
          Elsewhere,     \* another client of the user
          MaxSessions,   \* bound on the sessions that are created
          MaxActs,       \* bound on what users and time do: requests other than refreshes,
                         \* pages loaded again, suspensions, tokens that age
          MaxFaults      \* bound on the connections that break

ASSUME SessionsAssumption ==
  /\ IsFiniteSet(Tabs) /\ Elsewhere \notin Tabs
  /\ MaxSessions \in Nat \ {0} /\ MaxActs \in Nat /\ MaxFaults \in Nat

VARIABLES account,    \* status of the user
          sessions,   \* sessions, in the order of their creation
          call,       \* refresh of each tab, as far as the API has got
          act,        \* other request of each client
          acts        \* what users and time have done so far

apiVars == <<account, sessions, call, act, acts>>

Clients == Tabs \cup {Elsewhere}

\* LIVE, or the reason of the revocation (SESSION_REVOCATION_REASON).
Ends == {"LIVE", "ROTATED", "LOGOUT", "LOGOUT_ALL", "PASSWORD_CHANGED", "PASSWORD_RESET",
         "REUSE_DETECTED"}

SessionRecord == [family : 1 .. MaxSessions, end : Ends, next : 0 .. MaxSessions]

Account == {"ACTIVE", "SUSPENDED"}

\* `new' is the session that the answer brings, 0 if it is a refusal; `heard' says
\* whether the client is still connected.
Call == [at : {"IDLE", "SENT", "READ", "CLAIMED", "CREATED", "ANSWERED"},
         token : 0 .. MaxSessions, new : 0 .. MaxSessions, heard : BOOLEAN]

Act == [op : {"NONE", "login", "logout", "logoutAll", "change", "reset"},
        at : {"IDLE", "SENT", "READ", "ANSWERED"},
        token : 0 .. MaxSessions, new : 0 .. MaxSessions, heard : BOOLEAN]

NoCall == [at |-> "IDLE", token |-> 0, new |-> 0, heard |-> TRUE]

NoAct == [op |-> "NONE", at |-> "IDLE", token |-> 0, new |-> 0, heard |-> TRUE]

ApiInit ==
  /\ account = "ACTIVE"
  /\ sessions = <<[family |-> 1, end |-> "LIVE", next |-> 0]>>
  /\ call = [t \in Tabs |-> NoCall]
  /\ act = [c \in Clients |-> NoAct]
  /\ acts = 0

-----------------------------------------------------------------------------

IsLive(s) == sessions[s].end = "LIVE"

Family(f) == {s \in DOMAIN sessions : sessions[s].family = f}

\* updateMany on the sessions of S that are not revoked yet.
Revoked(S, reason) ==
  [s \in DOMAIN sessions |->
     IF s \in S /\ IsLive(s) THEN [sessions[s] EXCEPT !.end = reason] ELSE sessions[s]]

NextId == Len(sessions) + 1

\* createSession: a session that is the first of its family.
FirstOfFamily == [family |-> NextId, end |-> "LIVE", next |-> 0]

\* The bound: a request that may create a session is sent only if there is room for it.
Room ==
  Len(sessions) + Cardinality({t \in Tabs : call[t].at \in {"SENT", "READ", "CLAIMED"}})
                + Cardinality({c \in Clients : act[c].op \in {"login", "change"}
                                              /\ act[c].at \in {"SENT", "READ"}})
    < MaxSessions

-----------------------------------------------------------------------------
(***************************************************************************)
(* POST /auth/refresh.                                                     *)
(***************************************************************************)
Answered(t, new) == call' = [call EXCEPT ![t].at = "ANSWERED", ![t].new = new]

\* rotate, up to the transaction.  A token that has been consumed or revoked takes its
\* whole family with it.
CallReads(t) ==
  LET s == call[t].token IN
  /\ call[t].at = "SENT"
  /\ \/ s = 0 /\ Answered(t, 0) /\ UNCHANGED sessions
     \/ s # 0 /\ IsLive(s) /\ call' = [call EXCEPT ![t].at = "READ"] /\ UNCHANGED sessions
     \/ /\ s # 0 /\ ~IsLive(s)
        /\ sessions' = Revoked(Family(sessions[s].family), "REUSE_DETECTED")
        /\ Answered(t, 0)
  /\ UNCHANGED <<account, act, acts>>

\* Mutants: the count of the claim is not looked at; the claim asks only that the session
\* has no successor.
ClaimableAnyway(s) == TRUE

ClaimableUnlessReplaced(s) == sessions[s].next = 0

Claimable(s) == IsLive(s)

\* The first statement of the transaction locks the row until it commits, so that other
\* handlers find the session revoked, or wait and then find it so.
CallClaims(t) ==
  LET s == call[t].token IN
  /\ call[t].at = "READ"
  /\ IF Claimable(s)
     THEN /\ sessions' = [sessions EXCEPT ![s].end = "ROTATED"]
          /\ call' = [call EXCEPT ![t].at = "CLAIMED"]
     ELSE Answered(t, 0) /\ UNCHANGED sessions
  /\ UNCHANGED <<account, act, acts>>

Successor(s) == [family |-> sessions[s].family, end |-> "LIVE", next |-> 0]

\* The rest of the transaction.
CallCreates(t) ==
  LET s == call[t].token IN
  /\ call[t].at = "CLAIMED"
  /\ sessions' = Append([sessions EXCEPT ![s].next = NextId], Successor(s))
  /\ call' = [call EXCEPT ![t].at = "CREATED", ![t].new = NextId]
  /\ UNCHANGED <<account, act, acts>>

\* refresh: the status of the user is read after the rotation.
CallChecks(t) ==
  /\ call[t].at = "CREATED"
  /\ IF account = "SUSPENDED"
     THEN /\ sessions' = Revoked(Family(sessions[call[t].token].family), "LOGOUT_ALL")
          /\ Answered(t, 0)
     ELSE Answered(t, call[t].new) /\ UNCHANGED sessions
  /\ UNCHANGED <<account, act, acts>>

-----------------------------------------------------------------------------
(***************************************************************************)
(* The other requests.                                                     *)
(***************************************************************************)
Acts == acts < MaxActs /\ acts' = acts + 1

Ask(c, request) ==
  /\ act[c].at = "IDLE" /\ Acts
  /\ act' = [act EXCEPT ![c] = request]

Asked(op, token) == [NoAct EXCEPT !.op = op, !.at = "SENT", !.token = token]

\* AskedFrom(c, op, at): the request of c is an `op' that has come to `at'.
AskedFrom(c, op, at) == act[c].op = op /\ act[c].at = at

Reply(c, new) == act' = [act EXCEPT ![c].at = "ANSWERED", ![c].new = new]

Reads(c) == act' = [act EXCEPT ![c].at = "READ"]

\* login, up to createSession: the password is right, the status is what it is now.
LoginChecks(c) ==
  /\ AskedFrom(c, "login", "SENT")
  /\ IF account = "SUSPENDED" THEN Reply(c, 0) ELSE Reads(c)
  /\ UNCHANGED <<account, sessions, call, acts>>

LoginCreates(c) ==
  /\ AskedFrom(c, "login", "READ")
  /\ sessions' = Append(sessions, FirstOfFamily)
  /\ Reply(c, NextId)
  /\ UNCHANGED <<account, call, acts>>

\* revokeByRefreshToken.
LogoutReads(c) ==
  LET s == act[c].token IN
  /\ AskedFrom(c, "logout", "SENT")
  /\ \/ s # 0 /\ IsLive(s) /\ Reads(c)
     \/ (s # 0 => ~IsLive(s)) /\ Reply(c, 0)
  /\ UNCHANGED <<account, sessions, call, acts>>

LogoutRevokes(c) ==
  /\ AskedFrom(c, "logout", "READ")
  /\ sessions' = [sessions EXCEPT ![act[c].token].end = "LOGOUT"]
  /\ Reply(c, 0)
  /\ UNCHANGED <<account, call, acts>>

LogoutAll(c) ==
  /\ AskedFrom(c, "logoutAll", "SENT")
  /\ sessions' = Revoked(DOMAIN sessions, "LOGOUT_ALL")
  /\ Reply(c, 0)
  /\ UNCHANGED <<account, call, acts>>

\* changePassword, up to its transaction: the current password is right.
ChangeChecks(c) ==
  /\ AskedFrom(c, "change", "SENT")
  /\ Reads(c)
  /\ UNCHANGED <<account, sessions, call, acts>>

ChangePassword(c) ==
  /\ AskedFrom(c, "change", "READ")
  /\ sessions' = Append(Revoked(DOMAIN sessions, "PASSWORD_CHANGED"), FirstOfFamily)
  /\ Reply(c, NextId)
  /\ UNCHANGED <<account, call, acts>>

\* resetPassword: its link is looked up before the transaction that consumes it.
ResetReads(c) ==
  /\ AskedFrom(c, "reset", "SENT")
  /\ Reads(c) \/ Reply(c, 0)
  /\ UNCHANGED <<account, sessions, call, acts>>

ResetPassword(c) ==
  /\ AskedFrom(c, "reset", "READ")
  /\ \/ sessions' = Revoked(DOMAIN sessions, "PASSWORD_RESET")
     \/ UNCHANGED sessions
  /\ Reply(c, 0)
  /\ UNCHANGED <<account, call, acts>>

Suspend ==
  /\ account = "ACTIVE" /\ Acts
  /\ account' = "SUSPENDED"
  /\ UNCHANGED <<sessions, call, act>>

Rotates(t) == CallReads(t) \/ CallClaims(t) \/ CallCreates(t) \/ CallChecks(t)

Handles(c) ==
  \/ LoginChecks(c)   \/ LoginCreates(c)
  \/ LogoutReads(c)   \/ LogoutRevokes(c)  \/ LogoutAll(c)
  \/ ChangeChecks(c)  \/ ChangePassword(c)
  \/ ResetReads(c)    \/ ResetPassword(c)
=============================================================================
