------------------------------- MODULE Credentials ------------------------------
(***************************************************************************)
(* One address and its account: registration behind the gate of the feed,  *)
(* verification, logins with a password and with Google, logout and the    *)
(* reset of the password (internal/auth, registrationGate of cmd/api).     *)
(*                                                                         *)
(* A row in users is named by the request that created it, a password by   *)
(* the request that set it.  What refers to a row goes with it (ON DELETE  *)
(* CASCADE), and cannot be created without it.  Tokens may expire at any   *)
(* time.  Erasures of the account are in AccountErasure: here only the     *)
(* registration that created a row deletes it.                             *)
(***************************************************************************)
EXTENDS Requests

CONSTANTS
  MaxPeer,     \* attempts that a peer has in a window (IPMaxAttempts)
  MaxLogins,   \* logins that a peer has for an address (LoginMaxAttempts)
  Window,      \* the length of a window
  MaxClock,    \* bound: the clock
  Earlier       \* a request that was answered before

ASSUME CredentialsAssumption ==
  /\ {MaxPeer, MaxLogins, Window, MaxClock} \subseteq Nat
  /\ Earlier \notin Requests /\ Earlier # None

VARIABLES
  account,    \* [id, password, consent, verified], None without a row
  tokens,     \* verification tokens, by the account they are for
  resets,     \* reset tokens, by the request that created them
  sessions,   \* [id, password]: who opened a session, with which password
  peers,      \* the limiter of the peers
  logins,     \* the limiter of the logins
  clock,
  unrolled,   \* history: registrations that could not be rolled back
  overtaken   \* history: logins that had checked a password that was then reset

credentialTables == <<account, tokens, resets, sessions>>
limiters == <<peers, logins, clock>>
credentialHistory == <<unrolled, overtaken>>
credentialVars == <<requestVars, credentialTables, limiters, credentialHistory>>

Address == "address"
Limiter == INSTANCE RateLimiter WITH LimiterKeys <- {Address}

Google == "google"
NoPassword == "none"

\* The names of requests, which name rows, passwords and tokens; the rows of users.
Ids == Requests \cup {Earlier}
UserRows == [id : Ids, password : Ids \cup {NoPassword}, consent : BOOLEAN, verified : BOOLEAN]
ASSUME UserRowsAssumption == None \notin UserRows

Here(id) == account # None /\ account.id = id
\* The row that a request works on.
Found(r) == req[r].seen

-----------------------------------------------------------------------------
(* Failures *)

\* Mutant of AfterFailure: a registration that fails leaves the new user behind.
AfterFailureNothing(r) == Answers(r, "error")

\* A reset that is asked for never shows a failure, the feed is open to all.
FailureAnswer(r) ==
  CASE req[r].op = "forgot" -> "ok" [] req[r].op = "feed" -> "anonymous"
    [] req[r].pc = "login" -> "invalid" [] OTHER -> "error"

\* What a handler does when a call fails: deleteNewUser if it has created the user
\* and not yet begun a session.
AfterFailure(r) ==
  IF Found(r) # None /\ Found(r).id = r /\ req[r].pc # "session" THEN Goes(r, "rollback", Found(r))
  ELSE Answers(r, FailureAnswer(r))
BreaksOff(r) == failures < MaxFailures /\ failures' = failures + 1 /\ AfterFailure(r)

\* A call that has taken effect, also the last one.
Continues(r, next) ==
  \/ BreaksOff(r)
  \/ /\ IF next = "ok" THEN Answers(r, "ok") ELSE Goes(r, next, Found(r))
     /\ UNCHANGED failures

CredentialCallFails(r) ==
  /\ Running(r) /\ req[r].pc # "rollback"
  /\ BreaksOff(r)
  /\ UNCHANGED <<credentialTables, limiters, credentialHistory>>

\* The server stops; its limiters start anew.
ServerStops ==
  /\ failures < MaxFailures /\ failures' = failures + 1
  /\ req' = [r \in Requests |-> IF Running(r) THEN [req[r] EXCEPT !.pc = "done", !.answer = "error"]
                                ELSE req[r]]
  /\ unrolled' = unrolled \cup {r \in Requests : Running(r)}
  /\ peers' = Limiter!NewLimiter /\ logins' = Limiter!NewLimiter
  /\ UNCHANGED <<credentialTables, clock, overtaken>>

\* deleteNewUser; what refers to the row goes with it.
DeleteNewUser(r) ==
  /\ req[r].pc = "rollback"
  /\ Answers(r, "error")
  /\ account' = None /\ tokens' = {} /\ resets' = {} /\ sessions' = {}
  /\ UNCHANGED <<failures, limiters, credentialHistory>>

\* It uses the context of the request, and only logs that it failed.
DeleteNewUserFails(r) ==
  /\ req[r].pc = "rollback"
  /\ Fails(r)
  /\ unrolled' = unrolled \cup {r}
  /\ UNCHANGED <<credentialTables, limiters, overtaken>>

-----------------------------------------------------------------------------
(* ipAllowed, and the limiter of the logins *)

FirstStep(op) ==
  CASE op = "register" -> "gate"
    [] op \in {"login", "google", "forgot", "reset"} -> "peer"
    [] OTHER -> op

Ask(r, op, key) ==
  /\ Begin(r, op, key, FirstStep(op))
  /\ UNCHANGED <<credentialTables, limiters, credentialHistory>>

\* registrationGate: the feed is large enough, or the registration is refused.
PassGate(r) ==
  /\ req[r].pc = "gate"
  /\ Goes(r, "peer", None) \/ Answers(r, "unavailable")
  /\ UNCHANGED <<failures, credentialTables, limiters, credentialHistory>>

AfterPeer(op) ==
  CASE op = "register" -> "create" [] op = "login" -> "attempt" [] OTHER -> op

\* A registration without consent is refused before anything is stored.
AllowPeer(r) ==
  /\ req[r].pc = "peer"
  /\ peers' = Limiter!Attempt(peers, Address, MaxPeer, Window, clock)
  /\ IF ~Limiter!Allowed(peers, Address, MaxPeer, clock) THEN Answers(r, "too_many")
     ELSE IF req[r].op = "register" /\ ~req[r].key THEN Answers(r, "consent")
     ELSE Goes(r, AfterPeer(req[r].op), None)
  /\ UNCHANGED <<failures, credentialTables, logins, clock, credentialHistory>>

AllowLogin(r) ==
  /\ req[r].pc = "attempt"
  /\ logins' = Limiter!Attempt(logins, Address, MaxLogins, Window, clock)
  /\ IF Limiter!Allowed(logins, Address, MaxLogins, clock) THEN Goes(r, "login", None)
     ELSE Answers(r, "too_many")
  /\ UNCHANGED <<failures, credentialTables, peers, clock, credentialHistory>>

-----------------------------------------------------------------------------
(* handleRegister and handleVerify *)

\* A reply that is lost leaves the row, for the handler knows no row to delete.
CreateUser(r) ==
  /\ req[r].pc = "create"
  /\ IF account # None
     THEN Answers(r, "taken") /\ UNCHANGED <<failures, account, unrolled>>
     ELSE /\ account' = [id |-> r, password |-> IF req[r].op = "google" THEN NoPassword ELSE r,
                         consent |-> FALSE, verified |-> FALSE]
          /\ \/ Goes(r, "consent", account') /\ UNCHANGED <<failures, unrolled>>
             \/ Fails(r) /\ unrolled' = unrolled \cup {r}
  /\ UNCHANGED <<tokens, resets, sessions, limiters, overtaken>>

\* The row is gone, and the statement about it fails.
Misses(r) ==
  /\ ~Here(Found(r).id)
  /\ AfterFailure(r)
  /\ UNCHANGED <<failures, credentialTables, limiters, credentialHistory>>

AfterConsent(r) ==
  IF req[r].op = "register" THEN "token" ELSE IF Found(r).verified THEN "session" ELSE "verified"

SetConsent(r) ==
  /\ req[r].pc = "consent"
  /\ \/ Misses(r)
     \/ /\ Here(Found(r).id)
        /\ account' = [account EXCEPT !.consent = TRUE]
        /\ Continues(r, AfterConsent(r))
        /\ UNCHANGED <<tokens, resets, sessions, limiters, credentialHistory>>

CreateVerification(r) ==
  /\ req[r].pc = "token"
  /\ tokens' = tokens \cup {r}
  /\ Continues(r, "mail")
  /\ UNCHANGED <<account, resets, sessions, limiters, credentialHistory>>

SendToken(r) ==
  /\ req[r].pc = "mail"
  /\ Answers(r, "ok")
  /\ UNCHANGED <<failures, credentialTables, limiters, credentialHistory>>

\* One statement consumes a token that has not expired and verifies its account.
VerifyUser(r) ==
  /\ req[r].pc = "verify"
  /\ \/ /\ req[r].key \in tokens
        /\ tokens' = tokens \ {req[r].key}
        /\ account' = [account EXCEPT !.verified = TRUE]
        /\ Continues(r, "ok")
     \/ Answers(r, "invalid") /\ UNCHANGED <<failures, tokens, account>>
  /\ UNCHANGED <<resets, sessions, limiters, credentialHistory>>

-----------------------------------------------------------------------------
(* handleLogin and handleGoogleCallback *)

CheckPassword(r) ==
  /\ req[r].pc = "login"
  /\ IF account = None \/ account.password # req[r].key THEN Answers(r, "invalid")
     ELSE Goes(r, "session", account)
  /\ UNCHANGED <<failures, credentialTables, limiters, credentialHistory>>

\* Google answers for the address, or refuses the code.
Exchange(r) ==
  /\ req[r].pc = "google"
  /\ Goes(r, "lookup", None) \/ Answers(r, "invalid")
  /\ UNCHANGED <<failures, credentialTables, limiters, credentialHistory>>

FindGoogleUser(r) ==
  /\ req[r].pc = "lookup"
  /\ LET known == account # None
         consented == known /\ account.consent IN
     IF ~consented /\ ~req[r].key THEN Answers(r, "consent")
     ELSE IF ~known THEN Goes(r, "create", None)
     ELSE IF ~consented THEN Goes(r, "consent", account)
     ELSE Goes(r, IF account.verified THEN "session" ELSE "verified", account)
  /\ UNCHANGED <<failures, credentialTables, limiters, credentialHistory>>

SetVerified(r) ==
  /\ req[r].pc = "verified"
  /\ \/ Misses(r)
     \/ /\ Here(Found(r).id)
        /\ account' = [account EXCEPT !.verified = TRUE]
        /\ Continues(r, "session")
        /\ UNCHANGED <<tokens, resets, sessions, limiters, credentialHistory>>

\* The password that opens a session: the one that the login has checked.
CreateSession(r) ==
  /\ req[r].pc = "session"
  /\ \/ Misses(r)
     \/ /\ Here(Found(r).id)
        /\ sessions' = sessions \cup {[id |-> r, password |->
                         IF req[r].op = "login" THEN Found(r).password ELSE account.password]}
        /\ Continues(r, IF req[r].op = "login" THEN "forgive" ELSE "ok")
        /\ UNCHANGED <<account, tokens, resets, limiters, credentialHistory>>

\* A login that succeeded clears its counter.
ResetLogins(r) ==
  /\ req[r].pc = "forgive"
  /\ logins' = Limiter!Reset(logins, Address)
  /\ Answers(r, "ok")
  /\ UNCHANGED <<failures, credentialTables, peers, clock, credentialHistory>>

DeleteSession(r) ==
  /\ req[r].pc = "logout"
  /\ sessions' = {s \in sessions : s.id # req[r].key}
  /\ Continues(r, "ok")
  /\ UNCHANGED <<account, tokens, resets, limiters, credentialHistory>>

\* RequireVerified ("me") and OptionalVerified ("feed") look up the session and then
\* its user; the second lets a request without them through as anonymous.
Refuse(r, answer) == Answers(r, IF req[r].op = "feed" THEN "anonymous" ELSE answer)

FindSession(r) ==
  /\ req[r].pc \in {"me", "feed"}
  /\ \/ (\E s \in sessions : s.id = req[r].key) /\ Goes(r, "user", None)
     \/ Refuse(r, "unauthenticated")
  /\ UNCHANGED <<failures, credentialTables, limiters, credentialHistory>>

FindUser(r) ==
  /\ req[r].pc = "user"
  /\ IF account = None THEN Refuse(r, "unauthenticated")
     ELSE IF ~account.verified THEN Refuse(r, "forbidden") ELSE Answers(r, "ok")
  /\ UNCHANGED <<failures, credentialTables, limiters, credentialHistory>>

-----------------------------------------------------------------------------
(* handleResetRequest and handleResetConfirm *)

FindForReset(r) ==
  /\ req[r].pc = "forgot"
  /\ IF account = None THEN Answers(r, "ok") ELSE Goes(r, "reset_token", account)
  /\ UNCHANGED <<failures, credentialTables, limiters, credentialHistory>>

\* The answer is the same, whatever happens.
CreateReset(r) ==
  /\ req[r].pc = "reset_token"
  /\ \/ Misses(r)
     \/ /\ Here(Found(r).id)
        /\ resets' = resets \cup {r}
        /\ Continues(r, "ok")
        /\ UNCHANGED <<account, tokens, sessions, limiters, credentialHistory>>

\* Mutant of Revoked: the sessions stay.
RevokedNone == sessions

Revoked == {}

\* One statement consumes the token and, unless it has expired, sets the password and
\* revokes the sessions.
ResetPassword(r) ==
  /\ req[r].pc = "reset"
  /\ resets' = resets \ {req[r].key}
  /\ \/ /\ req[r].key \in resets
        /\ account' = [account EXCEPT !.password = r]
        /\ sessions' = Revoked
        /\ overtaken' = overtaken \cup {q \in Requests : req[q].op = "login" /\ req[q].pc = "session"}
        /\ Continues(r, "ok")
     \/ Answers(r, "invalid") /\ UNCHANGED <<failures, account, sessions, overtaken>>
  /\ UNCHANGED <<tokens, limiters, unrolled>>

Pass ==
  /\ clock < MaxClock
  /\ clock' = clock + 1
  /\ UNCHANGED <<requestVars, credentialTables, peers, logins, credentialHistory>>

-----------------------------------------------------------------------------

\* An account of before, as a registration that went well or wrong has left it.
OldAccount(consent, verified) ==
  [id |-> Earlier, password |-> Earlier, consent |-> consent, verified |-> verified]
Old(held) == IF account = None THEN {} ELSE held

CredentialTablesInit ==
  /\ account \in {None, OldAccount(FALSE, FALSE), OldAccount(TRUE, FALSE), OldAccount(TRUE, TRUE)}
  /\ tokens = Old(IF account.consent /\ ~account.verified THEN {Earlier} ELSE {})
  /\ resets = Old({Earlier})
  /\ sessions = Old({[id |-> Earlier, password |-> Earlier]})
  /\ peers = Limiter!NewLimiter /\ logins = Limiter!NewLimiter /\ clock = 0
  /\ unrolled = {} /\ overtaken = {}

CredentialsInit ==
  /\ req = [r \in Requests |-> Idle] /\ failures = 0
  /\ CredentialTablesInit

AskAny(r) ==
  \/ \E op \in {"register", "google"}, consent \in BOOLEAN : Ask(r, op, consent)
  \/ \E op \in {"login", "verify", "reset", "logout", "me", "feed"}, key \in Ids : Ask(r, op, key)
  \/ Ask(r, "forgot", None)

CredentialStep(r) ==
  \/ PassGate(r) \/ AllowPeer(r) \/ AllowLogin(r)
  \/ CreateUser(r) \/ SetConsent(r) \/ CreateVerification(r) \/ SendToken(r) \/ VerifyUser(r)
  \/ CheckPassword(r) \/ Exchange(r) \/ FindGoogleUser(r) \/ SetVerified(r)
  \/ CreateSession(r) \/ ResetLogins(r) \/ DeleteSession(r) \/ FindSession(r) \/ FindUser(r)
  \/ FindForReset(r) \/ CreateReset(r) \/ ResetPassword(r)
  \/ CredentialCallFails(r) \/ DeleteNewUser(r) \/ DeleteNewUserFails(r)

CredentialsNext ==
  \/ ServerStops \/ Pass
  \/ \E r \in Requests : AskAny(r) \/ CredentialStep(r)

CredentialsSpec == CredentialsInit /\ [][CredentialsNext]_credentialVars

-----------------------------------------------------------------------------
(* Properties *)

\* A verified account has consented; a registration that was answered 201 has an
\* account that consented and is verified or has its token; and one that failed
\* has left no account, unless its rollback failed too (auth/service.go:457).
AccountsAreWhole ==
  /\ account # None /\ account.verified => account.consent
  /\ \A r \in Requests : req[r].op = "register" /\ req[r].answer = "ok" =>
       Here(r) /\ account.consent /\ (account.verified \/ r \in tokens)
  /\ \A r \in Requests : req[r].op = "register" /\ req[r].answer = "error" =>
       ~Here(r) \/ r \in unrolled

\* Every session belongs to the account and was opened with its present password,
\* unless its login overlapped the reset of the password.
SessionsAreCurrent ==
  \A s \in sessions :
    account # None /\ (s.password = account.password \/ s.id \in overtaken)
=============================================================================
