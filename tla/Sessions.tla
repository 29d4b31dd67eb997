------------------------------ MODULE Sessions ------------------------------
(***************************************************************************)
(* The login sessions of one account, a customer's or an administrator's:  *)
(* logging in with or without a second factor, the limit on sessions,      *)
(* rotation of refresh tokens, single sign-on tokens, logging out, expiry, *)
(* and the operations that end every session.  Each statement is a step    *)
(* of its own; requests of the same account interleave.                    *)
(*                                                                         *)
(* Passwords, codes and tokens are not modelled as data: whether a         *)
(* password or a code is right is chosen, a refresh token is the id of     *)
(* the session it was made for, a TOTP secret is a number.                 *)
(***************************************************************************)
EXTENDS Naturals, Sequences, SequencesExt, FiniteSets

CONSTANTS Requests,            \* requests served at a time
          MaxSessions,         \* MaxCustomerSessions or MaxAdminSessions
          MaxFailedLogins,     \* MaxFailedLoginAttempts
          MaxCodes,            \* twoFARateLimitMax
          MaxAsked, MaxSessionFaults    \* bounds

VARIABLES kind,           \* "customer" or "admin"
          account,        \* the customers or admins row
          sessions,       \* the sessions rows, oldest created_at first
          failed,         \* failed_login_attempts within LockoutWindow
          challenge,      \* the temp token, and the tries counted against it
          sso, reset,     \* the single sign-on token, the password reset token
          serving,        \* the locals of each request
          ids, logins, secrets,   \* given so far
          ended,          \* history: logins whose session was deleted
          verified,       \* history: secrets whose code was checked for Enable2FA
          redeemed,       \* history: sessions made from the single sign-on token
          excess,         \* history: see SessionLimit
          sessionsAsked, sessionFaults

sessionVars == <<kind, account, sessions, failed, challenge, sso, reset, serving, ids, logins,
                 secrets, ended, verified, redeemed, excess, sessionsAsked, sessionFaults>>

rows == <<account, sessions, failed, challenge, sso, reset>>
marks == <<ids, logins, secrets, ended, verified, redeemed, excess>>

Idle == [op |-> "none", at |-> "idle", sid |-> 0, login |-> 0,
         seen |-> [status |-> "active", totp |-> "off", secret |-> 0]]

(* The account has logged in as often as the limit allows, or not at all.  *)
Init ==
  /\ kind \in {"customer", "admin"}
  /\ \E totp \in {"off", "on"} :
       /\ kind = "admin" => totp = "on"
       /\ account = [status |-> "active", totp |-> totp, secret |-> 0]
  /\ \E n \in {0, MaxSessions} :
       /\ sessions = [i \in 1..n |-> [id |-> i, login |-> i, old |-> FALSE]]
       /\ ids = n /\ logins = n
  /\ failed = 0
  /\ challenge = [live |-> FALSE, tries |-> 0, exhausted |-> FALSE]
  /\ sso = "none" /\ reset = "none"
  /\ serving = [r \in Requests |-> Idle]
  /\ secrets = 0 /\ ended = {} /\ verified = {0} /\ redeemed = 0 /\ excess = FALSE
  /\ sessionsAsked = 0 /\ sessionFaults = 0

-----------------------------------------------------------------------------
(* Statements.                                                             *)

Fail == /\ sessionFaults < MaxSessionFaults
        /\ sessionFaults' = sessionFaults + 1
NoFault == UNCHANGED sessionFaults
At(r, op, at) == serving[r].op \in op /\ serving[r].at = at
Goto(r, at) == serving' = [serving EXCEPT ![r].at = at]
Done(r) == serving' = [serving EXCEPT ![r] = Idle]
Ask(r, op, at, sid) ==
  /\ serving[r].at = "idle" /\ sessionsAsked < MaxAsked
  /\ sessionsAsked' = sessionsAsked + 1
  /\ serving' = [serving EXCEPT ![r] = [Idle EXCEPT !.op = op, !.at = at, !.sid = sid]]
  /\ UNCHANGED <<kind, marks, sessionFaults>>

TurnAway(r) ==
  /\ serving[r].at = "idle" /\ sessionsAsked < MaxAsked
  /\ sessionsAsked' = sessionsAsked + 1
  /\ UNCHANGED <<kind, serving, marks, sessionFaults>>

Numbered(sid) == {i \in DOMAIN sessions : sessions[i].id = sid}
LoginsOf(s) == {s[i].login : i \in DOMAIN s}
Active == Cardinality({i \in DOMAIN sessions : ~sessions[i].old})

InsertSession(rest, login) == Append(rest, [id |-> ids + 1, login |-> login, old |-> FALSE])

CreateSession ==
  /\ sessions' = InsertSession(sessions, logins + 1)
  /\ ids' = ids + 1 /\ logins' = logins + 1

DeleteSessions(gone) ==
  /\ sessions' = SelectSeq(sessions, LAMBDA s : s.id \notin gone)
  /\ ended' = ended \cup {s.login : s \in {sessions[i] : i \in {j \in DOMAIN sessions : sessions[j].id \in gone}}}

DeleteSession(sid) == DeleteSessions({sid})

DeleteOldestSession == IF sessions = <<>> THEN UNCHANGED <<sessions, ended>>
                       ELSE DeleteSession(Head(sessions).id)

DeleteSessionsByUser == DeleteSessions({sessions[i].id : i \in DOMAIN sessions})

(* RotateSession whatever the DELETE found.                                *)
RotateBlindly(sid, login) ==
  /\ sessions' = InsertSession(SelectSeq(sessions, LAMBDA s : s.id # sid), login)
  /\ ids' = ids + 1

(* One transaction: the old row must still be there.                       *)
RotateSession(sid, login) ==
  /\ Numbered(sid) # {}
  /\ sessions' = InsertSession(SelectSeq(sessions, LAMBDA s : s.id # sid), login)
  /\ ids' = ids + 1

(* UpdateTOTPEnabled writes the flag and the secret together.              *)
UpdateTOTPEnabled(totp, secret) == account' = [account EXCEPT !.totp = totp, !.secret = secret]

-----------------------------------------------------------------------------
(* Logging in.                                                             *)

Login(r) == /\ kind = "customer" /\ Ask(r, "login", "lockout", 0)
            /\ UNCHANGED rows

AdminLogin(r) == /\ kind = "admin" /\ Ask(r, "login", "lockout", 0)
                 /\ UNCHANGED rows

CheckLoginLockout(r) ==
  /\ At(r, {"login"}, "lockout")
  /\ IF failed >= MaxFailedLogins THEN Done(r) ELSE Goto(r, "verify")
  /\ UNCHANGED <<kind, rows, marks, sessionsAsked, sessionFaults>>

RecordFailedLogin == failed' = IF failed < MaxFailedLogins THEN failed + 1 ELSE failed

(* verifyLoginCredentials, verifyAdminCredentials                          *)
VerifyLoginCredentials(r) ==
  /\ At(r, {"login"}, "verify")
  /\ \/ RecordFailedLogin /\ Done(r)
     \/ /\ serving' = [serving EXCEPT ![r].at = "clear", ![r].seen = account]
        /\ UNCHANGED failed
  /\ UNCHANGED <<kind, account, sessions, challenge, sso, reset, marks, sessionsAsked, sessionFaults>>

GenerateTempToken == challenge' = [live |-> TRUE, tries |-> 0, exhausted |-> FALSE]

(* The rest of Login: the row read by verifyLoginCredentials decides       *)
(* between a refusal, a challenge and a session.                           *)
FinishLogin(r) ==
  /\ At(r, {"login"}, "clear")
  /\ failed' = 0
  /\ LET seen == serving[r].seen IN
     \/ seen.status # "active" /\ Done(r) /\ UNCHANGED challenge
     \/ seen.status = "active" /\ seen.totp = "on" /\ GenerateTempToken /\ Done(r)
     \/ seen.status = "active" /\ seen.totp # "on" /\ Goto(r, "count") /\ UNCHANGED challenge
  /\ UNCHANGED <<kind, account, sessions, sso, reset, marks, sessionsAsked, sessionFaults>>

(* The temp token allows MaxCodes tries; one more and it is exhausted.     *)
CheckVerify2FARateLimit(allowed) ==
  /\ challenge.live
  /\ allowed = (challenge.tries < MaxCodes /\ ~challenge.exhausted)
  /\ challenge' = IF allowed THEN [challenge EXCEPT !.tries = @ + 1]
                  ELSE [challenge EXCEPT !.exhausted = TRUE]

SubmitCode(r) ==
  /\ \/ CheckVerify2FARateLimit(TRUE) /\ Ask(r, "verify", "code", 0)
     \/ CheckVerify2FARateLimit(FALSE) /\ TurnAway(r)
  /\ UNCHANGED <<account, sessions, failed, sso, reset>>

Verify2FA(r) == kind = "customer" /\ SubmitCode(r)

AdminVerify2FA(r) == kind = "admin" /\ SubmitCode(r)

(* AuthService.Verify2FA and AdminVerify2FA up to the session limit.       *)
ValidateTOTPCode(r) ==
  /\ At(r, {"verify"}, "code")
  /\ \/ Done(r)
     \/ account.totp = "on" /\ Goto(r, "count")
  /\ UNCHANGED <<kind, rows, marks, sessionsAsked, sessionFaults>>

(* enforceCustomerSessionLimit, enforceAdminSessionLimit: the count, ...   *)
CountSessionsByUser(r) ==
  /\ At(r, {"login", "verify", "sso"}, "count")
  /\ \/ /\ NoFault
        /\ Goto(r, IF Active >= MaxSessions THEN "evict" ELSE "insert")
        /\ excess' = (excess \/ \E o \in Requests \ {r} : serving[o].at \in {"evict", "insert"})
     \/ Fail /\ Goto(r, "insert") /\ excess' = TRUE
  /\ UNCHANGED <<kind, rows, ids, logins, secrets, ended, verified, redeemed, sessionsAsked>>

(* ... and the eviction, whose failure is only logged.                     *)
EvictOldest(r) ==
  /\ At(r, {"login", "verify", "sso"}, "evict")
  /\ \/ /\ NoFault /\ DeleteOldestSession
        /\ excess' = (excess \/ sessions = <<>> \/ Head(sessions).old)
     \/ Fail /\ excess' = TRUE /\ UNCHANGED <<sessions, ended>>
  /\ Goto(r, "insert")
  /\ UNCHANGED <<kind, account, failed, challenge, sso, reset, ids, logins, secrets, verified,
                 redeemed, sessionsAsked>>

(* recordVerify2FASuccess forgets the tries.                               *)
CreateLoginSession(r) ==
  /\ At(r, {"login", "verify", "sso"}, "insert")
  /\ \/ /\ NoFault /\ CreateSession
        /\ challenge' = IF serving[r].op = "verify" THEN [challenge EXCEPT !.tries = 0] ELSE challenge
        /\ redeemed' = IF serving[r].op = "sso" THEN redeemed + 1 ELSE redeemed
     \/ Fail /\ UNCHANGED <<sessions, ids, logins, challenge, redeemed>>
  /\ Done(r)
  /\ UNCHANGED <<kind, account, failed, sso, reset, secrets, ended, verified, excess, sessionsAsked>>

-----------------------------------------------------------------------------
(* Refreshing and logging out.                                             *)

RefreshToken(r, sid) ==
  /\ Ask(r, "refresh", "find", sid)
  /\ UNCHANGED rows

(* An expired session found by its refresh token is deleted.               *)
GetSessionByRefreshToken(r) ==
  /\ At(r, {"refresh"}, "find")
  /\ LET sid == serving[r].sid IN
     \/ Numbered(sid) = {} /\ Done(r) /\ UNCHANGED <<sessions, ended>> /\ NoFault
     \/ /\ \E i \in Numbered(sid) : sessions[i].old
        /\ \/ DeleteSession(sid) /\ NoFault
           \/ Fail /\ UNCHANGED <<sessions, ended>>
        /\ Done(r)
     \/ /\ \E i \in Numbered(sid) : /\ ~sessions[i].old
                                    /\ serving' = [serving EXCEPT ![r].at = "rotate",
                                                                  ![r].login = sessions[i].login]
        /\ UNCHANGED <<sessions, ended>> /\ NoFault
  /\ UNCHANGED <<kind, account, failed, challenge, sso, reset, ids, logins, secrets, verified,
                 redeemed, excess, sessionsAsked>>

RefreshSession(r) ==
  /\ At(r, {"refresh"}, "rotate")
  /\ \/ RotateSession(serving[r].sid, serving[r].login)
     \/ Numbered(serving[r].sid) = {} /\ UNCHANGED <<sessions, ids>>
  /\ Done(r)
  /\ excess' = (excess \/ \E i \in Numbered(serving[r].sid) : sessions[i].old)
  /\ UNCHANGED <<kind, account, failed, challenge, sso, reset, logins, secrets, ended, verified,
                 redeemed, sessionsAsked, sessionFaults>>

(* A customer logs out of one session, ...                                 *)
Logout(r, sid) ==
  /\ kind = "customer"
  /\ Ask(r, "logout", "own", sid)
  /\ UNCHANGED rows

LogoutOne(r) ==
  /\ At(r, {"logout"}, "own")
  /\ \/ DeleteSession(serving[r].sid) /\ NoFault
     \/ Fail /\ UNCHANGED <<sessions, ended>>
  /\ Done(r)
  /\ UNCHANGED <<kind, account, failed, challenge, sso, reset, ids, logins, secrets, verified,
                 redeemed, excess, sessionsAsked>>

(* ... an administrator of all.                                            *)
AdminLogout(r) ==
  /\ kind = "admin"
  /\ Ask(r, "logout", "all", 0)
  /\ UNCHANGED rows

(* LogoutAll is the last statement of several operations; its failure is   *)
(* only logged.                                                            *)
LogoutAll(r) ==
  /\ At(r, {"logout", "change", "reset", "enable"}, "all")
  /\ \/ DeleteSessionsByUser /\ NoFault
     \/ Fail /\ UNCHANGED <<sessions, ended>>
  /\ Done(r)
  /\ UNCHANGED <<kind, account, failed, challenge, sso, reset, ids, logins, secrets, verified,
                 redeemed, excess, sessionsAsked>>

-----------------------------------------------------------------------------
(* Changing and resetting the password.                                    *)

ChangePassword(r) ==
  /\ kind = "customer"
  /\ Ask(r, "change", "current", 0)
  /\ UNCHANGED rows

VerifyCurrentPassword(r) ==
  /\ At(r, {"change"}, "current")
  /\ Done(r) \/ Goto(r, "hash")
  /\ UNCHANGED <<kind, rows, marks, sessionsAsked, sessionFaults>>

(* A failed write ends the request; then the sessions end, or first the    *)
(* reset token.                                                            *)
UpdateCustomerPasswordHash(r) ==
  /\ At(r, {"change", "reset"}, "hash")
  /\ \/ NoFault /\ Goto(r, IF serving[r].op = "reset" THEN "used" ELSE "all")
     \/ Fail /\ Done(r)
  /\ UNCHANGED <<kind, rows, marks, sessionsAsked>>

RequestPasswordReset(r) ==
  /\ kind = "customer" /\ reset = "none" /\ account.status = "active"
  /\ TurnAway(r)
  /\ reset' = "valid"
  /\ UNCHANGED <<account, sessions, failed, challenge, sso>>

ResetPassword(r) ==
  /\ kind = "customer" /\ reset # "none"
  /\ Ask(r, "reset", "lookup", 0)
  /\ UNCHANGED rows

GetPasswordResetByTokenHash(r) ==
  /\ At(r, {"reset"}, "lookup")
  /\ IF reset = "valid" THEN Goto(r, "hash") ELSE Done(r)
  /\ UNCHANGED <<kind, rows, marks, sessionsAsked, sessionFaults>>

MarkPasswordResetUsed(r) ==
  /\ At(r, {"reset"}, "used")
  /\ \/ NoFault /\ reset' = "used"
     \/ Fail /\ UNCHANGED reset
  /\ Goto(r, "all")
  /\ UNCHANGED <<kind, account, sessions, failed, challenge, sso, marks, sessionsAsked>>

-----------------------------------------------------------------------------
(* Single sign-on.                                                         *)

CreateSSOToken(r) ==
  /\ kind = "customer" /\ sso = "none"
  /\ TurnAway(r)
  /\ sso' = "there"
  /\ UNCHANGED <<account, sessions, failed, challenge, reset>>

ExchangeSSOToken(r) ==
  /\ sso # "none"
  /\ Ask(r, "sso", "consume", 0)
  /\ UNCHANGED rows

(* DELETE ... RETURNING: one request gets the row.                         *)
ConsumeByHash(r) ==
  /\ At(r, {"sso"}, "consume")
  /\ IF sso = "there" THEN sso' = "gone" /\ Goto(r, "customer") ELSE UNCHANGED sso /\ Done(r)
  /\ UNCHANGED <<kind, account, sessions, failed, challenge, reset, marks, sessionsAsked, sessionFaults>>

CreateCustomerSSOSession(r) ==
  /\ At(r, {"sso"}, "customer")
  /\ IF account.status = "active" THEN Goto(r, "count") ELSE Done(r)
  /\ UNCHANGED <<kind, rows, marks, sessionsAsked, sessionFaults>>

-----------------------------------------------------------------------------
(* The second factor of a customer.                                        *)

Initiate2FA(r) ==
  /\ kind = "customer" /\ Ask(r, "initiate", "setup", 0)
  /\ UNCHANGED rows

Enable2FA(r) ==
  /\ kind = "customer" /\ Ask(r, "enable", "setup", 0)
  /\ UNCHANGED rows

Disable2FA(r) ==
  /\ kind = "customer" /\ Ask(r, "disable", "setup", 0)
  /\ UNCHANGED rows

(* Each reads the row and checks it and the code or the password ...       *)
Check2FA(r) ==
  /\ At(r, {"initiate", "enable", "disable"}, "setup")
  /\ \/ Done(r) /\ UNCHANGED verified
     \/ /\ CASE serving[r].op = "initiate" -> account.totp # "on" /\ UNCHANGED verified
             [] serving[r].op = "enable" -> /\ account.totp = "pending"
                                            /\ verified' = verified \cup {account.secret}
             [] serving[r].op = "disable" -> account.totp = "on" /\ UNCHANGED verified
        /\ serving' = [serving EXCEPT ![r].at = "store", ![r].seen = account]
  /\ UNCHANGED <<kind, rows, ids, logins, secrets, ended, redeemed, excess, sessionsAsked, sessionFaults>>

(* ... and then writes: a new secret, ...                                  *)
StoreSecret(r) ==
  /\ At(r, {"initiate"}, "store")
  /\ secrets' = secrets + 1
  /\ UpdateTOTPEnabled("pending", secrets + 1)
  /\ Done(r)
  /\ UNCHANGED <<kind, sessions, failed, challenge, sso, reset, ids, logins, ended, verified,
                 redeemed, excess, sessionsAsked, sessionFaults>>

(* ... the secret it has checked, with every session ended, ...            *)
EnableSecret(r) ==
  /\ At(r, {"enable"}, "store")
  /\ UpdateTOTPEnabled("on", serving[r].seen.secret)
  /\ Goto(r, "all")
  /\ UNCHANGED <<kind, sessions, failed, challenge, sso, reset, marks, sessionsAsked, sessionFaults>>

(* ... or none.                                                            *)
RemoveSecret(r) ==
  /\ At(r, {"disable"}, "store")
  /\ UpdateTOTPEnabled("off", 0)
  /\ Done(r)
  /\ UNCHANGED <<kind, sessions, failed, challenge, sso, reset, marks, sessionsAsked, sessionFaults>>

-----------------------------------------------------------------------------
(* Time, the cleanup job and the administration.                           *)

(* Sessions last equally long: the oldest expires first.                   *)
Expire ==
  /\ \E i \in DOMAIN sessions :
       /\ ~sessions[i].old /\ \A j \in 1..i - 1 : sessions[j].old
       /\ sessions' = [sessions EXCEPT ![i].old = TRUE]
  /\ UNCHANGED <<kind, account, failed, challenge, sso, reset, serving, marks, sessionsAsked, sessionFaults>>

LockoutEnds ==
  /\ failed > 0 /\ failed' = 0
  /\ UNCHANGED <<kind, account, sessions, challenge, sso, reset, serving, marks, sessionsAsked, sessionFaults>>

TempTokenExpires ==
  /\ challenge.live /\ challenge' = [live |-> FALSE, tries |-> 0, exhausted |-> FALSE]
  /\ UNCHANGED <<kind, account, sessions, failed, sso, reset, serving, marks, sessionsAsked, sessionFaults>>

DeleteExpiredSessions ==
  /\ \E i \in DOMAIN sessions : sessions[i].old
  /\ DeleteSessions({sessions[i].id : i \in {j \in DOMAIN sessions : sessions[j].old}})
  /\ UNCHANGED <<kind, account, failed, challenge, sso, reset, serving, ids, logins, secrets, verified,
                 redeemed, excess, sessionsAsked, sessionFaults>>

UpdateStatus ==
  /\ kind = "customer" /\ account.status = "active"
  /\ account' = [account EXCEPT !.status = "suspended"]
  /\ UNCHANGED <<kind, sessions, failed, challenge, sso, reset, serving, marks, sessionsAsked, sessionFaults>>

Step(r) ==
  \/ CheckLoginLockout(r) \/ VerifyLoginCredentials(r) \/ FinishLogin(r) \/ ValidateTOTPCode(r)
  \/ CountSessionsByUser(r) \/ EvictOldest(r) \/ CreateLoginSession(r)
  \/ GetSessionByRefreshToken(r) \/ RefreshSession(r) \/ LogoutOne(r) \/ LogoutAll(r)
  \/ VerifyCurrentPassword(r) \/ UpdateCustomerPasswordHash(r)
  \/ GetPasswordResetByTokenHash(r) \/ MarkPasswordResetUsed(r)
  \/ ConsumeByHash(r) \/ CreateCustomerSSOSession(r)
  \/ Check2FA(r) \/ StoreSecret(r) \/ EnableSecret(r) \/ RemoveSecret(r)

Next ==
  \/ \E r \in Requests :
       \/ Login(r) \/ AdminLogin(r) \/ Verify2FA(r) \/ AdminVerify2FA(r)
       \/ \E sid \in 1..ids : RefreshToken(r, sid) \/ Logout(r, sid)
       \/ AdminLogout(r) \/ ChangePassword(r) \/ RequestPasswordReset(r) \/ ResetPassword(r)
       \/ CreateSSOToken(r) \/ ExchangeSSOToken(r) \/ Initiate2FA(r) \/ Enable2FA(r) \/ Disable2FA(r)
       \/ Step(r)
  \/ Expire \/ LockoutEnds \/ TempTokenExpires \/ DeleteExpiredSessions \/ UpdateStatus

Spec == Init /\ [][Next]_sessionVars

-----------------------------------------------------------------------------
TypeOK ==
  /\ kind \in {"customer", "admin"}
  /\ account.status \in {"active", "suspended"} /\ account.totp \in {"off", "pending", "on"}
  /\ \A i \in DOMAIN sessions : sessions[i].id \in 1..ids /\ sessions[i].login \in 1..logins
  /\ failed \in 0..MaxFailedLogins /\ challenge.tries \in 0..MaxCodes
  /\ ended \subseteq 1..logins /\ sso \in {"none", "there", "gone"}
  /\ reset \in {"none", "valid", "used"}

(* However often its refresh token is presented, and by however many       *)
(* requests at once, a login has one session: RotateSession moves it.      *)
OneSessionPerLogin ==
  \A i, j \in DOMAIN sessions : sessions[i].login = sessions[j].login => i = j

(* A login whose session was deleted - by a logout, an eviction, a         *)
(* password change, the cleanup - has none again, although a request to    *)
(* refresh it may have read the session before.                            *)
EndedStaysEnded == LoginsOf(sessions) \cap ended = {}

(* An account has at most MaxSessions unexpired sessions, unless two       *)
(* logins overlap, a statement of the limit fails, the oldest session that *)
(* is evicted had expired, or one expired while it was rotated (excess).   *)
SessionLimit == ~excess => Active <= MaxSessions

(* A single sign-on token makes one session at most.                       *)
TokenRedeemedOnce == redeemed <= 1

(* The secret that is asked for at login is one the customer has shown to  *)
(* have: an Initiate2FA that overlaps an Enable2FA does not replace it.    *)
EnabledSecretIsVerified == account.totp = "on" => account.secret \in verified
=============================================================================
