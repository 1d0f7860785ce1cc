------------------------------ MODULE Accounts ------------------------------
(***************************************************************************)
(* One account: sign-up, verification by a mailed code, password reset,    *)
(* sessions and their refresh tokens (AuthModels, services/auth,           *)
(* services/auth-challenge).                                               *)
(*                                                                         *)
(* Only the rotation of a refresh token locks what it read; every other    *)
(* handler reads, decides, and writes later.  A refresh token is the pair  *)
(* of a session and the version of its token_hash; a mailed code is the    *)
(* pair of a challenge and the version of its code_hash; a password is its *)
(* version.  No code of the repository disables an account or changes its  *)
(* role, so status is always "active".                                     *)
(***************************************************************************)
EXTENDS Naturals, FiniteSets, FiniteSetsExt

CONSTANTS ChallengeIds, TokenIds, SessionIds, \* initial segments of Nat \ {0}
          Requests,                           \* requests served at the same time
          MaxAttempts,                        \* AUTH_OTP_MAX_ATTEMPTS
          MaxVersion,                         \* bound on codes, passwords and refresh tokens
          Starts                              \* accounts a behaviour may start with

VARIABLES account, challenges, tokens, sessions, requests,
          inbox,     \* codes that reached the account's mailbox
          exchanged, \* history: refreshes of each session that were answered
          ended      \* history: sessions that were logged out or reset

vars == <<account, challenges, tokens, sessions, requests, inbox, exchanged, ended>>

None == [missing |-> TRUE]
Idle == [op |-> "idle", late |-> FALSE]
Versions == 1..MaxVersion

AccountRow == [role : {"customer", "admin"}, verified : BOOLEAN, password : Versions]
ChallengeRow == [purpose : {"email_verification", "password_reset"}, code : Versions, attempts : 0..MaxAttempts + 1,
                 age : {"cooling", "open", "expired"}, consumed : BOOLEAN]
TokenRow == [status : {"open", "expired", "consumed"}]
SessionRow == [version : Versions, revoked : BOOLEAN, expired : BOOLEAN, password : Versions, late : BOOLEAN]

Unverified == [role |-> "customer", verified |-> FALSE, password |-> 1]
Verified == [role |-> "customer", verified |-> TRUE, password |-> 1]
Admin == [role |-> "admin", verified |-> TRUE, password |-> 1]

Free(rows) == {id \in DOMAIN rows : rows[id] = None}
Used(rows) == DOMAIN rows \ Free(rows)
Live(s) == sessions[s] # None /\ ~sessions[s].revoked /\ ~sessions[s].expired
IsCustomer == account # None /\ account.role = "customer"

Start(r, request) ==
    /\ requests[r] = Idle
    /\ requests' = [requests EXCEPT ![r] = request]
Continue(r, request) == requests' = [requests EXCEPT ![r] = request]
End(r) == Continue(r, Idle)

\* The rows a rotation holds until it commits; a password reset revokes them and so waits.
NeverLocked(s) == FALSE \* mutant: the session is read without FOR UPDATE
Locked(s) == \E r \in Requests : requests[r].op = "rotate" /\ requests[r].session = s

-----------------------------------------------------------------------------
(* Codes by mail                                                           *)

Wanted(purpose) == [op |-> "wanted", purpose |-> purpose, late |-> FALSE]

\* A sign-up whose e-mail address is not taken creates the account first.
BeginSignup(r) ==
    /\ account = None
    /\ Start(r, [op |-> "register", late |-> FALSE])
    /\ UNCHANGED <<account, challenges, tokens, sessions, inbox, exchanged, ended>>

\* The unique key on email turns the second of two sign-ups away.
Signup(r) ==
    /\ requests[r].op = "register"
    /\ IF account = None
       THEN account' = Unverified /\ Continue(r, Wanted("email_verification"))
       ELSE UNCHANGED account /\ End(r)
    /\ UNCHANGED <<challenges, tokens, sessions, inbox, exchanged, ended>>

\* A sign-up again, a sign-in before verification, or the button that asks for another code.
ResendVerification(r) ==
    /\ IsCustomer /\ ~account.verified
    /\ Start(r, Wanted("email_verification"))
    /\ UNCHANGED <<account, challenges, tokens, sessions, inbox, exchanged, ended>>

ForgotPassword(r) ==
    /\ IsCustomer
    /\ Start(r, Wanted("password_reset"))
    /\ UNCHANGED <<account, challenges, tokens, sessions, inbox, exchanged, ended>>

\* The challenge a new code goes to: one that is not consumed, else a new one.
FindChallenge(r) ==
    /\ requests[r].op = "wanted"
    /\ LET open == {c \in Used(challenges) : challenges[c].purpose = requests[r].purpose /\ ~challenges[c].consumed}
       IN  IF \E c \in open : challenges[c].age = "cooling"
           THEN End(r)
           ELSE \E c \in IF open = {} THEN {0} ELSE open :
                    Continue(r, [op |-> "issue", purpose |-> requests[r].purpose, row |-> c, late |-> requests[r].late])
    /\ UNCHANGED <<account, challenges, tokens, sessions, inbox, exchanged, ended>>

\* Saving an existing row leaves consumed_at alone.  The mail may not be delivered.
CreateOrResendChallenge(r) ==
    LET request == requests[r]
        c == IF request.row = 0 THEN Min(Free(challenges)) ELSE request.row
        code == IF request.row = 0 THEN 1 ELSE challenges[c].code + 1
        consumed == request.row # 0 /\ challenges[c].consumed
    IN  /\ request.op = "issue"
        /\ request.row = 0 => Free(challenges) # {}
        /\ code \in Versions
        /\ challenges' = [challenges EXCEPT ![c] = [purpose |-> request.purpose, code |-> code, attempts |-> 0,
                                                    age |-> "cooling", consumed |-> consumed]]
        /\ inbox' \in {inbox, inbox \cup {<<c, code>>}}
        /\ End(r)
        /\ UNCHANGED <<account, tokens, sessions, exchanged, ended>>

\* A code that was mailed, or one that was not (0).
BeginVerifyOTP(r) ==
    \E c \in Used(challenges) : \E code \in {0} \cup {v \in Versions : <<c, v>> \in inbox} :
        /\ ~challenges[c].consumed /\ challenges[c].age # "expired" /\ challenges[c].attempts < MaxAttempts
        /\ Start(r, [op |-> "otp", row |-> c, match |-> code = challenges[c].code,
                     attempts |-> challenges[c].attempts, late |-> FALSE])
        /\ UNCHANGED <<account, challenges, tokens, sessions, inbox, exchanged, ended>>

VerifyOTPChallenge(r) ==
    LET request == requests[r]
        purpose == challenges[request.row].purpose
    IN  /\ request.op = "otp"
        /\ IF request.match
           THEN /\ challenges' = [challenges EXCEPT ![request.row].consumed = TRUE]
                /\ Continue(r, [op |-> "proven", purpose |-> purpose, late |-> request.late])
           ELSE /\ challenges' = [challenges EXCEPT ![request.row].attempts = request.attempts + 1]
                /\ End(r)
        /\ UNCHANGED <<account, tokens, sessions, inbox, exchanged, ended>>

\* generatePasswordResetToken, in a statement of its own after the challenge is consumed.
VerifyResetOTP(r) ==
    /\ requests[r].op = "proven" /\ requests[r].purpose = "password_reset"
    /\ Free(tokens) # {}
    /\ tokens' = [tokens EXCEPT ![Min(Free(tokens))] = [status |-> "open"]]
    /\ End(r)
    /\ UNCHANGED <<account, challenges, sessions, inbox, exchanged, ended>>

-----------------------------------------------------------------------------
(* Sessions                                                                *)

CreateSession(password, late) ==
    /\ Free(sessions) # {}
    /\ sessions' = [sessions EXCEPT ![Min(Free(sessions))] =
                        [version |-> 1, revoked |-> FALSE, expired |-> FALSE, password |-> password, late |-> late]]

VerifyEmail(r) ==
    /\ requests[r].op = "proven" /\ requests[r].purpose = "email_verification"
    /\ account' = [account EXCEPT !.verified = TRUE]
    /\ CreateSession(account.password, requests[r].late)
    /\ End(r)
    /\ UNCHANGED <<challenges, tokens, inbox, exchanged, ended>>

\* The account is read and the password compared before the session is created.
BeginSignin(r) ==
    /\ account # None
    /\ account.verified \/ account.role = "admin"
    /\ Start(r, [op |-> "open", password |-> account.password, late |-> FALSE])
    /\ UNCHANGED <<account, challenges, tokens, sessions, inbox, exchanged, ended>>

Signin(r) ==
    /\ requests[r].op = "open"
    /\ CreateSession(requests[r].password, requests[r].late)
    /\ End(r)
    /\ UNCHANGED <<account, challenges, tokens, inbox, exchanged, ended>>

\* A client that presents the session's present refresh token; the row is found and locked.
BeginRotateSession(r) ==
    \E s \in {s \in SessionIds : Live(s) /\ ~Locked(s)} :
        /\ Start(r, [op |-> "rotate", session |-> s, version |-> sessions[s].version, late |-> FALSE])
        /\ UNCHANGED <<account, challenges, tokens, sessions, inbox, exchanged, ended>>

RotateSession(r) ==
    LET request == requests[r]
    IN  /\ request.op = "rotate"
        /\ request.version < MaxVersion
        /\ sessions' = [sessions EXCEPT ![request.session].version = request.version + 1]
        /\ exchanged' = [exchanged EXCEPT ![request.session] = @ + 1]
        /\ End(r)
        /\ UNCHANGED <<account, challenges, tokens, inbox, ended>>

\* Logging out finds the session by its present token, without a lock.
BeginRevokeSession(r) ==
    \E s \in Used(sessions) :
        /\ ~sessions[s].revoked
        /\ Start(r, [op |-> "revoke", session |-> s, late |-> FALSE])
        /\ UNCHANGED <<account, challenges, tokens, sessions, inbox, exchanged, ended>>

RevokeSession(r) ==
    LET s == requests[r].session
    IN  /\ requests[r].op = "revoke"
        /\ ~Locked(s)
        /\ sessions' = [sessions EXCEPT ![s].revoked = TRUE]
        /\ ended' = ended \cup {s}
        /\ End(r)
        /\ UNCHANGED <<account, challenges, tokens, inbox, exchanged>>

-----------------------------------------------------------------------------
(* Resetting the password                                                  *)

BeginResetPassword(r) ==
    \E t \in Used(tokens) :
        /\ tokens[t].status = "open"
        /\ Start(r, [op |-> "consume", token |-> t, late |-> FALSE])
        /\ UNCHANGED <<account, challenges, tokens, sessions, inbox, exchanged, ended>>

VerifyAndConsumeResetToken(r) ==
    /\ requests[r].op = "consume"
    /\ tokens' = [tokens EXCEPT ![requests[r].token].status = "consumed"]
    /\ Continue(r, [op |-> "reset", late |-> requests[r].late])
    /\ UNCHANGED <<account, challenges, sessions, inbox, exchanged, ended>>

\* The password and every session of the account, in one transaction.
Revoked(s) == sessions[s] # None /\ ~sessions[s].revoked
ResetPassword(r) ==
    /\ requests[r].op = "reset"
    /\ \A s \in SessionIds : ~Locked(s)
    /\ account.password < MaxVersion
    /\ account' = [account EXCEPT !.password = @ + 1]
    /\ sessions' = [s \in SessionIds |-> IF Revoked(s) THEN [sessions[s] EXCEPT !.revoked = TRUE] ELSE sessions[s]]
    /\ ended' = ended \cup {s \in SessionIds : Revoked(s)}
    /\ requests' = [q \in Requests |-> IF q = r \/ requests[q] = Idle THEN Idle ELSE [requests[q] EXCEPT !.late = TRUE]]
    /\ UNCHANGED <<challenges, tokens, inbox, exchanged>>

-----------------------------------------------------------------------------
(* Time, and processes that stop                                           *)

Later(age) == IF age = "cooling" THEN "open" ELSE "expired"

TimePasses ==
    /\ \/ \E c \in Used(challenges) :
              /\ challenges[c].age # "expired"
              /\ challenges' = [challenges EXCEPT ![c].age = Later(@)]
              /\ UNCHANGED <<tokens, sessions>>
       \/ \E t \in Used(tokens) :
              /\ tokens[t].status = "open"
              /\ tokens' = [tokens EXCEPT ![t].status = "expired"]
              /\ UNCHANGED <<challenges, sessions>>
       \/ \E s \in SessionIds :
              /\ Live(s)
              /\ sessions' = [sessions EXCEPT ![s].expired = TRUE]
              /\ UNCHANGED <<challenges, tokens>>
    /\ UNCHANGED <<account, requests, inbox, exchanged, ended>>

\* What a request committed stays; a transaction it had open, and its locks, are gone.
Crash(r) ==
    /\ requests[r] # Idle
    /\ End(r)
    /\ UNCHANGED <<account, challenges, tokens, sessions, inbox, exchanged, ended>>

Init ==
    /\ account \in Starts
    /\ challenges = [c \in ChallengeIds |-> None]
    /\ tokens = [t \in TokenIds |-> None]
    /\ sessions = [s \in SessionIds |-> None]
    /\ requests = [r \in Requests |-> Idle]
    /\ inbox = {}
    /\ exchanged = [s \in SessionIds |-> 0]
    /\ ended = {}

Next ==
    \/ \E r \in Requests :
           \/ BeginSignup(r) \/ Signup(r) \/ ResendVerification(r) \/ ForgotPassword(r)
           \/ FindChallenge(r) \/ CreateOrResendChallenge(r)
           \/ BeginVerifyOTP(r) \/ VerifyOTPChallenge(r) \/ VerifyEmail(r) \/ VerifyResetOTP(r)
           \/ BeginSignin(r) \/ Signin(r)
           \/ BeginRotateSession(r) \/ RotateSession(r)
           \/ BeginRevokeSession(r) \/ RevokeSession(r)
           \/ BeginResetPassword(r) \/ VerifyAndConsumeResetToken(r) \/ ResetPassword(r)
           \/ Crash(r)
    \/ TimePasses

Spec == Init /\ [][Next]_vars

-----------------------------------------------------------------------------
(* Properties                                                              *)

\* The variables hold what their rows may hold.
TypeOK ==
    /\ account \in AccountRow \cup {None}
    /\ challenges \in [ChallengeIds -> ChallengeRow \cup {None}]
    /\ tokens \in [TokenIds -> TokenRow \cup {None}]
    /\ sessions \in [SessionIds -> SessionRow \cup {None}]
    /\ inbox \subseteq ChallengeIds \X Versions
    /\ exchanged \in [SessionIds -> 0..MaxVersion]
    /\ ended \subseteq SessionIds

\* One refresh token is exchanged once: every refresh that was answered has a place of its
\* own in the session's chain of tokens (rotateSession).
ExchangedOnce == \A s \in Used(sessions) : exchanged[s] = sessions[s].version - 1

\* Nothing reopens a session that a logout or a password reset ended.
EndedStaysEnded == \A s \in ended : sessions[s].revoked

\* A customer has a session only after verifying the e-mail address.
VerifiedFirst == Used(sessions) # {} => account.verified \/ account.role = "admin"

\* After a password reset, no session goes on that was opened with an older password, but
\* for sign-ins and verifications that were under way when it committed.
CurrentPassword == \A s \in SessionIds : Live(s) => sessions[s].password = account.password \/ sessions[s].late

SessionsSound == ExchangedOnce /\ EndedStaysEnded /\ VerifiedFirst /\ CurrentPassword

=============================================================================
