----------------------------- MODULE SiteProofs -----------------------------
(***************************************************************************)
(* Theorems about the account, the mails and the contents of MCSite, for   *)
(* every value of its constants: any number of overlapping requests, of    *)
(* sessions, codes, addresses, reviews, popups and messages.               *)
(***************************************************************************)
EXTENDS MCSite, Sums

LEMMA MinIn == ASSUME NEW S \in SUBSET Nat, S # {} PROVE Logins!Min(S) \in S
<1> QED
    BY LeastMember DEF Logins!Min

-----------------------------------------------------------------------------
(* Accounts: what a request has read.                                        *)

Purposes == {"email_verification", "password_reset"}
LoginRequest ==
    {Logins!Idle}
    \cup [op : {"register", "reset"}, late : BOOLEAN]
    \cup [op : {"wanted", "proven"}, purpose : Purposes, late : BOOLEAN]
    \cup [op : {"issue"}, purpose : Purposes, row : ChallengeIds \cup {0}, late : BOOLEAN]
    \cup [op : {"otp"}, row : ChallengeIds, match : BOOLEAN, attempts : 0..MaxAttempts, late : BOOLEAN]
    \cup [op : {"open"}, password : Logins!Versions, late : BOOLEAN]
    \cup [op : {"rotate"}, session : SessionIds, version : Logins!Versions, late : BOOLEAN]
    \cup [op : {"revoke"}, session : SessionIds, late : BOOLEAN]
    \cup [op : {"consume"}, token : TokenIds, late : BOOLEAN]

LEMMA RequestShape ==
    ASSUME NEW q \in LoginRequest
    PROVE  /\ q.late \in BOOLEAN
           /\ q.op \in {"wanted", "proven", "issue"} => q.purpose \in Purposes
           /\ q.op = "issue" => q.row \in ChallengeIds \cup {0}
           /\ q.op = "otp" => q.row \in ChallengeIds /\ q.attempts \in 0..MaxAttempts
           /\ q.op = "open" => q.password \in Logins!Versions
           /\ q.op = "rotate" => q.session \in SessionIds /\ q.version \in Logins!Versions
           /\ q.op = "revoke" => q.session \in SessionIds
           /\ q.op = "consume" => q.token \in TokenIds
           /\ q # Logins!Idle => q.op # "idle"
<1>1. CASE q = Logins!Idle
    BY <1>1 DEF Logins!Idle
<1>2. CASE q \in [op : {"register", "reset"}, late : BOOLEAN]
    BY <1>2
<1>3. CASE q \in [op : {"wanted", "proven"}, purpose : Purposes, late : BOOLEAN]
    BY <1>3
<1>4. CASE q \in [op : {"issue"}, purpose : Purposes, row : ChallengeIds \cup {0}, late : BOOLEAN]
    BY <1>4
<1>5. CASE q \in [op : {"otp"}, row : ChallengeIds, match : BOOLEAN, attempts : 0..MaxAttempts, late : BOOLEAN]
    BY <1>5
<1>6. CASE q \in [op : {"open"}, password : Logins!Versions, late : BOOLEAN]
    BY <1>6
<1>7. CASE q \in [op : {"rotate"}, session : SessionIds, version : Logins!Versions, late : BOOLEAN]
    BY <1>7
<1>8. CASE q \in [op : {"revoke"}, session : SessionIds, late : BOOLEAN]
    BY <1>8
<1>9. CASE q \in [op : {"consume"}, token : TokenIds, late : BOOLEAN]
    BY <1>9
<1> QED
    BY <1>1, <1>2, <1>3, <1>4, <1>5, <1>6, <1>7, <1>8, <1>9 DEF LoginRequest

\* A request that a password reset overtakes is the same request, called late.
LEMMA RequestLate ==
    ASSUME NEW q \in LoginRequest, q # Logins!Idle
    PROVE  /\ [q EXCEPT !.late = TRUE] \in LoginRequest
           /\ [q EXCEPT !.late = TRUE].late = TRUE
           /\ [q EXCEPT !.late = TRUE].op = q.op
           /\ q.op \in {"issue", "otp"} => [q EXCEPT !.late = TRUE].row = q.row
           /\ q.op \in {"rotate", "revoke"} => [q EXCEPT !.late = TRUE].session = q.session
           /\ q.op = "consume" => [q EXCEPT !.late = TRUE].token = q.token
<1>1. CASE q \in [op : {"register", "reset"}, late : BOOLEAN]
    BY <1>1 DEF LoginRequest
<1>2. CASE q \in [op : {"wanted", "proven"}, purpose : Purposes, late : BOOLEAN]
    BY <1>2 DEF LoginRequest
<1>3. CASE q \in [op : {"issue"}, purpose : Purposes, row : ChallengeIds \cup {0}, late : BOOLEAN]
    BY <1>3 DEF LoginRequest
<1>4. CASE q \in [op : {"otp"}, row : ChallengeIds, match : BOOLEAN, attempts : 0..MaxAttempts, late : BOOLEAN]
    BY <1>4 DEF LoginRequest
<1>5. CASE q \in [op : {"open"}, password : Logins!Versions, late : BOOLEAN]
    BY <1>5 DEF LoginRequest
<1>6. CASE q \in [op : {"rotate"}, session : SessionIds, version : Logins!Versions, late : BOOLEAN]
    BY <1>6 DEF LoginRequest
<1>7. CASE q \in [op : {"revoke"}, session : SessionIds, late : BOOLEAN]
    BY <1>7 DEF LoginRequest
<1>8. CASE q \in [op : {"consume"}, token : TokenIds, late : BOOLEAN]
    BY <1>8 DEF LoginRequest
<1> QED
    BY <1>1, <1>2, <1>3, <1>4, <1>5, <1>6, <1>7, <1>8 DEF LoginRequest

\* What holds of a request: what it has read is still there, and a sign-in carries the
\* present password unless a reset overtook it.  A rotation holds its session's lock.
RequestFits(q) ==
    /\ q.op \notin {"idle", "register"} => account # Logins!None
    /\ q.op = "issue" => q.row = 0 \/ challenges[q.row] # Logins!None
    /\ q.op = "otp" => challenges[q.row] # Logins!None
    /\ q.op = "consume" => tokens[q.token] # Logins!None
    /\ q.op = "open" => account.verified \/ account.role = "admin"
    /\ q.op = "open" => q.password = account.password \/ q.late
    /\ q.op = "rotate" => sessions[q.session] # Logins!None /\ q.version = sessions[q.session].version
    /\ q.op = "revoke" => sessions[q.session] # Logins!None

OneRotation ==
    \A r, x \in Callers :
        requests[r].op = "rotate" /\ requests[x].op = "rotate" /\ requests[r].session = requests[x].session => r = x

RowsHaveAccount ==
    account = Logins!None =>
        /\ \A c \in ChallengeIds : challenges[c] = Logins!None
        /\ \A t \in TokenIds : tokens[t] = Logins!None
        /\ \A s \in SessionIds : sessions[s] = Logins!None

\* SessionsSound, told of one session; a free id has no history.
SessionFits(s) ==
    /\ sessions[s] = Logins!None => exchanged[s] = 0 /\ s \notin ended
    /\ sessions[s] # Logins!None =>
        /\ exchanged[s] = sessions[s].version - 1
        /\ s \in ended => sessions[s].revoked
        /\ account.verified \/ account.role = "admin"
        /\ ~sessions[s].revoked /\ ~sessions[s].expired => sessions[s].password = account.password \/ sessions[s].late

AccountsInv ==
    /\ Logins!TypeOK
    /\ requests \in [Callers -> LoginRequest]
    /\ \A r \in Callers : RequestFits(requests[r])
    /\ OneRotation
    /\ RowsHaveAccount
    /\ \A s \in SessionIds : SessionFits(s)

LEMMA InitAccounts == Logins!Init => AccountsInv
<1> SUFFICES ASSUME Logins!Init PROVE AccountsInv
    OBVIOUS
<1>1. Logins!TypeOK
  <2>1. account \in Logins!AccountRow \cup {Logins!None}
    <3>1. 1 \in Logins!Versions
        BY AccountsAssumption DEF Logins!Versions
    <3>2. [role : {"customer", "admin"}, verified : {TRUE}, password : {1}] \subseteq Logins!AccountRow
        BY <3>1 DEF Logins!AccountRow
    <3> QED
        BY <3>2 DEF Logins!Init, None, Logins!None
  <2>2. exchanged \in [SessionIds -> 0..MaxVersion]
    BY AccountsAssumption DEF Logins!Init
  <2> QED
    BY <2>1, <2>2 DEF Logins!Init, Logins!TypeOK
<1>2. requests \in [Callers -> LoginRequest] /\ \A r \in Callers : requests[r] = Logins!Idle
    BY DEF Logins!Init, LoginRequest
<1>3. \A r \in Callers : requests[r].op = "idle"
    BY <1>2 DEF Logins!Idle
<1>4. \A r \in Callers : RequestFits(requests[r])
    BY <1>3 DEF RequestFits
<1>5. OneRotation
    BY <1>3 DEF OneRotation
<1>6. RowsHaveAccount /\ \A s \in SessionIds : SessionFits(s)
    BY DEF RowsHaveAccount, SessionFits, Logins!Init
<1> QED
    BY <1>1, <1>2, <1>4, <1>5, <1>6 DEF AccountsInv

LEMMA AccountsSound == AccountsInv => Logins!TypeOK /\ Logins!SessionsSound
<1> SUFFICES ASSUME AccountsInv PROVE Logins!SessionsSound
    BY DEF AccountsInv
<1>1. \A s \in Logins!Used(sessions) : s \in SessionIds /\ sessions[s] # Logins!None
    BY DEF Logins!Used, Logins!Free, AccountsInv, Logins!TypeOK
<1>2. Logins!ExchangedOnce /\ Logins!VerifiedFirst
    BY <1>1 DEF Logins!ExchangedOnce, Logins!VerifiedFirst, AccountsInv, SessionFits
<1>3. Logins!EndedStaysEnded
    BY DEF Logins!EndedStaysEnded, AccountsInv, SessionFits, Logins!TypeOK
<1>4. Logins!CurrentPassword
    BY DEF Logins!CurrentPassword, Logins!Live, AccountsInv, SessionFits
<1> QED
    BY <1>2, <1>3, <1>4 DEF Logins!SessionsSound

\* What every step leaves in place: rows stay, a verified address stays verified.
RowsLast ==
    /\ account # Logins!None =>
        /\ account' # Logins!None
        /\ account'.role = account.role /\ (account.verified => account'.verified)
    /\ \A c \in ChallengeIds : challenges[c] # Logins!None => challenges'[c] # Logins!None
    /\ \A t \in TokenIds : tokens[t] # Logins!None => tokens'[t] # Logins!None
    /\ \A s \in SessionIds : sessions[s] # Logins!None => sessions'[s] # Logins!None

SamePassword == account # Logins!None => account'.password = account.password

LEMMA FitsLater ==
    ASSUME NEW q \in LoginRequest, RequestFits(q), RowsLast, SamePassword,
           q.op = "rotate" => sessions'[q.session].version = sessions[q.session].version
    PROVE  RequestFits(q)'
<1>1. q.op = "open" => (account'.verified \/ account'.role = "admin") /\ (q.password = account'.password \/ q.late)
    BY DEF RequestFits, RowsLast, SamePassword
<1>2. q.op = "issue" => q.row = 0 \/ challenges'[q.row] # Logins!None
    BY RequestShape DEF RequestFits, RowsLast
<1>3. q.op = "otp" => challenges'[q.row] # Logins!None
    BY RequestShape DEF RequestFits, RowsLast
<1>4. q.op = "consume" => tokens'[q.token] # Logins!None
    BY RequestShape DEF RequestFits, RowsLast
<1>5. q.op \in {"rotate", "revoke"} => sessions'[q.session] # Logins!None
    BY RequestShape DEF RequestFits, RowsLast
<1>6. q.op = "rotate" => q.version = sessions'[q.session].version
    BY DEF RequestFits
<1> QED
    BY <1>1, <1>2, <1>3, <1>4, <1>5, <1>6 DEF RequestFits, RowsLast

\* A step of one request that leaves no password behind: it remains to look at what the
\* request reads or writes itself.
LEMMA StepOfRequest ==
    ASSUME AccountsInv, NEW r \in Callers, NEW q \in LoginRequest,
           requests' = [requests EXCEPT ![r] = q],
           RowsLast, SamePassword, RowsHaveAccount', Logins!TypeOK',
           RequestFits(q)',
           q.op = "rotate" => \A x \in Callers : requests[x].op = "rotate" => requests[x].session # q.session,
           \A s \in SessionIds : sessions[s] # Logins!None =>
                \/ sessions'[s].version = sessions[s].version
                \/ requests[r].op = "rotate" /\ requests[r].session = s,
           \A s \in SessionIds : SessionFits(s)'
    PROVE  AccountsInv'
<1>1. requests' \in [Callers -> LoginRequest] /\ requests'[r] = q /\ \A x \in Callers \ {r} : requests'[x] = requests[x]
    BY DEF AccountsInv
<1>2. ASSUME NEW x \in Callers PROVE RequestFits(requests[x])'
  <2>1. CASE x = r
    BY <2>1, <1>1 DEF RequestFits
  <2>2. CASE x # r
    <3>1. PICK p \in LoginRequest : p = requests[x]
        BY DEF AccountsInv
    <3>2. p.op = "rotate" => sessions'[p.session].version = sessions[p.session].version
        BY <3>1, <2>2, RequestShape DEF AccountsInv, OneRotation, RequestFits
    <3>3. RequestFits(p)
        BY <3>1 DEF AccountsInv
    <3>4. RequestFits(p)'
        BY <3>2, <3>3, FitsLater
    <3> QED
        BY <3>1, <3>4, <1>1, <2>2 DEF RequestFits
  <2> QED
    BY <2>1, <2>2
<1>3. OneRotation'
    BY <1>1 DEF AccountsInv, OneRotation
<1> QED
    BY <1>1, <1>2, <1>3 DEF AccountsInv

\* A step that only reads.
LEMMA OnlyReads ==
    ASSUME AccountsInv, NEW r \in Callers, NEW q \in LoginRequest,
           requests' = [requests EXCEPT ![r] = q],
           RequestFits(q),
           q.op = "rotate" => ~Logins!Locked(q.session),
           UNCHANGED <<account, challenges, tokens, sessions, inbox, exchanged, ended>>
    PROVE  AccountsInv'
<1>1. RowsLast /\ SamePassword
    BY DEF RowsLast, SamePassword
<1>2. RowsHaveAccount' /\ Logins!TypeOK'
    BY DEF AccountsInv, RowsHaveAccount, Logins!TypeOK
<1>3. RequestFits(q)'
    BY DEF RequestFits
<1>4. \A s \in SessionIds : SessionFits(s)'
    BY DEF AccountsInv, SessionFits
<1>5. q.op = "rotate" => \A x \in Callers : requests[x].op = "rotate" => requests[x].session # q.session
    BY DEF Logins!Locked
<1> QED
    BY <1>1, <1>2, <1>3, <1>4, <1>5, StepOfRequest

LEMMA StepReads ==
    ASSUME AccountsInv, NEW r \in Callers,
           \/ Logins!BeginSignup(r) \/ Logins!ResendVerification(r) \/ Logins!ForgotPassword(r)
           \/ Logins!FindChallenge(r) \/ Logins!BeginVerifyOTP(r) \/ Logins!BeginSignin(r)
           \/ Logins!BeginRotateSession(r) \/ Logins!BeginRevokeSession(r) \/ Logins!BeginResetPassword(r)
           \/ Logins!Crash(r)
    PROVE  AccountsInv'
<1> USE DEF Logins!Start, Logins!Continue, Logins!End, Logins!None
<1>1. CASE Logins!BeginSignup(r)
  <2> DEFINE q == [op |-> "register", late |-> FALSE]
  <2>1. q \in LoginRequest /\ RequestFits(q) /\ q.op # "rotate"
    BY DEF LoginRequest, RequestFits
  <2> HIDE DEF q
  <2> QED
    BY <1>1, <2>1, OnlyReads DEF Logins!BeginSignup, q
<1>2. CASE Logins!ResendVerification(r) \/ Logins!ForgotPassword(r)
  <2>1. PICK purpose \in Purposes : requests' = [requests EXCEPT ![r] = Logins!Wanted(purpose)]
    BY <1>2 DEF Logins!ResendVerification, Logins!ForgotPassword, Purposes
  <2>2. account # Logins!None
    BY <1>2 DEF Logins!ResendVerification, Logins!ForgotPassword, Logins!IsCustomer
  <2> DEFINE q == Logins!Wanted(purpose)
  <2>3. q \in LoginRequest /\ RequestFits(q) /\ q.op # "rotate"
    BY <2>2 DEF LoginRequest, RequestFits, Logins!Wanted
  <2> HIDE DEF q
  <2> QED
    BY <1>2, <2>1, <2>3, OnlyReads DEF Logins!ResendVerification, Logins!ForgotPassword, q
<1>3. CASE Logins!FindChallenge(r) \/ Logins!Crash(r)
  <2>1. UNCHANGED <<account, challenges, tokens, sessions, inbox, exchanged, ended>>
    BY <1>3 DEF Logins!FindChallenge, Logins!Crash
  <2>2. CASE requests' = [requests EXCEPT ![r] = Logins!Idle]
    <3> DEFINE q == Logins!Idle
    <3>1. q \in LoginRequest /\ RequestFits(q) /\ q.op # "rotate"
        BY DEF LoginRequest, RequestFits, Logins!Idle
    <3> HIDE DEF q
    <3> QED
        BY <2>1, <2>2, <3>1, OnlyReads DEF q
  <2>3. CASE requests' # [requests EXCEPT ![r] = Logins!Idle]
    <3>1. PICK c \in ChallengeIds \cup {0} :
            /\ requests' = [requests EXCEPT ![r] = [op |-> "issue", purpose |-> requests[r].purpose, row |-> c,
                                                  late |-> requests[r].late]]
            /\ c = 0 \/ challenges[c] # Logins!None
        BY <1>3, <2>3 DEF Logins!FindChallenge, Logins!Crash, Logins!Used, Logins!Free, AccountsInv, Logins!TypeOK
    <3>2. requests[r].op = "wanted"
        BY <1>3, <2>3 DEF Logins!FindChallenge, Logins!Crash
    <3>3. PICK p \in LoginRequest : p = requests[r]
        BY DEF AccountsInv
    <3>4. p.purpose \in Purposes /\ p.late \in BOOLEAN /\ account # Logins!None
        BY <3>2, <3>3, RequestShape DEF AccountsInv, RequestFits
    <3> DEFINE q == [op |-> "issue", purpose |-> p.purpose, row |-> c, late |-> p.late]
    <3>5. q \in LoginRequest /\ RequestFits(q) /\ q.op # "rotate"
        BY <3>1, <3>4 DEF LoginRequest, RequestFits
    <3> HIDE DEF q
    <3> QED
        BY <2>1, <3>1, <3>3, <3>5, OnlyReads DEF q
  <2> QED
    BY <2>2, <2>3
<1>4. CASE Logins!BeginVerifyOTP(r)
  <2>1. PICK c \in ChallengeIds, match \in BOOLEAN :
            /\ challenges[c] # Logins!None /\ challenges[c].attempts < MaxAttempts
            /\ requests' = [requests EXCEPT ![r] = [op |-> "otp", row |-> c, match |-> match,
                                                  attempts |-> challenges[c].attempts, late |-> FALSE]]
    BY <1>4 DEF Logins!BeginVerifyOTP, Logins!Used, Logins!Free, AccountsInv, Logins!TypeOK
  <2>2. challenges[c].attempts \in 0..MaxAttempts
    BY <2>1, AccountsAssumption DEF AccountsInv, Logins!TypeOK, Logins!ChallengeRow
  <2>3. account # Logins!None
    BY <2>1 DEF AccountsInv, RowsHaveAccount
  <2> DEFINE q == [op |-> "otp", row |-> c, match |-> match, attempts |-> challenges[c].attempts, late |-> FALSE]
  <2>4. q \in LoginRequest /\ RequestFits(q) /\ q.op # "rotate"
    BY <2>1, <2>2, <2>3 DEF LoginRequest, RequestFits
  <2> HIDE DEF q
  <2> QED
    BY <1>4, <2>1, <2>4, OnlyReads DEF Logins!BeginVerifyOTP, q
<1>5. CASE Logins!BeginSignin(r)
  <2> DEFINE q == [op |-> "open", password |-> account.password, late |-> FALSE]
  <2>1. q \in LoginRequest /\ RequestFits(q) /\ q.op # "rotate"
    BY <1>5 DEF LoginRequest, RequestFits, Logins!BeginSignin, AccountsInv, Logins!TypeOK, Logins!AccountRow
  <2> HIDE DEF q
  <2> QED
    BY <1>5, <2>1, OnlyReads DEF Logins!BeginSignin, q
<1>6. CASE Logins!BeginRotateSession(r)
  <2>1. PICK s \in SessionIds :
            /\ sessions[s] # Logins!None /\ ~Logins!Locked(s)
            /\ requests' = [requests EXCEPT ![r] = [op |-> "rotate", session |-> s, version |-> sessions[s].version,
                                                  late |-> FALSE]]
    BY <1>6 DEF Logins!BeginRotateSession, Logins!Live
  <2> DEFINE q == [op |-> "rotate", session |-> s, version |-> sessions[s].version, late |-> FALSE]
  <2>2. q \in LoginRequest /\ RequestFits(q) /\ ~Logins!Locked(q.session)
    BY <2>1 DEF LoginRequest, RequestFits, AccountsInv, Logins!TypeOK, Logins!SessionRow, RowsHaveAccount
  <2> HIDE DEF q
  <2> QED
    BY <1>6, <2>1, <2>2, OnlyReads DEF Logins!BeginRotateSession, q
<1>7. CASE Logins!BeginRevokeSession(r)
  <2>1. PICK s \in SessionIds :
            /\ sessions[s] # Logins!None
            /\ requests' = [requests EXCEPT ![r] = [op |-> "revoke", session |-> s, late |-> FALSE]]
    BY <1>7 DEF Logins!BeginRevokeSession, Logins!Used, Logins!Free, AccountsInv, Logins!TypeOK
  <2> DEFINE q == [op |-> "revoke", session |-> s, late |-> FALSE]
  <2>2. q \in LoginRequest /\ RequestFits(q) /\ q.op # "rotate"
    BY <2>1 DEF LoginRequest, RequestFits, AccountsInv, RowsHaveAccount
  <2> HIDE DEF q
  <2> QED
    BY <1>7, <2>1, <2>2, OnlyReads DEF Logins!BeginRevokeSession, q
<1>8. CASE Logins!BeginResetPassword(r)
  <2>1. PICK t \in TokenIds :
            /\ tokens[t] # Logins!None
            /\ requests' = [requests EXCEPT ![r] = [op |-> "consume", token |-> t, late |-> FALSE]]
    BY <1>8 DEF Logins!BeginResetPassword, Logins!Used, Logins!Free, AccountsInv, Logins!TypeOK
  <2> DEFINE q == [op |-> "consume", token |-> t, late |-> FALSE]
  <2>2. q \in LoginRequest /\ RequestFits(q) /\ q.op # "rotate"
    BY <2>1 DEF LoginRequest, RequestFits, AccountsInv, RowsHaveAccount
  <2> HIDE DEF q
  <2> QED
    BY <1>8, <2>1, <2>2, OnlyReads DEF Logins!BeginResetPassword, q
<1> QED
    BY <1>1, <1>2, <1>3, <1>4, <1>5, <1>6, <1>7, <1>8

\* The steps that write.
LEMMA StepSignup == ASSUME AccountsInv, NEW r \in Callers, Logins!Signup(r) PROVE AccountsInv'
<1> USE DEF Logins!Continue, Logins!End, Logins!None
<1>1. CASE account = Logins!None
  <2> DEFINE q == Logins!Wanted("email_verification")
  <2>1. requests' = [requests EXCEPT ![r] = q] /\ account' = Logins!Unverified
    BY <1>1 DEF Logins!Signup
  <2>2. account' \in Logins!AccountRow /\ account' # Logins!None
    BY <2>1, AccountsAssumption DEF Logins!Unverified, Logins!AccountRow, Logins!Versions
  <2>3. q \in LoginRequest /\ q.op = "wanted"
    BY DEF Logins!Wanted, LoginRequest, Purposes
  <2>4. RequestFits(q)'
    BY <2>2, <2>3 DEF RequestFits
  <2>5. UNCHANGED <<challenges, tokens, sessions, inbox, exchanged, ended>>
    BY DEF Logins!Signup
  <2>6. Logins!TypeOK' /\ RowsLast /\ SamePassword /\ RowsHaveAccount'
    BY <1>1, <2>2, <2>5 DEF AccountsInv, Logins!TypeOK, RowsLast, SamePassword, RowsHaveAccount
  <2>7. \A s \in SessionIds : SessionFits(s)'
    BY <1>1, <2>5 DEF SessionFits, AccountsInv, RowsHaveAccount
  <2> HIDE DEF q
  <2> QED
    BY <2>1, <2>3, <2>4, <2>5, <2>6, <2>7, StepOfRequest
<1>2. CASE account # Logins!None
  <2> DEFINE q == Logins!Idle
  <2>1. q \in LoginRequest /\ RequestFits(q) /\ q.op # "rotate"
    BY DEF LoginRequest, RequestFits, Logins!Idle
  <2> HIDE DEF q
  <2> QED
    BY <1>2, <2>1, OnlyReads DEF Logins!Signup, q
<1> QED
    BY <1>1, <1>2

\* What leaves the sessions and the account as they are, leaves them sound.
LEMMA SessionsKept ==
    ASSUME AccountsInv, UNCHANGED <<account, sessions, exchanged, ended>>
    PROVE  \A s \in SessionIds : SessionFits(s)'
<1> QED
    BY DEF AccountsInv, SessionFits

LEMMA StepChallenge ==
    ASSUME AccountsInv, NEW r \in Callers,
           Logins!CreateOrResendChallenge(r) \/ Logins!VerifyOTPChallenge(r)
    PROVE  AccountsInv'
<1> USE DEF Logins!Continue, Logins!End, Logins!None
<1>1. PICK p \in LoginRequest : p = requests[r]
    BY DEF AccountsInv
<1>2. RequestFits(p)
    BY <1>1 DEF AccountsInv
<1>3. p.op \in {"issue", "otp"} /\ account # Logins!None
    BY <1>1, <1>2 DEF RequestFits, Logins!CreateOrResendChallenge, Logins!VerifyOTPChallenge
<1>4. UNCHANGED <<account, tokens, sessions, exchanged, ended>>
    BY DEF Logins!CreateOrResendChallenge, Logins!VerifyOTPChallenge
<1>5. ASSUME NEW c \in ChallengeIds, NEW row \in Logins!ChallengeRow, challenges' = [challenges EXCEPT ![c] = row],
             NEW q \in LoginRequest, requests' = [requests EXCEPT ![r] = q], q.op \in {"idle", "proven"},
             inbox' \subseteq ChallengeIds \X Logins!Versions
      PROVE  AccountsInv'
  <2>1. row # Logins!None
    BY DEF Logins!ChallengeRow
  <2>2. Logins!TypeOK' /\ RowsLast /\ SamePassword /\ RowsHaveAccount'
    BY <1>3, <1>4, <1>5, <2>1 DEF AccountsInv, Logins!TypeOK, RowsLast, SamePassword, RowsHaveAccount
  <2>3. RequestFits(q)'
    BY <1>3, <1>4, <1>5 DEF RequestFits
  <2> QED
    BY <1>4, <1>5, <2>2, <2>3, SessionsKept, StepOfRequest
<1>6. Logins!Idle \in LoginRequest /\ Logins!Idle.op = "idle"
    BY DEF LoginRequest, Logins!Idle
<1>7. CASE Logins!CreateOrResendChallenge(r)
  <2>1. Logins!Free(challenges) \subseteq Nat /\ Logins!Free(challenges) \subseteq ChallengeIds
    BY AccountsAssumption DEF AccountsInv, Logins!TypeOK, Logins!Free
  <2>2. p.row = 0 => Logins!Min(Logins!Free(challenges)) \in ChallengeIds
    BY <1>1, <1>7, <2>1, MinIn DEF Logins!CreateOrResendChallenge
  <2> DEFINE c == IF p.row = 0 THEN Logins!Min(Logins!Free(challenges)) ELSE p.row
             code == IF p.row = 0 THEN 1 ELSE challenges[c].code + 1
             consumed == p.row # 0 /\ challenges[c].consumed
             row == [purpose |-> p.purpose, code |-> code, attempts |-> 0, age |-> "cooling", consumed |-> consumed]
  <2>3. p.op = "issue" /\ code \in Logins!Versions
    BY <1>1, <1>7 DEF Logins!CreateOrResendChallenge
  <2>4. c \in ChallengeIds /\ p.purpose \in Purposes
    BY <2>2, <2>3, RequestShape
  <2>5. consumed \in BOOLEAN
    <3>1. CASE p.row = 0
        BY <3>1
    <3>2. CASE p.row # 0
        BY <1>2, <2>3, <2>4, <3>2 DEF RequestFits, AccountsInv, Logins!TypeOK, Logins!ChallengeRow
    <3> QED
        BY <3>1, <3>2
  <2>6. 0 \in 0..MaxAttempts + 1
    BY AccountsAssumption
  <2>7. challenges' = [challenges EXCEPT ![c] = row] /\ inbox' \in {inbox, inbox \cup {<<c, code>>}}
    BY <1>1, <1>7 DEF Logins!CreateOrResendChallenge
  <2>8. requests' = [requests EXCEPT ![r] = Logins!Idle]
    BY <1>7 DEF Logins!CreateOrResendChallenge
  <2> HIDE DEF c, code, consumed
  <2>9. row \in Logins!ChallengeRow
    BY <2>3, <2>4, <2>5, <2>6 DEF Logins!ChallengeRow, Purposes
  <2>10. inbox' \subseteq ChallengeIds \X Logins!Versions
    BY <2>3, <2>4, <2>7 DEF AccountsInv, Logins!TypeOK
  <2> HIDE DEF row
  <2> QED
    BY <1>5, <1>6, <2>4, <2>7, <2>8, <2>9, <2>10
<1>8. CASE Logins!VerifyOTPChallenge(r)
  <2>1. p.op = "otp" /\ p.row \in ChallengeIds /\ p.attempts \in 0..MaxAttempts
    BY <1>1, <1>8, RequestShape DEF Logins!VerifyOTPChallenge
  <2>2. challenges[p.row] \in Logins!ChallengeRow
    BY <1>2, <2>1 DEF RequestFits, AccountsInv, Logins!TypeOK
  <2>3. UNCHANGED inbox /\ inbox \subseteq ChallengeIds \X Logins!Versions
    BY <1>8 DEF Logins!VerifyOTPChallenge, AccountsInv, Logins!TypeOK
  <2>4. CASE p.match
    <3> DEFINE row == [challenges[p.row] EXCEPT !.consumed = TRUE]
               q == [op |-> "proven", purpose |-> challenges[p.row].purpose, late |-> p.late]
    <3>1. challenges' = [challenges EXCEPT ![p.row] = row] /\ requests' = [requests EXCEPT ![r] = q]
        BY <1>1, <1>8, <2>4 DEF Logins!VerifyOTPChallenge
    <3>2. row \in Logins!ChallengeRow
        BY <2>2 DEF Logins!ChallengeRow
    <3>3. q \in LoginRequest /\ q.op = "proven"
        BY <2>2, RequestShape DEF LoginRequest, Purposes, Logins!ChallengeRow
    <3> HIDE DEF row, q
    <3> QED
        BY <1>5, <2>1, <2>3, <3>1, <3>2, <3>3
  <2>5. CASE ~p.match
    <3> DEFINE row == [challenges[p.row] EXCEPT !.attempts = p.attempts + 1]
    <3>1. challenges' = [challenges EXCEPT ![p.row] = row] /\ requests' = [requests EXCEPT ![r] = Logins!Idle]
        BY <1>1, <1>8, <2>5 DEF Logins!VerifyOTPChallenge
    <3>2. p.attempts + 1 \in 0..MaxAttempts + 1
        BY <2>1, AccountsAssumption
    <3>3. row \in Logins!ChallengeRow
        BY <2>2, <3>2 DEF Logins!ChallengeRow
    <3> HIDE DEF row
    <3> QED
        BY <1>5, <1>6, <2>1, <2>3, <3>1, <3>3
  <2> QED
    BY <2>4, <2>5
<1> QED
    BY <1>7, <1>8

LEMMA StepToken ==
    ASSUME AccountsInv, NEW r \in Callers,
           Logins!VerifyResetOTP(r) \/ Logins!VerifyAndConsumeResetToken(r)
    PROVE  AccountsInv'
<1> USE DEF Logins!Continue, Logins!End, Logins!None
<1>1. PICK p \in LoginRequest : p = requests[r]
    BY DEF AccountsInv
<1>2. RequestFits(p)
    BY <1>1 DEF AccountsInv
<1>3. p.op \in {"proven", "consume"} /\ account # Logins!None
    BY <1>1, <1>2 DEF RequestFits, Logins!VerifyResetOTP, Logins!VerifyAndConsumeResetToken
<1>4. UNCHANGED <<account, challenges, sessions, inbox, exchanged, ended>>
    BY DEF Logins!VerifyResetOTP, Logins!VerifyAndConsumeResetToken
<1>5. ASSUME NEW t \in TokenIds, NEW row \in Logins!TokenRow, tokens' = [tokens EXCEPT ![t] = row],
             NEW q \in LoginRequest, requests' = [requests EXCEPT ![r] = q], q.op \in {"idle", "reset"}
      PROVE  AccountsInv'
  <2>1. row # Logins!None
    BY DEF Logins!TokenRow
  <2>2. Logins!TypeOK' /\ RowsLast /\ SamePassword /\ RowsHaveAccount'
    BY <1>3, <1>4, <1>5, <2>1 DEF AccountsInv, Logins!TypeOK, RowsLast, SamePassword, RowsHaveAccount
  <2>3. RequestFits(q)'
    BY <1>3, <1>4, <1>5 DEF RequestFits
  <2> QED
    BY <1>4, <1>5, <2>2, <2>3, SessionsKept, StepOfRequest
<1>6. CASE Logins!VerifyResetOTP(r)
  <2> DEFINE t == Logins!Min(Logins!Free(tokens))
             row == [status |-> "open"]
             q == Logins!Idle
  <2>1. Logins!Free(tokens) \subseteq Nat /\ Logins!Free(tokens) \subseteq TokenIds
    BY AccountsAssumption DEF AccountsInv, Logins!TypeOK, Logins!Free
  <2>2. t \in TokenIds
    BY <1>6, <2>1, MinIn DEF Logins!VerifyResetOTP
  <2>3. row \in Logins!TokenRow /\ q \in LoginRequest /\ q.op = "idle"
    BY DEF Logins!TokenRow, LoginRequest, Logins!Idle
  <2>4. tokens' = [tokens EXCEPT ![t] = row] /\ requests' = [requests EXCEPT ![r] = q]
    BY <1>6 DEF Logins!VerifyResetOTP
  <2> HIDE DEF t, row, q
  <2> QED
    BY <1>5, <2>2, <2>3, <2>4
<1>7. CASE Logins!VerifyAndConsumeResetToken(r)
  <2>1. p.op = "consume" /\ p.token \in TokenIds /\ p.late \in BOOLEAN
    BY <1>1, <1>7, RequestShape DEF Logins!VerifyAndConsumeResetToken
  <2>2. tokens[p.token] \in Logins!TokenRow
    BY <1>2, <2>1 DEF RequestFits, AccountsInv, Logins!TypeOK
  <2> DEFINE row == [tokens[p.token] EXCEPT !.status = "consumed"]
             q == [op |-> "reset", late |-> p.late]
  <2>3. row \in Logins!TokenRow /\ q \in LoginRequest /\ q.op = "reset"
    BY <2>1, <2>2 DEF Logins!TokenRow, LoginRequest
  <2>4. tokens' = [tokens EXCEPT ![p.token] = row] /\ requests' = [requests EXCEPT ![r] = q]
    BY <1>1, <1>7 DEF Logins!VerifyAndConsumeResetToken
  <2> HIDE DEF row, q
  <2> QED
    BY <1>5, <2>1, <2>3, <2>4
<1> QED
    BY <1>6, <1>7

\* A step that writes one session and ends its request.
LEMMA StepSession ==
    ASSUME AccountsInv, NEW r \in Callers, requests' = [requests EXCEPT ![r] = Logins!Idle],
           UNCHANGED <<challenges, tokens, inbox>>,
           account \in Logins!AccountRow, account' \in Logins!AccountRow,
           account'.role = account.role, account'.password = account.password, account.verified => account'.verified,
           NEW s \in SessionIds, NEW row \in Logins!SessionRow, sessions' = [sessions EXCEPT ![s] = row],
           \/ row.version = sessions[s].version
           \/ sessions[s] = Logins!None
           \/ requests[r].op = "rotate" /\ requests[r].session = s,
           exchanged' \in [SessionIds -> 0..MaxVersion], exchanged'[s] = row.version - 1,
           ended' \subseteq SessionIds, s \in ended' => row.revoked,
           \A x \in SessionIds \ {s} : exchanged'[x] = exchanged[x] /\ (x \in ended' <=> x \in ended),
           account'.verified \/ account'.role = "admin",
           ~row.revoked /\ ~row.expired => row.password = account'.password \/ row.late
    PROVE  AccountsInv'
<1> USE DEF Logins!None
<1>1. row # Logins!None /\ account # Logins!None /\ account' # Logins!None
    BY DEF Logins!SessionRow, Logins!AccountRow
<1>2. sessions' \in [SessionIds -> Logins!SessionRow \cup {Logins!None}] /\ sessions'[s] = row
      /\ \A x \in SessionIds \ {s} : sessions'[x] = sessions[x]
    BY DEF AccountsInv, Logins!TypeOK
<1>3. Logins!TypeOK'
    BY <1>2 DEF AccountsInv, Logins!TypeOK
<1>4. RowsLast /\ SamePassword /\ RowsHaveAccount'
    BY <1>1, <1>2 DEF RowsLast, SamePassword, RowsHaveAccount
<1>5. ASSUME NEW x \in SessionIds PROVE SessionFits(x)'
  <2>1. CASE x = s
    BY <1>1, <1>2, <2>1 DEF SessionFits
  <2>2. CASE x # s
    BY <1>2, <2>2 DEF AccountsInv, SessionFits
  <2> QED
    BY <2>1, <2>2
<1> DEFINE q == Logins!Idle
<1>6. q \in LoginRequest /\ q.op = "idle"
    BY DEF LoginRequest, Logins!Idle
<1>7. RequestFits(q)'
    BY <1>6 DEF RequestFits
<1>8. requests' = [requests EXCEPT ![r] = q]
    OBVIOUS
<1> HIDE DEF q
<1>9. \A x \in SessionIds : sessions[x] # Logins!None =>
            \/ sessions'[x].version = sessions[x].version
            \/ requests[r].op = "rotate" /\ requests[r].session = x
    BY <1>2
<1> QED
    BY <1>3, <1>4, <1>5, <1>6, <1>7, <1>8, <1>9, StepOfRequest

LEMMA NewSession ==
    ASSUME AccountsInv, NEW r \in Callers, requests' = [requests EXCEPT ![r] = Logins!Idle],
           UNCHANGED <<challenges, tokens, inbox, exchanged, ended>>,
           account \in Logins!AccountRow, account' \in Logins!AccountRow,
           account'.role = account.role, account'.password = account.password, account.verified => account'.verified,
           account'.verified \/ account'.role = "admin",
           NEW password \in Logins!Versions, NEW late \in BOOLEAN, Logins!CreateSession(password, late),
           password = account.password \/ late
    PROVE  AccountsInv'
<1> DEFINE s == Logins!Min(Logins!Free(sessions))
           row == [version |-> 1, revoked |-> FALSE, expired |-> FALSE, password |-> password, late |-> late]
<1>1. Logins!Free(sessions) \subseteq Nat /\ Logins!Free(sessions) \subseteq SessionIds /\ Logins!Free(sessions) # {}
    BY AccountsAssumption DEF AccountsInv, Logins!TypeOK, Logins!Free, Logins!CreateSession
<1>2. s \in Logins!Free(sessions)
    BY <1>1, MinIn
<1>3. sessions' = [sessions EXCEPT ![s] = row]
    BY DEF Logins!CreateSession
<1> HIDE DEF s
<1>4. s \in SessionIds /\ sessions[s] = Logins!None
    BY <1>1, <1>2 DEF Logins!Free
<1>5. row \in Logins!SessionRow
    BY AccountsAssumption DEF Logins!SessionRow, Logins!Versions
<1>6. exchanged[s] = 0 /\ s \notin ended
    BY <1>4 DEF AccountsInv, SessionFits
<1>7. row.version = 1 /\ ~row.revoked /\ row.password = password /\ row.late = late
    OBVIOUS
<1> HIDE DEF row
<1>8. exchanged' \in [SessionIds -> 0..MaxVersion] /\ exchanged'[s] = row.version - 1
    BY <1>6, <1>7 DEF AccountsInv, Logins!TypeOK
<1>9. ended' \subseteq SessionIds /\ s \notin ended'
    BY <1>6 DEF AccountsInv, Logins!TypeOK
<1> QED
    BY <1>3, <1>4, <1>5, <1>7, <1>8, <1>9, StepSession

LEMMA StepSessions ==
    ASSUME AccountsInv, NEW r \in Callers,
           \/ Logins!VerifyEmail(r) \/ Logins!Signin(r) \/ Logins!RotateSession(r) \/ Logins!RevokeSession(r)
    PROVE  AccountsInv'
<1> USE DEF Logins!Continue, Logins!End, Logins!None
<1>1. PICK p \in LoginRequest : p = requests[r]
    BY DEF AccountsInv
<1>2. RequestFits(p)
    BY <1>1 DEF AccountsInv
<1>3. account \in Logins!AccountRow
    BY <1>1, <1>2 DEF RequestFits, AccountsInv, Logins!TypeOK,
        Logins!VerifyEmail, Logins!Signin, Logins!RotateSession, Logins!RevokeSession
<1>4. UNCHANGED <<challenges, tokens, inbox>> /\ requests' = [requests EXCEPT ![r] = Logins!Idle]
    BY DEF Logins!VerifyEmail, Logins!Signin, Logins!RotateSession, Logins!RevokeSession
<1>5. CASE Logins!VerifyEmail(r)
  <2> DEFINE proven == [account EXCEPT !.verified = TRUE]
  <2>5. proven \in Logins!AccountRow /\ proven.role = account.role /\ proven.password = account.password
        /\ proven.verified
    BY <1>3 DEF Logins!AccountRow
  <2>6. account' = proven
    BY <1>5 DEF Logins!VerifyEmail
  <2> HIDE DEF proven
  <2>1. account' \in Logins!AccountRow /\ account'.role = account.role /\ account'.password = account.password
        /\ account'.verified
    BY <2>5, <2>6
  <2>2. account.password \in Logins!Versions /\ p.late \in BOOLEAN
    BY <1>3, RequestShape DEF Logins!AccountRow
  <2>3. Logins!CreateSession(account.password, p.late) /\ UNCHANGED <<exchanged, ended>>
    BY <1>1, <1>5 DEF Logins!VerifyEmail
  <2>4. PICK password \in Logins!Versions : password = account.password
    BY <2>2
  <2> QED
    BY <1>3, <1>4, <2>1, <2>2, <2>3, <2>4, NewSession
<1>6. CASE Logins!Signin(r)
  <2>1. UNCHANGED <<account, exchanged, ended>> /\ Logins!CreateSession(p.password, p.late) /\ p.op = "open"
    BY <1>1, <1>6 DEF Logins!Signin
  <2>2. p.password \in Logins!Versions /\ p.late \in BOOLEAN
    BY <2>1, RequestShape
  <2>3. (account.verified \/ account.role = "admin") /\ (p.password = account.password \/ p.late)
    BY <1>2, <2>1 DEF RequestFits
  <2> QED
    BY <1>3, <1>4, <2>1, <2>2, <2>3, NewSession
<1>7. ASSUME NEW s \in SessionIds, sessions[s] # Logins!None
      PROVE  /\ sessions[s] \in Logins!SessionRow /\ SessionFits(s)
             /\ sessions[s].version \in 1..MaxVersion /\ exchanged[s] = sessions[s].version - 1
             /\ account.verified \/ account.role = "admin"
  <2>1. sessions[s] \in Logins!SessionRow /\ SessionFits(s)
    BY <1>7 DEF AccountsInv, Logins!TypeOK
  <2> QED
    BY <1>7, <2>1 DEF SessionFits, Logins!SessionRow, Logins!Versions
<1>8. exchanged \in [SessionIds -> 0..MaxVersion] /\ ended \subseteq SessionIds
    BY DEF AccountsInv, Logins!TypeOK
<1>9. CASE Logins!RotateSession(r)
  <2> DEFINE s == p.session
             row == [sessions[s] EXCEPT !.version = p.version + 1]
  <2>1. p.op = "rotate" /\ p.version < MaxVersion /\ UNCHANGED <<account, ended>>
        /\ exchanged' = [exchanged EXCEPT ![s] = exchanged[s] + 1]
        /\ sessions' = [sessions EXCEPT ![s] = row]
    BY <1>1, <1>9 DEF Logins!RotateSession
  <2>2. s \in SessionIds /\ p.version \in 1..MaxVersion /\ sessions[s] # Logins!None /\ p.version = sessions[s].version
    BY <1>2, <2>1, RequestShape DEF RequestFits, Logins!Versions
  <2> HIDE DEF s
  <2>3. sessions[s] \in Logins!SessionRow /\ SessionFits(s) /\ exchanged[s] = p.version - 1
        /\ (account.verified \/ account.role = "admin")
    BY <1>7, <2>2
  <2>4. p.version + 1 \in 1..MaxVersion /\ exchanged[s] + 1 \in 0..MaxVersion
    BY <2>1, <2>2, <2>3, AccountsAssumption
  <2>5. row \in Logins!SessionRow /\ row.version = p.version + 1 /\ row.revoked = sessions[s].revoked
        /\ row.expired = sessions[s].expired /\ row.password = sessions[s].password /\ row.late = sessions[s].late
    BY <2>3, <2>4 DEF Logins!SessionRow, Logins!Versions
  <2> HIDE DEF row
  <2>6. exchanged' \in [SessionIds -> 0..MaxVersion] /\ exchanged'[s] = row.version - 1
    BY <1>8, <2>1, <2>2, <2>3, <2>4, <2>5
  <2>7. s \in ended' => row.revoked
    BY <2>1, <2>2, <2>3, <2>5 DEF SessionFits
  <2>8. ~row.revoked /\ ~row.expired => row.password = account'.password \/ row.late
    BY <2>1, <2>2, <2>3, <2>5 DEF SessionFits
  <2>9. requests[r].op = "rotate" /\ requests[r].session = s
    BY <1>1, <2>1 DEF s
  <2>10. \A x \in SessionIds \ {s} : exchanged'[x] = exchanged[x] /\ (x \in ended' <=> x \in ended)
    BY <1>8, <2>1
  <2>11. account' = account /\ account'.role = account.role /\ account'.password = account.password
         /\ (account.verified => account'.verified) /\ (account'.verified \/ account'.role = "admin")
         /\ ended' \subseteq SessionIds
    BY <1>8, <2>1, <2>3
  <2>12. row \in Logins!SessionRow
    BY <2>5
  <2>13. sessions' = [sessions EXCEPT ![s] = row]
    BY <2>1
  <2> QED
    BY <1>3, <1>4, <2>2, <2>6, <2>7, <2>8, <2>9, <2>10, <2>11, <2>12, <2>13, StepSession
<1>10. CASE Logins!RevokeSession(r)
  <2> DEFINE s == p.session
             row == [sessions[s] EXCEPT !.revoked = TRUE]
  <2>1. p.op = "revoke" /\ UNCHANGED <<account, exchanged>> /\ ended' = ended \cup {s}
        /\ sessions' = [sessions EXCEPT ![s] = row]
    BY <1>1, <1>10 DEF Logins!RevokeSession
  <2>2. s \in SessionIds /\ sessions[s] # Logins!None
    BY <1>2, <2>1, RequestShape DEF RequestFits
  <2> HIDE DEF s
  <2>3. sessions[s] \in Logins!SessionRow /\ exchanged[s] = sessions[s].version - 1
        /\ (account.verified \/ account.role = "admin")
    BY <1>7, <2>2
  <2>4. row \in Logins!SessionRow /\ row.version = sessions[s].version /\ row.revoked
    BY <2>3 DEF Logins!SessionRow
  <2> HIDE DEF row
  <2> QED
    BY <1>3, <1>4, <1>8, <2>1, <2>2, <2>3, <2>4, StepSession
<1> QED
    BY <1>5, <1>6, <1>9, <1>10

\* Resetting the password: no session is locked, so no rotation is under way; every
\* sign-in under way is late, and every session is revoked.
LEMMA StepReset == ASSUME AccountsInv, NEW r \in Callers, Logins!ResetPassword(r) PROVE AccountsInv'
<1> USE DEF Logins!None
<1>1. requests \in [Callers -> LoginRequest] /\ requests[r].op = "reset" /\ \A x \in Callers : RequestFits(requests[x])
    BY DEF AccountsInv, Logins!ResetPassword
<1>2. account \in Logins!AccountRow
    BY <1>1 DEF RequestFits, AccountsInv, Logins!TypeOK
<1>3. UNCHANGED <<challenges, tokens, inbox, exchanged>>
      /\ account' = [account EXCEPT !.password = account.password + 1]
      /\ sessions' = [s \in SessionIds |-> IF Logins!Revoked(s) THEN [sessions[s] EXCEPT !.revoked = TRUE] ELSE sessions[s]]
      /\ ended' = ended \cup {s \in SessionIds : Logins!Revoked(s)}
      /\ requests' = [q \in Callers |-> IF q = r \/ requests[q] = Logins!Idle THEN Logins!Idle
                                       ELSE [requests[q] EXCEPT !.late = TRUE]]
      /\ account.password < MaxVersion
    BY DEF Logins!ResetPassword
<1>4. account.password + 1 \in Logins!Versions
    BY <1>2, <1>3, AccountsAssumption DEF Logins!Versions, Logins!AccountRow
<1>5. account' \in Logins!AccountRow /\ account'.role = account.role /\ account'.verified = account.verified
    BY <1>2, <1>3, <1>4 DEF Logins!AccountRow
<1>6. ASSUME NEW s \in SessionIds, sessions[s] # Logins!None
      PROVE  /\ sessions'[s] \in Logins!SessionRow /\ sessions'[s].revoked
             /\ sessions'[s].version = sessions[s].version
  <2>1. PICK row \in Logins!SessionRow : row = sessions[s]
    BY <1>6 DEF AccountsInv, Logins!TypeOK
  <2>2. CASE row.revoked
    BY <1>3, <2>1, <2>2 DEF Logins!Revoked
  <2>3. CASE ~row.revoked
    <3>1. sessions'[s] = [row EXCEPT !.revoked = TRUE]
        BY <1>3, <1>6, <2>1, <2>3 DEF Logins!Revoked
    <3> QED
        BY <2>1, <3>1 DEF Logins!SessionRow
  <2> QED
    BY <2>2, <2>3
<1>7. \A s \in SessionIds : sessions[s] = Logins!None => sessions'[s] = Logins!None
    BY <1>3 DEF Logins!Revoked
<1>8. sessions' \in [SessionIds -> Logins!SessionRow \cup {Logins!None}]
    BY <1>3, <1>6, <1>7
<1>9. Logins!TypeOK'
    BY <1>3, <1>5, <1>8 DEF AccountsInv, Logins!TypeOK
<1>10. ASSUME NEW x \in Callers
       PROVE  requests'[x] \in LoginRequest /\ RequestFits(requests[x])' /\ requests'[x].op # "rotate"
  <2>1. PICK p \in LoginRequest : p = requests[x]
    BY <1>1
  <2>2. CASE x = r \/ p = Logins!Idle
    <3>1. requests'[x] = Logins!Idle
        BY <1>3, <2>1, <2>2
    <3> QED
        BY <3>1 DEF RequestFits, LoginRequest, Logins!Idle
  <2>3. CASE x # r /\ p # Logins!Idle
    <3> DEFINE q == [p EXCEPT !.late = TRUE]
    <3>1. requests'[x] = q
        BY <1>3, <2>1, <2>3
    <3>2. /\ q \in LoginRequest /\ q.late = TRUE /\ q.op = p.op
          /\ q.op \in {"issue", "otp"} => q.row = p.row
          /\ q.op \in {"rotate", "revoke"} => q.session = p.session
          /\ q.op = "consume" => q.token = p.token
        BY <2>3, RequestLate
    <3> HIDE DEF q
    <3>3. RequestFits(p)
        BY <1>1, <2>1
    <3>4. p.op # "rotate"
        BY <2>1, RequestShape DEF Logins!ResetPassword, Logins!Locked
    <3>5. account' # Logins!None
        BY <1>5 DEF Logins!AccountRow
    <3>6. q.op = "issue" => q.row = 0 \/ challenges'[q.row] # Logins!None
        BY <1>3, <3>2, <3>3 DEF RequestFits
    <3>7. (q.op = "otp" => challenges'[q.row] # Logins!None) /\ (q.op = "consume" => tokens'[q.token] # Logins!None)
        BY <1>3, <3>2, <3>3 DEF RequestFits
    <3>8. q.op = "revoke" => sessions[q.session] # Logins!None /\ q.session \in SessionIds
        BY <3>2, <3>3, RequestShape DEF RequestFits
    <3>9. q.op = "revoke" => sessions'[q.session] # Logins!None
        BY <1>6, <3>8 DEF Logins!SessionRow
    <3>10. q.op = "open" => account'.verified \/ account'.role = "admin"
        BY <1>5, <3>2, <3>3 DEF RequestFits
    <3>11. RequestFits(q)'
        BY <3>2, <3>4, <3>5, <3>6, <3>7, <3>9, <3>10 DEF RequestFits
    <3> QED
        BY <3>1, <3>2, <3>4, <3>11 DEF RequestFits
  <2> QED
    BY <2>2, <2>3
<1>11. requests' \in [Callers -> LoginRequest] /\ OneRotation'
    BY <1>3, <1>10 DEF OneRotation
<1>12. RowsHaveAccount'
    BY <1>5 DEF RowsHaveAccount, Logins!AccountRow
<1>13. ASSUME NEW s \in SessionIds PROVE SessionFits(s)'
  <2>1. CASE sessions[s] = Logins!None
    BY <1>3, <1>7, <2>1 DEF SessionFits, AccountsInv, Logins!Revoked
  <2>2. CASE sessions[s] # Logins!None
    BY <1>3, <1>5, <1>6, <2>2 DEF SessionFits, AccountsInv, Logins!SessionRow
  <2> QED
    BY <2>1, <2>2
<1> QED
    BY <1>9, <1>10, <1>11, <1>12, <1>13 DEF AccountsInv

LEMMA StepTime == ASSUME AccountsInv, Logins!TimePasses PROVE AccountsInv'
<1> USE DEF Logins!None
<1>1. UNCHANGED <<account, requests, inbox, exchanged, ended>>
    BY DEF Logins!TimePasses
<1>2. challenges' \in [ChallengeIds -> Logins!ChallengeRow \cup {Logins!None}]
      /\ \A c \in ChallengeIds : challenges[c] = Logins!None <=> challenges'[c] = Logins!None
  <2>1. CASE UNCHANGED challenges
    BY <2>1 DEF AccountsInv, Logins!TypeOK
  <2>2. CASE ~UNCHANGED challenges
    <3>1. PICK c \in ChallengeIds :
            challenges[c] # Logins!None /\ challenges' = [challenges EXCEPT ![c].age = Logins!Later(@)]
        BY <2>2 DEF Logins!TimePasses, Logins!Used, Logins!Free, AccountsInv, Logins!TypeOK
    <3>2. PICK row \in Logins!ChallengeRow : row = challenges[c]
        BY <3>1 DEF AccountsInv, Logins!TypeOK
    <3>3. challenges' = [challenges EXCEPT ![c] = [row EXCEPT !.age = Logins!Later(row.age)]]
        BY <3>1, <3>2
    <3>4. Logins!Later(row.age) \in {"open", "expired"}
        BY DEF Logins!Later
    <3>5. [row EXCEPT !.age = Logins!Later(row.age)] \in Logins!ChallengeRow
        BY <3>4 DEF Logins!ChallengeRow
    <3>6. [row EXCEPT !.age = Logins!Later(row.age)] # Logins!None
        BY <3>5 DEF Logins!ChallengeRow
    <3> QED
        BY <3>1, <3>3, <3>5, <3>6 DEF AccountsInv, Logins!TypeOK
  <2> QED
    BY <2>1, <2>2
<1>3. tokens' \in [TokenIds -> Logins!TokenRow \cup {Logins!None}]
      /\ \A t \in TokenIds : tokens[t] = Logins!None <=> tokens'[t] = Logins!None
  <2>1. CASE UNCHANGED tokens
    BY <2>1 DEF AccountsInv, Logins!TypeOK
  <2>2. CASE ~UNCHANGED tokens
    <3>1. PICK t \in TokenIds :
            tokens[t] # Logins!None /\ tokens' = [tokens EXCEPT ![t].status = "expired"]
        BY <2>2 DEF Logins!TimePasses, Logins!Used, Logins!Free, AccountsInv, Logins!TypeOK
    <3>2. PICK row \in Logins!TokenRow : row = tokens[t]
        BY <3>1 DEF AccountsInv, Logins!TypeOK
    <3>3. tokens' = [tokens EXCEPT ![t] = [row EXCEPT !.status = "expired"]]
        BY <3>1, <3>2
    <3>4. [row EXCEPT !.status = "expired"] \in Logins!TokenRow
        BY DEF Logins!TokenRow
    <3>5. [row EXCEPT !.status = "expired"] # Logins!None
        BY <3>4 DEF Logins!TokenRow
    <3> QED
        BY <3>1, <3>3, <3>4, <3>5 DEF AccountsInv, Logins!TypeOK
  <2> QED
    BY <2>1, <2>2
<1>4. /\ sessions' \in [SessionIds -> Logins!SessionRow \cup {Logins!None}]
      /\ \A s \in SessionIds :
            \/ sessions'[s] = sessions[s]
            \/ /\ sessions[s] # Logins!None /\ sessions'[s] # Logins!None
               /\ sessions'[s].version = sessions[s].version /\ sessions'[s].revoked = sessions[s].revoked
               /\ sessions'[s].expired
  <2>1. CASE UNCHANGED sessions
    BY <2>1 DEF AccountsInv, Logins!TypeOK
  <2>2. CASE ~UNCHANGED sessions
    <3>1. PICK s \in SessionIds :
            sessions[s] # Logins!None /\ sessions' = [sessions EXCEPT ![s].expired = TRUE]
        BY <2>2 DEF Logins!TimePasses, Logins!Live
    <3>2. PICK row \in Logins!SessionRow : row = sessions[s]
        BY <3>1 DEF AccountsInv, Logins!TypeOK
    <3> DEFINE old == [row EXCEPT !.expired = TRUE]
    <3>3. sessions' = [sessions EXCEPT ![s] = old]
        BY <3>1, <3>2
    <3>4. old \in Logins!SessionRow /\ old.version = row.version /\ old.revoked = row.revoked /\ old.expired
        BY DEF Logins!SessionRow
    <3>5. old # Logins!None
        BY <3>4 DEF Logins!SessionRow
    <3> HIDE DEF old
    <3>6. \A x \in SessionIds : sessions'[x] = IF x = s THEN old ELSE sessions[x]
        BY <3>3 DEF AccountsInv, Logins!TypeOK
    <3>7. sessions' \in [SessionIds -> Logins!SessionRow \cup {Logins!None}]
        BY <3>3, <3>4 DEF AccountsInv, Logins!TypeOK
    <3> QED
        BY <3>1, <3>2, <3>4, <3>5, <3>6, <3>7
  <2> QED
    BY <2>1, <2>2
<1>5. Logins!TypeOK'
    BY <1>1, <1>2, <1>3, <1>4 DEF AccountsInv, Logins!TypeOK
<1>6. RowsLast /\ SamePassword /\ RowsHaveAccount'
    BY <1>1, <1>2, <1>3, <1>4 DEF RowsLast, SamePassword, RowsHaveAccount, AccountsInv
<1>7. ASSUME NEW x \in Callers PROVE RequestFits(requests[x])'
  <2>1. PICK p \in LoginRequest : p = requests[x]
    BY DEF AccountsInv
  <2>2. RequestFits(p)
    BY <2>1 DEF AccountsInv
  <2>3. p.op = "rotate" => sessions'[p.session].version = sessions[p.session].version
    BY <1>4, RequestShape
  <2>4. RequestFits(p)'
    BY <1>6, <2>2, <2>3, FitsLater
  <2> QED
    BY <1>1, <2>1, <2>4 DEF RequestFits
<1>8. ASSUME NEW s \in SessionIds PROVE SessionFits(s)'
    BY <1>1, <1>4 DEF AccountsInv, SessionFits
<1>9. OneRotation'
    BY <1>1 DEF AccountsInv, OneRotation
<1> QED
    BY <1>1, <1>5, <1>6, <1>7, <1>8, <1>9 DEF AccountsInv

LEMMA StepAccounts == ASSUME AccountsInv, Logins!Next PROVE AccountsInv'
<1> QED
    BY StepReads, StepSignup, StepChallenge, StepToken, StepSessions, StepReset, StepTime DEF Logins!Next

-----------------------------------------------------------------------------
(* Mails                                                                     *)

\* Every milestone has a mail, and every mail is one of its entity's.
LEMMA MilestoneNamed ==
    ASSUME NEW k \in Kinds, NEW f \in DOMAIN Milestones[k]
    PROVE  \/ Milestones[k][f].event # "none"
           \/ Milestones[k][f].admin # "none"
<1> USE DEF Milestone, ForBoth
<1>1. k \in {"order", "capture", "payment", "parcel", "return", "refund", "replacement", "pickup"}
    BY MailsAssumption DEF States
<1>2. CASE k = "order"
    BY <1>2 DEF Milestones, OrderPlaced, OrderProcessing, OrderShipped, OrderDelivered, CodOrderConfirmed, OrderCancelled
<1>3. CASE k = "capture"
    BY <1>3 DEF Milestones, PaymentSuccessful, PaymentSuccessfulException
<1>4. CASE k = "payment"
    BY <1>4 DEF Milestones, PaymentFailed
<1>5. CASE k = "parcel"
    BY <1>5 DEF Milestones, ShipmentCreated, OrderOutForDelivery, OrderReturnedToOrigin, DeliveryAttemptFailed, ReplacementShipped
<1>6. CASE k = "return"
    BY <1>6 DEF Milestones, ReturnRequested, ReturnApproved, ReturnRejected
<1>7. CASE k = "refund"
    BY <1>7 DEF Milestones, RefundInitiated, RefundSucceeded, RefundFailed
<1>8. CASE k = "replacement"
    BY <1>8 DEF Milestones, ReplacementApproved, ReplacementStockUnavailable, ReplacementCompleted
<1>9. CASE k = "pickup"
    BY <1>9 DEF Milestones, ReturnPickupCreated, ReturnPickedUp, ReturnDelivered
<1> QED
    BY <1>1, <1>2, <1>3, <1>4, <1>5, <1>6, <1>7, <1>8, <1>9

LEMMA MilestoneEvents ==
    ASSUME NEW k \in Kinds, NEW f \in DOMAIN Milestones[k]
    PROVE  /\ Milestones[k][f].event \in Events(k) \cup {"none"}
           /\ Milestones[k][f].admin \in Events(k) \cup {"none"}
<1> QED
    BY DEF Events

\* An entity starts in one of its states, and what happens to it leaves it in one.
LEMMA FirstStates == ASSUME NEW k \in Kinds, NEW e \in First[k] PROVE e \in States[k]
<1> USE DEF Rows
<1>1. k \in {"order", "capture", "payment", "parcel", "return", "refund", "replacement", "pickup"}
    BY MailsAssumption DEF States
<1>2. CASE k = "order"
    BY <1>2 DEF First, States, OrderIn, OrderStates
<1>3. CASE k = "capture"
    BY <1>3 DEF First, States
<1>4. CASE k = "payment"
    BY <1>4 DEF First, States
<1>5. CASE k = "parcel"
    BY <1>5 DEF First, States
<1>6. CASE k = "return"
    BY <1>6 DEF First, States
<1>7. CASE k = "refund"
    BY <1>7 DEF First, States
<1>8. CASE k = "replacement"
    BY <1>8 DEF First, States
<1>9. CASE k = "pickup"
    BY <1>9 DEF First, States
<1> QED
    BY <1>1, <1>2, <1>3, <1>4, <1>5, <1>6, <1>7, <1>8, <1>9

LEMMA EntityStates ==
    ASSUME NEW k \in Kinds, NEW e \in States[k], NEW step \in Steps[k], step[1] = e.status
    PROVE  [e EXCEPT !.status = step[2]] \in States[k]
<1> USE DEF Rows
<1>1. k \in {"order", "capture", "payment", "parcel", "return", "refund", "replacement", "pickup"}
    BY MailsAssumption DEF States
<1>2. CASE k = "order"
  <2>1. step[2] \in {"pending", "confirmed", "processing", "shipped", "delivered", "return_requested", "cancelled"}
    BY <1>2 DEF Steps, OrderSteps, Forward
  <2>2. e \in OrderStates
    BY <1>2 DEF States
  <2> QED
    BY <1>2, <2>1, <2>2 DEF States, OrderStates
<1>3. CASE k = "capture"
    BY <1>3 DEF States, Steps
<1>4. CASE k = "payment"
    BY <1>4 DEF States, Steps
<1>5. CASE k = "parcel"
    BY <1>5 DEF States, Steps
<1>6. CASE k = "return"
    BY <1>6 DEF States, Steps
<1>7. CASE k = "refund"
    BY <1>7 DEF States, Steps
<1>8. CASE k = "replacement"
    BY <1>8 DEF States, Steps
<1>9. CASE k = "pickup"
    BY <1>9 DEF States, Steps
<1> QED
    BY <1>1, <1>2, <1>3, <1>4, <1>5, <1>6, <1>7, <1>8, <1>9

CallSteps == {"claim", "build", "send", "sent", "failed"}
CallRecord(k) == [step : CallSteps, function : DOMAIN Milestones[k], event : Events(k)]

\* A caller past its claim is the only one to work on its mail, and how many of that mail
\* have left follows from how far it is.
Owns(c) == callers[c] # Idle /\ callers[c].step # "claim"
CallFits(c) ==
    callers[c] # Idle =>
        LET m == Milestones[kind][callers[c].function]
            event == callers[c].event
        IN  /\ event \in {m.event, m.admin} /\ been \cap m.due # {}
            /\ callers[c].step = "build" => event = m.admin
            /\ callers[c].step \in {"send", "sent", "failed"} /\ event = m.admin => been \cap m.fresh # {}
            /\ callers[c].step # "claim" => log[event] = "pending"
            /\ callers[c].step \in {"build", "send"} => mails[event] = 0
            /\ callers[c].step = "sent" => mails[event] = 1

OneOwner == \A c, d \in Callers : Owns(c) /\ Owns(d) /\ callers[c].event = callers[d].event => c = d

\* MailsSound, told of one mail.
Reached(e) ==
    \E f \in DOMAIN Milestones[kind] :
        /\ e \in {Milestones[kind][f].event, Milestones[kind][f].admin} /\ been \cap Milestones[kind][f].due # {}
        /\ e = Milestones[kind][f].admin => been \cap Milestones[kind][f].fresh # {}
MailFits(e) ==
    /\ mails[e] <= 1
    /\ log[e] = "sent" => mails[e] = 1
    /\ log[e] \in {"none", "skipped"} => mails[e] = 0
    /\ log[e] = "pending" => crashed \/ \E c \in Callers : Owns(c) /\ callers[c].event = e
    /\ mails[e] > 0 => Reached(e)

MailsTyped == TypeOK /\ entity \in been /\ callers \in [Callers -> CallRecord(kind) \cup {Idle}]
MailsInv ==
    /\ MailsTyped
    /\ \A c \in Callers : CallFits(c)
    /\ OneOwner
    /\ \A e \in Events(kind) : MailFits(e)

LEMMA IdleOrCall ==
    ASSUME NEW k, NEW q \in CallRecord(k) PROVE q # Idle /\ q.step \in CallSteps
                                             /\ q.function \in DOMAIN Milestones[k] /\ q.event \in Events(k)
<1>1. q.step \in CallSteps /\ q.function \in DOMAIN Milestones[k] /\ q.event \in Events(k)
    BY DEF CallRecord
<1>2. q.step # "idle"
    BY <1>1 DEF CallSteps
<1> QED
    BY <1>1, <1>2 DEF Idle

LEMMA InitMails == Init => MailsInv
<1> SUFFICES ASSUME Init PROVE MailsInv
    OBVIOUS
<1>1. entity \in States[kind]
  <2>1. kind \in Kinds /\ entity \in First[kind]
    BY DEF Init
  <2> QED
    BY <2>1, FirstStates
<1>2. kind \in Kinds /\ been = {entity} /\ calls = 0 /\ crashed = FALSE
      /\ log = [e \in Events(kind) |-> "none"] /\ mails = [e \in Events(kind) |-> 0]
      /\ callers = [c \in Callers |-> Idle]
    BY DEF Init
<1>3. log \in [Events(kind) -> LogStatus]
    BY <1>2 DEF LogStatus
<1>4. mails \in [Events(kind) -> Nat]
    BY <1>2
<1>5. callers \in [Callers -> CallRecord(kind) \cup {Idle}]
    BY <1>2
<1>6. calls \in 0..MaxCalls
    BY <1>2, MailsAssumption
<1>7. MailsTyped
    BY <1>1, <1>2, <1>3, <1>4, <1>5, <1>6 DEF MailsTyped, TypeOK
<1>8. \A c \in Callers : callers[c] = Idle
    BY <1>2
<1>9. \A e \in Events(kind) : log[e] = "none" /\ mails[e] = 0
    BY <1>2
<1>10. \A c \in Callers : CallFits(c) /\ ~Owns(c)
    BY <1>8 DEF CallFits, Owns
<1>11. \A e \in Events(kind) : MailFits(e)
    BY <1>9 DEF MailFits
<1> QED
    BY <1>7, <1>10, <1>11 DEF MailsInv, OneOwner

LEMMA MailsAreSound == MailsInv => TypeOK /\ MailsSound
<1> SUFFICES ASSUME MailsInv PROVE MailsSound
    BY DEF MailsInv, MailsTyped
<1>1. MailedOnce /\ LogTruthful
    BY DEF MailsInv, MailFits, MailedOnce, LogTruthful
<1>2. ClaimSettled
    BY DEF MailsInv, MailFits, ClaimSettled, Owns
<1>3. MailsTrue
    BY DEF MailsInv, MailFits, MailsTrue, Reached
<1> QED
    BY <1>1, <1>2, <1>3 DEF MailsSound

LEMMA StepAdvance == ASSUME MailsInv, Advance PROVE MailsInv'
<1>1. UNCHANGED <<kind, log, callers, calls, mails, crashed>> /\ been' = been \cup {entity'}
    BY DEF Advance
<1>2. kind \in Kinds /\ entity \in States[kind] /\ been \subseteq States[kind]
    BY DEF MailsInv, MailsTyped, TypeOK
<1>3. entity' \in States[kind]
    BY <1>2, EntityStates DEF Advance
<1>4. MailsTyped'
    BY <1>1, <1>2, <1>3 DEF MailsInv, MailsTyped, TypeOK
<1>5. ASSUME NEW c \in Callers PROVE CallFits(c)'
    BY <1>1 DEF MailsInv, CallFits
<1>6. OneOwner'
    BY <1>1 DEF MailsInv, OneOwner, Owns
<1>7. ASSUME NEW e \in Events(kind) PROVE MailFits(e)'
  <2>1. Reached(e) => Reached(e)'
    BY <1>1 DEF Reached
  <2> QED
    BY <1>1, <2>1 DEF MailsInv, MailFits, Owns
<1> QED
    BY <1>1, <1>4, <1>5, <1>6, <1>7 DEF MailsInv

\* A step of one caller that leaves the entity alone and touches no mail but its own.
LEMMA StepOfCaller ==
    ASSUME MailsInv, NEW c \in Callers, NEW q \in CallRecord(kind) \cup {Idle},
           callers' = [callers EXCEPT ![c] = q],
           UNCHANGED <<kind, entity, been>>, calls' \in 0..MaxCalls, crashed' \in BOOLEAN, crashed => crashed',
           log' \in [Events(kind) -> LogStatus], mails' \in [Events(kind) -> Nat],
           CallFits(c)',
           NEW own \in Events(kind),
           Owns(c) => callers[c].event = own /\ (q # Idle /\ q.step # "claim" => q.event = own),
           ~Owns(c) /\ q # Idle /\ q.step # "claim" => log[own] = "none" /\ q.event = own,
           Owns(c) /\ ~(q # Idle /\ q.step # "claim") => crashed' \/ log'[own] # "pending",
           Owns(c) \/ log[own] = "none" \/ UNCHANGED <<log, mails>>,
           \A e \in Events(kind) \ {own} : log'[e] = log[e] /\ mails'[e] = mails[e],
           MailFits(own)'
    PROVE  MailsInv'
<1>1. callers \in [Callers -> CallRecord(kind) \cup {Idle}]
    BY DEF MailsInv, MailsTyped
<1>2. /\ callers' \in [Callers -> CallRecord(kind) \cup {Idle}] /\ callers'[c] = q
      /\ \A d \in Callers \ {c} : callers'[d] = callers[d]
    BY <1>1
<1>3. MailsTyped'
    BY <1>2 DEF MailsInv, MailsTyped, TypeOK
<1>4. \A d \in Callers \ {c} : Owns(d) => callers[d].event # own \/ UNCHANGED <<log, mails>>
    BY DEF MailsInv, OneOwner, CallFits, Owns
<1>5. \A d \in Callers \ {c} : Owns(d)' <=> Owns(d)
    BY <1>2 DEF Owns
<1>6. ASSUME NEW d \in Callers PROVE CallFits(d)'
  <2>1. CASE d = c
    BY <2>1
  <2>2. CASE d # c /\ callers[d] # Idle
    <3>1. callers[d].event \in Events(kind)
        BY <1>1, <2>2, IdleOrCall
    <3>2. callers[d].step \in CallSteps
        BY <1>1, <2>2, IdleOrCall
    <3>3. callers[d].step # "claim" =>
            log'[callers[d].event] = log[callers[d].event] /\ mails'[callers[d].event] = mails[callers[d].event]
        BY <1>4, <2>2, <3>1 DEF Owns
    <3>4. CallFits(d)
        BY DEF MailsInv
    <3> QED
        BY <1>2, <2>2, <3>2, <3>3, <3>4 DEF CallFits, CallSteps
  <2>3. CASE d # c /\ callers[d] = Idle
    BY <1>2, <2>3 DEF CallFits
  <2> QED
    BY <2>1, <2>2, <2>3
<1>7. OneOwner'
  <2>1. ASSUME NEW d \in Callers \ {c}, Owns(d), q # Idle, q.step # "claim" PROVE callers[d].event # q.event
    <3>1. CASE Owns(c)
        BY <2>1, <3>1 DEF MailsInv, OneOwner
    <3>2. CASE ~Owns(c)
        BY <2>1, <3>2 DEF MailsInv, CallFits, Owns
    <3> QED
        BY <3>1, <3>2
  <2>2. Owns(c)' <=> q # Idle /\ q.step # "claim"
    BY <1>2 DEF Owns
  <2> QED
    BY <1>2, <1>5, <2>1, <2>2 DEF MailsInv, OneOwner
<1>8. ASSUME NEW e \in Events(kind) PROVE MailFits(e)'
  <2>1. CASE e = own
    BY <2>1
  <2>2. CASE e # own
    <3>1. MailFits(e) /\ (Reached(e) => Reached(e)') /\ log'[e] = log[e] /\ mails'[e] = mails[e]
        BY <2>2 DEF MailsInv, Reached
    <3>2. ASSUME NEW d \in Callers, Owns(d), callers[d].event = e
          PROVE  Owns(d)' /\ callers'[d].event = e
        BY <1>2, <1>5, <2>2, <3>2
    <3> QED
        BY <3>1, <3>2 DEF MailFits
  <2> QED
    BY <2>1, <2>2
<1> QED
    BY <1>3, <1>6, <1>7, <1>8 DEF MailsInv

\* A caller that is done with a mail goes on to the administrators', or returns.
LEMMA RestGoesOn ==
    ASSUME MailsInv, NEW c \in Callers, callers[c] # Idle, UNCHANGED <<kind, been>>,
           Rest(c) \/ callers' = [callers EXCEPT ![c] = Idle]
    PROVE  \E q \in CallRecord(kind) \cup {Idle} :
               /\ callers' = [callers EXCEPT ![c] = q]
               /\ q # Idle => q.step = "claim"
               /\ CallFits(c)'
<1>1. PICK p \in CallRecord(kind) : p = callers[c]
    BY DEF MailsInv, MailsTyped
<1>2. p.function \in DOMAIN Milestones[kind] /\ kind \in Kinds
    BY <1>1, IdleOrCall DEF MailsInv, MailsTyped, TypeOK
<1> DEFINE m == Milestones[kind][p.function]
<1>3. callers \in [Callers -> CallRecord(kind) \cup {Idle}] /\ CallFits(c)
    BY DEF MailsInv, MailsTyped
<1>4. been \cap m.due # {}
    BY <1>1, <1>3 DEF CallFits
<1>5. CASE callers' = [callers EXCEPT ![c] = Idle]
    BY <1>3, <1>5 DEF CallFits
<1>6. CASE callers' # [callers EXCEPT ![c] = Idle]
  <2> DEFINE q == Working("claim", p.function, m.admin)
  <2>1. callers' = [callers EXCEPT ![c] = q] /\ m.admin # "none"
    BY <1>1, <1>6 DEF Rest, Doing, Continue
  <2>2. m.admin \in Events(kind)
    BY <1>2, <2>1, MilestoneEvents
  <2>3. q \in CallRecord(kind) /\ q.step = "claim" /\ q.function = p.function /\ q.event = m.admin
    BY <1>2, <2>2 DEF CallRecord, CallSteps, Working
  <2>4. callers'[c] = q
    BY <1>3, <2>1
  <2> HIDE DEF q
  <2>5. CallFits(c)'
    BY <1>4, <2>3, <2>4 DEF CallFits
  <2> QED
    BY <2>1, <2>3, <2>5
<1> QED
    BY <1>5, <1>6

LEMMA StepCall == ASSUME MailsInv, NEW c \in Callers, Call(c) PROVE MailsInv'
<1>1. callers[c] = Idle /\ calls < MaxCalls /\ calls' = calls + 1
      /\ UNCHANGED <<kind, entity, log, been, mails, crashed>>
    BY DEF Call
<1>2. PICK f \in DOMAIN Milestones[kind] :
            /\ entity \in Milestones[kind][f].due
            /\ callers' = [callers EXCEPT ![c] = Working("claim", f, IF Milestones[kind][f].event = "none"
                                            THEN Milestones[kind][f].admin ELSE Milestones[kind][f].event)]
    BY DEF Call, Continue
<1>3. kind \in Kinds /\ calls \in 0..MaxCalls /\ entity \in been /\ callers \in [Callers -> CallRecord(kind) \cup {Idle}]
    BY DEF MailsInv, MailsTyped, TypeOK
<1>4. PICK own \in Events(kind) : /\ own \in {Milestones[kind][f].event, Milestones[kind][f].admin}
                                  /\ callers' = [callers EXCEPT ![c] = Working("claim", f, own)]
    BY <1>2, <1>3, MilestoneEvents, MilestoneNamed
<1>5. calls' \in 0..MaxCalls
    BY <1>1, <1>3, MailsAssumption
<1>6. Working("claim", f, own) \in CallRecord(kind)
    BY <1>4 DEF CallRecord, CallSteps, Working
<1>7. PICK q \in CallRecord(kind) : /\ callers' = [callers EXCEPT ![c] = q]
                                    /\ q.step = "claim" /\ q.function = f /\ q.event = own
    BY <1>4, <1>6 DEF Working
<1>8. callers'[c] = q
    BY <1>3, <1>7
<1>9. kind' = kind /\ entity' = entity /\ been' = been /\ log' = log /\ mails' = mails /\ crashed' = crashed
    BY <1>1
<1>10. own \in {Milestones[kind][f].event, Milestones[kind][f].admin} /\ been \cap Milestones[kind][f].due # {}
    BY <1>2, <1>3, <1>4
<1>11. CallFits(c)'
    BY <1>7, <1>8, <1>9, <1>10 DEF CallFits
<1>12. ~Owns(c) /\ ~Owns(c)'
    BY <1>1, <1>7, <1>8 DEF Owns
<1>13. \A d \in Callers : Owns(d) => Owns(d)' /\ callers'[d].event = callers[d].event
    BY <1>3, <1>7, <1>12 DEF Owns
<1>14. MailFits(own)'
  <2>1. MailFits(own)
    BY <1>4 DEF MailsInv
  <2>2. Reached(own) => Reached(own)'
    BY <1>9 DEF Reached
  <2> QED
    BY <1>9, <1>13, <2>1, <2>2 DEF MailFits
<1>15. log' \in [Events(kind) -> LogStatus] /\ mails' \in [Events(kind) -> Nat] /\ crashed' \in BOOLEAN
    BY <1>9 DEF MailsInv, MailsTyped, TypeOK
<1>16. own \in Events(kind) /\ q \in CallRecord(kind) \cup {Idle}
    BY <1>4, <1>7
<1>17. UNCHANGED <<kind, entity, been>> /\ UNCHANGED <<log, mails>> /\ (crashed => crashed')
       /\ \A e \in Events(kind) \ {own} : log'[e] = log[e] /\ mails'[e] = mails[e]
    BY <1>9
<1> QED
    BY <1>5, <1>7, <1>11, <1>12, <1>14, <1>15, <1>16, <1>17, StepOfCaller

\* What a caller at work knows.
LEMMA AtWork ==
    ASSUME MailsInv, NEW c \in Callers, callers[c] # Idle
    PROVE  /\ kind \in Kinds /\ callers[c] \in CallRecord(kind)
           /\ callers[c].event \in Events(kind) /\ callers[c].step \in CallSteps
           /\ callers[c].function \in DOMAIN Milestones[kind]
           /\ CallFits(c) /\ MailFits(callers[c].event)
           /\ calls \in 0..MaxCalls /\ crashed \in BOOLEAN
           /\ log \in [Events(kind) -> LogStatus] /\ mails \in [Events(kind) -> Nat]
           /\ callers \in [Callers -> CallRecord(kind) \cup {Idle}]
<1>1. callers[c] \in CallRecord(kind)
    BY DEF MailsInv, MailsTyped
<1> QED
    BY <1>1, IdleOrCall DEF MailsInv, MailsTyped, TypeOK

LEMMA ProceedRecord ==
    ASSUME NEW k, NEW p \in CallRecord(k), NEW step \in CallSteps
    PROVE  /\ [p EXCEPT !.step = step] \in CallRecord(k) /\ [p EXCEPT !.step = step].step = step
           /\ [p EXCEPT !.step = step].function = p.function /\ [p EXCEPT !.step = step].event = p.event
           /\ [p EXCEPT !.step = step] # Idle
<1>1. /\ [p EXCEPT !.step = step] \in CallRecord(k) /\ [p EXCEPT !.step = step].step = step
      /\ [p EXCEPT !.step = step].function = p.function /\ [p EXCEPT !.step = step].event = p.event
    BY DEF CallRecord
<1> QED
    BY <1>1, IdleOrCall

\* A caller's step to its next one keeps the mail it works on.
LEMMA ProceedFits ==
    ASSUME MailsInv, NEW c \in Callers, callers[c] # Idle, NEW step \in CallSteps \ {"claim"}, Proceed(c, step),
           UNCHANGED <<kind, been>>,
           NEW own \in Events(kind), own = callers[c].event,
           step = "build" => own = Doing(c).admin,
           step \in {"send", "sent", "failed"} /\ own = Doing(c).admin => been \cap Doing(c).fresh # {},
           log'[own] = "pending",
           step \in {"build", "send"} => mails'[own] = 0,
           step = "sent" => mails'[own] = 1
    PROVE  \E q \in CallRecord(kind) :
               callers' = [callers EXCEPT ![c] = q] /\ q # Idle /\ q.step = step /\ q.event = own /\ CallFits(c)'
<1>1. PICK p \in CallRecord(kind) : p = callers[c]
    BY AtWork
<1>2. PICK q \in CallRecord(kind) : q = [p EXCEPT !.step = step]
    BY <1>1, ProceedRecord
<1>3. q # Idle /\ q.step = step /\ q.function = p.function /\ q.event = p.event
    BY <1>2, ProceedRecord
<1>4. callers' = [callers EXCEPT ![c] = q]
    BY <1>1, <1>2 DEF Proceed, Continue
<1>5. callers'[c] = q
    BY <1>4, AtWork
<1>6. CallFits(c)
    BY DEF MailsInv
<1>7. own \in {Milestones[kind][p.function].event, Milestones[kind][p.function].admin}
      /\ been \cap Milestones[kind][p.function].due # {}
    BY <1>1, <1>6 DEF CallFits
<1>8. CallFits(c)'
    BY <1>1, <1>3, <1>5, <1>7 DEF CallFits, Doing
<1> QED
    BY <1>1, <1>3, <1>4, <1>8

LEMMA StepClaim == ASSUME MailsInv, NEW c \in Callers, Claim(c) PROVE MailsInv'
<1>1. callers[c].step = "claim" /\ UNCHANGED <<kind, entity, calls, been, mails, crashed>>
    BY DEF Claim
<1>2. callers[c] # Idle
    BY <1>1 DEF Idle
<1>3. PICK own \in Events(kind) : own = callers[c].event
    BY <1>2, AtWork
<1>4. ~Owns(c)
    BY <1>1 DEF Owns
<1>5. kind' = kind /\ entity' = entity /\ been' = been /\ calls' = calls /\ mails' = mails /\ crashed' = crashed
    BY <1>1
<1>6. MailFits(own)
    BY <1>3 DEF MailsInv
<1>7. Reached(own) => Reached(own)'
    BY <1>5 DEF Reached
<1>8. callers \in [Callers -> CallRecord(kind) \cup {Idle}]
    BY <1>2, AtWork
<1>9. calls' \in 0..MaxCalls /\ crashed' \in BOOLEAN /\ (crashed => crashed') /\ mails' \in [Events(kind) -> Nat]
      /\ UNCHANGED <<kind, entity, been>>
    BY <1>2, <1>5, AtWork
<1>10. CASE UNCHANGED log /\ Rest(c)
  <2>1. PICK q \in CallRecord(kind) \cup {Idle} :
            callers' = [callers EXCEPT ![c] = q] /\ (q # Idle => q.step = "claim") /\ CallFits(c)'
    BY <1>2, <1>9, <1>10, RestGoesOn
  <2>2. \A d \in Callers : Owns(d) => Owns(d)' /\ callers'[d].event = callers[d].event
    BY <1>4, <1>8, <2>1 DEF Owns
  <2>3. MailFits(own)'
    BY <1>5, <1>6, <1>7, <1>10, <2>2 DEF MailFits
  <2>4. log' \in [Events(kind) -> LogStatus]
    BY <1>2, <1>10, AtWork
  <2>5. UNCHANGED <<log, mails>> /\ \A e \in Events(kind) \ {own} : log'[e] = log[e] /\ mails'[e] = mails[e]
    BY <1>5, <1>10
  <2> QED
    BY <1>4, <1>9, <2>1, <2>3, <2>4, <2>5, StepOfCaller
<1>11. CASE ~(UNCHANGED log /\ Rest(c))
  <2>1. log[own] = "none" /\ log' = [log EXCEPT ![own] = "pending"]
        /\ Proceed(c, IF own = Doing(c).admin THEN "build" ELSE "send")
    BY <1>3, <1>11 DEF Claim, Claimed
  <2>2. PICK step \in {"build", "send"} : Proceed(c, step) /\ (step = "build" <=> own = Doing(c).admin)
    BY <2>1
  <2>3. log \in [Events(kind) -> LogStatus]
    BY <1>2, AtWork
  <2>4. log'[own] = "pending" /\ log' \in [Events(kind) -> LogStatus] /\ \A e \in Events(kind) \ {own} : log'[e] = log[e]
    BY <2>1, <2>3 DEF LogStatus
  <2>5. mails'[own] = 0
    BY <1>5, <1>6, <2>1 DEF MailFits
  <2>6. step \in CallSteps \ {"claim"}
    BY DEF CallSteps
  <2>7. PICK q \in CallRecord(kind) :
            callers' = [callers EXCEPT ![c] = q] /\ q # Idle /\ q.step = step /\ q.event = own /\ CallFits(c)'
    BY <1>2, <1>3, <1>9, <2>2, <2>4, <2>5, <2>6, ProceedFits
  <2>8. callers'[c] = q
    BY <1>8, <2>7
  <2>9. Owns(c)' /\ callers'[c].event = own
    BY <2>6, <2>7, <2>8 DEF Owns
  <2>10. MailFits(own)'
    BY <2>4, <2>5, <2>9 DEF MailFits
  <2>11. \A e \in Events(kind) \ {own} : log'[e] = log[e] /\ mails'[e] = mails[e]
    BY <1>5, <2>4
  <2>12. q \in CallRecord(kind) \cup {Idle} /\ q.step # "claim"
    BY <2>6, <2>7
  <2> QED
    BY <1>4, <1>9, <2>1, <2>4, <2>7, <2>10, <2>11, <2>12, StepOfCaller
<1> QED
    BY <1>10, <1>11

\* A step past the claim, seen from the caller that makes it.
LEMMA AtOwnMail ==
    ASSUME MailsInv, NEW c \in Callers, callers[c].step \in CallSteps \ {"claim"}
    PROVE  /\ callers[c] # Idle /\ Owns(c)
           /\ log[callers[c].event] = "pending"
           /\ callers[c].step \in {"build", "send"} => mails[callers[c].event] = 0
           /\ callers[c].step = "sent" => mails[callers[c].event] = 1
           /\ mails[callers[c].event] \in {0, 1}
<1>1. callers[c] # Idle
    BY DEF CallSteps, Idle
<1>2. callers[c].event \in Events(kind)
    BY <1>1, AtWork
<1>3. CallFits(c) /\ MailFits(callers[c].event) /\ mails \in [Events(kind) -> Nat]
    BY <1>1, AtWork
<1>4. mails[callers[c].event] \in {0, 1}
    BY <1>2, <1>3 DEF MailFits
<1> QED
    BY <1>1, <1>3, <1>4 DEF Owns, CallFits

LEMMA StepBuild == ASSUME MailsInv, NEW c \in Callers, Build(c) PROVE MailsInv'
<1>1. callers[c].step = "build"
    BY DEF Build
<1>2. kind' = kind /\ entity' = entity /\ been' = been /\ calls' = calls /\ mails' = mails /\ crashed' = crashed
    BY DEF Build
<1>3. callers[c].step \in CallSteps \ {"claim"}
    BY <1>1 DEF CallSteps
<1>4. callers[c] # Idle /\ Owns(c)
    BY <1>3, AtOwnMail
<1>5. PICK own \in Events(kind) : own = callers[c].event
    BY <1>4, AtWork
<1>6. log[own] = "pending" /\ mails[own] = 0
    BY <1>1, <1>3, <1>5, AtOwnMail
<1>7. callers \in [Callers -> CallRecord(kind) \cup {Idle}] /\ log \in [Events(kind) -> LogStatus]
    BY <1>4, AtWork
<1>8. calls' \in 0..MaxCalls /\ crashed' \in BOOLEAN /\ (crashed => crashed') /\ mails' \in [Events(kind) -> Nat]
      /\ UNCHANGED <<kind, entity, been>>
    BY <1>2, <1>4, AtWork
<1>9. CASE entity \in Doing(c).fresh
  <2>1. UNCHANGED log /\ Proceed(c, "send")
    BY <1>9 DEF Build
  <2>2. entity \in been
    BY DEF MailsInv, MailsTyped
  <2>3. been \cap Doing(c).fresh # {}
    BY <1>9, <2>2
  <2>4. "send" \in CallSteps \ {"claim"} /\ log'[own] = "pending" /\ mails'[own] = 0
    BY <1>2, <1>6, <2>1 DEF CallSteps
  <2>5. PICK q \in CallRecord(kind) :
            callers' = [callers EXCEPT ![c] = q] /\ q # Idle /\ q.step = "send" /\ q.event = own /\ CallFits(c)'
    BY <1>4, <1>5, <1>8, <2>1, <2>3, <2>4, ProceedFits
  <2>6. callers'[c] = q
    BY <1>7, <2>5
  <2>7. Owns(c)' /\ callers'[c].event = own
    BY <2>5, <2>6 DEF Owns
  <2>8. MailFits(own)'
    BY <2>4, <2>7 DEF MailFits
  <2>9. log' \in [Events(kind) -> LogStatus] /\ \A e \in Events(kind) \ {own} : log'[e] = log[e] /\ mails'[e] = mails[e]
    BY <1>2, <1>7, <2>1
  <2>10. q \in CallRecord(kind) \cup {Idle} /\ q.step # "claim"
    BY <2>5
  <2> QED
    BY <1>4, <1>5, <1>8, <2>5, <2>8, <2>9, <2>10, StepOfCaller
<1>10. CASE entity \notin Doing(c).fresh
  <2>1. log' = [log EXCEPT ![own] = "skipped"] /\ Rest(c)
    BY <1>5, <1>10 DEF Build
  <2>2. PICK q \in CallRecord(kind) \cup {Idle} :
            callers' = [callers EXCEPT ![c] = q] /\ (q # Idle => q.step = "claim") /\ CallFits(c)'
    BY <1>4, <1>8, <2>1, RestGoesOn
  <2>3. log'[own] = "skipped" /\ log' \in [Events(kind) -> LogStatus] /\ \A e \in Events(kind) \ {own} : log'[e] = log[e]
    BY <1>7, <2>1 DEF LogStatus
  <2>4. MailFits(own)'
    BY <1>2, <1>6, <2>3 DEF MailFits
  <2>5. \A e \in Events(kind) \ {own} : log'[e] = log[e] /\ mails'[e] = mails[e]
    BY <1>2, <2>3
  <2>6. log'[own] # "pending"
    BY <2>3
  <2> QED
    BY <1>4, <1>5, <1>8, <2>2, <2>3, <2>4, <2>5, <2>6, StepOfCaller
<1> QED
    BY <1>9, <1>10

LEMMA StepSend == ASSUME MailsInv, NEW c \in Callers, Send(c) PROVE MailsInv'
<1>1. callers[c].step = "send"
    BY DEF Send
<1>2. kind' = kind /\ entity' = entity /\ been' = been /\ calls' = calls /\ log' = log /\ crashed' = crashed
    BY DEF Send
<1>3. callers[c].step \in CallSteps \ {"claim"}
    BY <1>1 DEF CallSteps
<1>4. callers[c] # Idle /\ Owns(c)
    BY <1>3, AtOwnMail
<1>5. PICK own \in Events(kind) : own = callers[c].event
    BY <1>4, AtWork
<1>6. log[own] = "pending" /\ mails[own] = 0
    BY <1>1, <1>3, <1>5, AtOwnMail
<1>7. callers \in [Callers -> CallRecord(kind) \cup {Idle}] /\ log \in [Events(kind) -> LogStatus]
      /\ mails \in [Events(kind) -> Nat]
    BY <1>4, AtWork
<1>8. calls' \in 0..MaxCalls /\ crashed' \in BOOLEAN /\ (crashed => crashed') /\ log' \in [Events(kind) -> LogStatus]
      /\ UNCHANGED <<kind, entity, been>>
    BY <1>2, <1>4, AtWork
<1>9. PICK f \in DOMAIN Milestones[kind] : f = callers[c].function
    BY <1>4, AtWork
<1>10. CallFits(c)
    BY DEF MailsInv
<1>11. /\ own \in {Milestones[kind][f].event, Milestones[kind][f].admin} /\ been \cap Milestones[kind][f].due # {}
       /\ own = Milestones[kind][f].admin => been \cap Milestones[kind][f].fresh # {}
    BY <1>1, <1>4, <1>5, <1>9, <1>10 DEF CallFits
<1>12. Reached(own)'
    BY <1>2, <1>11 DEF Reached
<1>13. PICK step \in {"sent", "failed"} :
          /\ Proceed(c, step)
          /\ \/ mails' = [mails EXCEPT ![own] = @ + 1]
             \/ mails' = mails /\ step = "failed"
    BY <1>5 DEF Send
<1>14. mails'[own] \in {0, 1} /\ (step = "sent" => mails'[own] = 1) /\ mails' \in [Events(kind) -> Nat]
       /\ \A e \in Events(kind) \ {own} : mails'[e] = mails[e]
  <2>1. CASE mails' = [mails EXCEPT ![own] = @ + 1]
    BY <1>6, <1>7, <2>1
  <2>2. CASE mails' = mails /\ step = "failed"
    BY <1>6, <1>7, <2>2
  <2> QED
    BY <1>13, <2>1, <2>2
<1>15. step \in CallSteps \ {"claim"} /\ step \notin {"build"} /\ step \notin {"build", "send"}
    BY DEF CallSteps
<1>16. own = Doing(c).admin => been \cap Doing(c).fresh # {}
    BY <1>9, <1>11 DEF Doing
<1>17. log'[own] = "pending"
    BY <1>2, <1>6
<1>18. PICK q \in CallRecord(kind) :
            callers' = [callers EXCEPT ![c] = q] /\ q # Idle /\ q.step = step /\ q.event = own /\ CallFits(c)'
    BY <1>4, <1>5, <1>8, <1>13, <1>14, <1>15, <1>16, <1>17, ProceedFits
<1>19. callers'[c] = q
    BY <1>7, <1>18
<1>20. Owns(c)' /\ callers'[c].event = own
    BY <1>15, <1>18, <1>19 DEF Owns
<1>21. MailFits(own)'
    BY <1>12, <1>14, <1>17, <1>20 DEF MailFits
<1>22. \A e \in Events(kind) \ {own} : log'[e] = log[e] /\ mails'[e] = mails[e]
    BY <1>2, <1>14
<1>23. q \in CallRecord(kind) \cup {Idle} /\ q.step # "claim" /\ mails' \in [Events(kind) -> Nat]
    BY <1>14, <1>15, <1>18
<1> QED
    BY <1>4, <1>5, <1>8, <1>18, <1>21, <1>22, <1>23, StepOfCaller

LEMMA StepRecord == ASSUME MailsInv, NEW c \in Callers, Record(c) PROVE MailsInv'
<1>1. callers[c].step \in {"sent", "failed"}
    BY DEF Record
<1>2. kind' = kind /\ entity' = entity /\ been' = been /\ calls' = calls /\ mails' = mails /\ crashed' = crashed
    BY DEF Record
<1>3. callers[c].step \in CallSteps \ {"claim"}
    BY <1>1 DEF CallSteps
<1>4. callers[c] # Idle /\ Owns(c)
    BY <1>3, AtOwnMail
<1>5. PICK own \in Events(kind) : own = callers[c].event
    BY <1>4, AtWork
<1>6. mails[own] \in {0, 1} /\ (callers[c].step = "sent" => mails[own] = 1)
    BY <1>3, <1>5, AtOwnMail
<1>7. callers \in [Callers -> CallRecord(kind) \cup {Idle}] /\ log \in [Events(kind) -> LogStatus]
    BY <1>4, AtWork
<1>8. calls' \in 0..MaxCalls /\ crashed' \in BOOLEAN /\ (crashed => crashed') /\ mails' \in [Events(kind) -> Nat]
      /\ UNCHANGED <<kind, entity, been>>
    BY <1>2, <1>4, AtWork
<1>9. log' = [log EXCEPT ![own] = callers[c].step] /\ Rest(c)
    BY <1>5 DEF Record
<1>10. PICK q \in CallRecord(kind) \cup {Idle} :
            callers' = [callers EXCEPT ![c] = q] /\ (q # Idle => q.step = "claim") /\ CallFits(c)'
    BY <1>4, <1>8, <1>9, RestGoesOn
<1>11. log'[own] = callers[c].step /\ \A e \in Events(kind) \ {own} : log'[e] = log[e]
    BY <1>7, <1>9
<1>12. log' \in [Events(kind) -> LogStatus]
    BY <1>1, <1>7, <1>9 DEF LogStatus
<1>13. MailFits(own)
    BY DEF MailsInv
<1>14. Reached(own) => Reached(own)'
    BY <1>2 DEF Reached
<1>15. MailFits(own)'
    BY <1>1, <1>2, <1>6, <1>11, <1>13, <1>14 DEF MailFits
<1>16. (\A e \in Events(kind) \ {own} : log'[e] = log[e] /\ mails'[e] = mails[e]) /\ log'[own] # "pending"
    BY <1>1, <1>2, <1>11
<1> QED
    BY <1>4, <1>5, <1>8, <1>10, <1>12, <1>15, <1>16, StepOfCaller

\* A caller that stops leaves its mail claimed; that one crashed is recorded.
LEMMA StepCrash == ASSUME MailsInv, NEW c \in Callers, Crash(c) PROVE MailsInv'
<1>1. callers[c] # Idle /\ callers' = [callers EXCEPT ![c] = Idle] /\ crashed' = TRUE
    BY DEF Crash, Continue
<1>2. kind' = kind /\ entity' = entity /\ been' = been /\ calls' = calls /\ mails' = mails /\ log' = log
    BY DEF Crash
<1>3. PICK own \in Events(kind) : own = callers[c].event
    BY <1>1, AtWork
<1>4. calls' \in 0..MaxCalls /\ crashed' \in BOOLEAN /\ (crashed => crashed') /\ mails' \in [Events(kind) -> Nat]
      /\ log' \in [Events(kind) -> LogStatus] /\ UNCHANGED <<kind, entity, been>> /\ UNCHANGED <<log, mails>>
      /\ \A e \in Events(kind) \ {own} : log'[e] = log[e] /\ mails'[e] = mails[e]
    BY <1>1, <1>2, AtWork
<1>5. callers'[c] = Idle
    BY <1>1, AtWork
<1>6. CallFits(c)'
    BY <1>5 DEF CallFits
<1>7. MailFits(own)
    BY DEF MailsInv
<1>8. Reached(own) => Reached(own)'
    BY <1>2 DEF Reached
<1>9. MailFits(own)'
    BY <1>1, <1>2, <1>7, <1>8 DEF MailFits
<1>10. PICK q \in CallRecord(kind) \cup {Idle} : q = Idle
    OBVIOUS
<1>11. callers' = [callers EXCEPT ![c] = q]
    BY <1>1, <1>10
<1> QED
    BY <1>1, <1>3, <1>4, <1>6, <1>9, <1>10, <1>11, StepOfCaller

LEMMA StepMails == ASSUME MailsInv, Next PROVE MailsInv'
<1> QED
    BY StepAdvance, StepCall, StepClaim, StepBuild, StepSend, StepRecord, StepCrash DEF Next

-----------------------------------------------------------------------------
(* The newsletter: links are numbered as they are made, so a link a pending  *)
(* row waits for was made after the last unsubscription.                     *)

SubscriberRow == [status : {"absent", "pending", "subscribed", "unsubscribed"},
                  verify : 0..MaxTokens, expired : BOOLEAN, cooling : BOOLEAN, unsubscribe : 0..MaxTokens]
LettersInv ==
    /\ subscriber \in SubscriberRow /\ tokens \in 0..MaxTokens
    /\ inbox \subseteq [use : {"verify", "unsubscribe"}, token : 1..tokens]
    /\ refused \subseteq 1..tokens
    /\ subscriber.status = "pending" => subscriber.verify \notin refused
    /\ subscriber.status = "subscribed" =>
           settled \notin refused /\ [use |-> "verify", token |-> settled] \in inbox

LEMMA InitLetters == Letters!Init => LettersInv
<1> QED
    BY ContentsAssumption DEF Letters!Init, Letters!Absent, Letters!NoToken, LettersInv, SubscriberRow

LEMMA LettersSound == LettersInv => Letters!TypeOK /\ Letters!OptOutHolds
<1> QED
    BY ContentsAssumption DEF LettersInv, SubscriberRow, Letters!TypeOK, Letters!OptOutHolds

LEMMA StepSubscribe == ASSUME LettersInv, Letters!Subscribe PROVE LettersInv'
<1>1. /\ tokens \in 0..MaxTokens /\ tokens < MaxTokens /\ tokens' = tokens + 1 /\ settled' = settled /\ refused' = refused
      /\ inbox' = inbox \/ inbox' = inbox \cup {[use |-> "verify", token |-> tokens + 1]}
    BY DEF LettersInv, Letters!Subscribe, Letters!CanMake, Letters!Token, Letters!Mailed
<1>2. tokens' \in 0..MaxTokens /\ tokens' \in 1..tokens' /\ 1..tokens \subseteq 1..tokens'
    BY <1>1, ContentsAssumption
<1>3. inbox \subseteq inbox' /\ inbox' \subseteq [use : {"verify", "unsubscribe"}, token : 1..tokens']
  <2>1. inbox \subseteq [use : {"verify", "unsubscribe"}, token : 1..tokens']
    BY <1>2 DEF LettersInv
  <2> QED
    BY <1>1, <1>2, <2>1
<1>4. refused' \subseteq 1..tokens' /\ tokens' \notin refused'
    BY <1>1, <1>2 DEF LettersInv
<1>5. CASE subscriber' = subscriber
    BY <1>1, <1>2, <1>3, <1>4, <1>5 DEF LettersInv
<1>6. CASE subscriber' # subscriber
  <2>1. PICK s \in SubscriberRow : s = subscriber
    BY DEF LettersInv
  <2>2. subscriber' = [s EXCEPT !.status = "pending", !.verify = tokens', !.expired = FALSE, !.cooling = TRUE]
    BY <1>1, <1>6, <2>1 DEF Letters!Subscribe, Letters!Token
  <2>3. subscriber' \in SubscriberRow /\ subscriber'.status = "pending" /\ subscriber'.verify = tokens'
    BY <1>2, <2>2 DEF SubscriberRow
  <2> QED
    BY <1>2, <1>3, <1>4, <2>3 DEF LettersInv
<1> QED
    BY <1>5, <1>6

LEMMA StepVerify ==
    ASSUME LettersInv, NEW link \in inbox, link.use = "verify", Letters!Verify(link.token) PROVE LettersInv'
<1>1. /\ tokens \in 0..MaxTokens /\ tokens < MaxTokens /\ tokens' = tokens + 1 /\ refused' = refused
      /\ settled' = link.token /\ subscriber.status = "pending" /\ subscriber.verify = link.token
      /\ inbox' = inbox \/ inbox' = inbox \cup {[use |-> "unsubscribe", token |-> tokens + 1]}
    BY DEF LettersInv, Letters!Verify, Letters!Confirms, Letters!CanMake, Letters!Token
<1>2. 0 \in 0..MaxTokens /\ tokens' \in 0..MaxTokens /\ tokens' \in 1..tokens' /\ 1..tokens \subseteq 1..tokens'
    BY <1>1, ContentsAssumption
<1>3. inbox \subseteq inbox' /\ inbox' \subseteq [use : {"verify", "unsubscribe"}, token : 1..tokens']
  <2>1. inbox \subseteq [use : {"verify", "unsubscribe"}, token : 1..tokens']
    BY <1>2 DEF LettersInv
  <2> QED
    BY <1>1, <1>2, <2>1
<1>4. refused' \subseteq 1..tokens' /\ settled' \notin refused'
    BY <1>1, <1>2 DEF LettersInv
<1>5. link = [use |-> "verify", token |-> settled']
    BY <1>1 DEF LettersInv
<1>6. PICK s \in SubscriberRow : s = subscriber
    BY DEF LettersInv
<1>7. subscriber' = [s EXCEPT !.status = "subscribed", !.verify = 0, !.unsubscribe = tokens']
    BY <1>1, <1>6 DEF Letters!Verify, Letters!Token, Letters!NoToken
<1>8. subscriber' \in SubscriberRow /\ subscriber'.status = "subscribed"
    BY <1>2, <1>7 DEF SubscriberRow
<1> QED
    BY <1>2, <1>3, <1>4, <1>5, <1>8 DEF LettersInv

LEMMA StepUnsubscribe == ASSUME LettersInv, NEW token, Letters!Unsubscribe(token) PROVE LettersInv'
<1>1. PICK s \in SubscriberRow : s = subscriber
    BY DEF LettersInv
<1>2. subscriber' = [s EXCEPT !.status = "unsubscribed"] /\ refused' = 1..tokens /\ UNCHANGED <<tokens, inbox, settled>>
    BY <1>1 DEF Letters!Unsubscribe
<1>3. subscriber' \in SubscriberRow /\ subscriber'.status = "unsubscribed"
    BY <1>2 DEF SubscriberRow
<1> QED
    BY <1>2, <1>3 DEF LettersInv

LEMMA StepResendLink == ASSUME LettersInv, Letters!ResendUnsubscribeLink PROVE LettersInv'
<1>1. /\ tokens \in 0..MaxTokens /\ tokens < MaxTokens /\ tokens' = tokens + 1 /\ settled' = settled /\ refused' = refused
      /\ subscriber.status = "subscribed"
      /\ inbox' = inbox \/ inbox' = inbox \cup {[use |-> "unsubscribe", token |-> tokens + 1]}
    BY DEF LettersInv, Letters!ResendUnsubscribeLink, Letters!CanMake, Letters!Token, Letters!Mailed
<1>2. tokens' \in 0..MaxTokens /\ tokens' \in 1..tokens' /\ 1..tokens \subseteq 1..tokens'
    BY <1>1, ContentsAssumption
<1>3. inbox \subseteq inbox' /\ inbox' \subseteq [use : {"verify", "unsubscribe"}, token : 1..tokens']
  <2>1. inbox \subseteq [use : {"verify", "unsubscribe"}, token : 1..tokens']
    BY <1>2 DEF LettersInv
  <2> QED
    BY <1>1, <1>2, <2>1
<1>4. subscriber' \in SubscriberRow /\ subscriber'.status = "subscribed"
  <2>1. PICK s \in SubscriberRow : s = subscriber
    BY DEF LettersInv
  <2>2. subscriber' = s \/ subscriber' = [s EXCEPT !.unsubscribe = tokens']
    BY <1>1, <2>1 DEF Letters!ResendUnsubscribeLink, Letters!Token
  <2> QED
    BY <1>1, <1>2, <2>1, <2>2 DEF SubscriberRow
<1> QED
    BY <1>1, <1>2, <1>3, <1>4 DEF LettersInv

LEMMA StepTimeLetters == ASSUME LettersInv, Letters!Time PROVE LettersInv'
<1>1. PICK s \in SubscriberRow : s = subscriber
    BY DEF LettersInv
<1>2. subscriber' = [s EXCEPT !.cooling = FALSE] \/ subscriber' = [s EXCEPT !.expired = TRUE]
    BY <1>1 DEF Letters!Time, Letters!Cooled, Letters!Expired
<1>3. subscriber' \in SubscriberRow /\ subscriber'.status = s.status /\ subscriber'.verify = s.verify
    BY <1>2 DEF SubscriberRow
<1>4. UNCHANGED <<tokens, inbox, settled, refused>>
    BY DEF Letters!Time
<1> QED
    BY <1>1, <1>3, <1>4 DEF LettersInv

LEMMA StepLetters == ASSUME LettersInv, Letters!Next PROVE LettersInv'
<1> QED
    BY StepSubscribe, StepVerify, StepUnsubscribe, StepResendLink, StepTimeLetters DEF Letters!Next

-----------------------------------------------------------------------------
(* The announcement bar: the dates of a row are in order unless two updates  *)
(* of it crossed.                                                            *)

Message == [active : BOOLEAN, starts : Bar!Dates, ends : Bar!Dates]
Edit == [id : ItemIds, seen : Message]
BarInv ==
    /\ items \in [ItemIds -> Message \cup {Bar!None, Bar!Gone}]
    /\ requests \in [Callers -> Edit \cup {Bar!None}]
    /\ \A i \in Bar!Existing \ crossed : Bar!ValidSchedule(items[i])

LEMMA InitBar == Bar!Init => BarInv
<1> QED
    BY DEF Bar!Init, BarInv, Bar!Existing

LEMMA BarSound == BarInv => Bar!TypeOK /\ Bar!ActiveIsShown
<1> SUFFICES ASSUME BarInv PROVE Bar!TypeOK /\ Bar!ActiveIsShown
    OBVIOUS
<1>1. \A i \in Bar!Existing : items[i] \in Message
    BY DEF BarInv, Bar!Existing
<1>2. ASSUME NEW i \in Bar!Existing \ crossed, items[i].active PROVE \E date \in 1..MaxDate : i \in Bar!Shown(date)
  <2>1. PICK row \in Message : row = items[i]
    BY <1>1
  <2>2. row.starts \in 0..MaxDate /\ row.ends \in 0..MaxDate /\ MaxDate \in Nat /\ MaxDate # 0
    BY ContentsAssumption DEF Message, Bar!Dates
  <2>3. row.starts = 0 \/ row.ends = 0 \/ row.starts < row.ends
    BY <2>1 DEF BarInv, Bar!ValidSchedule, Bar!InOrder
  <2>4. PICK date \in 1..MaxDate : row.starts <= date /\ (row.ends = 0 \/ date <= row.ends)
    <3>1. CASE row.starts = 0
        BY <2>2, <3>1
    <3>2. CASE row.starts # 0
        BY <2>2, <2>3, <3>2
    <3> QED
        BY <3>1, <3>2
  <2> QED
    BY <1>2, <2>1, <2>4 DEF Bar!Shown
<1> QED
    BY <1>1, <1>2 DEF Bar!TypeOK, Bar!ActiveIsShown, Message

LEMMA MessageShape == ASSUME NEW row \in Message PROVE row \notin {Bar!None, Bar!Gone}
<1> QED
    BY DEF Message, Bar!None, Bar!Gone

LEMMA StepCreateMessage == ASSUME BarInv, Bar!CreateItem PROVE BarInv'
<1>1. PICK i \in ItemIds, starts \in Bar!Dates, ends \in Bar!Dates, active \in BOOLEAN :
         /\ Bar!ValidSchedule([active |-> active, starts |-> starts, ends |-> ends])
         /\ items' = [items EXCEPT ![i] = [active |-> active, starts |-> starts, ends |-> ends]]
    BY DEF Bar!CreateItem
<1>2. PICK row \in Message : Bar!ValidSchedule(row) /\ items' = [items EXCEPT ![i] = row]
    BY <1>1 DEF Message
<1>3. requests' = requests /\ crossed' = crossed
    BY DEF Bar!CreateItem
<1>4. items' \in [ItemIds -> Message \cup {Bar!None, Bar!Gone}] /\ items'[i] = row
      /\ \A j \in ItemIds \ {i} : items'[j] = items[j]
    BY <1>2 DEF BarInv
<1>5. \A j \in Bar!Existing' \ crossed' : Bar!ValidSchedule(items[j])'
    BY <1>2, <1>3, <1>4 DEF BarInv, Bar!Existing, Bar!ValidSchedule
<1> QED
    BY <1>3, <1>4, <1>5 DEF BarInv

LEMMA StepReadMessage ==
    ASSUME BarInv, NEW a \in Callers, NEW i \in Bar!Existing, Bar!Read(a, i) PROVE BarInv'
<1>1. [id |-> i, seen |-> items[i]] \in Edit
    BY DEF BarInv, Bar!Existing, Edit
<1>2. requests' = [requests EXCEPT ![a] = [id |-> i, seen |-> items[i]]] /\ items' = items /\ crossed' = crossed
    BY DEF Bar!Read
<1>3. requests' \in [Callers -> Edit \cup {Bar!None}]
    BY <1>1, <1>2 DEF BarInv
<1> QED
    BY <1>2, <1>3 DEF BarInv, Bar!Existing, Bar!ValidSchedule

\* A save whose dates are those the update read writes the dates that were compared.
LEMMA SavedRow ==
    ASSUME NEW now \in Message, NEW seen \in Message, NEW row \in Message
    PROVE  /\ Bar!Saved(now, seen, row) \in Message
           /\ now.starts = seen.starts => Bar!Saved(now, seen, row).starts = row.starts
           /\ now.ends = seen.ends => Bar!Saved(now, seen, row).ends = row.ends
<1>1. PICK active \in BOOLEAN : active = Bar!Changed(now.active, seen.active, row.active)
    BY DEF Bar!Changed, Message
<1>2. PICK starts \in Bar!Dates : starts = Bar!Changed(now.starts, seen.starts, row.starts)
    BY DEF Bar!Changed, Message
<1>3. PICK ends \in Bar!Dates : ends = Bar!Changed(now.ends, seen.ends, row.ends)
    BY DEF Bar!Changed, Message
<1>4. Bar!Saved(now, seen, row) = [active |-> active, starts |-> starts, ends |-> ends]
    BY <1>1, <1>2, <1>3 DEF Bar!Saved
<1>5. /\ [active |-> active, starts |-> starts, ends |-> ends] \in Message
      /\ [active |-> active, starts |-> starts, ends |-> ends].starts = starts
      /\ [active |-> active, starts |-> starts, ends |-> ends].ends = ends
    BY DEF Message
<1> QED
    BY <1>2, <1>3, <1>4, <1>5 DEF Bar!Changed

LEMMA StepUpdateMessage == ASSUME BarInv, NEW a \in Callers, Bar!UpdateItem(a) PROVE BarInv'
<1>1. PICK q \in Edit : q = requests[a]
    BY DEF BarInv, Bar!UpdateItem
<1>2. q.id \in ItemIds /\ q.seen \in Message
    BY DEF Edit
<1>3. requests' = [requests EXCEPT ![a] = Bar!None]
    BY DEF Bar!UpdateItem
<1>4. requests' \in [Callers -> Edit \cup {Bar!None}]
    BY <1>3 DEF BarInv
<1>5. CASE UNCHANGED <<items, crossed>>
    BY <1>4, <1>5 DEF BarInv, Bar!Existing, Bar!ValidSchedule
<1>6. CASE ~UNCHANGED <<items, crossed>>
  <2>1. PICK starts \in Bar!Dates \cup {q.seen.starts}, ends \in Bar!Dates \cup {q.seen.ends}, active \in BOOLEAN :
            /\ Bar!ValidSchedule([active |-> active, starts |-> starts, ends |-> ends])
            /\ q.id \in Bar!Existing
            /\ items' = [items EXCEPT ![q.id] = Bar!Saved(@, q.seen, [active |-> active, starts |-> starts, ends |-> ends])]
            /\ crossed' = IF <<items[q.id].starts, items[q.id].ends>> = <<q.seen.starts, q.seen.ends>>
                          THEN crossed \ {q.id} ELSE crossed \cup {q.id}
    BY <1>1, <1>6 DEF Bar!UpdateItem
  <2>2. q.seen.starts \in Bar!Dates /\ q.seen.ends \in Bar!Dates
    BY <1>2 DEF Message
  <2>3. PICK row \in Message : row = [active |-> active, starts |-> starts, ends |-> ends]
    BY <2>1, <2>2 DEF Message
  <2>4. PICK now \in Message : now = items[q.id]
    BY <2>1 DEF BarInv, Bar!Existing
  <2>5. PICK new \in Message : new = Bar!Saved(now, q.seen, row)
    BY <1>2, SavedRow
  <2>6. items' = [items EXCEPT ![q.id] = new]
    BY <2>1, <2>3, <2>4, <2>5
  <2>7. items' \in [ItemIds -> Message \cup {Bar!None, Bar!Gone}] /\ items'[q.id] = new
        /\ \A j \in ItemIds \ {q.id} : items'[j] = items[j]
    BY <1>2, <2>6 DEF BarInv
  <2>8. q.id \notin crossed' => Bar!ValidSchedule(new)
    <3>1. q.id \notin crossed' => now.starts = q.seen.starts /\ now.ends = q.seen.ends
        BY <2>1, <2>4
    <3>2. q.id \notin crossed' => new.starts = row.starts /\ new.ends = row.ends
        BY <1>2, <2>5, <3>1, SavedRow
    <3> QED
        BY <2>1, <2>3, <3>2 DEF Bar!ValidSchedule
  <2>9. \A j \in Bar!Existing' \ crossed' : Bar!ValidSchedule(items[j])'
    <3>1. \A j \in ItemIds \ {q.id} : j \in crossed' <=> j \in crossed
        BY <2>1
    <3> QED
        BY <2>7, <2>8, <3>1 DEF BarInv, Bar!Existing, Bar!ValidSchedule
  <2> QED
    BY <1>4, <2>7, <2>9 DEF BarInv
<1> QED
    BY <1>5, <1>6

LEMMA StepDeleteMessage == ASSUME BarInv, NEW i \in Bar!Existing, Bar!DeleteItem(i) PROVE BarInv'
<1>1. items' = [items EXCEPT ![i] = Bar!Gone] /\ requests' = requests /\ crossed' = crossed
    BY DEF Bar!DeleteItem
<1> QED
    BY <1>1 DEF BarInv, Bar!Existing, Bar!ValidSchedule

LEMMA StepBar == ASSUME BarInv, Bar!Next PROVE BarInv'
<1> QED
    BY StepCreateMessage, StepReadMessage, StepUpdateMessage, StepDeleteMessage DEF Bar!Next

-----------------------------------------------------------------------------
(* The welcome popup: one that was complete when a request read it, and is   *)
(* no longer, was changed meanwhile.                                         *)

PopupRow == [status : {"draft", "published", "archived"}, active : BOOLEAN, ready : BOOLEAN]
PopupRequest == [kind : Popups!Handlers, id : PopupIds, seen : PopupRow]
PopupsInv ==
    /\ popups \in [PopupIds -> PopupRow \cup {Popups!None}] /\ reworked \subseteq PopupIds
    /\ requests \in [Callers -> PopupRequest \cup {Popups!None}]
    /\ \A a \in Callers : requests[a] # Popups!None =>
           /\ popups[requests[a].id] # Popups!None
           /\ requests[a].seen.ready /\ ~popups[requests[a].id].ready => requests[a].id \in reworked
    /\ \A p \in Popups!Existing : popups[p].status = "published" /\ ~popups[p].ready => p \in reworked
    /\ \A p \in Popups!Active : popups[p].status = "published"
    /\ Cardinality(Popups!Active) <= 1

\* Counting is the same in the instances.
LEMMA Counts ==
    ASSUME NEW S
    PROVE  /\ Popups!Cardinality(S) = Cardinality(S)
           /\ Book!Cardinality(S) = Cardinality(S)
           /\ Opinions!Cardinality(S) = Cardinality(S)
<1>1. Popups!Cardinality(S) = Cardinality(S)
    BY DEF Popups!Cardinality, Cardinality
<1>2. Book!Cardinality(S) = Cardinality(S)
    BY DEF Book!Cardinality, Cardinality
<1>3. Opinions!Cardinality(S) = Cardinality(S)
    BY DEF Opinions!Cardinality, Cardinality
<1> QED
    BY <1>1, <1>2, <1>3

LEMMA PopupShape == ASSUME NEW row \in PopupRow PROVE row # Popups!None
<1> QED
    BY DEF PopupRow, Popups!None

LEMMA InitPopups == Popups!Init => PopupsInv
<1> SUFFICES ASSUME Popups!Init PROVE PopupsInv
    OBVIOUS
<1>1. Popups!Existing = {} /\ Popups!Active = {}
    BY DEF Popups!Init, Popups!Existing, Popups!Active
<1>2. Cardinality(Popups!Active) <= 1
    BY <1>1, FS_EmptySet
<1> QED
    BY <1>1, <1>2 DEF Popups!Init, PopupsInv

LEMMA PopupsSound == PopupsInv => Popups!TypeOK /\ Popups!OnePublishedPopup
<1> SUFFICES ASSUME PopupsInv PROVE Popups!TypeOK
    BY Counts DEF PopupsInv, Popups!OnePublishedPopup
<1>1. \A p \in Popups!Existing : popups[p] \in PopupRow
    BY DEF PopupsInv, Popups!Existing
<1> QED
    BY <1>1 DEF PopupsInv, Popups!TypeOK, PopupRow

\* A save: what it may do to the rows, which the unique key and the CHECK then bound.
LEMMA StepSave ==
    ASSUME PopupsInv, NEW rows \in [PopupIds -> PopupRow \cup {Popups!None}], Popups!Save(rows),
           requests' = requests \/ \E a \in Callers : requests' = [requests EXCEPT ![a] = Popups!None],
           reworked' \subseteq PopupIds,
           \A p \in PopupIds : popups[p] # Popups!None =>
               /\ rows[p] # Popups!None
               /\ p \in reworked /\ ~popups[p].ready => p \in reworked'
               /\ popups[p].ready => rows[p].ready \/ p \in reworked'
               /\ rows[p].status = "published" /\ popups[p].status # "published" => rows[p].ready \/ p \in reworked',
           \A p \in PopupIds : popups[p] = Popups!None /\ rows[p] # Popups!None => rows[p].status # "published"
    PROVE  PopupsInv'
<1>1. CASE popups' = rows /\ Popups!Accepted(rows)
  <2>1. Popups!Active' = {p \in {x \in PopupIds : rows[x] # Popups!None} : rows[p].active}
    BY <1>1 DEF Popups!Active, Popups!Existing
  <2>2. Cardinality(Popups!Active') <= 1 /\ \A p \in Popups!Active' : popups'[p].status = "published"
    BY <1>1, <2>1, Counts DEF Popups!Accepted
  <2>3. requests' \in [Callers -> PopupRequest \cup {Popups!None}]
        /\ \A a \in Callers : requests'[a] # Popups!None => requests'[a] = requests[a]
    BY DEF PopupsInv
  <2>4. ASSUME NEW a \in Callers, requests'[a] # Popups!None
        PROVE  /\ popups'[requests'[a].id] # Popups!None
               /\ requests'[a].seen.ready /\ ~popups'[requests'[a].id].ready => requests'[a].id \in reworked'
    <3>1. PICK q \in PopupRequest : q = requests[a] /\ q = requests'[a]
        BY <2>3, <2>4 DEF PopupsInv
    <3>2. q.id \in PopupIds /\ popups[q.id] # Popups!None
          /\ (q.seen.ready /\ ~popups[q.id].ready => q.id \in reworked)
        BY <2>3, <2>4, <3>1 DEF PopupsInv, PopupRequest
    <3> QED
        BY <1>1, <3>1, <3>2
  <2>5. ASSUME NEW p \in Popups!Existing', popups'[p].status = "published", ~popups'[p].ready PROVE p \in reworked'
    <3>1. p \in PopupIds /\ rows[p] # Popups!None /\ popups[p] # Popups!None
        BY <1>1, <2>5 DEF Popups!Existing
    <3>2. CASE popups[p].ready
        BY <1>1, <2>5, <3>1, <3>2
    <3>3. CASE ~popups[p].ready
        BY <1>1, <2>5, <3>1, <3>3 DEF PopupsInv, Popups!Existing
    <3> QED
        BY <3>2, <3>3
  <2> QED
    BY <1>1, <2>2, <2>3, <2>4, <2>5 DEF PopupsInv
<1>2. CASE popups' = popups
  <2>1. requests' \in [Callers -> PopupRequest \cup {Popups!None}]
        /\ \A a \in Callers : requests'[a] # Popups!None => requests'[a] = requests[a]
    BY DEF PopupsInv
  <2>2. ASSUME NEW a \in Callers, requests'[a] # Popups!None
        PROVE  /\ popups'[requests'[a].id] # Popups!None
               /\ requests'[a].seen.ready /\ ~popups'[requests'[a].id].ready => requests'[a].id \in reworked'
    <3>1. PICK q \in PopupRequest : q = requests[a] /\ q = requests'[a]
        BY <2>1, <2>2 DEF PopupsInv
    <3>2. q.id \in PopupIds /\ popups[q.id] # Popups!None
          /\ (q.seen.ready /\ ~popups[q.id].ready => q.id \in reworked)
        BY <2>1, <2>2, <3>1 DEF PopupsInv, PopupRequest
    <3> QED
        BY <1>2, <3>1, <3>2
  <2>3. Popups!Existing' = Popups!Existing /\ Popups!Active' = Popups!Active
    BY <1>2 DEF Popups!Existing, Popups!Active
  <2>4. ASSUME NEW p \in Popups!Existing, popups[p].status = "published", ~popups[p].ready PROVE p \in reworked'
    BY <2>4 DEF PopupsInv, Popups!Existing
  <2>5. \A p \in Popups!Active : p \in PopupIds /\ popups'[p].status = "published"
    BY <1>2 DEF PopupsInv, Popups!Active, Popups!Existing
  <2> QED
    BY <1>2, <2>1, <2>2, <2>3, <2>4, <2>5 DEF PopupsInv
<1> QED
    BY <1>1, <1>2 DEF Popups!Save

LEMMA StepReadPopup ==
    ASSUME PopupsInv, NEW a \in Callers, NEW kind0 \in Popups!Handlers, NEW p \in Popups!Existing,
           Popups!Read(a, kind0, p)
    PROVE  PopupsInv'
<1>1. popups' = popups /\ reworked' = reworked
      /\ requests' = [requests EXCEPT ![a] = [kind |-> kind0, id |-> p, seen |-> popups[p]]]
    BY DEF Popups!Read
<1>2. PICK row \in PopupRow : row = popups[p]
    BY DEF PopupsInv, Popups!Existing
<1>3. PICK q \in PopupRequest : q = [kind |-> kind0, id |-> p, seen |-> row]
    BY DEF PopupRequest, Popups!Existing
<1>4. q.id = p /\ q.seen = row
    BY <1>3
<1>5. requests' \in [Callers -> PopupRequest \cup {Popups!None}] /\ requests'[a] = q
      /\ \A b \in Callers \ {a} : requests'[b] = requests[b]
    BY <1>1, <1>2, <1>3 DEF PopupsInv
<1>6. popups[p] # Popups!None
    BY DEF Popups!Existing
<1>7. \A b \in Callers : requests'[b] # Popups!None =>
           /\ popups'[requests'[b].id] # Popups!None
           /\ requests'[b].seen.ready /\ ~popups'[requests'[b].id].ready => requests'[b].id \in reworked'
    BY <1>1, <1>2, <1>4, <1>5, <1>6 DEF PopupsInv
<1> QED
    BY <1>1, <1>5, <1>7 DEF PopupsInv, Popups!Existing, Popups!Active

\* Saving one row.
LEMMA StepSaveOne ==
    ASSUME PopupsInv, NEW id \in PopupIds, NEW new \in PopupRow, Popups!Save([popups EXCEPT ![id] = new]),
           requests' = requests \/ \E a \in Callers : requests' = [requests EXCEPT ![a] = Popups!None],
           reworked' \subseteq PopupIds, reworked \ {id} \subseteq reworked',
           popups[id] # Popups!None =>
               /\ id \in reworked /\ ~popups[id].ready => id \in reworked'
               /\ popups[id].ready => new.ready \/ id \in reworked'
               /\ new.status = "published" /\ popups[id].status # "published" => new.ready \/ id \in reworked',
           popups[id] = Popups!None => new.status # "published"
    PROVE  PopupsInv'
<1>1. PICK rows \in [PopupIds -> PopupRow \cup {Popups!None}] : rows = [popups EXCEPT ![id] = new]
    BY DEF PopupsInv
<1>2. rows[id] = new /\ \A p \in PopupIds \ {id} : rows[p] = popups[p]
    BY <1>1 DEF PopupsInv
<1>3. ASSUME NEW p \in PopupIds, popups[p] # Popups!None
      PROVE  /\ rows[p] # Popups!None
             /\ p \in reworked /\ ~popups[p].ready => p \in reworked'
             /\ popups[p].ready => rows[p].ready \/ p \in reworked'
             /\ rows[p].status = "published" /\ popups[p].status # "published" => rows[p].ready \/ p \in reworked'
  <2>1. CASE p = id
    BY <1>2, <1>3, <2>1, PopupShape
  <2>2. CASE p # id
    BY <1>2, <1>3, <2>2
  <2> QED
    BY <2>1, <2>2
<1>4. \A p \in PopupIds : popups[p] = Popups!None /\ rows[p] # Popups!None => rows[p].status # "published"
    BY <1>2
<1>5. Popups!Save(rows)
    BY <1>1
<1> QED
    BY <1>3, <1>4, <1>5, StepSave

LEMMA ReadySet ==
    ASSUME NEW row \in PopupRow, NEW x \in BOOLEAN
    PROVE  \E new \in PopupRow : new = [row EXCEPT !.ready = x] /\ new.status = row.status
<1>1. [row EXCEPT !.ready = x] \in PopupRow
    BY DEF PopupRow
<1>2. [row EXCEPT !.ready = x].status = row.status
    BY DEF PopupRow
<1> QED
    BY <1>1, <1>2, Zenon

LEMMA ActiveSet ==
    ASSUME NEW row \in PopupRow, NEW x \in BOOLEAN
    PROVE  \E new \in PopupRow : new = [row EXCEPT !.active = x] /\ new.status = row.status /\ new.ready = row.ready
<1>1. [row EXCEPT !.active = x] \in PopupRow
    BY DEF PopupRow
<1>2. [row EXCEPT !.active = x].status = row.status /\ [row EXCEPT !.active = x].ready = row.ready
    BY DEF PopupRow
<1> QED
    BY <1>1, <1>2, Zenon

LEMMA StatusSet ==
    ASSUME NEW row \in PopupRow, NEW x \in {"draft", "published", "archived"}
    PROVE  \E new \in PopupRow : new = [row EXCEPT !.status = x] /\ new.status = x /\ new.ready = row.ready
<1>1. [row EXCEPT !.status = x] \in PopupRow
    BY DEF PopupRow
<1>2. [row EXCEPT !.status = x].status = x /\ [row EXCEPT !.status = x].ready = row.ready
    BY DEF PopupRow
<1> QED
    BY <1>1, <1>2, Zenon

LEMMA DraftRow == ASSUME NEW ready \in BOOLEAN
                  PROVE  Popups!Draft(ready) \in PopupRow /\ Popups!Draft(ready).status # "published"
<1> QED
    BY DEF Popups!Draft, PopupRow

LEMMA StepCreatePopup == ASSUME PopupsInv, Popups!CreateItem PROVE PopupsInv'
<1>1. PICK p \in Popups!Lowest, ready \in BOOLEAN : Popups!Save([popups EXCEPT ![p] = Popups!Draft(ready)])
    BY DEF Popups!CreateItem
<1>2. p \in PopupIds /\ popups[p] = Popups!None
    BY DEF Popups!Lowest, Popups!Unused
<1>3. requests' = requests /\ reworked' = reworked /\ reworked \subseteq PopupIds
    BY DEF Popups!CreateItem, PopupsInv
<1>4. PICK new \in PopupRow : new = Popups!Draft(ready) /\ new.status # "published"
    BY DraftRow
<1>5. Popups!Save([popups EXCEPT ![p] = new]) /\ reworked' \subseteq PopupIds /\ reworked \ {p} \subseteq reworked'
    BY <1>1, <1>3, <1>4
<1> QED
    BY <1>2, <1>3, <1>4, <1>5, StepSaveOne

\* What a handler holds.
LEMMA PopupHandled ==
    ASSUME PopupsInv, NEW a \in Callers, NEW kind0, Popups!Handling(a, kind0)
    PROVE  /\ requests' = [requests EXCEPT ![a] = Popups!None]
           /\ requests[a].id \in PopupIds /\ requests[a].seen \in PopupRow
           /\ popups[requests[a].id] \in PopupRow
           /\ requests[a].seen.ready /\ ~popups[requests[a].id].ready => requests[a].id \in reworked
<1>1. PICK q \in PopupRequest : q = requests[a]
    BY DEF Popups!Handling, PopupsInv
<1>2. q.id \in PopupIds /\ q.seen \in PopupRow
    BY DEF PopupRequest
<1>3. requests[a] # Popups!None
    BY DEF Popups!Handling
<1> QED
    BY <1>1, <1>2, <1>3 DEF Popups!Handling, PopupsInv

LEMMA StepDuplicatePopup == ASSUME PopupsInv, NEW a \in Callers, Popups!DuplicateItem(a) PROVE PopupsInv'
<1>1. PICK p \in Popups!Lowest : Popups!Save([popups EXCEPT ![p] = Popups!Draft(requests[a].seen.ready)])
    BY DEF Popups!DuplicateItem
<1>2. p \in PopupIds /\ popups[p] = Popups!None
    BY DEF Popups!Lowest, Popups!Unused
<1>3. Popups!Handling(a, "duplicate") /\ reworked' = reworked /\ reworked \subseteq PopupIds
    BY DEF Popups!DuplicateItem, PopupsInv
<1>4. requests' = [requests EXCEPT ![a] = Popups!None] /\ requests[a].seen \in PopupRow
    BY <1>3, PopupHandled
<1>5. requests[a].seen.ready \in BOOLEAN
    BY <1>4 DEF PopupRow
<1>6. PICK new \in PopupRow : new = Popups!Draft(requests[a].seen.ready) /\ new.status # "published"
    BY <1>5, DraftRow
<1>7. Popups!Save([popups EXCEPT ![p] = new]) /\ reworked' \subseteq PopupIds /\ reworked \ {p} \subseteq reworked'
    BY <1>1, <1>3, <1>6
<1> QED
    BY <1>2, <1>4, <1>6, <1>7, StepSaveOne

LEMMA StepUpdatePopup == ASSUME PopupsInv, NEW a \in Callers, Popups!UpdateItem(a) PROVE PopupsInv'
<1>1. Popups!Handling(a, "update") /\ reworked \subseteq PopupIds
    BY DEF Popups!UpdateItem, PopupsInv
<1>2. PICK id \in PopupIds, seen \in PopupRow, row \in PopupRow :
            id = requests[a].id /\ seen = requests[a].seen /\ row = popups[id]
    BY <1>1, PopupHandled
<1>3. requests' = [requests EXCEPT ![a] = Popups!None]
    BY <1>1, PopupHandled
<1>4. PICK ready \in BOOLEAN :
            Popups!Save([popups EXCEPT ![id].ready = Popups!Changed(popups[id].ready, seen.ready, ready)])
    BY <1>2 DEF Popups!UpdateItem
<1>5. PICK saved \in BOOLEAN : saved = Popups!Changed(row.ready, seen.ready, ready)
    BY DEF Popups!Changed, PopupRow
<1>6. PICK new \in PopupRow : new = [row EXCEPT !.ready = saved] /\ new.status = row.status
    BY ReadySet, Zenon
<1>7. Popups!Save([popups EXCEPT ![id] = new])
    BY <1>2, <1>4, <1>5, <1>6
<1>8. reworked' = reworked \cup {id}
    BY <1>2 DEF Popups!UpdateItem
<1>9. reworked' \subseteq PopupIds /\ reworked \ {id} \subseteq reworked' /\ id \in reworked'
    BY <1>1, <1>8
<1>10. popups[id] # Popups!None
    BY <1>2, PopupShape
<1> QED
    BY <1>3, <1>7, <1>9, <1>10, StepSaveOne

LEMMA StepPublishPopup == ASSUME PopupsInv, NEW a \in Callers, Popups!PublishItem(a) PROVE PopupsInv'
<1>1. Popups!Handling(a, "publish") /\ reworked \subseteq PopupIds
    BY DEF Popups!PublishItem, PopupsInv
<1>2. PICK id \in PopupIds, seen \in PopupRow, row \in PopupRow :
            id = requests[a].id /\ seen = requests[a].seen /\ row = popups[id]
    BY <1>1, PopupHandled
<1>3. requests' = [requests EXCEPT ![a] = Popups!None] /\ (seen.ready /\ ~row.ready => id \in reworked)
    BY <1>1, <1>2, PopupHandled
<1>4. popups[id] # Popups!None
    BY <1>2, PopupShape
<1>5. CASE seen.ready
  <2>1. Popups!Save([popups EXCEPT ![id].status = Popups!Changed(popups[id].status, seen.status, "published")])
        /\ reworked' = IF row.ready THEN reworked \ {id} ELSE reworked
    BY <1>2, <1>5 DEF Popups!PublishItem, Popups!PublishReady
  <2>2. PICK saved \in {"draft", "published", "archived"} : saved = Popups!Changed(row.status, seen.status, "published")
    BY DEF Popups!Changed, PopupRow
  <2>3. PICK new \in PopupRow : new = [row EXCEPT !.status = saved] /\ new.status = saved /\ new.ready = row.ready
    BY StatusSet, Zenon
  <2>4. Popups!Save([popups EXCEPT ![id] = new])
    BY <1>2, <2>1, <2>2, <2>3
  <2>5. reworked' \subseteq PopupIds /\ reworked \ {id} \subseteq reworked'
    BY <1>1, <2>1
  <2>6. row.ready \/ id \in reworked'
    BY <1>3, <1>5, <2>1
  <2> QED
    BY <1>2, <1>3, <1>4, <2>3, <2>4, <2>5, <2>6, StepSaveOne
<1>6. CASE ~seen.ready
  <2>1. popups' = popups /\ reworked' = reworked
    BY <1>2, <1>6 DEF Popups!PublishItem, Popups!PublishReady
  <2>2. requests' \in [Callers -> PopupRequest \cup {Popups!None}]
        /\ \A b \in Callers : requests'[b] # Popups!None => requests'[b] = requests[b]
    BY <1>3 DEF PopupsInv
  <2> QED
    BY <2>1, <2>2 DEF PopupsInv, Popups!Existing, Popups!Active
<1> QED
    BY <1>5, <1>6

LEMMA StepDeactivatePopup == ASSUME PopupsInv, NEW a \in Callers, Popups!DeactivateItem(a) PROVE PopupsInv'
<1>1. Popups!Handling(a, "deactivate") /\ reworked \subseteq PopupIds /\ reworked' = reworked
    BY DEF Popups!DeactivateItem, PopupsInv
<1>2. PICK id \in PopupIds, seen \in PopupRow, row \in PopupRow :
            id = requests[a].id /\ seen = requests[a].seen /\ row = popups[id]
    BY <1>1, PopupHandled
<1>3. requests' = [requests EXCEPT ![a] = Popups!None]
    BY <1>1, PopupHandled
<1>4. Popups!Save([popups EXCEPT ![id].active = Popups!Changed(popups[id].active, seen.active, FALSE)])
    BY <1>2 DEF Popups!DeactivateItem
<1>5. PICK saved \in BOOLEAN : saved = Popups!Changed(row.active, seen.active, FALSE)
    BY DEF Popups!Changed, PopupRow
<1>6. PICK new \in PopupRow : new = [row EXCEPT !.active = saved] /\ new.status = row.status /\ new.ready = row.ready
    BY ActiveSet, Zenon
<1>7. Popups!Save([popups EXCEPT ![id] = new])
    BY <1>2, <1>4, <1>5, <1>6
<1>8. popups[id] # Popups!None /\ reworked' \subseteq PopupIds /\ reworked \ {id} \subseteq reworked'
    BY <1>1, <1>2, PopupShape
<1> QED
    BY <1>1, <1>2, <1>3, <1>6, <1>7, <1>8, StepSaveOne

LEMMA StepArchivePopup == ASSUME PopupsInv, NEW a \in Callers, Popups!ArchiveItem(a) PROVE PopupsInv'
<1>1. Popups!Handling(a, "archive") /\ reworked \subseteq PopupIds /\ reworked' = reworked
    BY DEF Popups!ArchiveItem, PopupsInv
<1>2. PICK id \in PopupIds, seen \in PopupRow, row \in PopupRow :
            id = requests[a].id /\ seen = requests[a].seen /\ row = popups[id]
    BY <1>1, PopupHandled
<1>3. requests' = [requests EXCEPT ![a] = Popups!None]
    BY <1>1, PopupHandled
<1>4. PICK status \in {"draft", "published", "archived"} :
            status = Popups!Changed(row.status, seen.status, "archived") /\ (status = row.status \/ status = "archived")
    BY DEF Popups!Changed, PopupRow
<1>5. PICK active \in BOOLEAN : active = Popups!Changed(row.active, seen.active, FALSE)
    BY DEF Popups!Changed, PopupRow
<1>6. PICK new \in PopupRow : /\ new = [row EXCEPT !.status = status, !.active = active]
                              /\ new.status = status /\ new.ready = row.ready
  <2>1. PICK half \in PopupRow : half = [row EXCEPT !.status = status] /\ half.status = status /\ half.ready = row.ready
    BY StatusSet, Zenon
  <2>2. PICK whole \in PopupRow : whole = [half EXCEPT !.active = active]
                                 /\ whole.status = half.status /\ whole.ready = half.ready
    BY ActiveSet, Zenon
  <2> QED
    BY <2>1, <2>2
<1>7. Popups!Save([popups EXCEPT ![id] = new])
    BY <1>2, <1>4, <1>5, <1>6 DEF Popups!ArchiveItem, PopupsInv
<1>8. popups[id] # Popups!None /\ reworked' \subseteq PopupIds /\ reworked \ {id} \subseteq reworked'
    BY <1>1, <1>2, PopupShape
<1> QED
    BY <1>1, <1>2, <1>3, <1>4, <1>6, <1>7, <1>8, StepSaveOne

LEMMA StepActivatePopup == ASSUME PopupsInv, Popups!ActivateItem PROVE PopupsInv'
<1>1. PICK p \in Popups!Existing :
            Popups!Save([q \in PopupIds |-> IF q \in Popups!Existing THEN [popups[q] EXCEPT !.active = q = p] ELSE Popups!None])
    BY DEF Popups!ActivateItem
<1>2. requests' = requests /\ reworked' = reworked /\ reworked \subseteq PopupIds
    BY DEF Popups!ActivateItem, PopupsInv
<1> DEFINE rows == [q \in PopupIds |-> IF q \in Popups!Existing THEN [popups[q] EXCEPT !.active = q = p] ELSE Popups!None]
<1>3. ASSUME NEW q \in Popups!Existing
      PROVE  rows[q] \in PopupRow /\ rows[q].status = popups[q].status /\ rows[q].ready = popups[q].ready
  <2>1. PICK row \in PopupRow : row = popups[q]
    BY DEF PopupsInv, Popups!Existing
  <2>2. PICK flag \in BOOLEAN : flag <=> q = p
    OBVIOUS
  <2>3. rows[q] = [row EXCEPT !.active = flag]
    BY <2>1, <2>2 DEF Popups!Existing
  <2> HIDE DEF rows
  <2> QED
    BY <2>1, <2>3 DEF PopupRow
<1>4. \A q \in PopupIds : popups[q] = Popups!None => rows[q] = Popups!None
    BY DEF Popups!Existing
<1>5. \A q \in PopupIds : popups[q] # Popups!None => q \in Popups!Existing
    BY DEF Popups!Existing
<1>6. rows \in [PopupIds -> PopupRow \cup {Popups!None}]
    BY <1>3, <1>4, <1>5
<1>7. Popups!Save(rows)
    BY <1>1
<1>8. PICK new \in [PopupIds -> PopupRow \cup {Popups!None}] : new = rows
    BY <1>6
<1> HIDE DEF rows
<1>9. ASSUME NEW q \in PopupIds, popups[q] # Popups!None
      PROVE  /\ new[q] # Popups!None
             /\ q \in reworked /\ ~popups[q].ready => q \in reworked'
             /\ popups[q].ready => new[q].ready \/ q \in reworked'
             /\ new[q].status = "published" /\ popups[q].status # "published" => new[q].ready \/ q \in reworked'
    BY <1>2, <1>3, <1>5, <1>8, <1>9, PopupShape
<1> QED
    BY <1>2, <1>4, <1>7, <1>8, <1>9, StepSave

LEMMA StepPopups == ASSUME PopupsInv, Popups!Next PROVE PopupsInv'
<1> QED
    BY StepCreatePopup, StepActivatePopup, StepReadPopup, StepDuplicatePopup, StepUpdatePopup, StepPublishPopup,
       StepDeactivatePopup, StepArchivePopup DEF Popups!Next

-----------------------------------------------------------------------------
(* Reviews: a decision is only written over the status it was made on, so a  *)
(* change that leaves "approved" in place was vouched for.                   *)

ReviewRow == [user : Reviewers \cup {0}, status : Opinions!Statuses, text : 1..MaxText,
              verified : BOOLEAN, vouched : BOOLEAN]
CreateRequest == [kind : {"create"}, user : Reviewers]
EditRequest == [kind : {"edit"}, id : ReviewIds, seen : Opinions!Statuses]
ModerateRequest == [kind : {"moderate"}, id : ReviewIds, status : Opinions!Statuses, rewrite : BOOLEAN,
                    shown : 1..MaxText, seen : Opinions!Statuses]
ReviewRequest == CreateRequest \cup EditRequest \cup ModerateRequest \cup {Opinions!None}
ReviewFits(row) ==
    /\ row.status = "approved" => row.vouched
    /\ row.verified => row.user \in delivered
OpinionsTyped ==
    /\ reviews \in [ReviewIds -> ReviewRow \cup {Opinions!None}]
    /\ requests \in [Callers -> ReviewRequest]
    /\ page \in [id : ReviewIds, text : 1..MaxText] \cup {Opinions!None}
    /\ delivered \subseteq Reviewers /\ used \in {0} \cup ReviewIds
OpinionsInv ==
    /\ OpinionsTyped
    /\ \A r \in Callers : requests[r] # Opinions!None /\ requests[r].kind = "create" => requests[r].user \in delivered
    /\ \A i \in Opinions!Existing : ReviewFits(reviews[i])
    /\ \A i, j \in Opinions!Existing : reviews[i].user = reviews[j].user /\ reviews[i].user # 0 => i = j

LEMMA RequestKinds ==
    ASSUME NEW q \in ReviewRequest
    PROVE  /\ q # Opinions!None /\ q.kind = "create" => q \in CreateRequest
           /\ q # Opinions!None /\ q.kind = "edit" => q \in EditRequest
           /\ q # Opinions!None /\ q.kind = "moderate" => q \in ModerateRequest
<1>1. CASE q \in CreateRequest
    BY <1>1 DEF CreateRequest
<1>2. CASE q \in EditRequest
    BY <1>2 DEF EditRequest
<1>3. CASE q \in ModerateRequest
    BY <1>3 DEF ModerateRequest
<1> QED
    BY <1>1, <1>2, <1>3 DEF ReviewRequest

LEMMA ReviewShape == ASSUME NEW row \in ReviewRow PROVE row # Opinions!None
<1> QED
    BY DEF ReviewRow, Opinions!None

LEMMA InitOpinions == Opinions!Init => OpinionsInv
<1> SUFFICES ASSUME Opinions!Init PROVE OpinionsInv
    OBVIOUS
<1>1. OpinionsTyped
    BY DEF Opinions!Init, OpinionsTyped, ReviewRequest
<1>2. Opinions!Existing = {} /\ \A r \in Callers : requests[r] = Opinions!None
    BY DEF Opinions!Init, Opinions!Existing
<1> QED
    BY <1>1, <1>2 DEF OpinionsInv

LEMMA OpinionsSound == OpinionsInv => Opinions!TypeOK /\ Opinions!ShownIsVetted
<1> SUFFICES ASSUME OpinionsInv PROVE Opinions!TypeOK /\ Opinions!ShownIsVetted
    OBVIOUS
<1>1. \A i \in Opinions!Existing : i \in ReviewIds /\ reviews[i] \in ReviewRow
    BY DEF OpinionsInv, OpinionsTyped, Opinions!Existing
<1>2. Opinions!TypeOK
    BY <1>1 DEF Opinions!TypeOK, OpinionsInv, OpinionsTyped, ReviewRow
<1>3. ASSUME NEW c \in Reviewers PROVE Opinions!Cardinality(Opinions!ByCustomer(c)) <= 1
  <2>1. c # 0
    BY ContentsAssumption
  <2>2. \A i, j \in Opinions!ByCustomer(c) : i = j
    BY <2>1 DEF Opinions!ByCustomer, OpinionsInv
  <2>3. CASE Opinions!ByCustomer(c) = {}
    BY <2>3, FS_EmptySet, Counts
  <2>4. CASE Opinions!ByCustomer(c) # {}
    <3>1. PICK i \in Opinions!ByCustomer(c) : Opinions!ByCustomer(c) = {i}
        BY <2>2, <2>4
    <3>2. Cardinality(Opinions!ByCustomer(c)) = 1
        BY <3>1, FS_Singleton
    <3> QED
        BY <3>2, Counts
  <2> QED
    BY <2>3, <2>4
<1>4. Opinions!ShownIsVetted
    BY <1>3 DEF Opinions!ShownIsVetted, OpinionsInv, ReviewFits
<1> QED
    BY <1>2, <1>4

\* A step that writes no review.
LEMMA StepWithoutReview ==
    ASSUME OpinionsInv, UNCHANGED <<reviews, used>>,
           requests' = requests
           \/ \E r \in Callers, q \in ReviewRequest :
                 /\ requests' = [requests EXCEPT ![r] = q]
                 /\ q # Opinions!None /\ q.kind = "create" => q.user \in delivered,
           delivered \subseteq delivered', delivered' \subseteq Reviewers,
           page' \in [id : ReviewIds, text : 1..MaxText] \cup {Opinions!None}
    PROVE  OpinionsInv'
<1>1. requests' \in [Callers -> ReviewRequest]
      /\ \A r \in Callers : requests'[r] # Opinions!None /\ requests'[r].kind = "create" => requests'[r].user \in delivered'
  <2>1. requests \in [Callers -> ReviewRequest]
    BY DEF OpinionsInv, OpinionsTyped
  <2>2. CASE requests' = requests
    BY <2>1, <2>2 DEF OpinionsInv
  <2>3. CASE requests' # requests
    <3>1. PICK r \in Callers, q \in ReviewRequest :
                 /\ requests' = [requests EXCEPT ![r] = q]
                 /\ q # Opinions!None /\ q.kind = "create" => q.user \in delivered
        BY <2>3
    <3>2. requests'[r] = q /\ \A x \in Callers \ {r} : requests'[x] = requests[x]
        BY <2>1, <3>1
    <3>3. requests' \in [Callers -> ReviewRequest]
        BY <2>1, <3>1
    <3> QED
        BY <3>1, <3>2, <3>3 DEF OpinionsInv
  <2> QED
    BY <2>2, <2>3
<1>2. Opinions!Existing' = Opinions!Existing
    BY DEF Opinions!Existing
<1>3. \A i \in Opinions!Existing : ReviewFits(reviews[i])'
    BY DEF OpinionsInv, ReviewFits
<1>4. OpinionsTyped'
    BY <1>1 DEF OpinionsInv, OpinionsTyped
<1> QED
    BY <1>1, <1>2, <1>3, <1>4 DEF OpinionsInv

\* A step that writes one review, or deletes it.
LEMMA StepReview ==
    ASSUME OpinionsInv, NEW i \in ReviewIds, NEW new \in ReviewRow \cup {Opinions!None},
           reviews' = [reviews EXCEPT ![i] = new],
           requests' = requests \/ \E r \in Callers : requests' = [requests EXCEPT ![r] = Opinions!None],
           UNCHANGED <<delivered, page>>, used' \in {0} \cup ReviewIds,
           new # Opinions!None => ReviewFits(new),
           new # Opinions!None =>
              \/ reviews[i] # Opinions!None /\ reviews[i].user = new.user
              \/ new.user = 0
              \/ \A j \in Opinions!Existing : reviews[j].user # new.user
    PROVE  OpinionsInv'
<1>1. /\ reviews' \in [ReviewIds -> ReviewRow \cup {Opinions!None}] /\ reviews'[i] = new
      /\ \A j \in ReviewIds \ {i} : reviews'[j] = reviews[j]
    BY DEF OpinionsInv, OpinionsTyped
<1>2. requests' \in [Callers -> ReviewRequest] /\ \A r \in Callers : requests'[r] # Opinions!None => requests'[r] = requests[r]
    BY DEF OpinionsInv, OpinionsTyped, ReviewRequest
<1>3. OpinionsTyped'
    BY <1>1, <1>2 DEF OpinionsInv, OpinionsTyped
<1>4. \A j \in Opinions!Existing' : ReviewFits(reviews[j])'
    BY <1>1 DEF OpinionsInv, ReviewFits, Opinions!Existing
<1>5. ASSUME NEW j \in Opinions!Existing', NEW k \in Opinions!Existing',
             reviews'[j].user = reviews'[k].user, reviews'[j].user # 0
      PROVE  j = k
    BY <1>1, <1>5 DEF OpinionsInv, Opinions!Existing
<1> QED
    BY <1>2, <1>3, <1>4, <1>5 DEF OpinionsInv

LEMMA TextSet ==
    ASSUME NEW row \in ReviewRow, NEW x \in 1..MaxText
    PROVE  \E new \in ReviewRow :
               /\ new = [row EXCEPT !.text = x]
               /\ new.user = row.user /\ new.status = row.status /\ new.verified = row.verified /\ new.vouched = row.vouched
<1>1. [row EXCEPT !.text = x] \in ReviewRow
    BY DEF ReviewRow
<1>2. /\ [row EXCEPT !.text = x].user = row.user
      /\ [row EXCEPT !.text = x].status = row.status
      /\ [row EXCEPT !.text = x].verified = row.verified
      /\ [row EXCEPT !.text = x].vouched = row.vouched
    BY DEF ReviewRow
<1> QED
    BY <1>1, <1>2, Zenon

LEMMA DecisionSet ==
    ASSUME NEW row \in ReviewRow, NEW x \in Opinions!Statuses
    PROVE  \E new \in ReviewRow :
               /\ new = [row EXCEPT !.status = x]
               /\ new.user = row.user /\ new.status = x /\ new.verified = row.verified /\ new.vouched = row.vouched
<1>1. [row EXCEPT !.status = x] \in ReviewRow
    BY DEF ReviewRow
<1>2. /\ [row EXCEPT !.status = x].user = row.user
      /\ [row EXCEPT !.status = x].status = x
      /\ [row EXCEPT !.status = x].verified = row.verified
      /\ [row EXCEPT !.status = x].vouched = row.vouched
    BY DEF ReviewRow
<1> QED
    BY <1>1, <1>2, Zenon

LEMMA VouchedSet ==
    ASSUME NEW row \in ReviewRow, NEW x \in BOOLEAN
    PROVE  \E new \in ReviewRow :
               /\ new = [row EXCEPT !.vouched = x]
               /\ new.user = row.user /\ new.status = row.status /\ new.verified = row.verified /\ new.vouched = x
<1>1. [row EXCEPT !.vouched = x] \in ReviewRow
    BY DEF ReviewRow
<1>2. /\ [row EXCEPT !.vouched = x].user = row.user
      /\ [row EXCEPT !.vouched = x].status = row.status
      /\ [row EXCEPT !.vouched = x].verified = row.verified
      /\ [row EXCEPT !.vouched = x].vouched = x
    BY DEF ReviewRow
<1> QED
    BY <1>1, <1>2, Zenon

LEMMA StepDeliver == ASSUME OpinionsInv, NEW c \in Reviewers, Opinions!Deliver(c) PROVE OpinionsInv'
<1>1. UNCHANGED <<reviews, used>> /\ requests' = requests /\ page' = page
      /\ delivered \subseteq delivered' /\ delivered' \subseteq Reviewers
    BY DEF Opinions!Deliver, OpinionsInv, OpinionsTyped
<1>2. page' \in [id : ReviewIds, text : 1..MaxText] \cup {Opinions!None}
    BY <1>1 DEF OpinionsInv, OpinionsTyped
<1> QED
    BY <1>1, <1>2, StepWithoutReview

LEMMA StepBeginCreate ==
    ASSUME OpinionsInv, NEW r \in Callers, NEW c \in Reviewers, Opinions!BeginCreateReview(r, c) PROVE OpinionsInv'
<1>1. PICK q \in CreateRequest : q = [kind |-> "create", user |-> c]
    BY DEF CreateRequest
<1>2. q \in ReviewRequest /\ (q # Opinions!None /\ q.kind = "create" => q.user \in delivered)
    BY <1>1 DEF Opinions!BeginCreateReview, ReviewRequest
<1>3. requests' = [requests EXCEPT ![r] = q] /\ UNCHANGED <<reviews, used>> /\ delivered' = delivered /\ page' = page
    BY <1>1 DEF Opinions!BeginCreateReview, Opinions!Request
<1>4. delivered \subseteq delivered' /\ delivered' \subseteq Reviewers
      /\ page' \in [id : ReviewIds, text : 1..MaxText] \cup {Opinions!None}
    BY <1>3 DEF OpinionsInv, OpinionsTyped
<1> QED
    BY <1>2, <1>3, <1>4, StepWithoutReview

LEMMA StepBeginEdit ==
    ASSUME OpinionsInv, NEW r \in Callers, NEW c \in Reviewers, Opinions!BeginUpdateOwnReview(r, c) PROVE OpinionsInv'
<1>1. PICK i \in Opinions!ByCustomer(c) : requests' = [requests EXCEPT ![r] = [kind |-> "edit", id |-> i, seen |-> reviews[i].status]]
    BY DEF Opinions!BeginUpdateOwnReview, Opinions!Request
<1>2. i \in ReviewIds /\ reviews[i].status \in Opinions!Statuses
    BY DEF Opinions!ByCustomer, Opinions!Existing, OpinionsInv, OpinionsTyped, ReviewRow
<1>3. PICK q \in EditRequest : q = [kind |-> "edit", id |-> i, seen |-> reviews[i].status]
    BY <1>2 DEF EditRequest
<1>4. q \in ReviewRequest /\ q.kind # "create"
    BY DEF EditRequest, ReviewRequest
<1>5. requests' = [requests EXCEPT ![r] = q] /\ UNCHANGED <<reviews, used>> /\ delivered' = delivered /\ page' = page
    BY <1>1, <1>3 DEF Opinions!BeginUpdateOwnReview
<1>6. delivered \subseteq delivered' /\ delivered' \subseteq Reviewers
      /\ page' \in [id : ReviewIds, text : 1..MaxText] \cup {Opinions!None}
    BY <1>5 DEF OpinionsInv, OpinionsTyped
<1> QED
    BY <1>4, <1>5, <1>6, StepWithoutReview

LEMMA StepOpenReview == ASSUME OpinionsInv, Opinions!GetAdminReview PROVE OpinionsInv'
<1>1. PICK i \in Opinions!Existing : page' = [id |-> i, text |-> reviews[i].text]
    BY DEF Opinions!GetAdminReview
<1>2. i \in ReviewIds /\ reviews[i].text \in 1..MaxText
    BY DEF Opinions!Existing, OpinionsInv, OpinionsTyped, ReviewRow
<1>3. page' \in [id : ReviewIds, text : 1..MaxText] \cup {Opinions!None}
    BY <1>1, <1>2
<1>4. UNCHANGED <<reviews, used>> /\ requests' = requests /\ delivered \subseteq delivered' /\ delivered' \subseteq Reviewers
    BY DEF Opinions!GetAdminReview, OpinionsInv, OpinionsTyped
<1> QED
    BY <1>3, <1>4, StepWithoutReview

LEMMA StepBeginModerate == ASSUME OpinionsInv, NEW r \in Callers, Opinions!BeginUpdateReviewStatus(r) PROVE OpinionsInv'
<1>1. PICK p \in [id : ReviewIds, text : 1..MaxText] : p = page
    BY DEF Opinions!BeginUpdateReviewStatus, OpinionsInv, OpinionsTyped
<1>2. PICK s \in Opinions!Statuses, rewrite \in BOOLEAN :
            requests' = [requests EXCEPT ![r] =
                [kind |-> "moderate", id |-> p.id, status |-> s, rewrite |-> rewrite,
                 shown |-> p.text, seen |-> reviews[p.id].status]]
    BY <1>1 DEF Opinions!BeginUpdateReviewStatus, Opinions!Request
<1>3. PICK seen \in Opinions!Statuses : seen = reviews[p.id].status
    BY <1>1 DEF Opinions!BeginUpdateReviewStatus, Opinions!Existing, OpinionsInv, OpinionsTyped, ReviewRow
<1>4. PICK i \in ReviewIds, text \in 1..MaxText : i = p.id /\ text = p.text
    OBVIOUS
<1>5. [kind |-> "moderate", id |-> i, status |-> s, rewrite |-> rewrite, shown |-> text, seen |-> seen] \in ModerateRequest
    BY DEF ModerateRequest
<1>6. PICK q \in ModerateRequest :
            q = [kind |-> "moderate", id |-> i, status |-> s, rewrite |-> rewrite, shown |-> text, seen |-> seen]
    BY <1>5
<1>7. q \in ReviewRequest /\ q.kind # "create"
    BY DEF ModerateRequest, ReviewRequest
<1>8. requests' = [requests EXCEPT ![r] = q]
    BY <1>2, <1>3, <1>4, <1>6
<1>9. UNCHANGED <<reviews, used>> /\ delivered \subseteq delivered' /\ delivered' \subseteq Reviewers
      /\ page' \in [id : ReviewIds, text : 1..MaxText] \cup {Opinions!None}
    BY DEF Opinions!BeginUpdateReviewStatus, OpinionsInv, OpinionsTyped
<1> QED
    BY <1>7, <1>8, <1>9, StepWithoutReview

LEMMA StepCreateReview == ASSUME OpinionsInv, NEW r \in Callers, Opinions!CreateReview(r) PROVE OpinionsInv'
<1>1. requests' = [requests EXCEPT ![r] = Opinions!None] /\ UNCHANGED <<delivered, page>>
      /\ requests[r] # Opinions!None /\ requests[r].kind = "create"
    BY DEF Opinions!CreateReview, Opinions!Handling, Opinions!Request
<1>2. PICK q \in CreateRequest : q = requests[r]
    BY <1>1, RequestKinds DEF OpinionsInv, OpinionsTyped
<1>3. PICK c \in Reviewers : c = q.user /\ c \in delivered
    BY <1>1, <1>2 DEF CreateRequest, OpinionsInv
<1>4. CASE UNCHANGED <<reviews, used>>
  <2>1. Opinions!None \in ReviewRequest /\ delivered \subseteq delivered' /\ delivered' \subseteq Reviewers
        /\ page' \in [id : ReviewIds, text : 1..MaxText] \cup {Opinions!None}
    BY <1>1 DEF OpinionsInv, OpinionsTyped, ReviewRequest
  <2> QED
    BY <1>1, <1>4, <2>1, StepWithoutReview
<1>5. CASE ~UNCHANGED <<reviews, used>>
  <2>1. /\ \A j \in Opinions!Existing : reviews[j].user # c
        /\ used + 1 \in ReviewIds /\ used' = used + 1
        /\ reviews' = [reviews EXCEPT ![used + 1] =
                [user |-> c, status |-> "pending", text |-> 1, verified |-> TRUE, vouched |-> FALSE]]
    BY <1>2, <1>3, <1>5 DEF Opinions!CreateReview, Opinions!Taken, Opinions!ByCustomer, Opinions!Insert
  <2>2. 1 \in 1..MaxText
    BY ContentsAssumption
  <2>3. [user |-> c, status |-> "pending", text |-> 1, verified |-> TRUE, vouched |-> FALSE] \in ReviewRow
    BY <2>2 DEF ReviewRow, Opinions!Statuses
  <2>4. PICK new \in ReviewRow :
            new = [user |-> c, status |-> "pending", text |-> 1, verified |-> TRUE, vouched |-> FALSE]
    BY <2>3
  <2>5. new.user = c /\ ReviewFits(new)
    BY <1>3, <2>4 DEF ReviewFits
  <2>6. PICK i \in ReviewIds : reviews' = [reviews EXCEPT ![i] = new]
    BY <2>1, <2>4
  <2>7. used' \in {0} \cup ReviewIds
    BY <2>1
  <2> QED
    BY <1>1, <2>1, <2>5, <2>6, <2>7, StepReview
<1> QED
    BY <1>4, <1>5

LEMMA StepCreateAdminReview == ASSUME OpinionsInv, Opinions!CreateAdminReview PROVE OpinionsInv'
<1>1. PICK s \in Opinions!Statuses :
          /\ used + 1 \in ReviewIds /\ used' = used + 1
          /\ reviews' = [reviews EXCEPT ![used + 1] =
                [user |-> 0, status |-> s, text |-> 1, verified |-> FALSE, vouched |-> TRUE]]
    BY DEF Opinions!CreateAdminReview, Opinions!Insert, Opinions!Nobody
<1>2. 1 \in 1..MaxText
    BY ContentsAssumption
<1>3. [user |-> 0, status |-> s, text |-> 1, verified |-> FALSE, vouched |-> TRUE] \in ReviewRow
    BY <1>2 DEF ReviewRow
<1>4. PICK new \in ReviewRow : new = [user |-> 0, status |-> s, text |-> 1, verified |-> FALSE, vouched |-> TRUE]
    BY <1>3
<1>5. new.user = 0 /\ ReviewFits(new)
    BY <1>4 DEF ReviewFits
<1>6. PICK i \in ReviewIds : reviews' = [reviews EXCEPT ![i] = new]
    BY <1>1, <1>4
<1>7. used' \in {0} \cup ReviewIds /\ requests' = requests /\ UNCHANGED <<delivered, page>>
    BY <1>1 DEF Opinions!CreateAdminReview
<1> QED
    BY <1>5, <1>6, <1>7, StepReview

LEMMA StepDeleteReview == ASSUME OpinionsInv, Opinions!DeleteAdminReview PROVE OpinionsInv'
<1>1. PICK i \in ReviewIds : reviews' = [reviews EXCEPT ![i] = Opinions!None]
    BY DEF Opinions!DeleteAdminReview, Opinions!Existing
<1>2. used' \in {0} \cup ReviewIds /\ requests' = requests /\ UNCHANGED <<delivered, page>>
    BY DEF Opinions!DeleteAdminReview, OpinionsInv, OpinionsTyped
<1>3. PICK new \in ReviewRow \cup {Opinions!None} : new = Opinions!None
    OBVIOUS
<1> QED
    BY <1>1, <1>2, <1>3, StepReview

LEMMA StepEditReview == ASSUME OpinionsInv, NEW r \in Callers, Opinions!UpdateOwnReview(r) PROVE OpinionsInv'
<1>1. requests' = [requests EXCEPT ![r] = Opinions!None] /\ UNCHANGED <<delivered, page>> /\ used' = used
      /\ requests[r] # Opinions!None /\ requests[r].kind = "edit"
    BY DEF Opinions!UpdateOwnReview, Opinions!Handling, Opinions!Request
<1>2. PICK q \in EditRequest : q = requests[r]
    BY <1>1, RequestKinds DEF OpinionsInv, OpinionsTyped
<1>3. PICK i \in ReviewIds, seen \in Opinions!Statuses : i = q.id /\ seen = q.seen
    BY DEF EditRequest
<1>4. CASE UNCHANGED reviews
  <2>1. Opinions!None \in ReviewRequest /\ delivered \subseteq delivered' /\ delivered' \subseteq Reviewers
        /\ page' \in [id : ReviewIds, text : 1..MaxText] \cup {Opinions!None}
    BY <1>1 DEF OpinionsInv, OpinionsTyped, ReviewRequest
  <2> QED
    BY <1>1, <1>4, <2>1, StepWithoutReview
<1>5. CASE ~UNCHANGED reviews
  <2>1. i \in Opinions!Existing /\ reviews[i].text < MaxText
        /\ reviews' = [reviews EXCEPT ![i] = Opinions!Edited(reviews[i], seen)]
    BY <1>2, <1>3, <1>5 DEF Opinions!UpdateOwnReview
  <2>2. PICK row \in ReviewRow : row = reviews[i] /\ ReviewFits(row)
    BY <2>1 DEF OpinionsInv, OpinionsTyped, Opinions!Existing
  <2>3. PICK text \in 1..MaxText : text = row.text + 1
    <3>1. row.text \in 1..MaxText /\ MaxText \in Nat
        BY ContentsAssumption DEF ReviewRow
    <3> QED
        BY <2>1, <2>2, <3>1
  <2>4. PICK status \in Opinions!Statuses : status = Opinions!Changed(row.status, seen, "pending")
    BY DEF Opinions!Changed, ReviewRow, Opinions!Statuses
  <2>5. PICK flag \in BOOLEAN : flag = (row.status # seen)
    OBVIOUS
  <2>6. PICK one \in ReviewRow : one = [row EXCEPT !.text = text]
            /\ one.user = row.user /\ one.status = row.status /\ one.verified = row.verified /\ one.vouched = row.vouched
    BY TextSet, Zenon
  <2>7. PICK two \in ReviewRow : two = [one EXCEPT !.status = status]
            /\ two.user = one.user /\ two.status = status /\ two.verified = one.verified /\ two.vouched = one.vouched
    BY DecisionSet, Zenon
  <2>8. PICK new \in ReviewRow : new = [two EXCEPT !.vouched = flag]
            /\ new.user = two.user /\ new.status = two.status /\ new.verified = two.verified /\ new.vouched = flag
    BY VouchedSet, Zenon
  <2>9. Opinions!Edited(row, seen) = [[[row EXCEPT !.text = text] EXCEPT !.status = status] EXCEPT !.vouched = flag]
    BY <2>3, <2>4, <2>5 DEF Opinions!Edited
  <2>10. reviews' = [reviews EXCEPT ![i] = new]
    BY <2>1, <2>2, <2>6, <2>7, <2>8, <2>9, Zenon
  <2>11. ReviewFits(new)
    <3>1. status = "approved" => flag
        BY <2>4, <2>5 DEF Opinions!Changed
    <3> QED
        BY <2>2, <2>6, <2>7, <2>8, <3>1 DEF ReviewFits
  <2>12. reviews[i] # Opinions!None /\ reviews[i].user = new.user /\ used' \in {0} \cup ReviewIds
    BY <1>1, <2>1, <2>2, <2>6, <2>7, <2>8 DEF Opinions!Existing, OpinionsInv, OpinionsTyped
  <2> QED
    BY <1>1, <2>10, <2>11, <2>12, StepReview
<1> QED
    BY <1>4, <1>5

LEMMA StepModerateReview == ASSUME OpinionsInv, NEW r \in Callers, Opinions!UpdateReviewStatus(r) PROVE OpinionsInv'
<1>1. requests' = [requests EXCEPT ![r] = Opinions!None] /\ UNCHANGED <<delivered, page>> /\ used' = used
      /\ requests[r] # Opinions!None /\ requests[r].kind = "moderate"
    BY DEF Opinions!UpdateReviewStatus, Opinions!Handling, Opinions!Request
<1>2. PICK q \in ModerateRequest : q = requests[r]
    BY <1>1, RequestKinds DEF OpinionsInv, OpinionsTyped
<1>3. PICK i \in ReviewIds, seen \in Opinions!Statuses : i = q.id /\ seen = q.seen
    BY DEF ModerateRequest
<1>4. CASE UNCHANGED reviews
  <2>1. Opinions!None \in ReviewRequest /\ delivered \subseteq delivered' /\ delivered' \subseteq Reviewers
        /\ page' \in [id : ReviewIds, text : 1..MaxText] \cup {Opinions!None}
    BY <1>1 DEF OpinionsInv, OpinionsTyped, ReviewRequest
  <2> QED
    BY <1>1, <1>4, <2>1, StepWithoutReview
<1>5. CASE ~UNCHANGED reviews
  <2>1. i \in Opinions!Existing /\ (q.rewrite => reviews[i].text < MaxText)
        /\ reviews' = [reviews EXCEPT ![i] = Opinions!Moderated(reviews[i], q)]
    BY <1>2, <1>3, <1>5 DEF Opinions!UpdateReviewStatus
  <2>2. PICK row \in ReviewRow : row = reviews[i] /\ ReviewFits(row)
    BY <2>1 DEF OpinionsInv, OpinionsTyped, Opinions!Existing
  <2>3. PICK text \in 1..MaxText : text = IF q.rewrite THEN row.text + 1 ELSE row.text
    <3>1. row.text \in 1..MaxText /\ MaxText \in Nat
        BY ContentsAssumption DEF ReviewRow
    <3> QED
        BY <2>1, <2>2, <3>1
  <2>4. PICK status \in Opinions!Statuses : status = Opinions!Changed(row.status, seen, q.status)
    BY DEF Opinions!Changed, ReviewRow, ModerateRequest
  <2>5. PICK flag \in BOOLEAN : flag = (row.vouched \/ q.rewrite \/ q.status = "approved" \/ row.text # q.shown)
    OBVIOUS
  <2>6. PICK one \in ReviewRow : one = [row EXCEPT !.status = status]
            /\ one.user = row.user /\ one.status = status /\ one.verified = row.verified /\ one.vouched = row.vouched
    BY DecisionSet, Zenon
  <2>7. PICK two \in ReviewRow : two = [one EXCEPT !.text = text]
            /\ two.user = one.user /\ two.status = one.status /\ two.verified = one.verified /\ two.vouched = one.vouched
    BY TextSet, Zenon
  <2>8. PICK new \in ReviewRow : new = [two EXCEPT !.vouched = flag]
            /\ new.user = two.user /\ new.status = two.status /\ new.verified = two.verified /\ new.vouched = flag
    BY VouchedSet, Zenon
  <2>9. Opinions!Moderated(row, q) = [[[row EXCEPT !.status = status] EXCEPT !.text = text] EXCEPT !.vouched = flag]
    BY <1>3, <2>3, <2>4, <2>5 DEF Opinions!Moderated
  <2>10. reviews' = [reviews EXCEPT ![i] = new]
    BY <2>1, <2>2, <2>6, <2>7, <2>8, <2>9, Zenon
  <2>11. ReviewFits(new)
    <3>1. status = "approved" => row.status = "approved" \/ q.status = "approved"
        BY <2>4 DEF Opinions!Changed
    <3>2. status = "approved" => flag
        BY <2>2, <2>5, <3>1 DEF ReviewFits
    <3> QED
        BY <2>2, <2>6, <2>7, <2>8, <3>2 DEF ReviewFits
  <2>12. reviews[i] # Opinions!None /\ reviews[i].user = new.user /\ used' \in {0} \cup ReviewIds
    BY <1>1, <2>1, <2>2, <2>6, <2>7, <2>8 DEF Opinions!Existing, OpinionsInv, OpinionsTyped
  <2> QED
    BY <1>1, <2>10, <2>11, <2>12, StepReview
<1> QED
    BY <1>4, <1>5

LEMMA StepOpinions == ASSUME OpinionsInv, Opinions!Next PROVE OpinionsInv'
<1> QED
    BY StepDeliver, StepBeginCreate, StepBeginEdit, StepCreateReview, StepEditReview, StepBeginModerate,
       StepModerateReview, StepCreateAdminReview, StepOpenReview, StepDeleteReview DEF Opinions!Next

-----------------------------------------------------------------------------
(* Address books: a transaction still reads what it read, because it holds   *)
(* its customer's lock.                                                      *)

AddressRow == [user : Customers, isDefault : BOOLEAN, deleted : BOOLEAN]
Transaction == [kind : Book!Changes, customer : Customers, wanted : {"yes", "no", "absent"},
                address : AddressIds \cup {0}, seen : SUBSET AddressIds, wasDefault : BOOLEAN]
TransactionFits(q) ==
    /\ q.seen = Book!Of(q.customer)
    /\ q.kind # "create" => q.address \in q.seen /\ (q.wasDefault <=> addresses[q.address].isDefault)

\* The live addresses of a customer among some rows, and that one of them is the default.
OfIn(rows, c) == {a \in AddressIds : rows[a] # Book!None /\ rows[a].user = c /\ ~rows[a].deleted}
OneDefault(rows, c) ==
    OfIn(rows, c) # {} =>
        \E a \in OfIn(rows, c) : rows[a].isDefault /\ \A b \in OfIn(rows, c) : rows[b].isDefault => b = a
NoneDeleted(rows) == \A a \in AddressIds : rows[a] # Book!None /\ rows[a].deleted => ~rows[a].isDefault

BookTyped ==
    /\ addresses \in [AddressIds -> AddressRow \cup {Book!None}]
    /\ requests \in [Callers -> Transaction \cup {Book!Idle}]
BookInv ==
    /\ BookTyped
    /\ \A r \in Callers : requests[r] # Book!Idle => TransactionFits(requests[r])
    /\ \A r, x \in Callers :
           requests[r] # Book!Idle /\ requests[x] # Book!Idle /\ requests[r].customer = requests[x].customer => r = x
    /\ \A c \in Customers : OneDefault(addresses, c)
    /\ NoneDeleted(addresses)

LEMMA OfIsOfIn == ASSUME NEW c PROVE Book!Of(c) = OfIn(addresses, c)
<1> QED
    BY DEF Book!Of, Book!Live, Book!Owner, OfIn

LEMMA BookShapes ==
    /\ \A row \in AddressRow : row # Book!None
    /\ \A q \in Transaction : q # Book!Idle
<1> QED
    BY DEF AddressRow, Transaction, Book!None, Book!Idle

LEMMA InitBook == Book!Init => BookInv
<1> SUFFICES ASSUME Book!Init PROVE BookInv
    OBVIOUS
<1>1. addresses = [a \in AddressIds |-> Book!None] /\ requests = [r \in Callers |-> Book!Idle]
    BY DEF Book!Init
<1>2. \A a \in AddressIds : addresses[a] = Book!None
    BY <1>1
<1>3. \A c \in Customers : OfIn(addresses, c) = {}
    BY <1>2 DEF OfIn
<1> QED
    BY <1>1, <1>2, <1>3 DEF BookInv, BookTyped, OneDefault, NoneDeleted

LEMMA BookSound == BookInv => Book!TypeOK /\ Book!DefaultKept
<1> SUFFICES ASSUME BookInv PROVE Book!TypeOK /\ Book!DefaultKept
    OBVIOUS
<1>1. ASSUME NEW r \in Book!Running PROVE requests[r].kind \in Book!Changes /\ requests[r].seen \subseteq AddressIds
  <2>1. PICK q \in Transaction : q = requests[r]
    BY DEF Book!Running, BookInv, BookTyped
  <2>2. q.kind \in Book!Changes /\ q.seen \subseteq AddressIds
    BY DEF Transaction
  <2> QED
    BY <2>1, <2>2
<1>2. Book!TypeOK
  <2>1. \A a \in AddressIds : addresses[a] \in AddressRow \cup {Book!None}
    BY DEF BookInv, BookTyped
  <2>2. \A a \in AddressIds : addresses[a] = Book!None
            \/ addresses[a] \in [user : Customers, isDefault : BOOLEAN, deleted : BOOLEAN]
    BY <2>1 DEF AddressRow
  <2> QED
    BY <1>1, <2>2 DEF Book!TypeOK
<1>3. ASSUME NEW c \in Customers, Book!Of(c) # {}
      PROVE  Book!Cardinality({a \in Book!Of(c) : Book!Default(a)}) = 1
  <2>1. OneDefault(addresses, c)
    BY DEF BookInv
  <2>2. PICK a \in Book!Of(c) : addresses[a].isDefault /\ \A b \in Book!Of(c) : addresses[b].isDefault => b = a
    BY <1>3, <2>1, OfIsOfIn DEF OneDefault
  <2>3. {x \in Book!Of(c) : Book!Default(x)} = {a}
    BY <2>2 DEF Book!Default
  <2>4. Cardinality({a}) = 1
    BY FS_Singleton
  <2> QED
    BY <2>3, <2>4, Counts
<1> QED
    BY <1>2, <1>3 DEF Book!DefaultKept, BookInv, NoneDeleted

\* The end of a transaction that wrote rows of its customer, or nothing.
LEMMA StepCommit ==
    ASSUME BookInv, NEW r \in Callers, requests[r] # Book!Idle, NEW c, c = requests[r].customer,
           requests' = [requests EXCEPT ![r] = Book!Idle],
           NEW rows \in [AddressIds -> AddressRow \cup {Book!None}],
           addresses' = rows \/ addresses' = addresses,
           \A a \in AddressIds : addresses[a] # Book!None /\ addresses[a].user # c => rows[a] = addresses[a],
           \A a \in AddressIds : rows[a] # Book!None /\ rows[a].user # c => rows[a] = addresses[a],
           OneDefault(rows, c), NoneDeleted(rows)
    PROVE  BookInv'
<1>1. addresses' \in [AddressIds -> AddressRow \cup {Book!None}]
    BY DEF BookInv, BookTyped
<1>2. requests' \in [Callers -> Transaction \cup {Book!Idle}] /\ requests'[r] = Book!Idle
      /\ \A x \in Callers \ {r} : requests'[x] = requests[x]
    BY DEF BookInv, BookTyped
<1>3. ASSUME NEW d, d # c
      PROVE  /\ OfIn(addresses', d) = OfIn(addresses, d)
             /\ \A a \in OfIn(addresses, d) : addresses'[a] = addresses[a]
    BY <1>3 DEF OfIn
<1>4. ASSUME NEW x \in Callers, requests'[x] # Book!Idle PROVE TransactionFits(requests[x])'
  <2>1. x # r /\ requests'[x] = requests[x]
    BY <1>2, <1>4
  <2>2. PICK q \in Transaction : q = requests[x] /\ q = requests'[x]
    BY <1>4, <2>1 DEF BookInv, BookTyped
  <2>3. q.customer # c /\ TransactionFits(q)
    BY <1>4, <2>1, <2>2 DEF BookInv
  <2>4. OfIn(addresses', q.customer) = OfIn(addresses, q.customer)
        /\ \A a \in OfIn(addresses, q.customer) : addresses'[a] = addresses[a]
    BY <1>3, <2>3
  <2>5. Book!Of(q.customer) = OfIn(addresses, q.customer) /\ Book!Of(q.customer)' = OfIn(addresses', q.customer)
    BY DEF Book!Of, Book!Live, Book!Owner, OfIn
  <2>6. TransactionFits(q)'
    BY <2>3, <2>4, <2>5 DEF TransactionFits
  <2> QED
    BY <2>2, <2>6 DEF TransactionFits
<1>5. ASSUME NEW d \in Customers PROVE OneDefault(addresses, d)'
  <2>1. CASE d = c
    BY <2>1 DEF BookInv
  <2>2. CASE d # c
    BY <1>3, <2>2 DEF BookInv, OneDefault
  <2> QED
    BY <2>1, <2>2
<1>6. NoneDeleted(addresses)'
    BY DEF BookInv
<1>7. \A x, y \in Callers :
           requests'[x] # Book!Idle /\ requests'[y] # Book!Idle /\ requests'[x].customer = requests'[y].customer => x = y
    BY <1>2 DEF BookInv
<1> QED
    BY <1>1, <1>2, <1>4, <1>5, <1>6, <1>7 DEF BookInv, BookTyped

LEMMA StepBegin == ASSUME BookInv, NEW r \in Callers, NEW c \in Customers, Book!Begin(r, c) PROVE BookInv'
<1>1. requests[r] = Book!Idle /\ addresses' = addresses /\ ~Book!Locked(c)
    BY DEF Book!Begin
<1>2. PICK change \in Book!Changes, wanted \in {"yes", "no", "absent"} :
         /\ change \notin {"create", "update"} => wanted = "absent"
         /\ \E a \in IF change = "create" THEN {0} ELSE Book!Of(c) :
            requests' = [requests EXCEPT ![r] =
                [kind |-> change, customer |-> c, wanted |-> wanted, address |-> a,
                 seen |-> Book!Of(c), wasDefault |-> change # "create" /\ Book!Default(a)]]
    BY DEF Book!Begin
<1>3. PICK a \in IF change = "create" THEN {0} ELSE Book!Of(c) :
            requests' = [requests EXCEPT ![r] =
                [kind |-> change, customer |-> c, wanted |-> wanted, address |-> a,
                 seen |-> Book!Of(c), wasDefault |-> change # "create" /\ Book!Default(a)]]
    BY <1>2
<1>4. a \in AddressIds \cup {0} /\ (change # "create" => a \in Book!Of(c))
    BY DEF Book!Of, Book!Live
<1>5. PICK seen \in SUBSET AddressIds : seen = Book!Of(c)
    BY DEF Book!Of, Book!Live
<1>6. PICK flag \in BOOLEAN : flag = (change # "create" /\ Book!Default(a))
    OBVIOUS
<1>7. PICK q \in Transaction : q = [kind |-> change, customer |-> c, wanted |-> wanted, address |-> a,
                                    seen |-> seen, wasDefault |-> flag]
    BY <1>4 DEF Transaction
<1>8. requests' = [requests EXCEPT ![r] = q]
    BY <1>3, <1>5, <1>6, <1>7
<1>9. q.kind = change /\ q.customer = c /\ q.address = a /\ q.seen = seen /\ q.wasDefault = flag
    BY <1>7
<1>10. TransactionFits(q)
    BY <1>4, <1>5, <1>6, <1>9 DEF TransactionFits, Book!Default
<1>11. requests' \in [Callers -> Transaction \cup {Book!Idle}] /\ requests'[r] = q
       /\ \A x \in Callers \ {r} : requests'[x] = requests[x]
    BY <1>8 DEF BookInv, BookTyped
<1>12. Book!Of(q.customer)' = Book!Of(q.customer)
    BY <1>1 DEF Book!Of, Book!Live, Book!Owner
<1>13. ASSUME NEW x \in Callers, requests'[x] # Book!Idle PROVE TransactionFits(requests[x])'
  <2>1. CASE x = r
    BY <1>1, <1>10, <1>11, <1>12, <2>1 DEF TransactionFits
  <2>2. CASE x # r
    <3>1. PICK p \in Transaction : p = requests[x] /\ p = requests'[x]
        BY <1>11, <1>13, <2>2 DEF BookInv, BookTyped
    <3>2. TransactionFits(p)
        BY <1>11, <1>13, <2>2, <3>1 DEF BookInv
    <3>3. Book!Of(p.customer)' = Book!Of(p.customer)
        BY <1>1 DEF Book!Of, Book!Live, Book!Owner
    <3> QED
        BY <1>1, <3>1, <3>2, <3>3 DEF TransactionFits
  <2> QED
    BY <2>1, <2>2
<1>14. \A x \in Callers : requests[x] # Book!Idle => requests[x].customer # c
    BY <1>1 DEF Book!Locked, Book!Running
<1>15. \A x, y \in Callers :
           requests'[x] # Book!Idle /\ requests'[y] # Book!Idle /\ requests'[x].customer = requests'[y].customer => x = y
    BY <1>9, <1>11, <1>14 DEF BookInv
<1> QED
    BY <1>1, <1>11, <1>13, <1>15 DEF BookInv, BookTyped, OneDefault, OfIn, NoneDeleted

\* What a transaction about to commit knows.
LEMMA InTransaction ==
    ASSUME BookInv, NEW r \in Callers, requests[r] # Book!Idle
    PROVE  \E q \in Transaction :
              /\ q = requests[r] /\ q.customer \in Customers /\ TransactionFits(q)
              /\ OneDefault(addresses, q.customer) /\ q.seen = OfIn(addresses, q.customer)
<1>1. PICK q \in Transaction : q = requests[r]
    BY DEF BookInv, BookTyped
<1>2. q.customer \in Customers
    BY DEF Transaction
<1>3. TransactionFits(q)
    BY <1>1 DEF BookInv
<1>4. q.seen = OfIn(addresses, q.customer)
    BY <1>3, OfIsOfIn DEF TransactionFits
<1> QED
    BY <1>1, <1>2, <1>3, <1>4 DEF BookInv

\* One that leaves the rows alone.
LEMMA StepNoWrite ==
    ASSUME BookInv, NEW r \in Callers, requests[r] # Book!Idle,
           requests' = [requests EXCEPT ![r] = Book!Idle], addresses' = addresses
    PROVE  BookInv'
<1>1. PICK rows \in [AddressIds -> AddressRow \cup {Book!None}] : rows = addresses
    BY DEF BookInv, BookTyped
<1>2. PICK c \in Customers : c = requests[r].customer
    BY InTransaction
<1>3. OneDefault(rows, c) /\ NoneDeleted(rows)
    BY <1>1 DEF BookInv
<1> QED
    BY <1>1, <1>2, <1>3, StepCommit

LEMMA DefaultSet ==
    ASSUME NEW row \in AddressRow, NEW x \in BOOLEAN
    PROVE  \E new \in AddressRow :
               /\ new = [row EXCEPT !.isDefault = x]
               /\ new.user = row.user /\ new.deleted = row.deleted /\ new.isDefault = x
<1>1. [row EXCEPT !.isDefault = x] \in AddressRow
    BY DEF AddressRow
<1>2. [row EXCEPT !.isDefault = x].user = row.user /\ [row EXCEPT !.isDefault = x].deleted = row.deleted
      /\ [row EXCEPT !.isDefault = x].isDefault = x
    BY DEF AddressRow
<1> QED
    BY <1>1, <1>2, Zenon

\* clearExistingDefault.
LEMMA ClearedRows ==
    ASSUME BookInv, NEW c \in Customers
    PROVE  \E rows \in [AddressIds -> AddressRow \cup {Book!None}] :
              /\ rows = Book!Cleared(c)
              /\ \A a \in AddressIds \ OfIn(addresses, c) : rows[a] = addresses[a]
              /\ \A a \in OfIn(addresses, c) : /\ rows[a] \in AddressRow /\ rows[a].user = c
                                               /\ ~rows[a].deleted /\ ~rows[a].isDefault
<1>1. ASSUME NEW a \in OfIn(addresses, c)
      PROVE  /\ Book!Cleared(c)[a] \in AddressRow /\ Book!Cleared(c)[a].user = c
             /\ ~Book!Cleared(c)[a].deleted /\ ~Book!Cleared(c)[a].isDefault
  <2>1. PICK row \in AddressRow : row = addresses[a] /\ row.user = c /\ ~row.deleted
    BY DEF OfIn, BookInv, BookTyped
  <2>2. Book!Cleared(c)[a] = [row EXCEPT !.isDefault = FALSE]
    BY <2>1, OfIsOfIn DEF Book!Cleared, OfIn
  <2>3. PICK new \in AddressRow : /\ new = [row EXCEPT !.isDefault = FALSE]
                                  /\ new.user = row.user /\ new.deleted = row.deleted /\ new.isDefault = FALSE
    BY DefaultSet, Zenon
  <2> QED
    BY <2>1, <2>2, <2>3
<1>2. \A a \in AddressIds \ OfIn(addresses, c) : Book!Cleared(c)[a] = addresses[a]
    BY OfIsOfIn DEF Book!Cleared
<1>3. \A a \in AddressIds : Book!Cleared(c)[a] \in AddressRow \cup {Book!None}
    BY <1>1, <1>2 DEF BookInv, BookTyped
<1>4. Book!Cleared(c) = [a \in AddressIds |-> Book!Cleared(c)[a]]
    BY DEF Book!Cleared
<1>5. Book!Cleared(c) \in [AddressIds -> AddressRow \cup {Book!None}]
    BY <1>3, <1>4
<1> QED
    BY <1>1, <1>2, <1>5

\* One address becomes the default instead of the one that was.
LEMMA StepBecame ==
    ASSUME BookInv, NEW r \in Callers, requests[r] # Book!Idle,
           requests' = [requests EXCEPT ![r] = Book!Idle],
           requests[r].address \in requests[r].seen,
           Book!Write(Book!Became(requests[r].address, requests[r]))
    PROVE  BookInv'
<1>1. PICK q \in Transaction :
            q = requests[r] /\ q.customer \in Customers /\ q.seen = OfIn(addresses, q.customer)
    BY InTransaction
<1>2. PICK c \in Customers, id \in AddressIds : c = q.customer /\ id = q.address /\ id \in OfIn(addresses, c)
    BY <1>1 DEF OfIn
<1>3. PICK clear \in [AddressIds -> AddressRow \cup {Book!None}] :
              /\ clear = Book!Cleared(c)
              /\ \A a \in AddressIds \ OfIn(addresses, c) : clear[a] = addresses[a]
              /\ \A a \in OfIn(addresses, c) : /\ clear[a] \in AddressRow /\ clear[a].user = c
                                               /\ ~clear[a].deleted /\ ~clear[a].isDefault
    BY ClearedRows
<1>4. PICK new \in AddressRow : new = [clear[id] EXCEPT !.isDefault = TRUE]
                                /\ new.user = c /\ ~new.deleted /\ new.isDefault
  <2>1. PICK old \in AddressRow : old = clear[id] /\ old.user = c /\ ~old.deleted
    BY <1>2, <1>3
  <2>2. PICK new \in AddressRow : /\ new = [old EXCEPT !.isDefault = TRUE]
                                  /\ new.user = old.user /\ new.deleted = old.deleted /\ new.isDefault = TRUE
    BY DefaultSet, Zenon
  <2> QED
    BY <2>1, <2>2
<1>5. Book!Became(id, q) = [clear EXCEPT ![id] = new]
    BY <1>2, <1>3, <1>4 DEF Book!Became
<1>6. id \in AddressIds
    BY DEF OfIn
<1>7. PICK rows \in [AddressIds -> AddressRow \cup {Book!None}] : rows = [clear EXCEPT ![id] = new]
    BY <1>6
<1>8. rows[id] = new /\ \A a \in AddressIds \ {id} : rows[a] = clear[a]
    BY <1>6, <1>7
<1>9. addresses' = rows \/ addresses' = addresses
    BY <1>1, <1>2, <1>5, <1>7 DEF Book!Write
<1>10. new # Book!None
    BY BookShapes
<1>11. \A a \in OfIn(addresses, c) : addresses[a].user = c
    BY DEF OfIn
<1>12. /\ \A a \in AddressIds : addresses[a] # Book!None /\ addresses[a].user # c => rows[a] = addresses[a]
       /\ \A a \in AddressIds : rows[a] # Book!None /\ rows[a].user # c => rows[a] = addresses[a]
  <2>1. ASSUME NEW a \in AddressIds, a \notin OfIn(addresses, c) PROVE rows[a] = addresses[a]
    BY <1>2, <1>3, <1>8, <2>1
  <2>2. ASSUME NEW a \in OfIn(addresses, c) PROVE a \in AddressIds /\ rows[a].user = c /\ addresses[a].user = c
    BY <1>3, <1>4, <1>8, <1>11 DEF OfIn
  <2> QED
    BY <2>1, <2>2
<1>13. NoneDeleted(rows)
  <2>1. ASSUME NEW a \in AddressIds, rows[a] # Book!None, rows[a].deleted PROVE ~rows[a].isDefault
    <3>1. a # id
        BY <1>4, <1>8, <2>1
    <3>2. rows[a] = clear[a]
        BY <1>8, <3>1
    <3>3. a \notin OfIn(addresses, c)
        BY <1>3, <2>1, <3>2
    <3>4. rows[a] = addresses[a]
        BY <1>3, <3>2, <3>3
    <3> QED
        BY <2>1, <3>4 DEF BookInv, NoneDeleted
  <2> QED
    BY <2>1 DEF NoneDeleted
<1>14. OneDefault(rows, c)
  <2>1. id \in OfIn(rows, c) /\ rows[id].isDefault
    BY <1>4, <1>6, <1>8, <1>10 DEF OfIn
  <2>2. ASSUME NEW b \in OfIn(rows, c), b # id PROVE ~rows[b].isDefault
    <3>1. b \in AddressIds /\ rows[b] = clear[b]
        BY <1>8, <2>2 DEF OfIn
    <3>2. CASE b \in OfIn(addresses, c)
        BY <1>3, <3>1, <3>2
    <3>3. CASE b \notin OfIn(addresses, c)
        BY <1>3, <2>2, <3>1, <3>3 DEF OfIn
    <3> QED
        BY <3>2, <3>3
  <2> QED
    BY <2>1, <2>2 DEF OneDefault
<1> QED
    BY <1>1, <1>2, <1>9, <1>12, <1>13, <1>14, StepCommit

LEMMA StepUpdateAddress == ASSUME BookInv, NEW r \in Callers, Book!UpdateAddress(r) PROVE BookInv'
<1>1. requests[r] # Book!Idle /\ requests[r].kind = "update" /\ requests' = [requests EXCEPT ![r] = Book!Idle]
    BY DEF Book!UpdateAddress, Book!End
<1>2. requests[r].address \in requests[r].seen
    BY <1>1 DEF BookInv, TransactionFits
<1>3. addresses' = addresses \/ Book!Write(Book!Became(requests[r].address, requests[r]))
    BY DEF Book!UpdateAddress
<1> QED
    BY <1>1, <1>2, <1>3, StepNoWrite, StepBecame

LEMMA StepSetDefaultAddress == ASSUME BookInv, NEW r \in Callers, Book!SetDefaultAddress(r) PROVE BookInv'
<1>1. requests[r] # Book!Idle /\ requests[r].kind = "setDefault" /\ requests' = [requests EXCEPT ![r] = Book!Idle]
    BY DEF Book!SetDefaultAddress, Book!End
<1>2. requests[r].address \in requests[r].seen
    BY <1>1 DEF BookInv, TransactionFits
<1>3. addresses' = addresses \/ Book!Write(Book!Became(requests[r].address, requests[r]))
    BY DEF Book!SetDefaultAddress
<1> QED
    BY <1>1, <1>2, <1>3, StepNoWrite, StepBecame

LEMMA StepRollBack == ASSUME BookInv, NEW r \in Callers, Book!RollBack(r) PROVE BookInv'
<1> QED
    BY StepNoWrite DEF Book!RollBack, Book!End

LEMMA StepCreateAddress == ASSUME BookInv, NEW r \in Callers, Book!CreateAddress(r) PROVE BookInv'
<1>1. requests[r] # Book!Idle /\ requests' = [requests EXCEPT ![r] = Book!Idle]
    BY DEF Book!CreateAddress, Book!End
<1>2. PICK q \in Transaction : /\ q = requests[r] /\ q.customer \in Customers
                               /\ OneDefault(addresses, q.customer) /\ q.seen = OfIn(addresses, q.customer)
    BY <1>1, InTransaction
<1>3. PICK c \in Customers : c = q.customer
    BY <1>2
<1>4. PICK default \in BOOLEAN : default = (q.wanted = "yes" \/ ~(q.seen # {}))
    OBVIOUS
<1>5. PICK id \in AddressIds :
        /\ addresses[id] = Book!None
        /\ Book!Write([(IF default /\ q.seen # {} THEN Book!Cleared(c) ELSE addresses) EXCEPT ![id] =
                         [user |-> c, isDefault |-> default, deleted |-> FALSE]])
    BY <1>2, <1>3, <1>4 DEF Book!CreateAddress, Book!Unused
<1>6. PICK base \in [AddressIds -> AddressRow \cup {Book!None}] :
        /\ base = IF default /\ q.seen # {} THEN Book!Cleared(c) ELSE addresses
        /\ \A a \in AddressIds \ OfIn(addresses, c) : base[a] = addresses[a]
        /\ \A a \in OfIn(addresses, c) : base[a] # Book!None /\ base[a].user = c /\ ~base[a].deleted
        /\ default => \A a \in OfIn(addresses, c) : ~base[a].isDefault
        /\ ~default => base = addresses
  <2>1. CASE default /\ q.seen # {}
    BY <2>1, ClearedRows, BookShapes
  <2>2. CASE ~(default /\ q.seen # {})
    <3>1. PICK base \in [AddressIds -> AddressRow \cup {Book!None}] : base = addresses
        BY DEF BookInv, BookTyped
    <3>2. default => OfIn(addresses, c) = {}
        BY <1>2, <1>3, <2>2
    <3>3. \A a \in OfIn(addresses, c) : base[a] # Book!None /\ base[a].user = c /\ ~base[a].deleted
        BY <3>1 DEF OfIn
    <3> QED
        BY <2>2, <3>1, <3>2, <3>3
  <2> QED
    BY <2>1, <2>2
<1>7. PICK new \in AddressRow : new = [user |-> c, isDefault |-> default, deleted |-> FALSE]
    BY DEF AddressRow
<1>8. new.user = c /\ ~new.deleted /\ (new.isDefault <=> default) /\ new # Book!None
    BY <1>7, BookShapes
<1>9. PICK rows \in [AddressIds -> AddressRow \cup {Book!None}] : rows = [base EXCEPT ![id] = new]
    OBVIOUS
<1>10. rows[id] = new /\ \A a \in AddressIds \ {id} : rows[a] = base[a]
    BY <1>9
<1>11. addresses' = rows \/ addresses' = addresses
    BY <1>5, <1>6, <1>7, <1>9 DEF Book!Write
<1>12. id \notin OfIn(addresses, c)
    BY <1>5 DEF OfIn
<1>13. ASSUME NEW a \in AddressIds, a # id, a \notin OfIn(addresses, c) PROVE rows[a] = addresses[a]
    BY <1>6, <1>10, <1>13
<1>14. ASSUME NEW a \in OfIn(addresses, c)
       PROVE  /\ a \in AddressIds /\ a # id /\ addresses[a].user = c
              /\ rows[a] = base[a] /\ rows[a] # Book!None /\ rows[a].user = c /\ ~rows[a].deleted
    BY <1>6, <1>10, <1>12 DEF OfIn
<1>15. /\ \A a \in AddressIds : addresses[a] # Book!None /\ addresses[a].user # c => rows[a] = addresses[a]
       /\ \A a \in AddressIds : rows[a] # Book!None /\ rows[a].user # c => rows[a] = addresses[a]
  <2>1. ASSUME NEW a \in AddressIds, addresses[a] # Book!None, addresses[a].user # c PROVE rows[a] = addresses[a]
    BY <1>5, <1>13, <1>14, <2>1
  <2>2. ASSUME NEW a \in AddressIds, rows[a] # Book!None, rows[a].user # c PROVE rows[a] = addresses[a]
    BY <1>8, <1>10, <1>13, <1>14, <2>2
  <2> QED
    BY <2>1, <2>2
<1>16. NoneDeleted(rows)
  <2>1. ASSUME NEW a \in AddressIds, rows[a] # Book!None, rows[a].deleted PROVE ~rows[a].isDefault
    <3>1. a # id /\ a \notin OfIn(addresses, c)
        BY <1>8, <1>10, <1>14, <2>1
    <3>2. rows[a] = addresses[a]
        BY <1>13, <3>1
    <3> QED
        BY <2>1, <3>2 DEF BookInv, NoneDeleted
  <2> QED
    BY <2>1 DEF NoneDeleted
<1>17. OfIn(rows, c) = OfIn(addresses, c) \cup {id}
  <2>1. ASSUME NEW a \in OfIn(rows, c), a # id PROVE a \in OfIn(addresses, c)
    BY <1>13, <2>1 DEF OfIn
  <2>2. id \in OfIn(rows, c)
    BY <1>8, <1>10 DEF OfIn
  <2>3. OfIn(addresses, c) \subseteq OfIn(rows, c)
    BY <1>14 DEF OfIn
  <2> QED
    BY <2>1, <2>2, <2>3
<1>18. OneDefault(rows, c)
  <2>1. CASE default
    <3>1. \A b \in OfIn(addresses, c) : ~rows[b].isDefault
        BY <1>6, <1>14, <2>1
    <3> QED
        BY <1>8, <1>10, <1>17, <2>1, <3>1 DEF OneDefault
  <2>2. CASE ~default
    <3>1. OfIn(addresses, c) # {}
        BY <1>2, <1>3, <1>4, <2>2
    <3>2. PICK a \in OfIn(addresses, c) :
              addresses[a].isDefault /\ \A b \in OfIn(addresses, c) : addresses[b].isDefault => b = a
        BY <1>2, <1>3, <3>1 DEF OneDefault
    <3>3. \A b \in OfIn(addresses, c) : rows[b] = addresses[b]
        BY <1>6, <1>14, <2>2
    <3>4. ~rows[id].isDefault
        BY <1>8, <1>10, <2>2
    <3> QED
        BY <1>17, <3>2, <3>3, <3>4 DEF OneDefault
  <2> QED
    BY <2>1, <2>2
<1> QED
    BY <1>1, <1>2, <1>3, <1>11, <1>15, <1>16, <1>18, StepCommit

\* The deleted address gives the default to the lowest that is left.
LEMMA StepDeleteAddress == ASSUME BookInv, NEW r \in Callers, Book!DeleteAddress(r) PROVE BookInv'
<1>1. requests[r] # Book!Idle /\ requests[r].kind = "delete" /\ requests' = [requests EXCEPT ![r] = Book!Idle]
    BY DEF Book!DeleteAddress, Book!End
<1>2. PICK q \in Transaction : /\ q = requests[r] /\ q.customer \in Customers /\ TransactionFits(q)
                               /\ OneDefault(addresses, q.customer) /\ q.seen = OfIn(addresses, q.customer)
    BY <1>1, InTransaction
<1>3. PICK c \in Customers, id \in AddressIds : c = q.customer /\ id = q.address /\ id \in OfIn(addresses, c)
    BY <1>1, <1>2 DEF TransactionFits, OfIn
<1>4. PICK was \in BOOLEAN : was = q.wasDefault /\ (was <=> addresses[id].isDefault)
  <2>1. q.wasDefault \in BOOLEAN
    BY DEF Transaction
  <2>2. q.wasDefault <=> addresses[id].isDefault
    BY <1>1, <1>2, <1>3 DEF TransactionFits
  <2> QED
    BY <2>1, <2>2
<1>5. PICK old \in AddressRow : old = addresses[id] /\ old.user = c /\ ~old.deleted
    BY <1>3 DEF OfIn, BookInv, BookTyped
<1> DEFINE gone == [addresses EXCEPT ![id].deleted = TRUE, ![id].isDefault = @ /\ ~was]
           lowest == {a \in OfIn(addresses, c) \ {id} : \A b \in OfIn(addresses, c) \ {id} : a <= b}
           written == [a \in AddressIds |-> IF was /\ a \in lowest THEN [gone[a] EXCEPT !.isDefault = TRUE] ELSE gone[a]]
<1>6. Book!Write(written)
    BY <1>2, <1>3, <1>4 DEF Book!DeleteAddress, Book!Promoted
<1>7. PICK row \in AddressRow : gone[id] = row /\ row.user = c /\ row.deleted /\ ~row.isDefault
  <2>1. PICK half \in AddressRow : half = [old EXCEPT !.deleted = TRUE] /\ half.user = old.user /\ half.deleted = TRUE
                                 /\ half.isDefault = old.isDefault
    <3>1. [old EXCEPT !.deleted = TRUE] \in AddressRow
        BY DEF AddressRow
    <3>2. [old EXCEPT !.deleted = TRUE].user = old.user /\ [old EXCEPT !.deleted = TRUE].deleted = TRUE
          /\ [old EXCEPT !.deleted = TRUE].isDefault = old.isDefault
        BY DEF AddressRow
    <3> QED
        BY <3>1, <3>2, Zenon
  <2>2. PICK flag \in BOOLEAN : flag = (half.isDefault /\ ~was)
    OBVIOUS
  <2>3. ~flag
    BY <1>4, <1>5, <2>1, <2>2
  <2>4. PICK new \in AddressRow : /\ new = [half EXCEPT !.isDefault = flag]
                                  /\ new.user = half.user /\ new.deleted = half.deleted /\ new.isDefault = flag
    BY DefaultSet, Zenon
  <2>5. gone[id] = new
    BY <1>5, <2>1, <2>2, <2>4 DEF BookInv, BookTyped
  <2> QED
    BY <1>5, <2>1, <2>3, <2>4, <2>5
<1>8. \A a \in AddressIds \ {id} : gone[a] = addresses[a]
    BY DEF BookInv, BookTyped
<1> HIDE DEF gone
<1>9. id \notin lowest /\ lowest \subseteq OfIn(addresses, c) /\ OfIn(addresses, c) \subseteq AddressIds
    BY DEF OfIn
<1>10. written[id] = row /\ \A a \in AddressIds \ {id} : ~(was /\ a \in lowest) => written[a] = addresses[a]
    BY <1>7, <1>8, <1>9
<1>11. ASSUME NEW a \in lowest, was
       PROVE  written[a] \in AddressRow /\ written[a].user = c /\ ~written[a].deleted /\ written[a].isDefault
  <2>1. PICK now \in AddressRow : now = addresses[a] /\ now.user = c /\ ~now.deleted
    BY <1>9 DEF OfIn, BookInv, BookTyped
  <2>2. PICK new \in AddressRow : /\ new = [now EXCEPT !.isDefault = TRUE]
                                  /\ new.user = now.user /\ new.deleted = now.deleted /\ new.isDefault = TRUE
    BY DefaultSet, Zenon
  <2>3. a \in AddressIds /\ gone[a] = now
    BY <1>8, <1>9, <2>1
  <2>4. written[a] = new
    BY <1>11, <2>2, <2>3
  <2> QED
    BY <2>1, <2>2, <2>4
<1> HIDE DEF lowest
<1>12. \A a \in AddressIds : written[a] \in AddressRow \cup {Book!None}
  <2>1. ASSUME NEW a \in AddressIds, a # id, ~(was /\ a \in lowest) PROVE written[a] \in AddressRow \cup {Book!None}
    BY <1>10, <2>1 DEF BookInv, BookTyped
  <2>2. written[id] \in AddressRow
    BY <1>10
  <2> HIDE DEF written
  <2> QED
    BY <1>11, <2>1, <2>2
<1>13. written \in [AddressIds -> AddressRow \cup {Book!None}]
    BY <1>12
<1> HIDE DEF written
<1>14. PICK rows \in [AddressIds -> AddressRow \cup {Book!None}], low \in SUBSET AddressIds :
            rows = written /\ low = lowest
    BY <1>9, <1>13
<1>15. addresses' = rows \/ addresses' = addresses
    BY <1>6, <1>14 DEF Book!Write
<1>16. rows[id] = row /\ \A a \in AddressIds \ {id} : ~(was /\ a \in low) => rows[a] = addresses[a]
    BY <1>10, <1>14
<1>17. \A a \in low : /\ a \in OfIn(addresses, c) /\ a # id
                      /\ was => rows[a] # Book!None /\ rows[a].user = c /\ ~rows[a].deleted /\ rows[a].isDefault
    BY <1>9, <1>11, <1>14, BookShapes
<1>18. \A a \in OfIn(addresses, c) : addresses[a].user = c
    BY DEF OfIn
<1>19. row # Book!None
    BY BookShapes
<1>20. /\ \A a \in AddressIds : addresses[a] # Book!None /\ addresses[a].user # c => rows[a] = addresses[a]
       /\ \A a \in AddressIds : rows[a] # Book!None /\ rows[a].user # c => rows[a] = addresses[a]
  <2>1. ASSUME NEW a \in AddressIds, a # id, ~(was /\ a \in low) PROVE rows[a] = addresses[a]
    BY <1>16, <2>1
  <2>2. \A a \in low : was => rows[a].user = c /\ addresses[a].user = c
    BY <1>17, <1>18
  <2>3. rows[id].user = c /\ addresses[id].user = c
    BY <1>5, <1>7, <1>16
  <2> QED
    BY <2>1, <2>2, <2>3
<1>21. NoneDeleted(rows)
  <2>1. ASSUME NEW a \in AddressIds, rows[a] # Book!None, rows[a].deleted PROVE ~rows[a].isDefault
    <3>1. CASE a = id
        BY <1>7, <1>16, <3>1
    <3>2. CASE a # id
      <4>1. ~(was /\ a \in low)
        BY <1>17, <2>1
      <4>2. rows[a] = addresses[a]
        BY <1>16, <3>2, <4>1
      <4> QED
        BY <2>1, <4>2 DEF BookInv, NoneDeleted
    <3> QED
        BY <3>1, <3>2
  <2> QED
    BY <2>1 DEF NoneDeleted
<1>22. OfIn(rows, c) = OfIn(addresses, c) \ {id}
  <2>1. id \notin OfIn(rows, c)
    BY <1>7, <1>16 DEF OfIn
  <2>2. ASSUME NEW a \in AddressIds, a # id PROVE a \in OfIn(rows, c) <=> a \in OfIn(addresses, c)
    <3>1. CASE was /\ a \in low
        BY <1>17, <3>1 DEF OfIn
    <3>2. CASE ~(was /\ a \in low)
        BY <1>16, <2>2, <3>2 DEF OfIn
    <3> QED
        BY <3>1, <3>2
  <2> QED
    BY <2>1, <2>2 DEF OfIn
<1>23. OneDefault(rows, c)
  <2>1. SUFFICES ASSUME OfIn(addresses, c) \ {id} # {} PROVE OneDefault(rows, c)
    BY <1>22 DEF OneDefault
  <2>2. PICK d \in OfIn(addresses, c) :
            addresses[d].isDefault /\ \A b \in OfIn(addresses, c) : addresses[b].isDefault => b = d
    BY <1>2, <1>3, <2>1 DEF OneDefault
  <2>3. CASE was
    <3>1. d = id
        BY <1>3, <1>4, <2>2, <2>3
    <3>2. OfIn(addresses, c) \ {id} \in SUBSET Nat
        BY ContentsAssumption DEF OfIn
    <3>3. PICK p \in OfIn(addresses, c) \ {id} : \A b \in OfIn(addresses, c) \ {id} : p <= b
        BY <2>1, <3>2, LeastMember
    <3>4. p \in low
        BY <1>14, <3>3 DEF lowest
    <3>5. ASSUME NEW b \in OfIn(addresses, c) \ {id}, rows[b].isDefault PROVE b = p
      <4>1. CASE b \in low
        <5>1. b <= p /\ p <= b /\ b \in Nat /\ p \in Nat
            BY <1>14, <3>2, <3>3, <4>1 DEF lowest
        <5> QED
            BY <5>1
      <4>2. CASE b \notin low
        <5>1. b \in AddressIds /\ rows[b] = addresses[b]
            BY <1>16, <4>2 DEF OfIn
        <5> QED
            BY <2>2, <3>1, <3>5, <5>1
      <4> QED
        BY <4>1, <4>2
    <3> QED
        BY <1>17, <1>22, <2>3, <3>3, <3>4, <3>5 DEF OneDefault
  <2>4. CASE ~was
    <3>1. d # id
        BY <1>4, <2>2, <2>4
    <3>2. \A b \in OfIn(addresses, c) \ {id} : rows[b] = addresses[b]
        BY <1>16, <2>4 DEF OfIn
    <3> QED
        BY <1>22, <2>2, <3>1, <3>2 DEF OneDefault
  <2> QED
    BY <2>3, <2>4
<1> QED
    BY <1>1, <1>2, <1>3, <1>15, <1>20, <1>21, <1>23, StepCommit

LEMMA StepBook == ASSUME BookInv, Book!Next PROVE BookInv'
<1> QED
    BY StepBegin, StepCreateAddress, StepUpdateAddress, StepSetDefaultAddress, StepDeleteAddress, StepRollBack DEF Book!Next

-----------------------------------------------------------------------------
(* The theorems.  A behaviour drives one part; a step of it is a step of     *)
(* that part.                                                                *)

ContentsInv ==
    /\ driven = "addresses" => BookInv
    /\ driven = "reviews" => OpinionsInv
    /\ driven = "popups" => PopupsInv
    /\ driven = "bar" => BarInv
    /\ driven = "newsletter" => LettersInv

LEMMA SameAccounts == ASSUME AccountsInv, UNCHANGED siteVars PROVE AccountsInv'
<1>1. UNCHANGED <<requests, tokens, inbox, account, challenges, sessions, exchanged, ended>>
    BY DEF siteVars, shared, accounts
<1>2. Logins!TypeOK'
    BY <1>1 DEF AccountsInv, Logins!TypeOK
<1>3. \A r \in Callers : RequestFits(requests[r])'
    BY <1>1 DEF AccountsInv, RequestFits
<1>4. OneRotation' /\ RowsHaveAccount'
    BY <1>1 DEF AccountsInv, OneRotation, RowsHaveAccount
<1>5. \A s \in SessionIds : SessionFits(s)'
    BY <1>1 DEF AccountsInv, SessionFits
<1> QED
    BY <1>1, <1>2, <1>3, <1>4, <1>5 DEF AccountsInv

LEMMA SameMails == ASSUME MailsInv, UNCHANGED siteVars PROVE MailsInv'
<1>1. UNCHANGED <<kind, entity, log, callers, calls, been, mails, crashed>>
    BY DEF siteVars, mailing, vars
<1>2. MailsTyped'
    BY <1>1 DEF MailsInv, MailsTyped, TypeOK
<1>3. \A c \in Callers : CallFits(c)'
    BY <1>1 DEF MailsInv, CallFits
<1>4. OneOwner'
    BY <1>1 DEF MailsInv, OneOwner, Owns
<1>5. ASSUME NEW e \in Events(kind) PROVE MailFits(e)'
  <2>1. Reached(e) => Reached(e)'
    BY <1>1 DEF Reached
  <2> QED
    BY <1>1, <2>1 DEF MailsInv, MailFits, Owns
<1> QED
    BY <1>1, <1>2, <1>3, <1>4, <1>5 DEF MailsInv

LEMMA SameContents == ASSUME ContentsInv, UNCHANGED siteVars PROVE ContentsInv'
<1>1. UNCHANGED <<driven, requests, tokens, inbox, addresses, delivered, reviews, page, used, popups, reworked, items,
                  crossed, subscriber, settled, refused>>
    BY DEF siteVars, shared, contents
<1>2. BookInv => BookInv'
    BY <1>1 DEF BookInv, BookTyped, TransactionFits, OneDefault, OfIn, NoneDeleted, Book!Of, Book!Live, Book!Owner
<1>3. OpinionsInv => OpinionsInv'
    BY <1>1 DEF OpinionsInv, OpinionsTyped, ReviewFits, Opinions!Existing
<1>4. PopupsInv => PopupsInv'
    BY <1>1 DEF PopupsInv, Popups!Existing, Popups!Active
<1>5. BarInv => BarInv'
    BY <1>1 DEF BarInv, Bar!Existing, Bar!ValidSchedule
<1>6. LettersInv => LettersInv'
    BY <1>1 DEF LettersInv
<1> QED
    BY <1>1, <1>2, <1>3, <1>4, <1>5, <1>6 DEF ContentsInv

\* However requests for codes, sign-ins, refreshes, logouts and a password reset overlap, a
\* refresh token is exchanged once, a session that ended stays ended, nobody signs in
\* before the address is confirmed, and a reset ends what the old password opened
\* (auth.service.ts, session.service.ts).
THEOREM SessionsSoundAlways == SiteSpec => []SessionsSound
<1> DEFINE Inv == driven = "accounts" => AccountsInv
<1>1. SiteInit => Inv
    BY InitAccounts DEF SiteInit
<1>2. Inv /\ [SiteNext]_siteVars => Inv'
  <2>1. ASSUME Inv, SiteNext PROVE Inv'
    BY <2>1, StepAccounts DEF SiteNext
  <2>2. ASSUME Inv, UNCHANGED siteVars PROVE Inv'
    BY <2>2, SameAccounts DEF siteVars
  <2> QED
    BY <2>1, <2>2
<1>3. Inv => SessionsSound
    BY AccountsSound DEF SessionsSound
<1> QED
    BY <1>1, <1>2, <1>3, PTL DEF SiteSpec

\* However many handlers report a milestone, at once or again, and wherever they stop, a
\* mail leaves at most once, about something that happened, and the log says which left
\* (notification.service.ts).
THEOREM SiteMailsSoundAlways == SiteSpec => []SiteMailsSound
<1> DEFINE Inv == driven = "mails" => MailsInv
<1>1. SiteInit => Inv
    BY InitMails DEF SiteInit
<1>2. Inv /\ [SiteNext]_siteVars => Inv'
  <2>1. ASSUME Inv, SiteNext PROVE Inv'
    BY <2>1, StepMails DEF SiteNext
  <2>2. ASSUME Inv, UNCHANGED siteVars PROVE Inv'
    BY <2>2, SameMails DEF siteVars
  <2> QED
    BY <2>1, <2>2
<1>3. Inv => SiteMailsSound
    BY MailsAreSound DEF SiteMailsSound
<1> QED
    BY <1>1, <1>2, <1>3, PTL DEF SiteSpec

\* However the requests of customers and administrators overlap: a customer with addresses
\* has one default, an approved review was approved as it reads, one complete welcome
\* popup is published, an active message has a date it is shown at, and an address that
\* unsubscribed stays out until it confirms a later link.
THEOREM ContentsSoundAlways == SiteSpec => []ContentsSound
<1>1. SiteInit => ContentsInv
    BY InitBook, InitOpinions, InitPopups, InitBar, InitLetters DEF SiteInit, ContentsInv
<1>2. ContentsInv /\ [SiteNext]_siteVars => ContentsInv'
  <2>1. ASSUME ContentsInv, SiteNext PROVE ContentsInv'
    <3>1. driven' = driven
        BY <2>1 DEF SiteNext
    <3>2. driven = "addresses" => BookInv'
        BY <2>1, StepBook DEF SiteNext, ContentsInv
    <3>3. driven = "reviews" => OpinionsInv'
        BY <2>1, StepOpinions DEF SiteNext, ContentsInv
    <3>4. driven = "popups" => PopupsInv'
        BY <2>1, StepPopups DEF SiteNext, ContentsInv
    <3>5. driven = "bar" => BarInv'
        BY <2>1, StepBar DEF SiteNext, ContentsInv
    <3>6. driven = "newsletter" => LettersInv'
        BY <2>1, StepLetters DEF SiteNext, ContentsInv
    <3> QED
        BY <3>1, <3>2, <3>3, <3>4, <3>5, <3>6 DEF ContentsInv
  <2>2. ASSUME ContentsInv, UNCHANGED siteVars PROVE ContentsInv'
    BY <2>2, SameContents
  <2> QED
    BY <2>1, <2>2
<1>3. ContentsInv => ContentsSound
    BY BookSound, OpinionsSound, PopupsSound, BarSound, LettersSound DEF ContentsInv, ContentsSound
<1> QED
    BY <1>1, <1>2, <1>3, PTL DEF SiteSpec
=============================================================================
