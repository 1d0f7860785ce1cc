------------------------------- MODULE MCSite -------------------------------
(***************************************************************************)
(* Instances of accounts, mails, contents and the database's migrations    *)
(* for TLC.  A behaviour drives one of them, chosen at the start, and      *)
(* leaves the variables of the others alone.  (The mails are EXTENDED, not *)
(* instantiated, for TLC's speed.)  Callers stand for whatever overlaps in *)
(* each: requests, administrators, processes.  They are interchangeable.   *)
(***************************************************************************)
EXTENDS Notifications, FiniteSets, MigrationPlan

CONSTANTS ChallengeIds, TokenIds, SessionIds, MaxAttempts, MaxVersion, \* of Accounts
          Customers, AddressIds,                                       \* of Addresses
          Reviewers, ReviewIds, MaxText,                               \* of Reviews
          PopupIds, ItemIds, MaxDate, MaxTokens                        \* of the rest

VARIABLES driven, \* the instance that runs
          requests, tokens, inbox, \* of accounts and of contents
          account, challenges, sessions, exchanged, ended,
          addresses, delivered, reviews, page, used, popups, reworked, items, crossed, subscriber, settled, refused,
          parts, recorded, runs, commands, disturbed, failed

mailing == vars
shared == <<requests, tokens, inbox>>
accounts == <<account, challenges, sessions, exchanged, ended>>
contents == <<addresses, delivered, reviews, page, used, popups, reworked, items, crossed, subscriber, settled, refused>>
database == <<parts, recorded, runs, commands, disturbed, failed>>
Interchangeable == Permutations(Callers)
siteVars == <<driven, mailing, shared, accounts, contents, database>>

None == [missing |-> TRUE]

\* An address nobody signed up with, a customer and an administrator.
Logins == INSTANCE Accounts WITH
    Requests <- Callers,
    Starts <- {None} \cup [role : {"customer", "admin"}, verified : {TRUE}, password : {1}]

Book == INSTANCE Addresses WITH Requests <- Callers
Opinions == INSTANCE Reviews WITH Customers <- Reviewers, Requests <- Callers
Popups == INSTANCE WelcomePopup WITH Admins <- Callers
Bar == INSTANCE Announcements WITH Admins <- Callers
Letters == INSTANCE Newsletter

\* An empty database, and releases before and after the migrations that restate things.
Database == INSTANCE Migrations WITH
    Plan <- MigrationFileNames, Tables <- BusinessTables, Releases <- LeftByRelease,
    Starts <- {0, 35, 66}, Runners <- Callers, MaxCommands <- 3, MaxDisturbances <- 1

\* Ids are positive numbers, of which the sequences hand out finitely many.
ASSUME MailsAssumption == Kinds \subseteq DOMAIN States /\ MaxCalls \in Nat
ASSUME AccountsAssumption ==
    /\ ChallengeIds \subseteq Nat \ {0} /\ TokenIds \subseteq Nat \ {0} /\ SessionIds \subseteq Nat \ {0}
    /\ MaxAttempts \in Nat /\ MaxVersion \in Nat \ {0}
ASSUME ContentsAssumption ==
    /\ AddressIds \subseteq Nat \ {0} /\ ReviewIds \subseteq Nat \ {0} /\ PopupIds \subseteq Nat \ {0}
    /\ IsFiniteSet(AddressIds) /\ IsFiniteSet(ReviewIds) /\ IsFiniteSet(PopupIds)
    /\ Reviewers \subseteq Nat \ {0} /\ MaxText \in Nat \ {0} /\ MaxDate \in Nat \ {0} /\ MaxTokens \in Nat

NoMailing ==
    kind = 0 /\ entity = 0 /\ log = 0 /\ callers = 0 /\ calls = 0 /\ been = 0 /\ mails = 0 /\ crashed = 0
NoAccounts == account = 0 /\ challenges = 0 /\ sessions = 0 /\ exchanged = 0 /\ ended = 0
NoLinks == tokens = 0 /\ inbox = 0
NoAddresses == addresses = 0
NoReviews == delivered = 0 /\ reviews = 0 /\ page = 0 /\ used = 0
NoPopups == popups = 0 /\ reworked = 0
NoLetters == subscriber = 0 /\ settled = 0 /\ refused = 0
NoBar == items = 0 /\ crossed = 0
NoContents == NoAddresses /\ NoReviews /\ NoPopups /\ NoBar /\ NoLetters
NoDatabase == parts = 0 /\ recorded = 0 /\ runs = 0 /\ commands = 0 /\ disturbed = 0 /\ failed = 0

SiteInit ==
    \/ driven = "mails" /\ Init /\ requests = 0 /\ NoLinks /\ NoAccounts /\ NoContents /\ NoDatabase
    \/ driven = "database" /\ Database!Init /\ requests = 0 /\ NoLinks /\ NoMailing /\ NoAccounts /\ NoContents
    \/ /\ NoMailing /\ NoContents /\ NoDatabase
       /\ driven = "accounts" /\ Logins!Init
    \/ /\ NoMailing /\ NoAccounts /\ NoDatabase
       /\ \/ driven = "addresses" /\ Book!Init /\ NoLinks /\ NoReviews /\ NoPopups /\ NoBar /\ NoLetters
          \/ driven = "reviews" /\ Opinions!Init /\ NoLinks /\ NoAddresses /\ NoPopups /\ NoBar /\ NoLetters
          \/ driven = "popups" /\ Popups!Init /\ NoLinks /\ NoAddresses /\ NoReviews /\ NoBar /\ NoLetters
          \/ driven = "bar" /\ Bar!Init /\ NoLinks /\ NoAddresses /\ NoReviews /\ NoPopups /\ NoLetters
          \/ driven = "newsletter" /\ Letters!Init /\ requests = 0 /\ NoAddresses /\ NoReviews /\ NoPopups /\ NoBar

LinksSame == UNCHANGED <<tokens, inbox>>
AddressesSame == UNCHANGED addresses
ReviewsSame == UNCHANGED <<delivered, reviews, page, used>>
PopupsSame == UNCHANGED <<popups, reworked>>
BarSame == UNCHANGED <<items, crossed>>
LettersSame == UNCHANGED <<subscriber, settled, refused>>

SiteNext ==
    /\ \/ driven = "mails" /\ Next /\ UNCHANGED <<shared, accounts, contents, database>>
       \/ driven = "database" /\ Database!Next /\ UNCHANGED <<shared, mailing, accounts, contents>>
       \/ driven = "accounts" /\ Logins!Next /\ UNCHANGED <<mailing, contents, database>>
       \/ /\ UNCHANGED <<mailing, accounts, database>>
          /\ \/ driven = "addresses" /\ Book!Next /\ LinksSame /\ ReviewsSame /\ PopupsSame /\ BarSame /\ LettersSame
             \/ driven = "reviews" /\ Opinions!Next /\ LinksSame /\ AddressesSame /\ PopupsSame /\ BarSame /\ LettersSame
             \/ driven = "popups" /\ Popups!Next /\ LinksSame /\ AddressesSame /\ ReviewsSame /\ BarSame /\ LettersSame
             \/ driven = "bar" /\ Bar!Next /\ LinksSame /\ AddressesSame /\ ReviewsSame /\ PopupsSame /\ LettersSame
             \/ driven = "newsletter" /\ Letters!Next /\ UNCHANGED requests
                /\ AddressesSame /\ ReviewsSame /\ PopupsSame /\ BarSame
    /\ UNCHANGED driven

SiteSpec == SiteInit /\ [][SiteNext]_siteVars

-----------------------------------------------------------------------------
\* A refresh token is exchanged once, a session that ended stays ended, nobody signs in
\* before the address is confirmed, and a reset ends what the old password opened.
SessionsSound == driven = "accounts" => Logins!TypeOK /\ Logins!SessionsSound

\* A mail leaves at most once, about something that happened, and the log says which left.
SiteMailsSound == driven = "mails" => TypeOK /\ MailsSound

\* A customer with addresses has one default; a review on the shop was approved as it
\* reads; one welcome popup is published, complete when it was; an active message has a
\* date it is shown at; an address that unsubscribed gets no letters unless it asks again.
ContentsSound ==
    /\ driven = "addresses" => Book!TypeOK /\ Book!DefaultKept
    /\ driven = "reviews" => Opinions!TypeOK /\ Opinions!ShownIsVetted
    /\ driven = "popups" => Popups!TypeOK /\ Popups!OnePublishedPopup
    /\ driven = "bar" => Bar!TypeOK /\ Bar!ActiveIsShown
    /\ driven = "newsletter" => Letters!TypeOK /\ Letters!OptOutHolds

\* A schema that db:schema:verify accepts is the final one, however the database came
\* there, and the migrations fit each other.
SchemaSound == driven = "database" => Database!TypeOK /\ Database!SchemaSound
=============================================================================
