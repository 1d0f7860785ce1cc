----------------------------- MODULE Newsletter -----------------------------
(***************************************************************************)
(* Newsletter subscription with confirmation by mail (NewsletterModels/    *)
(* newsletter.service.ts).  Each operation is one transaction that locks   *)
(* the subscriber's row.  The mail is sent inside the transaction: when    *)
(* sending fails the row is rolled back, and when the process dies after   *)
(* sending the mail carries a link the row does not know.  One address; a  *)
(* link is the number of its token.                                        *)
(***************************************************************************)
EXTENDS Naturals

CONSTANTS MaxTokens \* bound on the links ever made

VARIABLES subscriber, \* the row of newsletter_subscribers
          tokens,     \* number of tokens made
          inbox,      \* links the address has received, each with its use
          settled,    \* ghost: token the subscription was confirmed with
          refused     \* ghost: links made before the last unsubscription

vars == <<subscriber, tokens, inbox, settled, refused>>

NoToken == 0
Absent == [status |-> "absent", verify |-> NoToken, expired |-> FALSE, cooling |-> FALSE, unsubscribe |-> NoToken]
Token == tokens + 1
CanMake == tokens < MaxTokens

(* A link reaches the inbox whether or not the transaction then commits. *)
Mailed(use) == inbox' = inbox \cup {[use |-> use, token |-> Token]}

(* A confirmed address, or one mailed within the cooldown, gets no mail. *)
Subscribe ==
    /\ CanMake
    /\ subscriber.status # "subscribed"
    /\ ~(subscriber.status = "pending" /\ subscriber.cooling)
    /\ tokens' = Token
    /\ \/ /\ subscriber' = [subscriber EXCEPT !.status = "pending", !.verify = Token,
                                              !.expired = FALSE, !.cooling = TRUE]
          /\ Mailed("verify")
       \/ UNCHANGED <<subscriber, inbox>>              \* NewsletterEmailDeliveryFailedError
       \/ UNCHANGED subscriber /\ Mailed("verify")     \* dies before the commit
    /\ UNCHANGED <<settled, refused>>

(* verify looks for a pending row with the token's hash. *)
ConfirmsByToken(token) == subscriber.verify = token \* mutant: the status is not asked
Confirms(token) == subscriber.status = "pending" /\ subscriber.verify = token
Verify(token) ==
    /\ CanMake /\ Confirms(token) /\ ~subscriber.expired
    /\ subscriber' = [subscriber EXCEPT !.status = "subscribed", !.verify = NoToken, !.unsubscribe = Token]
    /\ tokens' = Token
    /\ \/ inbox' = inbox \cup {[use |-> "unsubscribe", token |-> Token]} \* the answer's token
       \/ UNCHANGED inbox                                               \* the answer is lost
    /\ settled' = token
    /\ UNCHANGED refused

Unsubscribe(token) ==
    /\ subscriber.unsubscribe = token /\ token # NoToken
    /\ subscriber' = [subscriber EXCEPT !.status = "unsubscribed"]
    /\ refused' = 1..tokens
    /\ UNCHANGED <<tokens, inbox, settled>>

(* resendUnsubscribeLink: the row is saved, the mail may fail silently. *)
ResendUnsubscribeLink ==
    /\ CanMake /\ subscriber.status = "subscribed"
    /\ tokens' = Token
    /\ \/ subscriber' = [subscriber EXCEPT !.unsubscribe = Token] /\ (Mailed("unsubscribe") \/ UNCHANGED inbox)
       \/ UNCHANGED subscriber /\ Mailed("unsubscribe") \* dies before the commit
    /\ UNCHANGED <<settled, refused>>

(* Five minutes, then a day, after the last confirmation mail. *)
Cooled == subscriber.cooling /\ subscriber' = [subscriber EXCEPT !.cooling = FALSE]
Expired == ~subscriber.cooling /\ ~subscriber.expired /\ subscriber' = [subscriber EXCEPT !.expired = TRUE]
Time == subscriber.verify # NoToken /\ (Cooled \/ Expired) /\ UNCHANGED <<tokens, inbox, settled, refused>>

Init == subscriber = Absent /\ tokens = 0 /\ inbox = {} /\ settled = NoToken /\ refused = {}

Next ==
    \/ Subscribe \/ ResendUnsubscribeLink \/ Time
    \/ \E link \in inbox :
         \/ link.use = "verify" /\ Verify(link.token)
         \/ link.use = "unsubscribe" /\ Unsubscribe(link.token)

Spec == Init /\ [][Next]_vars

(***************************************************************************)
(* Who unsubscribed stays out until they confirm a link mailed afterwards: *)
(* no older link, used late or twice, brings them back, although the row   *)
(* keeps its token when a pending address unsubscribes.                    *)
(***************************************************************************)
OptOutHolds ==
    /\ subscriber.status = "subscribed" => settled \notin refused
    /\ subscriber.status = "subscribed" => [use |-> "verify", token |-> settled] \in inbox

TypeOK ==
    /\ subscriber.status \in {"absent", "pending", "subscribed", "unsubscribed"}
    /\ subscriber.verify \in 0..MaxTokens /\ subscriber.unsubscribe \in 0..MaxTokens
    /\ tokens \in 0..MaxTokens /\ refused \subseteq 1..MaxTokens
=============================================================================
