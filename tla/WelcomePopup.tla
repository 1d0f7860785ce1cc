---------------------------- MODULE WelcomePopup ----------------------------
(***************************************************************************)
(* The homepage's welcome popup (WelcomePopupModels). Administrators       *)
(* draft, publish, activate and archive popups; visitors see the one that  *)
(* is published and active. Every handler but activateItem reads a row     *)
(* without a lock and later saves the columns it changed; the database     *)
(* keeps at most one active row and refuses an active row that is not      *)
(* published. A popup's content is whether it may be published.            *)
(***************************************************************************)
EXTENDS Naturals, FiniteSets

CONSTANTS PopupIds, \* ids in the order the sequence hands them out
          Admins    \* requests in progress at a time

VARIABLES popups,   \* popups[p]: the row, never removed
          requests, \* the row each request has read
          reworked  \* ghost: popups whose content changed since they were published

vars == <<popups, requests, reworked>>

None == [none |-> TRUE]
Existing == {p \in PopupIds : popups[p] # None}
Active == {p \in Existing : popups[p].active}

(* The CHECK and the unique key of welcome_popups; a refused write fails the request. *)
AcceptedUnchecked(rows) == Cardinality({p \in PopupIds : rows[p] # None /\ rows[p].active}) <= 1 \* mutant: no CHECK
Accepted(rows) ==
    LET present == {p \in PopupIds : rows[p] # None}
    IN  /\ \A p \in present : rows[p].active => rows[p].status = "published"
        /\ Cardinality({p \in present : rows[p].active}) <= 1
Save(rows) ==
    \/ Accepted(rows) /\ popups' = rows
    \/ ~Accepted(rows) /\ UNCHANGED popups

(* findByPk: the handler's copy of the row. *)
Handlers == {"update", "publish", "deactivate", "archive", "duplicate"}
Read(a, kind, p) ==
    /\ requests[a] = None
    /\ requests' = [requests EXCEPT ![a] = [kind |-> kind, id |-> p, seen |-> popups[p]]]
    /\ UNCHANGED <<popups, reworked>>

Handling(a, kind) == requests[a] # None /\ requests[a].kind = kind /\ requests' = [requests EXCEPT ![a] = None]

(* save() writes a column only when it differs from the copy. *)
Changed(now, seen, value) == IF seen = value THEN now ELSE value

Unused == {p \in PopupIds : popups[p] = None}
Lowest == {p \in Unused : \A q \in Unused : p <= q}
Draft(ready) == [status |-> "draft", active |-> FALSE, ready |-> ready]

CreateItem ==
    /\ \E p \in Lowest, ready \in BOOLEAN : Save([popups EXCEPT ![p] = Draft(ready)])
    /\ UNCHANGED <<requests, reworked>>

DuplicateItem(a) ==
    /\ Handling(a, "duplicate")
    /\ \E p \in Lowest : Save([popups EXCEPT ![p] = Draft(requests[a].seen.ready)])
    /\ UNCHANGED reworked

(* updateItem checks nothing about publication. *)
UpdateItem(a) ==
    LET q == requests[a]
    IN  /\ Handling(a, "update")
        /\ \E ready \in BOOLEAN : Save([popups EXCEPT ![q.id].ready = Changed(@, q.seen.ready, ready)])
        /\ reworked' = reworked \cup {q.id}

PublishReady(row) == row.ready
PublishItem(a) ==
    LET q == requests[a]
    IN  /\ Handling(a, "publish")
        /\ IF PublishReady(q.seen)
           THEN /\ Save([popups EXCEPT ![q.id].status = Changed(@, q.seen.status, "published")])
                /\ reworked' = IF popups[q.id].ready THEN reworked \ {q.id} ELSE reworked
           ELSE UNCHANGED <<popups, reworked>>

(* activateItem: one transaction that holds the row. *)
ActivateItem ==
    /\ \E p \in Existing :
         /\ popups[p].status = "published" /\ ~popups[p].active
         /\ Save([q \in PopupIds |-> IF q \in Existing THEN [popups[q] EXCEPT !.active = q = p] ELSE None])
    /\ UNCHANGED <<requests, reworked>>

DeactivateItem(a) ==
    LET q == requests[a]
    IN  /\ Handling(a, "deactivate")
        /\ Save([popups EXCEPT ![q.id].active = Changed(@, q.seen.active, FALSE)])
        /\ UNCHANGED reworked

ArchiveItem(a) ==
    LET q == requests[a]
    IN  /\ Handling(a, "archive")
        /\ Save([popups EXCEPT ![q.id].status = Changed(@, q.seen.status, "archived"),
                               ![q.id].active = Changed(@, q.seen.active, FALSE)])
        /\ UNCHANGED reworked

Init ==
    /\ popups = [p \in PopupIds |-> None]
    /\ requests = [a \in Admins |-> None]
    /\ reworked = {}

Next ==
    \/ CreateItem \/ ActivateItem
    \/ \E a \in Admins, kind \in Handlers, p \in Existing : Read(a, kind, p)
    \/ \E a \in Admins :
         DuplicateItem(a) \/ UpdateItem(a) \/ PublishItem(a) \/ DeactivateItem(a) \/ ArchiveItem(a)

Spec == Init /\ [][Next]_vars

(***************************************************************************)
(* What a visitor is shown: never two popups, never one an administrator   *)
(* archived or never published, however the administrators' requests       *)
(* overlap; a published one was complete when published, and can only have *)
(* become incomplete by a later edit.                                      *)
(***************************************************************************)
OnePublishedPopup ==
    /\ Cardinality(Active) <= 1
    /\ \A p \in Active : popups[p].status = "published"
    /\ \A p \in Existing : popups[p].status = "published" /\ ~popups[p].ready => p \in reworked

TypeOK ==
    /\ \A p \in Existing :
         popups[p] \in [status : {"draft", "published", "archived"}, active : BOOLEAN, ready : BOOLEAN]
    /\ reworked \subseteq PopupIds
=============================================================================
