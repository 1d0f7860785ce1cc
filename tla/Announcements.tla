--------------------------- MODULE Announcements ----------------------------
(***************************************************************************)
(* The announcement bar (AnnouncementBarModels): messages with an optional *)
(* window of dates. The request schema compares the dates of one request;  *)
(* the service compares those of the row as it will be, on a copy read     *)
(* without a lock. Texts, links and the display order are left out.        *)
(***************************************************************************)
EXTENDS Naturals

CONSTANTS ItemIds,  \* ids in the order the sequence hands them out
          Admins,   \* requests in progress at a time
          MaxDate   \* dates are 1..MaxDate, and 0 for none

VARIABLES items,    \* items[i]: the row, None before it is made, Gone once it is deleted
          requests, \* the row each update has read
          crossed   \* ghost: items an update saved although their dates had changed since it read them

vars == <<items, requests, crossed>>

None == [none |-> TRUE]
Dates == 0..MaxDate
Gone == [gone |-> TRUE]
Existing == {i \in ItemIds : items[i] \notin {None, Gone}}

InOrder(starts, ends) == starts = 0 \/ ends = 0 \/ starts < ends

\* Mutant: the service relies on the request schema.
ScheduleUnchecked(row) == TRUE
ValidSchedule(row) == InOrder(row.starts, row.ends)

CreateItem ==
    /\ \E i \in ItemIds, starts, ends \in Dates, active \in BOOLEAN :
         LET row == [active |-> active, starts |-> starts, ends |-> ends]
         IN  /\ items[i] = None
             /\ InOrder(starts, ends) /\ ValidSchedule(row)
             /\ items' = [items EXCEPT ![i] = row]
    /\ UNCHANGED <<requests, crossed>>

Read(a, i) ==
    /\ requests[a] = None
    /\ requests' = [requests EXCEPT ![a] = [id |-> i, seen |-> items[i]]]
    /\ UNCHANGED <<items, crossed>>

\* save writes the columns that differ from the copy; a row deleted meanwhile stays deleted.
Changed(now, seen, value) == IF seen = value THEN now ELSE value
Saved(now, seen, row) == [active |-> Changed(now.active, seen.active, row.active),
                          starts |-> Changed(now.starts, seen.starts, row.starts),
                          ends |-> Changed(now.ends, seen.ends, row.ends)]

\* updateItem: any of the columns may be given; validateSchedule sees the copy with them.
UpdateItem(a) ==
    LET i == requests[a].id
        seen == requests[a].seen
    IN  /\ requests[a] # None
        /\ \E starts \in Dates \cup {seen.starts}, ends \in Dates \cup {seen.ends}, active \in BOOLEAN :
             LET row == [active |-> active, starts |-> starts, ends |-> ends]
             IN  /\ starts # seen.starts /\ ends # seen.ends => InOrder(starts, ends)
                 /\ IF ValidSchedule(row) /\ i \in Existing
                    THEN /\ items' = [items EXCEPT ![i] = Saved(@, seen, row)]
                         /\ crossed' = IF <<items[i].starts, items[i].ends>> = <<seen.starts, seen.ends>>
                                       THEN crossed \ {i}
                                       ELSE crossed \cup {i}
                    ELSE UNCHANGED <<items, crossed>>
        /\ requests' = [requests EXCEPT ![a] = None]

DeleteItem(i) == items' = [items EXCEPT ![i] = Gone] /\ UNCHANGED <<requests, crossed>>

Init ==
    /\ items = [i \in ItemIds |-> None]
    /\ requests = [a \in Admins |-> None]
    /\ crossed = {}

Next ==
    \/ CreateItem
    \/ \E a \in Admins, i \in Existing : Read(a, i)
    \/ \E a \in Admins : UpdateItem(a)
    \/ \E i \in Existing : DeleteItem(i)

Spec == Init /\ [][Next]_vars

(* listStorefrontItems at a date. *)
Shown(date) == {i \in Existing : items[i].active /\ items[i].starts <= date /\ (items[i].ends = 0 \/ date <= items[i].ends)}

(***************************************************************************)
(* An active message is shown at some date: no sequence of partial edits   *)
(* leaves it with a window that ends before it starts, unless two edits    *)
(* overlapped.                                                             *)
(***************************************************************************)
ActiveIsShown ==
    \A i \in Existing \ crossed : items[i].active => \E date \in 1..MaxDate : i \in Shown(date)

TypeOK ==
    \A i \in Existing : items[i] \in [active : BOOLEAN, starts : Dates, ends : Dates]
=============================================================================
