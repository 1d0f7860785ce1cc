------------------------------ MODULE Addresses ------------------------------
(***************************************************************************)
(* Customers' address books (AddressModels/address.service.ts).  Every     *)
(* change is one transaction that first locks the customer's row, then     *)
(* reads the customer's addresses and writes them, so it is two steps here:*)
(* Begin takes the lock and reads, an operation writes and commits.        *)
(* The unique key on default_user_id counts deleted rows too.  Recipients, *)
(* streets and coordinates are left out.                                   *)
(***************************************************************************)
EXTENDS Naturals, FiniteSets

CONSTANTS Customers,  \* the customers
          AddressIds, \* ids in the order the sequence hands them out
          Requests    \* requests in progress at a time

VARIABLES addresses, \* addresses[a]: the row, never removed once created
          requests   \* requests[r]: what a transaction does and what it has read

vars == <<addresses, requests>>

None == [none |-> TRUE]
Owner(a) == addresses[a].user
Live == {a \in AddressIds : addresses[a] # None /\ ~addresses[a].deleted}
Of(c) == {a \in Live : Owner(a) = c}
Default(a) == addresses[a].isDefault

Changes == {"create", "update", "setDefault", "delete"}
Idle == None
Running == {r \in Requests : requests[r] # Idle}

NeverLocked(c) == FALSE \* mutant: changes of one customer are not serialized
Locked(c) == \E r \in Running : requests[r].customer = c

(***************************************************************************)
(* lockCustomer and the reads.  `wanted` is the input's isDefault; an      *)
(* address of another customer, or a deleted one, is not found.            *)
(***************************************************************************)
Begin(r, c) ==
    /\ requests[r] = Idle
    /\ ~Locked(c)
    /\ \E kind \in Changes, wanted \in {"yes", "no", "absent"} :
         /\ kind \notin {"create", "update"} => wanted = "absent"
         /\ \E a \in IF kind = "create" THEN {0} ELSE Of(c) :
              requests' = [requests EXCEPT ![r] =
                [kind |-> kind, customer |-> c, wanted |-> wanted, address |-> a,
                 seen |-> Of(c), wasDefault |-> kind # "create" /\ Default(a)]]
    /\ UNCHANGED addresses

(* clearExistingDefault: no live row of the customer is the default. *)
Cleared(c) ==
    [a \in AddressIds |-> IF a \in Of(c) THEN [addresses[a] EXCEPT !.isDefault = FALSE] ELSE addresses[a]]

(* The unique key addresses_one_default_user_unique; a write against it rolls back. *)
OneDefaultPerUser(rows) ==
    \A c \in Customers :
        Cardinality({a \in AddressIds : rows[a] # None /\ rows[a].user = c /\ rows[a].isDefault}) <= 1
Write(rows) ==
    \/ OneDefaultPerUser(rows) /\ addresses' = rows
    \/ ~OneDefaultPerUser(rows) /\ UNCHANGED addresses

End(r) == requests' = [requests EXCEPT ![r] = Idle]

Unused == {a \in AddressIds : addresses[a] = None}
CreateAddress(r) ==
    LET q == requests[r]
        hasExisting == q.seen # {}
        default == q.wanted = "yes" \/ ~hasExisting
    IN  /\ q # Idle /\ q.kind = "create"
        /\ \E id \in Unused :
             /\ \A a \in Unused : id <= a
             /\ Write([(IF default /\ hasExisting THEN Cleared(q.customer) ELSE addresses) EXCEPT ![id] =
                         [user |-> q.customer, isDefault |-> default, deleted |-> FALSE]])
        /\ End(r)

(* A transaction that does not commit (an allocation fails, the process dies) writes nothing. *)
RollBack(r) == requests[r] # Idle /\ End(r) /\ UNCHANGED addresses

Became(a, q) == [Cleared(q.customer) EXCEPT ![a].isDefault = TRUE]

UpdateAddress(r) ==
    LET q == requests[r]
    IN  /\ q # Idle /\ q.kind = "update"
        /\ ~(q.wanted = "no" /\ q.wasDefault) \* AddressDefaultRequiredError
        /\ IF q.wanted = "yes" /\ ~q.wasDefault THEN Write(Became(q.address, q)) ELSE UNCHANGED addresses
        /\ End(r)

SetDefaultAddress(r) ==
    LET q == requests[r]
    IN  /\ q # Idle /\ q.kind = "setDefault"
        /\ IF q.wasDefault THEN UNCHANGED addresses ELSE Write(Became(q.address, q))
        /\ End(r)

(* The next default is the lowest id left. *)
Promoted(q) == {a \in q.seen \ {q.address} : \A b \in q.seen \ {q.address} : a <= b}
DeleteAddress(r) ==
    LET q == requests[r]
        gone == [addresses EXCEPT ![q.address].deleted = TRUE,
                                  ![q.address].isDefault = @ /\ ~q.wasDefault]
    IN  /\ q # Idle /\ q.kind = "delete"
        /\ Write([a \in AddressIds |->
                    IF q.wasDefault /\ a \in Promoted(q) THEN [gone[a] EXCEPT !.isDefault = TRUE] ELSE gone[a]])
        /\ End(r)

Init ==
    /\ addresses = [a \in AddressIds |-> None]
    /\ requests = [r \in Requests |-> Idle]

Next ==
    \/ \E r \in Requests, c \in Customers : Begin(r, c)
    \/ \E r \in Requests : CreateAddress(r) \/ UpdateAddress(r) \/ SetDefaultAddress(r) \/ DeleteAddress(r) \/ RollBack(r)

Spec == Init /\ [][Next]_vars

(***************************************************************************)
(* The checkout preselects a customer's default address: whoever has an    *)
(* address has exactly one default, whatever was created, made default or  *)
(* deleted at the same time, and no deleted address holds the default's    *)
(* slot of the unique key.                                                 *)
(***************************************************************************)
DefaultKept ==
    /\ \A c \in Customers : Of(c) # {} => Cardinality({a \in Of(c) : Default(a)}) = 1
    /\ \A a \in AddressIds : addresses[a] # None /\ addresses[a].deleted => ~addresses[a].isDefault

TypeOK ==
    /\ \A a \in AddressIds : addresses[a] = None
         \/ addresses[a] \in [user : Customers, isDefault : BOOLEAN, deleted : BOOLEAN]
    /\ \A r \in Running : requests[r].kind \in Changes /\ requests[r].seen \subseteq AddressIds
=============================================================================
