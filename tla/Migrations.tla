----------------------------- MODULE Migrations -----------------------------
(***************************************************************************)
(* db:migrate, db:migrate:down and db:migrate:down:all: Umzug runs the     *)
(* migrations that are not recorded, in order, or rolls recorded ones      *)
(* back, under a lock of the database.  MySQL commits every statement on   *)
(* its own, and a migration is recorded after its last one; a run may die  *)
(* before any statement.  A database may start empty or at a release that  *)
(* had the first so many migrations, made by the CREATEs of its time.      *)
(***************************************************************************)
EXTENDS Naturals, Sequences, FiniteSets, Functions

CONSTANTS Plan,     \* the migrations
          Tables,   \* the tables, as their CREATEs now are
          Releases, \* the parts each release left behind; the n-th has n - 1 migrations
          Starts,   \* numbers of migrations that a database may start with
          Runners,  \* processes that run the commands
          MaxCommands, \* bound on the commands of a behaviour
          MaxDisturbances \* and on its runs that die or throw

VARIABLES parts,    \* by table: its parts, none when there is no table
          recorded, \* SequelizeMeta: the migrations that ran
          runs,     \* by runner: the migration it is at, and its statements left to run
          commands, \* how many were begun
          disturbed,\* what happened to earlier runs, in order
          failed    \* a statement found the database in a state it cannot run in

vars == <<parts, recorded, runs, commands, disturbed, failed>>

All == DOMAIN Plan
Idle == [command |-> "none"]
AtRelease(n) == Releases[n + 1]
There(table) == "table" \in parts[table]
Present(statement) == statement.adds \subseteq parts[statement.table]

Init ==
    /\ \E n \in Starts : parts = AtRelease(n) /\ recorded = 1..n
    /\ runs = [r \in Runners |-> Idle]
    /\ commands = 0
    /\ disturbed = <<>>
    /\ failed = FALSE

LockHeld == \E r \in Runners : runs[r] # Idle

Command(r) == runs[r].command
At(command, m) ==
    [command |-> command, at |-> m, left |-> IF command = "up" THEN Plan[m].up ELSE Plan[m].down]
Running(r) == runs[r] # Idle /\ runs[r].left # <<>>
Current(r) == Head(runs[r].left)

Begin(r, command) ==
    /\ runs[r] = Idle /\ ~LockHeld
    /\ commands < MaxCommands
    /\ commands' = commands + 1
    /\ IF command = "up" THEN recorded # All ELSE recorded # {}
    /\ runs' = [runs EXCEPT ![r] =
                    At(command, IF command = "up" THEN Cardinality(recorded) + 1 ELSE Cardinality(recorded))]
    /\ UNCHANGED <<parts, recorded, disturbed, failed>>

\* An error ends the command and releases the lock.
Ends(r) == runs' = [runs EXCEPT ![r] = Idle] /\ UNCHANGED <<parts, recorded, commands>>
Disturbs(what) == Len(disturbed) < MaxDisturbances /\ disturbed' = Append(disturbed, what)
Disturbed(what) == what \in Range(disturbed)

Throws(r) ==
    /\ Running(r) /\ Current(r).throws
    /\ Disturbs("threw")
    /\ Ends(r) /\ UNCHANGED failed

Missing(statement) ==
    \/ \E table \in statement.refers : ~There(table)
    \/ "table" \notin statement.adds /\ statement.how # "clears" /\ ~There(statement.table)

Fails(statement) ==
    \/ Missing(statement)
    \/ statement.how = "adds" /\ statement.adds \cap parts[statement.table] # {}
    \/ statement.how = "drops" /\ ~(statement.takes \subseteq parts[statement.table])

Fail(r) ==
    /\ Running(r) /\ Fails(Current(r))
    /\ failed' = TRUE
    /\ Ends(r) /\ UNCHANGED disturbed

\* The migration ends at a probe that finds its part, or the statement has its effect.
Leave(r) ==
    /\ Running(r) /\ Current(r).how = "leaves" /\ Present(Current(r)) /\ ~Missing(Current(r))
    /\ runs' = [runs EXCEPT ![r].left = <<>>]
    /\ UNCHANGED <<parts, recorded, commands, disturbed, failed>>

Run(r) ==
    /\ Running(r) /\ ~Fails(Current(r)) /\ ~(Current(r).how = "leaves" /\ Present(Current(r)))
    /\ parts' = [parts EXCEPT ![Current(r).table] = (@ \ Current(r).takes) \cup Current(r).adds]
    /\ runs' = [runs EXCEPT ![r].left = Tail(@)]
    /\ UNCHANGED <<recorded, commands, disturbed, failed>>

\* db:migrate:down rolls one migration back, db:migrate:down:all all of them.
Record(r) ==
    /\ runs[r] # Idle /\ ~Running(r)
    /\ LET m == runs[r].at IN
       CASE Command(r) = "up" /\ m \notin recorded ->
                /\ recorded' = recorded \cup {m}
                /\ runs' = [runs EXCEPT ![r] = IF m = Len(Plan) THEN Idle ELSE At("up", m + 1)]
                /\ UNCHANGED failed
         [] Command(r) = "up" /\ m \in recorded ->
                failed' = TRUE /\ runs' = [runs EXCEPT ![r] = Idle] /\ UNCHANGED recorded
         [] OTHER ->
                /\ recorded' = recorded \ {m}
                /\ runs' = [runs EXCEPT ![r] = IF Command(r) = "down" \/ m = 1 THEN Idle
                                               ELSE At("down all", m - 1)]
                /\ UNCHANGED failed
    /\ UNCHANGED <<parts, commands, disturbed>>

\* The process dies: the lock goes with its connection.
Die(r) ==
    /\ Running(r)
    /\ Disturbs(IF Command(r) = "up" THEN "upgrade cut" ELSE "rollback cut")
    /\ Ends(r) /\ UNCHANGED failed

Next ==
    \E r \in Runners :
        \/ \E command \in {"up", "down", "down all"} : Begin(r, command)
        \/ Throws(r) \/ Fail(r) \/ Leave(r) \/ Run(r) \/ Record(r) \/ Die(r)

Spec == Init /\ [][Next]_vars

TypeOK ==
    /\ recorded = 1..Cardinality(recorded)
    /\ \A r \in Runners : runs[r] # Idle => runs[r].at - 1 \in {Cardinality(recorded), Cardinality(recorded) - 1}
    /\ commands <= MaxCommands /\ Range(disturbed) \subseteq {"threw", "upgrade cut", "rollback cut"}
    /\ failed \in BOOLEAN

(***************************************************************************)
(* db:schema:verify.  It compares the tables, columns, keys and checks of  *)
(* the CREATEs, and the rows of id_sequences, but not the values of an     *)
(* enumeration, nor what only a migration adds.                            *)
(***************************************************************************)
Enumerated ==
    {"role super_admin", "status cancelled", "status partially_refunded", "payment_status partially_refunded",
     "shipment events", "return shipment events", "return shipments", "admin events", "processing_status released"}
Verified ==
    /\ recorded = All
    /\ \A t \in Tables :
        /\ {"table"} \cup (t.holds \ Enumerated) \subseteq parts[t.name]
        /\ t.name \in parts["id_sequences"]

Final == AtRelease(Len(Plan))
Quiet == \A r \in Runners : runs[r] = Idle

\* A schema that passes verification is the final one, part for part, whether
\* it was made from nothing or upgraded from any release, and whatever runs
\* died or threw on the way, rollbacks that died excepted.  Between commands.
VerifiedIsFinal == Quiet /\ Verified /\ ~Disturbed("rollback cut") => parts = Final

\* The migrations themselves agree with each other: a statement finds a
\* database it cannot run in only after a run that died or threw.
RunsFit == failed => disturbed # <<>>

\* Between commands, what is recorded is there, unless a rollback was cut; a cut
\* upgrade leaves only a return quantity optional (036).
RecordedIsThere ==
    Quiet /\ ~Disturbed("rollback cut") =>
        \A t \in DOMAIN parts :
            AtRelease(Cardinality(recorded))[t] \subseteq
                parts[t] \cup (IF Disturbed("upgrade cut") THEN {"quantity required"} ELSE {})

SchemaSound == VerifiedIsFinal /\ RunsFit /\ RecordedIsThere
=============================================================================
