------------------------------ MODULE Startup -------------------------------
(***************************************************************************)
(* How green_relay comes up, and what may come up beside it (lib.rs,       *)
(* main.rs, db.rs): the service and the create-admin tool each read their  *)
(* configuration, connect to the database, bring its schema up to date and *)
(* go on only then. Either may fail or be killed at any step; systemd      *)
(* starts the service again. They share the database file, in which a      *)
(* transaction is one step.                                                *)
(***************************************************************************)
EXTENDS Settings

CONSTANTS
  Latest,   \* the last migration of MIGRATIONS
  Found,    \* Found[n]: the file and environment of the set-up named n
  Setups,   \* Setups[p]: the names of the set-ups process p may find
  Disks,    \* the files that DATABASE_PATH names
  MaxTrouble\* bound on failures, kills and edits of a set-up

Procs == {"service", "tool"}
Version == 1..Latest

ASSUME StartupAssumption ==
  /\ Latest \in Nat \ {0} /\ MaxTrouble \in Nat
  /\ \A p \in Procs : Setups[p] \subseteq DOMAIN Found
  /\ \A p \in Procs : \A s \in Setups[p] :
       Loads(Found[s]) => Load(Found[s]).conf["DATABASE_PATH"] \in Disks

VARIABLES
  setup,    \* setup[p]: the set-up of p at this time
  at,       \* at[p]: the step it is at, see Places
  conf,     \* conf[p]: the configuration it has loaded
  next,     \* next[p]: the migration it is to look at next
  ready,    \* ready[p]: schema_ready of its Db
  recorded, \* recorded[d]: the versions in schema_migrations
  applied,  \* applied[d]: the scripts whose statements have taken effect
  admins,   \* disks with the row of the admin
  trouble

file    == <<recorded, applied, admins>>
process == <<at, conf, next, ready>>
startupVars == <<setup, process, file, trouble>>

Working == {"connect", "migrations", "migrate", "bind", "serve", "upsert"}
Places  == {"idle", "load", "done", "failed"} \union Working
Disk(p) == conf[p]["DATABASE_PATH"]
Serving == at["service"] = "serve"

\* The database may be new, or of any earlier version of the program.
Init0 ==
  /\ setup \in [Procs -> UNION {Setups[p] : p \in Procs}]
  /\ \A p \in Procs : setup[p] \in Setups[p]
  /\ at = [p \in Procs |-> "idle"]
  /\ conf = [p \in Procs |-> NoValues]
  /\ next = [p \in Procs |-> 1] /\ ready = [p \in Procs |-> FALSE]
  /\ \E v \in [Disks -> 0..Latest] :
       /\ recorded = [d \in Disks |-> 1..v[d]]
       /\ applied = [d \in Disks |-> 1..v[d]]
  /\ admins = {} /\ trouble \in 0..MaxTrouble

Goes(p, place) == at' = [at EXCEPT ![p] = place]

\* A process that has ended remembers nothing.
Ends(p, place) ==
  /\ Goes(p, place) /\ conf' = [conf EXCEPT ![p] = NoValues]
  /\ next' = [next EXCEPT ![p] = 1] /\ ready' = [ready EXCEPT ![p] = FALSE]

Trouble == trouble < MaxTrouble /\ trouble' = trouble + 1

-----------------------------------------------------------------------------
(* A process starts.                                                       *)

Launch(p) ==
  /\ at[p] = "idle" /\ Goes(p, "load")
  /\ UNCHANGED <<setup, conf, next, ready, file, trouble>>

\* config::load: without a configuration the process ends.
LoadConfig(p) ==
  /\ at[p] = "load"
  /\ IF Loads(Found[setup[p]])
     THEN conf' = [conf EXCEPT ![p] = Load(Found[setup[p]]).conf] /\ Goes(p, "connect")
          /\ UNCHANGED <<next, ready>>
     ELSE Ends(p, "failed")
  /\ UNCHANGED <<setup, file, trouble>>

\* Db::connect creates the file if need be; schema_ready is false.
Connect(p) ==
  /\ at[p] = "connect" /\ Goes(p, "migrations")
  /\ ready' = [ready EXCEPT ![p] = FALSE]
  /\ UNCHANGED <<setup, conf, next, file, trouble>>

\* Mutant: a database with a schema is taken to be up to date.
ReadVersionSomeIsAll(p) ==
  /\ at[p] = "migrations" /\ Goes(p, "migrate")
  /\ next' = [next EXCEPT ![p] = IF recorded[Disk(p)] = {} THEN 1 ELSE Latest + 1]
  /\ UNCHANGED <<setup, conf, ready, file, trouble>>

\* Mutant: all migrations are tried again.
ReadVersionNone(p) ==
  /\ at[p] = "migrations" /\ Goes(p, "migrate")
  /\ next' = [next EXCEPT ![p] = 1]
  /\ UNCHANGED <<setup, conf, ready, file, trouble>>

\* run_migrations creates its own table and reads MAX(version); what is not
\* above it is skipped.
ReadVersion(p) ==
  /\ at[p] = "migrations" /\ Goes(p, "migrate")
  /\ \E max \in 0..Latest :
       /\ max = 0 \/ max \in recorded[Disk(p)]
       /\ \A v \in recorded[Disk(p)] : v <= max
       /\ next' = [next EXCEPT ![p] = max + 1]
  /\ UNCHANGED <<setup, conf, ready, file, trouble>>

\* Mutant: the script and its record are not one transaction.
MigrateInParts(p) ==
  LET v == next[p]  d == Disk(p) IN
  /\ at[p] = "migrate" /\ v <= Latest
  /\ IF v \in recorded[d]
     THEN Ends(p, "failed") /\ UNCHANGED <<recorded, applied>>
     ELSE /\ applied' = [applied EXCEPT ![d] = @ \union {v}]
          /\ IF v \in applied[d]
             THEN /\ recorded' = [recorded EXCEPT ![d] = @ \union {v}]
                  /\ next' = [next EXCEPT ![p] = v + 1]
             ELSE UNCHANGED <<recorded, next>>
          /\ UNCHANGED <<at, conf, ready>>
  /\ UNCHANGED <<setup, admins, trouble>>

\* One migration with its record, in one transaction. When another process has
\* been faster the record is a duplicate: nothing is kept and the process ends.
Migrate(p) ==
  LET v == next[p]  d == Disk(p) IN
  /\ at[p] = "migrate" /\ v <= Latest
  /\ IF v \in recorded[d]
     THEN Ends(p, "failed") /\ UNCHANGED <<recorded, applied>>
     ELSE /\ recorded' = [recorded EXCEPT ![d] = @ \union {v}]
          /\ applied' = [applied EXCEPT ![d] = @ \union {v}]
          /\ next' = [next EXCEPT ![p] = v + 1]
          /\ UNCHANGED <<at, conf, ready>>
  /\ UNCHANGED <<setup, admins, trouble>>

\* All migrations are in: what asks ensure_ready may go on.
SchemaReady(p) ==
  /\ at[p] = "migrate" /\ next[p] > Latest
  /\ ready' = [ready EXCEPT ![p] = TRUE]
  /\ Goes(p, IF p = "service" THEN "bind" ELSE "upsert")
  /\ UNCHANGED <<setup, conf, next, file, trouble>>

\* run: the tasks are spawned, the listener is bound and the server answers.
Bind ==
  /\ at["service"] = "bind" /\ Goes("service", "serve")
  /\ UNCHANGED <<setup, conf, next, ready, file, trouble>>

\* create_admin, with a password: the row is created, or its password reset.
UpsertAdmin ==
  /\ at["tool"] = "upsert" /\ ready["tool"]
  /\ admins' = admins \union {Disk("tool")} /\ Ends("tool", "done")
  /\ UNCHANGED <<setup, recorded, applied, trouble>>

\* Any step after the configuration may return an error, and main exits; or the
\* process is killed. What it had not committed is gone.
Fail(p) ==
  /\ at[p] \notin {"idle", "failed", "done"} /\ Trouble /\ Ends(p, "failed")
  /\ UNCHANGED <<setup, file>>

\* Restart=on-failure.
Restart ==
  /\ at["service"] = "failed" /\ Goes("service", "load")
  /\ UNCHANGED <<setup, conf, next, ready, file, trouble>>

\* Whoever runs the tool tries again, too.
RunAgain ==
  /\ at["tool"] \in {"failed", "done"} /\ Trouble /\ Goes("tool", "load")
  /\ UNCHANGED <<setup, conf, next, ready, file>>

\* The file or the environment is changed; processes that run do not see it.
Edit(p) ==
  /\ Trouble /\ \E s \in Setups[p] : setup' = [setup EXCEPT ![p] = s]
  /\ UNCHANGED <<process, file>>

Step(p) ==
  \/ LoadConfig(p) \/ Connect(p) \/ ReadVersion(p) \/ Migrate(p)
  \/ SchemaReady(p)

StartupNext ==
  \/ \E p \in Procs : Launch(p) \/ Step(p) \/ Fail(p) \/ Edit(p)
  \/ Bind \/ UpsertAdmin \/ Restart \/ RunAgain

StartupSpec == Init0 /\ [][StartupNext]_startupVars

-----------------------------------------------------------------------------
(* Properties.                                                             *)

\* The type invariant.
StartupTypeOK ==
  /\ \A p \in Procs : setup[p] \in Setups[p]
  /\ at \in [Procs -> Places]
  /\ \A p \in Procs : at[p] \in Working => Disk(p) \in Disks
  /\ next \in [Procs -> 1..(Latest + 1)] /\ ready \in [Procs -> BOOLEAN]
  /\ recorded \in [Disks -> SUBSET Version]
  /\ applied \in [Disks -> SUBSET Version]
  /\ admins \subseteq Disks /\ trouble \in 0..MaxTrouble

\* The record of the schema is true, whoever migrated it, together with whom,
\* and wherever they were stopped: the versions recorded are the scripts that
\* took effect, the first ones without a gap (run_migrations).
SchemaAsRecorded == \A d \in Disks :
  /\ applied[d] = recorded[d]
  /\ \A v \in recorded[d] : 1..v \subseteq recorded[d]

\* Whoever gets past ensure_ready, and whoever is served, finds every table and
\* index in place, with another process at work on the same file too
\* (run_migrations, ensure_ready, run).
ReadyMeansComplete == \A p \in Procs :
  /\ at[p] \in {"bind", "serve", "upsert"} => ready[p]
  /\ ready[p] => applied[Disk(p)] = Version

\* With a configuration that loads the service comes up in the end, unless the
\* configuration is changed: neither a lost race for a migration nor a crash
\* in the middle of one keeps it down (run, Restart=on-failure).
ComesUp == Loads(Found[setup["service"]]) /\ at["service"] = "failed"
             ~> Serving \/ ~Loads(Found[setup["service"]])
=============================================================================
