----------------------------- MODULE Deployment -----------------------------
(***************************************************************************)
(* The containers of docker-compose.yml from "docker-compose up" on, and   *)
(* main of rpc-server step by step: connect, migrate, resolve the own      *)
(* address, listen, register.  Docker, the postgres image and etcd are     *)
(* external.  What a handler does once it is served is IMService.          *)
(***************************************************************************)
EXTENDS Naturals

CONSTANTS
  Addresses,       \* what the network may give the container of rpc-server
  LocalAddresses,  \* loopback and unspecified addresses
  Names,           \* values the user may give POSTGRES_DB
  Unset,           \* POSTGRES_DB is not set
  Retries,         \* failed probes until the database is unhealthy (3)
  MaxCrashes,      \* bound: crashes of rpc-server
  MaxFaults        \* bound: migrations and registrations that fail for no reason here

ASSUME DeploymentAssumption ==
  /\ Unset \notin Names
  /\ Addresses \intersect LocalAddresses = {}
  /\ Retries \in Nat \ {0} /\ MaxCrashes \in Nat /\ MaxFaults \in Nat

VARIABLES
  shell,     \* POSTGRES_DB in the environment of docker-compose
  fresh,     \* db_data is empty: the image initialises the database
  db,        \* "down", "init", "restarting", "ready"
  failures,  \* failed health probes in a row
  health,    \* "starting", "healthy", "unhealthy"
  etcd,      \* "created", "started", "ready"
  http,      \* the HTTP server is started
  pc,        \* where main of rpc-server stands
  status,    \* the exit status of the last process of rpc-server
  addr,      \* what the hostname of the container resolves to
  conn,      \* databaseConn is set and works
  tables,    \* how many of chat_messages, chat_cursor_caches exist, in this order
  unmigrated,   \* the migration of this process failed
  registered,   \* registered[a]: "no", "live", or "orphan" until its lease ends
  told,      \* what the user of one send knows: "new", "ok", "failed"
  tx,        \* the statement its handler runs next, "none" without a handler
  pending,   \* what its transaction has done and not committed
  kept,      \* what of it is in the database for good
  crashes, faults

machines == <<db, failures, health, etcd, http>>
process  == <<pc, status, addr, conn, unmigrated>>
call     == <<told, tx, pending, kept>>
given    == <<shell, fresh>>
bounds   == <<crashes, faults>>
dvars    == <<given, machines, process, tables, registered, call, bounds>>

Hosts == Addresses \union LocalAddresses

Running == {"connecting", "migrating", "resolving", "listening", "serving"}

-----------------------------------------------------------------------------
(* The settings                                                            *)

\* ${VARIABLE:-default}, and the defaults of constructDatabaseURL.
OrDefault(value, default) == IF value = Unset THEN default ELSE value

\* Variant: each setting has a variable of its own, which nobody sets.
OwnSettings ==
  [name |-> OrDefault(shell, "imservice"), host |-> "db", port |-> "5432"]

\* As in docker-compose.yml: the name of the database is also host and port.
Settings ==
  [name |-> OrDefault(shell, "imservice"),
   host |-> OrDefault(shell, "db"),
   port |-> OrDefault(shell, "5432")]

\* The database the db container makes, where it can be reached.
Provided == [name |-> OrDefault(shell, "imservice"), host |-> "db", port |-> "5432"]

-----------------------------------------------------------------------------
DInit ==
  /\ shell \in Names \union {Unset}
  /\ fresh \in BOOLEAN
  /\ db = "down" /\ failures = 0 /\ health = "starting"
  /\ etcd = "created" /\ http = FALSE
  /\ pc = "none" /\ status = 0 /\ addr \in Hosts
  /\ conn = FALSE /\ unmigrated = FALSE
  /\ tables \in 0 .. 2 /\ (fresh => tables = 0)
  /\ registered = [a \in Hosts |-> "no"]
  /\ told = "new" /\ tx = "none" /\ pending = {} /\ kept = {}
  /\ crashes = 0 /\ faults = 0

(***************************************************************************)
(* The postgres image.  An empty volume is initialised with a server that  *)
(* listens on its socket only; it is stopped before the real one starts.   *)
(***************************************************************************)
DbStep ==
  /\ \/ db = "down" /\ db' = (IF fresh THEN "init" ELSE "ready")
     \/ db = "init" /\ db' = "restarting"
     \/ db = "restarting" /\ db' = "ready"
  /\ UNCHANGED <<given, failures, health, etcd, http, process, tables, registered, call, bounds>>

\* pg_isready in the container, on the socket.
Probe ==
  /\ health = "starting"
  /\ IF db \in {"init", "ready"}
     THEN health' = "healthy" /\ failures' = 0
     ELSE /\ failures' = failures + 1
          /\ health' = IF failures' = Retries THEN "unhealthy" ELSE health
  /\ UNCHANGED <<given, db, etcd, http, process, tables, registered, call, bounds>>

EtcdStep ==
  /\ \/ etcd = "created" /\ etcd' = "started"
     \/ etcd = "started" /\ etcd' = "ready"
  /\ UNCHANGED <<given, db, failures, health, http, process, tables, registered, call, bounds>>

\* depends_on of rpc-server.
StartRpc ==
  /\ pc = "none"
  /\ etcd # "created" /\ health = "healthy"
  /\ pc' = "connecting"
  /\ UNCHANGED <<given, machines, status, addr, conn, unmigrated, tables, registered, call, bounds>>

\* depends_on of http-server.  Its client connects to nothing yet.
StartHttp ==
  /\ ~ http
  /\ etcd # "created" /\ pc # "none"
  /\ http' = TRUE
  /\ UNCHANGED <<given, db, failures, health, etcd, process, tables, registered, call, bounds>>

-----------------------------------------------------------------------------
(* main of rpc-server                                                      *)

\* The send a handler is at work for breaks off, its transaction rolls back.
BrokenOff ==
  /\ tx' = "none" /\ pending' = {}
  /\ told' = IF tx = "none" THEN told ELSE "failed"
  /\ kept' = kept

\* The process ends.  Nobody keeps its registration alive any longer.
Exit(s) ==
  /\ BrokenOff
  /\ pc' = "exited" /\ status' = s
  /\ conn' = FALSE
  /\ registered' = [a \in Hosts |-> IF registered[a] = "live" THEN "orphan"
                                    ELSE registered[a]]
  /\ UNCHANGED <<addr, unmigrated>>

Goes(to) == pc' = to /\ UNCHANGED <<status, addr, conn, unmigrated, registered, call>>

CanConnect == Settings = Provided /\ db = "ready"

\* gorm.Open pings the database; log.Panicf if it does not answer.
Connect ==
  /\ pc = "connecting"
  /\ IF CanConnect THEN Goes("migrating") ELSE Exit(2)
  /\ UNCHANGED <<given, machines, tables, bounds>>

\* databaseConn = db
Connected == pc' = "resolving" /\ conn' = TRUE /\ UNCHANGED <<status, addr, registered>>

\* AutoMigrate, one table after the other.
Migrate ==
  /\ pc = "migrating"
  /\ \/ /\ tables < 2
        /\ tables' = tables + 1
        /\ UNCHANGED <<process, registered>>
     \/ /\ tables = 2
        /\ Connected
        /\ UNCHANGED <<tables, unmigrated>>
  /\ UNCHANGED <<given, machines, call, bounds>>

\* Variant: InitDatabase returns once it has logged the error.
MigrationReturns ==
  /\ pc = "migrating"
  /\ faults < MaxFaults
  /\ faults' = faults + 1
  /\ Goes("resolving")
  /\ UNCHANGED <<given, machines, tables, crashes>>

\* The error is logged, and the service goes on with the tables there are.
MigrationFails ==
  /\ pc = "migrating"
  /\ faults < MaxFaults
  /\ faults' = faults + 1
  /\ Connected
  /\ unmigrated' = TRUE
  /\ UNCHANGED <<given, machines, tables, call, crashes>>

\* Variant: whatever the hostname resolves to is registered.
ResolveAny ==
  /\ pc = "resolving"
  /\ Goes("listening")
  /\ UNCHANGED <<given, machines, tables, bounds>>

\* The address others will call: not one that means the caller's own machine.
Resolve ==
  /\ pc = "resolving"
  /\ IF addr \in LocalAddresses THEN Exit(2) ELSE Goes("listening")
  /\ UNCHANGED <<given, machines, tables, bounds>>

Register ==
  /\ pc = "listening"
  /\ etcd = "ready"
  /\ pc' = "serving"
  /\ registered' = [registered EXCEPT ![addr] = "live"]
  /\ UNCHANGED <<given, machines, status, addr, conn, unmigrated, tables, call, bounds>>

\* svr.Run returns the error, main logs it and returns: status 0.
RegistrationFails ==
  /\ pc = "listening"
  /\ IF etcd = "ready" THEN faults < MaxFaults /\ faults' = faults + 1
                       ELSE faults' = faults
  /\ Exit(0)
  /\ UNCHANGED <<given, machines, tables, crashes>>

Crash ==
  /\ pc \in Running
  /\ crashes < MaxCrashes
  /\ crashes' = crashes + 1
  /\ Exit(2)
  /\ UNCHANGED <<given, machines, tables, faults>>

-----------------------------------------------------------------------------
\* A new process in the container, which may get another address.
Again ==
  /\ pc' = "connecting"
  /\ unmigrated' = FALSE
  /\ IF addr \in LocalAddresses THEN addr' = addr ELSE addr' \in Addresses
  /\ UNCHANGED <<given, machines, status, conn, tables, registered, call, bounds>>

\* Variant: restart: on-failure
RestartOnFailure == pc = "exited" /\ status # 0 /\ Again

\* restart: unless-stopped
Restart == pc = "exited" /\ Again

LeaseEnds ==
  /\ \E a \in Hosts :
       registered[a] = "orphan" /\ registered' = [registered EXCEPT ![a] = "no"]
  /\ UNCHANGED <<given, machines, process, tables, call, bounds>>

-----------------------------------------------------------------------------
(* One send, from the HTTP server through the transaction of Send to the   *)
(* tables.  Its answer comes in time unless the process ends: timeouts and *)
(* statements that fail for other reasons are in HttpGateway.              *)

\* The message is inserted, the reverse cursors of its chat are deleted.
Effects == {"row", "invalidation"}

Reached(a) == pc = "serving" /\ addr = a

\* The call finds the service; its handler opens the transaction.
SendArrives ==
  /\ http /\ told = "new" /\ tx = "none"
  /\ \E a \in Hosts : registered[a] # "no" /\ Reached(a) /\ conn
  /\ tx' = "create"
  /\ UNCHANGED <<told, pending, kept>>

\* The call finds no instance, or one that does not answer.
SendUnserved ==
  /\ http /\ told = "new" /\ tx = "none"
  /\ \/ \A a \in Hosts : registered[a] = "no"
     \/ \E a \in Hosts : registered[a] # "no" /\ ~ Reached(a)
  /\ told' = "failed"
  /\ UNCHANGED <<tx, pending, kept>>

\* Variant: Create is called on db instead of tx and commits by itself.
SendCreateAlone ==
  /\ tx = "create" /\ tables >= 1
  /\ tx' = "delete"
  /\ kept' = kept \union {"row"}
  /\ UNCHANGED <<told, pending>>

\* tx.Create needs the first table ...
SendCreate ==
  /\ tx = "create" /\ tables >= 1
  /\ tx' = "delete"
  /\ pending' = {"row"}
  /\ UNCHANGED <<told, kept>>

\* ... tx...Delete the second.
SendDelete ==
  /\ tx = "delete" /\ tables = 2
  /\ tx' = "commit"
  /\ pending' = pending \union {"invalidation"}
  /\ UNCHANGED <<told, kept>>

\* The table of a statement is not there: its error rolls all back, code -1.
SendFails ==
  /\ (tx = "create" /\ tables = 0) \/ (tx = "delete" /\ tables < 2)
  /\ tx' = "none" /\ pending' = {}
  /\ told' = "failed"
  /\ kept' = kept

SendCommit ==
  /\ tx = "commit"
  /\ tx' = "answer"
  /\ kept' = kept \union pending /\ pending' = {}
  /\ told' = told

SendAnswered ==
  /\ tx = "answer"
  /\ tx' = "none"
  /\ told' = "ok"
  /\ UNCHANGED <<pending, kept>>

Send ==
  /\ \/ SendArrives \/ SendUnserved \/ SendCreate \/ SendDelete
     \/ SendFails \/ SendCommit \/ SendAnswered
  /\ UNCHANGED <<given, machines, process, tables, registered, bounds>>

-----------------------------------------------------------------------------
Containers == DbStep \/ Probe \/ EtcdStep \/ StartRpc \/ StartHttp

Main == Connect \/ Migrate \/ Resolve \/ Register

DNext ==
  \/ Containers \/ Main \/ Restart \/ LeaseEnds \/ Send
  \/ MigrationFails \/ RegistrationFails \/ Crash

DSpec == DInit /\ [][DNext]_dvars

(***************************************************************************)
(* Docker starts what may start and restarts what its policy says, the     *)
(* images come up, etcd ends leases nobody renews, and main goes on.       *)
(* Nothing makes a process crash or a migration fail.                      *)
(***************************************************************************)
DFairness ==
  /\ WF_dvars(DbStep) /\ WF_dvars(Probe) /\ WF_dvars(EtcdStep)
  /\ WF_dvars(StartRpc) /\ WF_dvars(StartHttp)
  /\ WF_dvars(Main) /\ WF_dvars(Restart) /\ WF_dvars(LeaseEnds)

DFairSpec == DSpec /\ DFairness

-----------------------------------------------------------------------------
(* Properties                                                              *)

CountsOK ==
  /\ failures \in 0 .. Retries /\ tables \in 0 .. 2
  /\ health = "starting" => failures < Retries
  /\ crashes \in 0 .. MaxCrashes /\ faults \in 0 .. MaxFaults

StatesOK ==
  /\ shell \in Names \union {Unset} /\ addr \in Hosts
  /\ db \in {"down", "init", "restarting", "ready"}
  /\ health \in {"starting", "healthy", "unhealthy"}
  /\ etcd \in {"created", "started", "ready"}
  /\ pc \in Running \union {"none", "exited"} /\ status \in {0, 2}
  /\ registered \in [Hosts -> {"no", "live", "orphan"}]
  /\ told \in {"new", "ok", "failed"}
  /\ tx \in {"none", "create", "delete", "commit", "answer"}
  /\ pending \subseteq Effects /\ kept \subseteq Effects

FlagsOK ==
  /\ fresh \in BOOLEAN /\ http \in BOOLEAN /\ conn \in BOOLEAN
  /\ unmigrated \in BOOLEAN

\* InitDatabase has run.
ConnIsSet == conn <=> pc \in {"resolving", "listening", "serving"}

(***************************************************************************)
(* The variables have their types, and databaseConn is set from            *)
(* InitDatabase on for as long as the process lives, so that GetDatabase   *)
(* never panics in a handler (models.go:106).                              *)
(***************************************************************************)
DTypeOK == CountsOK /\ StatesOK /\ FlagsOK /\ ConnIsSet

(***************************************************************************)
(* A registration that is kept alive leads to the service: the process is  *)
(* there, at that address, connected to its database, and the address is   *)
(* not one that sends the HTTP server to itself.  Whatever crashes,        *)
(* address changes and failures came before.                               *)
(***************************************************************************)
RegisteredReaches ==
  \A a \in Hosts :
    registered[a] = "live" =>
      a \notin LocalAddresses /\ Reached(a) /\ conn /\ db = "ready" /\ Settings = Provided

(***************************************************************************)
(* A send takes effect as a whole or not at all, wherever in its           *)
(* transaction (handler.go:42) a table turns out to be missing because the *)
(* migration failed half way (models.go:66), or the process dies; and a    *)
(* sender is told of success only when both effects are there to stay.     *)
(***************************************************************************)
WholeOrNothing ==
  /\ kept # {} => kept = Effects /\ tables = 2
  /\ told = "ok" => kept = Effects

(***************************************************************************)
(* The whole comes up and stays: the HTTP server finds the service at its  *)
(* present address and nowhere else, and the service has its tables unless *)
(* its own migration failed, which nobody repairs.                         *)
(***************************************************************************)
Working ==
  /\ http /\ Reached(addr) /\ conn
  /\ registered[addr] = "live"
  /\ \A a \in Hosts \ {addr} : registered[a] = "no"
  /\ tables = 2 \/ unmigrated

ComesUp == <>[](health = "unhealthy" \/ Working)

(***************************************************************************)
(* After "docker-compose up" (README.md:25), with the defaults and an      *)
(* address on a network, the system works from some time on, although the  *)
(* health check may pass early, etcd may be late, main may exit with or    *)
(* without an error and a dead process stays registered for a while.  Only *)
(* a database that takes too long to answer stops it: then compose gives   *)
(* up.                                                                     *)
(***************************************************************************)
Up == shell = Unset /\ addr \in Addresses => ComesUp

(***************************************************************************)
(* The name of the database may be chosen: docker-compose.yml:13 and :37   *)
(* take it from POSTGRES_DB and have "imservice" as default only.          *)
(***************************************************************************)
UpWhateverName == addr \in Addresses => ComesUp

=============================================================================
