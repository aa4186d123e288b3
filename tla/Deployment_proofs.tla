-------------------------- MODULE Deployment_proofs -------------------------
(***************************************************************************)
(* Theorems about Deployment, for any addresses, names, number of probes   *)
(* and bounds: what is registered and alive is the service, and it accepts *)
(* no message it cannot keep.                                              *)
(***************************************************************************)
EXTENDS Deployment, TLAPS

-----------------------------------------------------------------------------
(* Types                                                                   *)

LEMMA InitTypes == DInit => DTypeOK
<1> SUFFICES ASSUME DInit PROVE DTypeOK
  OBVIOUS
<1>1. CountsOK
  BY DeploymentAssumption DEF DInit, CountsOK
<1>2. StatesOK
  BY DEF DInit, StatesOK
<1>3. FlagsOK
  BY DEF DInit, FlagsOK
<1>4. ConnIsSet
  BY DEF DInit, ConnIsSet
<1> QED
  BY <1>1, <1>2, <1>3, <1>4 DEF DTypeOK

\* A step that leaves the counters alone.
LEMMA CountsStay ==
  ASSUME CountsOK, UNCHANGED <<failures, health, tables, bounds>> PROVE CountsOK'
  BY DEF CountsOK, bounds

\* A step of the containers.
LEMMA ContainersTypes ==
  ASSUME DTypeOK, Containers PROVE DTypeOK'
<1> USE DEF given, process, call, machines, bounds
<1>1. CountsOK'
  <2>1. CASE Probe
    BY <2>1, DeploymentAssumption DEF Probe, DTypeOK, CountsOK
  <2>2. CASE DbStep \/ EtcdStep \/ StartRpc \/ StartHttp
    BY <2>2, CountsStay DEF DbStep, EtcdStep, StartRpc, StartHttp, DTypeOK
  <2> QED
    BY <2>1, <2>2 DEF Containers
<1>2. StatesOK'
  <2>1. CASE DbStep
    BY <2>1 DEF DbStep, DTypeOK, StatesOK
  <2>2. CASE Probe
    BY <2>2 DEF Probe, DTypeOK, StatesOK
  <2>3. CASE EtcdStep
    BY <2>3 DEF EtcdStep, DTypeOK, StatesOK
  <2>4. CASE StartRpc
    BY <2>4 DEF StartRpc, DTypeOK, StatesOK, Running
  <2>5. CASE StartHttp
    BY <2>5 DEF StartHttp, DTypeOK, StatesOK
  <2> QED
    BY <2>1, <2>2, <2>3, <2>4, <2>5 DEF Containers
<1>3. FlagsOK'
  BY DEF Containers, DbStep, Probe, EtcdStep, StartRpc, StartHttp, DTypeOK, FlagsOK
<1>4. ConnIsSet'
  BY DEF Containers, DbStep, Probe, EtcdStep, StartRpc, StartHttp, DTypeOK, ConnIsSet
<1> QED
  BY <1>1, <1>2, <1>3, <1>4 DEF DTypeOK

\* The end of a process, a new one, and the steps in between.
LEMMA ExitTypes ==
  ASSUME DTypeOK, NEW s \in {0, 2}, Exit(s), UNCHANGED <<given, machines, tables>>
  PROVE  StatesOK' /\ FlagsOK' /\ ConnIsSet'
<1> USE DEF DTypeOK, Exit, BrokenOff, given, machines
<1>1. StatesOK'
  BY DEF StatesOK
<1>2. FlagsOK'
  BY DEF FlagsOK
<1>3. ConnIsSet'
  BY DEF ConnIsSet
<1> QED
  BY <1>1, <1>2, <1>3

LEMMA MainTypes ==
  ASSUME DTypeOK, Main PROVE DTypeOK'
<1> USE DEF given, machines, call, bounds, process
<1>1. CASE Connect
  <2>1. CountsOK'
    BY <1>1, CountsStay DEF Connect, DTypeOK
  <2>2. CASE CanConnect
    <3>1. StatesOK'
      BY <1>1, <2>2 DEF Connect, Goes, DTypeOK, StatesOK, Running
    <3>2. FlagsOK' /\ ConnIsSet'
      BY <1>1, <2>2 DEF Connect, Goes, DTypeOK, FlagsOK, ConnIsSet
    <3> QED
      BY <2>1, <3>1, <3>2 DEF DTypeOK
  <2>3. CASE ~ CanConnect
    BY <1>1, <2>1, <2>3, ExitTypes DEF Connect, DTypeOK
  <2> QED
    BY <2>2, <2>3
<1>2. CASE Migrate
  <2>1. CountsOK'
    BY <1>2 DEF Migrate, Connected, DTypeOK, CountsOK
  <2>2. StatesOK'
    BY <1>2 DEF Migrate, Connected, DTypeOK, StatesOK, Running
  <2>3. FlagsOK'
    BY <1>2 DEF Migrate, Connected, DTypeOK, FlagsOK
  <2>4. ConnIsSet'
    BY <1>2 DEF Migrate, Connected, DTypeOK, ConnIsSet
  <2> QED
    BY <2>1, <2>2, <2>3, <2>4 DEF DTypeOK
<1>3. CASE Resolve
  <2>1. CountsOK'
    BY <1>3, CountsStay DEF Resolve, DTypeOK
  <2>2. CASE addr \in LocalAddresses
    BY <1>3, <2>1, <2>2, ExitTypes DEF Resolve, DTypeOK
  <2>3. CASE addr \notin LocalAddresses
    <3>1. StatesOK'
      BY <1>3, <2>3 DEF Resolve, Goes, DTypeOK, StatesOK, Running
    <3>2. FlagsOK' /\ ConnIsSet'
      BY <1>3, <2>3 DEF Resolve, Goes, DTypeOK, FlagsOK, ConnIsSet
    <3> QED
      BY <2>1, <3>1, <3>2 DEF DTypeOK
  <2> QED
    BY <2>2, <2>3
<1>4. CASE Register
  <2>1. CountsOK'
    BY <1>4, CountsStay DEF Register, DTypeOK
  <2>2. StatesOK'
    BY <1>4 DEF Register, DTypeOK, StatesOK, Running
  <2>3. FlagsOK' /\ ConnIsSet'
    BY <1>4 DEF Register, DTypeOK, FlagsOK, ConnIsSet
  <2> QED
    BY <2>1, <2>2, <2>3 DEF DTypeOK
<1> QED
  BY <1>1, <1>2, <1>3, <1>4 DEF Main

LEMMA FaultTypes ==
  ASSUME DTypeOK, MigrationFails \/ RegistrationFails \/ Crash PROVE DTypeOK'
<1> USE DEF given, machines, call, bounds, process
<1>1. CASE MigrationFails
  <2>1. CountsOK'
    BY <1>1, DeploymentAssumption DEF MigrationFails, Connected, DTypeOK, CountsOK
  <2>2. StatesOK'
    BY <1>1 DEF MigrationFails, Connected, DTypeOK, StatesOK, Running
  <2>3. FlagsOK' /\ ConnIsSet'
    BY <1>1 DEF MigrationFails, Connected, DTypeOK, FlagsOK, ConnIsSet
  <2> QED
    BY <2>1, <2>2, <2>3 DEF DTypeOK
<1>2. CASE RegistrationFails
  <2>1. CountsOK'
    BY <1>2, DeploymentAssumption DEF RegistrationFails, DTypeOK, CountsOK
  <2> QED
    BY <1>2, <2>1, ExitTypes DEF RegistrationFails, DTypeOK
<1>3. CASE Crash
  <2>1. CountsOK'
    BY <1>3, DeploymentAssumption DEF Crash, DTypeOK, CountsOK
  <2> QED
    BY <1>3, <2>1, ExitTypes DEF Crash, DTypeOK
<1> QED
  BY <1>1, <1>2, <1>3

LEMMA OtherTypes ==
  ASSUME DTypeOK, Restart \/ LeaseEnds \/ Send PROVE DTypeOK'
<1> USE DEF given, machines, call, bounds, process
<1>1. CountsOK'
  BY CountsStay DEF Restart, Again, LeaseEnds, Send, DTypeOK
<1>2. StatesOK'
  <2>1. CASE Restart
    BY <2>1 DEF Restart, Again, DTypeOK, StatesOK, Running, Hosts
  <2>2. CASE LeaseEnds
    BY <2>2 DEF LeaseEnds, DTypeOK, StatesOK
  <2>3. CASE Send
    <3>1. /\ told' \in {"new", "ok", "failed"}
          /\ tx' \in {"none", "create", "delete", "commit", "answer"}
          /\ pending' \subseteq Effects /\ kept' \subseteq Effects
      BY <2>3
      DEF Send, SendArrives, SendUnserved, SendCreate, SendDelete, SendFails, SendCommit,
          SendAnswered, Effects, DTypeOK, StatesOK
    <3> QED
      BY <2>3, <3>1 DEF Send, DTypeOK, StatesOK
  <2> QED
    BY <2>1, <2>2, <2>3
<1>3. FlagsOK'
  <2>1. CASE Restart
    BY <2>1 DEF Restart, Again, DTypeOK, FlagsOK
  <2>2. CASE LeaseEnds
    BY <2>2 DEF LeaseEnds, DTypeOK, FlagsOK
  <2>3. CASE Send
    BY <2>3 DEF Send, DTypeOK, FlagsOK
  <2> QED
    BY <2>1, <2>2, <2>3
<1>4. ConnIsSet'
  BY DEF Restart, Again, LeaseEnds, Send, DTypeOK, ConnIsSet
<1> QED
  BY <1>1, <1>2, <1>3, <1>4 DEF DTypeOK

(***************************************************************************)
(* The variables have their types and databaseConn is set while requests   *)
(* are served.                                                             *)
(***************************************************************************)
THEOREM DeploymentTypes == DSpec => []DTypeOK
<1>1. ASSUME DTypeOK, UNCHANGED dvars PROVE DTypeOK'
  BY <1>1
  DEF dvars, given, machines, process, call, bounds, DTypeOK, CountsOK, StatesOK, FlagsOK,
      ConnIsSet
<1>2. ASSUME DTypeOK, [DNext]_dvars PROVE DTypeOK'
  BY <1>1, <1>2, ContainersTypes, MainTypes, FaultTypes, OtherTypes DEF DNext
<1> QED
  BY <1>2, InitTypes, PTL DEF DSpec

-----------------------------------------------------------------------------
(* Registration                                                            *)

\* From InitDatabase on, the settings are those of a database that answers.
OnceConnected ==
  pc \in {"migrating", "resolving", "listening", "serving"} => CanConnect

\* From the checks of main on, the address is one others can call.
OnceResolved == pc \in {"listening", "serving"} => addr \notin LocalAddresses

\* Only the process that serves keeps a registration alive, its own.
OneAlive == \A a \in Hosts : registered[a] = "live" => Reached(a)

ReachInv == OnceConnected /\ OnceResolved /\ OneAlive

LEMMA CanConnectStays ==
  ASSUME CanConnect, db' = db, UNCHANGED given PROVE CanConnect'
  BY DEF CanConnect, Settings, Provided, OrDefault, given

LEMMA ExitReach ==
  ASSUME DTypeOK, NEW s, Exit(s) PROVE ReachInv'
  BY DEF DTypeOK, StatesOK, Exit, ReachInv, OnceConnected, OnceResolved, OneAlive, Reached

LEMMA ReachStep ==
  ASSUME DTypeOK, ReachInv, [DNext]_dvars PROVE ReachInv'
<1> USE DEF given, machines, process, call, bounds
<1>1. CASE Containers
  <2>1. OnceConnected'
    <3>1. CASE DbStep
      BY <3>1 DEF DbStep, ReachInv, OnceConnected, CanConnect
    <3>2. CASE Probe \/ EtcdStep \/ StartHttp
      BY <3>2, CanConnectStays DEF Probe, EtcdStep, StartHttp, ReachInv, OnceConnected
    <3>3. CASE StartRpc
      BY <3>3 DEF StartRpc, OnceConnected
    <3> QED
      BY <1>1, <3>1, <3>2, <3>3 DEF Containers
  <2>2. OnceResolved'
    BY <1>1 DEF Containers, DbStep, Probe, EtcdStep, StartRpc, StartHttp, ReachInv, OnceResolved
  <2>3. OneAlive'
    BY <1>1
    DEF Containers, DbStep, Probe, EtcdStep, StartRpc, StartHttp, ReachInv, OneAlive, Reached
  <2> QED
    BY <2>1, <2>2, <2>3 DEF ReachInv
<1>2. CASE Connect
  <2>1. CASE CanConnect
    <3>1. CanConnect'
      BY <1>2, <2>1, CanConnectStays DEF Connect
    <3> QED
      BY <1>2, <2>1, <3>1
      DEF Connect, Goes, ReachInv, OnceConnected, OnceResolved, OneAlive, Reached
  <2>2. CASE ~ CanConnect
    BY <1>2, <2>2, ExitReach DEF Connect
  <2> QED
    BY <2>1, <2>2
<1>3. CASE Migrate \/ MigrationFails
  <2>1. CanConnect'
    BY <1>3, CanConnectStays DEF Migrate, MigrationFails, ReachInv, OnceConnected
  <2> QED
    BY <1>3, <2>1
    DEF Migrate, MigrationFails, Connected, ReachInv, OnceConnected, OnceResolved, OneAlive,
        Reached
<1>4. CASE Resolve
  <2>1. CASE addr \in LocalAddresses
    BY <1>4, <2>1, ExitReach DEF Resolve
  <2>2. CASE addr \notin LocalAddresses
    <3>1. CanConnect'
      BY <1>4, CanConnectStays DEF Resolve, ReachInv, OnceConnected
    <3> QED
      BY <1>4, <2>2, <3>1
      DEF Resolve, Goes, ReachInv, OnceConnected, OnceResolved, OneAlive, Reached
  <2> QED
    BY <2>1, <2>2
<1>5. CASE Register
  <2>1. CanConnect'
    BY <1>5, CanConnectStays DEF Register, ReachInv, OnceConnected
  <2>2. OneAlive'
    BY <1>5 DEF Register, DTypeOK, StatesOK, ReachInv, OneAlive, Reached
  <2> QED
    BY <1>5, <2>1, <2>2 DEF Register, ReachInv, OnceConnected, OnceResolved
<1>6. CASE RegistrationFails \/ Crash
  BY <1>6, ExitReach DEF RegistrationFails, Crash
<1>7. CASE Restart
  BY <1>7 DEF Restart, Again, ReachInv, OnceConnected, OnceResolved, OneAlive, Reached
<1>8. CASE LeaseEnds \/ Send \/ UNCHANGED dvars
  <2>1. OnceConnected'
    BY <1>8, CanConnectStays DEF LeaseEnds, Send, dvars, ReachInv, OnceConnected
  <2>2. OnceResolved'
    BY <1>8 DEF LeaseEnds, Send, dvars, ReachInv, OnceResolved
  <2>3. OneAlive'
    BY <1>8 DEF LeaseEnds, Send, dvars, DTypeOK, StatesOK, ReachInv, OneAlive, Reached
  <2> QED
    BY <2>1, <2>2, <2>3 DEF ReachInv
<1> QED
  BY <1>1, <1>2, <1>3, <1>4, <1>5, <1>6, <1>7, <1>8 DEF DNext, Main

(***************************************************************************)
(* A registration that is kept alive leads to the service, connected to    *)
(* its database, at an address that is not the caller's own.               *)
(***************************************************************************)
THEOREM RegistrationReaches == DSpec => []RegisteredReaches
<1>1. DInit => ReachInv
  BY DEF DInit, ReachInv, OnceConnected, OnceResolved, OneAlive, Reached
<1>2. DTypeOK /\ ReachInv => RegisteredReaches
  BY DEF DTypeOK, ConnIsSet, ReachInv, OnceConnected, OnceResolved, OneAlive, Reached,
         CanConnect, RegisteredReaches
<1>3. DTypeOK /\ ReachInv /\ [DNext]_dvars => ReachInv'
  BY ReachStep
<1> QED
  BY <1>1, <1>2, <1>3, DeploymentTypes, PTL DEF DSpec

-----------------------------------------------------------------------------
(* The effects of a send                                                   *)

\* What the transaction has done and left at each of its steps.
TxInv ==
  /\ pending = CASE tx = "delete" -> {"row"} [] tx = "commit" -> Effects [] OTHER -> {}
  /\ tx = "commit" => tables = 2
  /\ tx = "answer" => kept = Effects
  /\ WholeOrNothing

LEMMA TxSend ==
  ASSUME DTypeOK, TxInv, Send PROVE TxInv'
<1> USE DEF TxInv, WholeOrNothing, Effects
<1>1. tables' = tables
  BY DEF Send
<1>2. CASE SendArrives \/ SendUnserved
  BY <1>1, <1>2 DEF SendArrives, SendUnserved
<1>3. CASE SendCreate
  BY <1>1, <1>3 DEF SendCreate
<1>4. CASE SendDelete
  BY <1>1, <1>4 DEF SendDelete
<1>5. CASE SendFails
  BY <1>1, <1>5 DEF SendFails
<1>6. CASE SendCommit
  <2>1. kept' = Effects
    BY <1>6 DEF SendCommit, DTypeOK, StatesOK
  <2> QED
    BY <1>1, <1>6, <2>1 DEF SendCommit
<1>7. CASE SendAnswered
  BY <1>1, <1>7 DEF SendAnswered
<1> QED
  BY <1>2, <1>3, <1>4, <1>5, <1>6, <1>7 DEF Send

\* The process goes on or ends; tables are only ever added.
LEMMA TxMain ==
  ASSUME DTypeOK, TxInv, BrokenOff \/ UNCHANGED call,
         tables' = tables \/ (tables < 2 /\ tables' = tables + 1)
  PROVE  TxInv'
<1> USE DEF TxInv, WholeOrNothing, Effects
<1>1. tables = 2 => tables' = 2
  OBVIOUS
<1>2. CASE BrokenOff
  BY <1>1, <1>2 DEF BrokenOff
<1>3. CASE UNCHANGED call
  BY <1>1, <1>3 DEF call
<1> QED
  BY <1>2, <1>3

(***************************************************************************)
(* A send takes effect as a whole or not at all, with whatever tables its  *)
(* service has and wherever it dies, and success is told of whole ones.    *)
(***************************************************************************)
THEOREM SendsAreWhole == DSpec => []WholeOrNothing
<1>1. DInit => TxInv
  BY DEF DInit, TxInv, WholeOrNothing
<1>2. ASSUME DTypeOK, TxInv, [DNext]_dvars PROVE TxInv'
  <2>1. CASE Send
    BY <1>2, <2>1, TxSend
  <2>2. ASSUME ~ Send
        PROVE  /\ BrokenOff \/ UNCHANGED call
               /\ tables' = tables \/ (tables < 2 /\ tables' = tables + 1)
    BY <1>2, <2>2
    DEF DNext, Containers, Main, DbStep, Probe, EtcdStep, StartRpc, StartHttp, Connect, Migrate,
        Resolve, Register, Restart, Again, LeaseEnds, MigrationFails, RegistrationFails, Crash,
        Goes, Exit, dvars
  <2> QED
    BY <1>2, <2>1, <2>2, TxMain
<1>3. TxInv => WholeOrNothing
  BY DEF TxInv
<1> QED
  BY <1>1, <1>2, <1>3, DeploymentTypes, PTL DEF DSpec

=============================================================================
