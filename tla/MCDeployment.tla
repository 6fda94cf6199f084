---------------------------- MODULE MCDeployment ----------------------------
(* Instance of the deployment for TLC: a behaviour is that of a container   *)
(* that boots, or of a database that is seeded while there is none.         *)
EXTENDS Seed

CONSTANTS MaxProbes, MaxRestarts, MaxOutages
VARIABLES step, proc, probes, missed, restarts, configured, database, outages

Boot == INSTANCE Boot
bootVars == <<step, proc, probes, missed, restarts, configured, database, outages>>

ASSUME DeploymentConstants == Boot!BootConstants /\ SeedConstants /\ FileIsPlausible

(* Without a container; with a database that nobody seeds. *)
BootRests ==
  /\ step = "off" /\ proc = [p \in Boot!Procs |-> "absent"]
  /\ probes = 0 /\ missed = {} /\ restarts = 0 /\ outages = 0
  /\ configured = FALSE /\ database = FALSE
SeedRests == guarded = {} /\ others = FALSE /\ SeedInit

Init ==
  \/ Boot!BootInit /\ SeedRests
  \/ BootRests /\ SeedInit

Next ==
  \/ step # "off" /\ Boot!BootNext /\ UNCHANGED seedVars
  \/ step = "off" /\ SeedNext /\ UNCHANGED bootVars

DeploySpec == Init /\ [][Next]_<<bootVars, seedVars>> /\ Boot!BootFairness

-----------------------------------------------------------------------------
(* Every variable of either has its type. *)
DeployTypeOK == (step = "off" \/ Boot!BootTypeOK) /\ SeedTypeOK

(* SettlesDown of Boot, of a container. *)
ContainerSettles == step = "off" \/ Boot!SettlesDown
=============================================================================
