-------------------------------- MODULE Boot --------------------------------
(***************************************************************************)
(* The container: start.sh migrates the database, starts the backend,      *)
(* probes it, starts the frontend and waits for either process to die; the *)
(* platform starts the container again.                                    *)
(***************************************************************************)
EXTENDS Naturals

CONSTANTS
  MaxProbes,     \* the loop over seq 1 30
  MaxRestarts,   \* restartPolicyMaxRetries
  MaxOutages     \* bound: crashes and changes of the database's availability

BootConstants == MaxProbes \in Nat \ {0} /\ MaxRestarts \in Nat /\ MaxOutages \in Nat

VARIABLES
  step,        \* what start.sh does next
  proc,        \* the two processes it has started
  probes,      \* iterations of the loop
  missed,      \* deaths wait -n does not report
  restarts,
  configured,  \* the environment passes validateEnv
  database,    \* Postgres can be reached
  outages      \* bounds crashes and changes of database

bootVars == <<step, proc, probes, missed, restarts, configured, database, outages>>

Procs == {"backend", "frontend"}
Steps == {"migrate", "launch", "probe", "frontend", "call", "wait", "exited", "gaveUp"}
Dead  == {p \in Procs : proc[p] = "dead"}
Exit  == step' = "exited"

BootInit ==
  /\ step = "migrate" /\ proc = [p \in Procs |-> "absent"]
  /\ probes = 0 /\ missed = {} /\ restarts = 0
  /\ configured \in BOOLEAN /\ database \in BOOLEAN
  /\ outages = 0

-----------------------------------------------------------------------------
(* set -e: the script ends with a failed migration. *)
Migrate ==
  /\ step = "migrate"
  /\ IF database THEN step' = "launch" ELSE Exit
  /\ UNCHANGED <<proc, probes, missed, restarts, configured, database, outages>>

Launch ==
  /\ step = "launch"
  /\ step' = "probe"
  /\ proc' = [proc EXCEPT !["backend"] = "starting"]
  /\ UNCHANGED <<probes, missed, restarts, configured, database, outages>>

(* bootstrap: the environment is validated and Prisma connects before the   *)
(* server listens; a rejection ends the process.                            *)
BackendStarts ==
  /\ proc["backend"] = "starting"
  /\ proc' = [proc EXCEPT !["backend"] = IF configured /\ database THEN "up" ELSE "dead"]
  /\ UNCHANGED <<step, probes, missed, restarts, configured, database, outages>>

(* A bug the properties must notice: the probes have no limit. *)
ProbeForEver ==
  /\ step = "probe"
  /\ probes' = probes + 1
  /\ CASE proc["backend"] = "up"   -> step' = "frontend"
       [] proc["backend"] = "dead" -> Exit
       [] OTHER -> UNCHANGED step
  /\ UNCHANGED <<proc, missed, restarts, configured, database, outages>>

(* One iteration; the last of them leads on as the answer does. *)
Probe ==
  /\ step = "probe"
  /\ probes' = probes + 1
  /\ CASE proc["backend"] = "up"   -> step' = "frontend"
       [] proc["backend"] = "dead" -> Exit
       [] OTHER -> step' = IF probes' = MaxProbes THEN "frontend" ELSE "probe"
  /\ UNCHANGED <<proc, missed, restarts, configured, database, outages>>

StartFrontend ==
  /\ step = "frontend"
  /\ step' = "call"
  /\ proc' = [proc EXCEPT !["frontend"] = "up"]
  /\ UNCHANGED <<probes, missed, restarts, configured, database, outages>>

(* wait -n is called.  Whether it still reports a process that had ended    *)
(* before is the shell's.                                                   *)
CallWait ==
  /\ step = "call"
  /\ step' = "wait"
  /\ missed' \in SUBSET Dead
  /\ UNCHANGED <<proc, probes, restarts, configured, database, outages>>

(* A bug the properties must notice: wait, for both. *)
WaitForAll ==
  /\ step = "wait" /\ Dead = Procs
  /\ Exit
  /\ UNCHANGED <<proc, probes, missed, restarts, configured, database, outages>>

(* It returns, at once when no process is left, with the status of the      *)
(* process or by the exit 1 that follows the kill: a failure in each case.  *)
WaitReturns ==
  /\ step = "wait" /\ (Dead \ missed # {} \/ Dead = Procs)
  /\ Exit
  /\ UNCHANGED <<proc, probes, missed, restarts, configured, database, outages>>

(* on_failure, with all processes of the container gone. *)
Restart ==
  /\ step = "exited"
  /\ IF restarts < MaxRestarts
     THEN step' = "migrate" /\ restarts' = restarts + 1
     ELSE step' = "gaveUp" /\ UNCHANGED restarts
  /\ proc' = [p \in Procs |-> "absent"]
  /\ probes' = 0 /\ missed' = {}
  /\ UNCHANGED <<configured, database, outages>>

-----------------------------------------------------------------------------
Outage == outages < MaxOutages /\ outages' = outages + 1

Crash(p) ==
  /\ proc[p] \in {"starting", "up"} /\ step # "exited" /\ Outage
  /\ proc' = [proc EXCEPT ![p] = "dead"]
  /\ UNCHANGED <<step, probes, missed, restarts, configured, database>>

(* A backend that runs survives the loss of its database. *)
DatabaseChanges ==
  /\ Outage
  /\ database' = ~database
  /\ UNCHANGED <<step, proc, probes, missed, restarts, configured>>

Script == Migrate \/ Launch \/ Probe \/ StartFrontend \/ CallWait \/ WaitReturns

BootNext ==
  \/ Migrate \/ Launch \/ BackendStarts \/ Probe \/ StartFrontend \/ CallWait
  \/ WaitReturns \/ Restart
  \/ \E p \in Procs : Crash(p)
  \/ DatabaseChanges

BootFairness ==
  WF_bootVars(Script) /\ WF_bootVars(BackendStarts) /\ WF_bootVars(Restart)

-----------------------------------------------------------------------------
BootTypeOK ==
  /\ step \in Steps
  /\ proc \in [Procs -> {"absent", "starting", "up", "dead"}]
  /\ probes \in 0..MaxProbes /\ restarts \in 0..MaxRestarts /\ outages \in 0..MaxOutages
  /\ missed \subseteq Dead
  /\ configured \in BOOLEAN /\ database \in BOOLEAN
  /\ (proc["frontend"] # "absent" => step \in {"call", "wait", "exited"})

(* SettlesDown: with finitely many crashes and outages the container ends   *)
(* up serving with both processes, or has spent its restarts: it never      *)
(* stays up with one process dead, "exits if either process dies", and      *)
(* never waits for a backend that cannot come up.  Excused: a process that  *)
(* ended before wait -n was called and that the shell has forgotten.        *)
SettlesDown ==
  <>[](\/ \A p \in Procs : proc[p] = "up"
       \/ step = "gaveUp"
       \/ missed # {})
=============================================================================
