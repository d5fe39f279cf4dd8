--------------------------- MODULE TerminalService ---------------------------
(* The unattended Joplin service: the installer (install, --upgrade, --purge) *)
(* as the program of systemd, npm and file steps it executes, the supervisor  *)
(* that owns a Joplin profile and its one child process, the adapter service  *)
(* in front of it, and the user service manager that starts, stops and        *)
(* restarts both. The profile lock is what keeps installer and supervisor off *)
(* the same Joplin database.                                                  *)
(*                                                                            *)
(* A package is its version, a unit file the Data API port it names, a        *)
(* credential file its presence, a profile the port and the locale it stores. *)
EXTENDS Naturals, Sequences, FiniteSets

CONSTANTS Versions, Ports,    \* of the two programs; of the Joplin Data API
          None,
          MaxRuns,            \* installer runs
          MaxFaults,          \* failed steps, kills, deaths and hangs
          MaxUser,            \* systemctl commands of the user
          MaxEvents           \* runs, faults and commands together

ASSUME BoundsAssumption == {MaxRuns, MaxFaults, MaxUser, MaxEvents} \subseteq Nat
ASSUME NoneAssumption == None \notin Versions \cup Ports
ASSUME InstallableAssumption == Versions # {} /\ Ports # {}

VARIABLES disk,      \* what the installer manages in the home directory
          loaded,    \* the port in the unit files systemd has read
          svc,       \* state of the two units
          sup,       \* the supervisor process
          child,     \* its Joplin process
          adp,       \* the adapter process
          lock,      \* holder of the profile lock
          ins,       \* the installer process
          stray,     \* Joplin commands that outlived their installer
          budget     \* runs, faults, user commands and events left

vars == <<disk, loaded, svc, sup, child, adp, lock, ins, stray, budget>>

Services == {"T", "A"}                   \* joplin-terminal, joplin-md-sync
Tokens == {"api", "mcp", "gpt"}
Unit == [T |-> "unit", A |-> "aunit"]

NoSup == [phase |-> "none", port |-> None, sig |-> FALSE, code |-> 0]
NoIns == [mode |-> "none", todo |-> <<>>, ver |-> None, port |-> None, start |-> FALSE,
          was |-> {}, issued |-> FALSE, joplin |-> None, mcp |-> None, result |-> "none",
          locale |-> "own", read |-> "own", alone |-> TRUE]

Spend(what) == /\ budget[what] > 0
               /\ budget.events > 0
               /\ budget' = [budget EXCEPT ![what] = @ - 1, !.events = @ - 1]

----------------------------------------------------------------------------
(* systemd                                                                    *)

IsActive(s) == svc[s] = "active"

(* Type=simple: a start returns once the process is forked. Requires= of the  *)
(* adapter pulls the terminal in.                                             *)
Requirement(s) == IF s = "A" THEN {"A", "T"} ELSE {"T"}
Startable(s) == \A u \in Requirement(s) : loaded[u] # None

StartUnits(S) ==
    LET up == {s \in S : svc[s] \in {"inactive", "restarting"}} IN
    /\ svc' = [s \in Services |-> IF s \in up THEN "active" ELSE svc[s]]
    /\ sup' = IF "T" \in up THEN [NoSup EXCEPT !.phase = "validate", !.port = loaded.T] ELSE sup

(* A stop of the terminal is a stop of the adapter that requires it; a unit   *)
(* that waits for its automatic restart is simply dropped.                    *)
StopUnits(S) ==
    svc' = [s \in Services |->
              IF s \notin S \cup (IF "T" \in S THEN {"A"} ELSE {}) THEN svc[s]
              ELSE IF svc[s] \in {"active", "failing"} THEN "stopping"
              ELSE IF svc[s] = "restarting" THEN "inactive" ELSE svc[s]]

(* A restart of the terminal stops the adapter too and starts it again.       *)
RestartStops(s) ==
    /\ s \in Services
    /\ svc' = [u \in Services |->
                 IF svc[u] \in {"active", "failing"} /\ u = s THEN "stopping"
                 ELSE IF svc[u] = "active" /\ s = "T" THEN "failing"
                 ELSE IF svc[u] = "restarting" /\ u = s THEN "inactive" ELSE svc[u]]

AutoRestart(s) ==
    /\ svc[s] = "restarting"
    /\ IF Startable(s) THEN StartUnits(Requirement(s))
       ELSE /\ svc' = [svc EXCEPT ![s] = "inactive"]
            /\ UNCHANGED sup
    /\ UNCHANGED <<disk, loaded, child, adp, lock, ins, stray, budget>>

(* After=: the terminal is told to stop when the adapter is down.             *)
TermSupervisor ==
    /\ svc.T = "stopping"
    /\ svc.A # "stopping"
    /\ sup.phase # "none"
    /\ ~sup.sig
    /\ sup' = [sup EXCEPT !.sig = TRUE]
    /\ UNCHANGED <<disk, loaded, svc, child, adp, lock, ins, stray, budget>>

(* What is left of a unit's control group is killed before anything else      *)
(* happens to the unit.                                                       *)
Settled(s) == IF svc[s] = "stopping" THEN "inactive" ELSE "restarting"

KillControlGroup ==
    /\ svc.T \in {"stopping", "failing"}
    /\ sup.phase = "none"
    /\ child' = None
    /\ svc' = [svc EXCEPT !.T = Settled("T")]
    /\ UNCHANGED <<disk, loaded, sup, adp, lock, ins, stray, budget>>

AdapterStops ==
    /\ svc.A \in {"stopping", "failing"}
    /\ adp' = None
    /\ svc' = [svc EXCEPT !.A = Settled("A")]
    /\ UNCHANGED <<disk, loaded, sup, child, lock, ins, stray, budget>>

AdapterStarts ==
    /\ svc.A = "active"
    /\ adp = None
    /\ IF disk.mcp # None /\ Tokens \subseteq disk.tokens
         THEN /\ adp' = [ver |-> disk.mcp, port |-> loaded.A]
              /\ UNCHANGED svc
         ELSE /\ svc' = [svc EXCEPT !.A = "restarting"]
              /\ UNCHANGED adp
    /\ UNCHANGED <<disk, loaded, sup, child, lock, ins, stray, budget>>

UserStarts(s) ==
    /\ Spend("user")
    /\ Startable(s)
    /\ svc[s] \in {"inactive", "restarting"}
    /\ StartUnits(Requirement(s))
    /\ UNCHANGED <<disk, loaded, child, adp, lock, ins, stray>>

UserStops(s) ==
    /\ Spend("user")
    /\ svc[s] \in {"active", "failing", "restarting"}
    /\ StopUnits({s})
    /\ UNCHANGED <<disk, loaded, sup, child, adp, lock, ins, stray>>

----------------------------------------------------------------------------
(* Supervisor                                                                 *)

(* The process is gone and with it its lock. Restart=on-failure.              *)
Exits(code) ==
    /\ sup' = NoSup
    /\ lock' = IF lock = "supervisor" THEN "free" ELSE lock
    /\ svc' = [svc EXCEPT !.T = IF @ = "stopping" \/ code = 0 THEN "inactive"
                                ELSE "restarting"]

(* The unit's command line names the script and the launcher, a symbolic link *)
(* to the program.                                                            *)
PortFree == child = None \/ child.port # sup.port
Runnable == disk.deployed /\ disk.launcher /\ disk.joplin # None /\ disk.port # None

Validate ==
    /\ sup.phase = "validate"
    /\ IF Runnable /\ PortFree
         THEN /\ sup' = [sup EXCEPT !.phase = "lock"]
              /\ UNCHANGED <<lock, svc>>
         ELSE Exits(1)
    /\ UNCHANGED <<disk, loaded, child, adp, ins, stray, budget>>

TakeLock ==
    /\ sup.phase = "lock"
    /\ IF lock = "free" THEN /\ sup' = [sup EXCEPT !.phase = "spawn"]
                             /\ lock' = "supervisor"
                             /\ UNCHANGED svc
                        ELSE Exits(1)
    /\ UNCHANGED <<disk, loaded, child, adp, ins, stray, budget>>

(* Mutant: Joplin is started without looking at its profile and program.      *)
SpawnUnchecked ==
    /\ sup.phase = "spawn"
    /\ child' = [ver |-> disk.joplin, port |-> disk.port, ok |-> TRUE]
    /\ sup' = [sup EXCEPT !.phase = "api"]
    /\ UNCHANGED <<disk, loaded, svc, adp, lock, ins, stray, budget>>

(* The profile is probed for writing first. The Joplin process listens on     *)
(* the port its profile stores, and exits at once when its program is gone.   *)
Spawn ==
    /\ sup.phase = "spawn"
    /\ IF disk.port = None
         THEN /\ sup' = [sup EXCEPT !.phase = "stop", !.code = 1]
              /\ UNCHANGED child
         ELSE /\ sup' = [sup EXCEPT !.phase = "api"]
              /\ child' = IF disk.joplin = None THEN None
                          ELSE [ver |-> disk.joplin, port |-> disk.port, ok |-> TRUE]
    /\ UNCHANGED <<disk, loaded, svc, adp, lock, ins, stray, budget>>

(* ping_api                                                                   *)
Answers(port) == child # None /\ child.ok /\ child.port = port

(* _start_api ends on a signal, when the API answers, or by failing.          *)
StartApi ==
    /\ sup.phase = "api"
    /\ sup' = IF sup.sig \/ Answers(sup.port) THEN [sup EXCEPT !.phase = "monitor"]
              ELSE [sup EXCEPT !.phase = "stop", !.code = 1]
    /\ UNCHANGED <<disk, loaded, svc, child, adp, lock, ins, stray, budget>>

(* Mutant: a supervisor that gives up leaves its child running.               *)
MonitorLeavesChild ==
    /\ sup.phase = "monitor"
    /\ sup.sig \/ ~Answers(sup.port)
    /\ sup' = [sup EXCEPT !.phase = IF sup.sig THEN "stop" ELSE "exit",
                         !.code = IF sup.sig THEN 0 ELSE 1]
    /\ UNCHANGED <<disk, loaded, svc, child, adp, lock, ins, stray, budget>>

(* Mutant: only the death of the child is noticed.                            *)
MonitorWithoutHealth ==
    /\ sup.phase = "monitor"
    /\ sup.sig \/ child = None
    /\ sup' = [sup EXCEPT !.phase = "stop", !.code = IF sup.sig THEN 0 ELSE 1]
    /\ UNCHANGED <<disk, loaded, svc, child, adp, lock, ins, stray, budget>>

(* A request to stop, the death of the child, the loss of its health.         *)
Monitor ==
    /\ sup.phase = "monitor"
    /\ sup.sig \/ ~Answers(sup.port)
    /\ sup' = [sup EXCEPT !.phase = "stop", !.code = IF sup.sig THEN 0 ELSE 1]
    /\ UNCHANGED <<disk, loaded, svc, child, adp, lock, ins, stray, budget>>

(* _stop_child signals the process group, waits, kills it and reaps it.       *)
StopChild ==
    /\ sup.phase = "stop"
    /\ child' = None
    /\ sup' = [sup EXCEPT !.phase = "exit"]
    /\ UNCHANGED <<disk, loaded, svc, adp, lock, ins, stray, budget>>

Exit ==
    /\ sup.phase = "exit"
    /\ Exits(sup.code)
    /\ UNCHANGED <<disk, loaded, child, adp, ins, stray, budget>>

(* Faults of the processes: Joplin dies or its API stops answering, the       *)
(* supervisor is killed (by hand, or for exceeding TimeoutStopSec), the       *)
(* adapter dies.                                                              *)
ChildFails ==
    /\ Spend("faults")
    /\ child # None /\ child.ok
    /\ child' \in {None, [child EXCEPT !.ok = FALSE]}
    /\ UNCHANGED <<disk, loaded, svc, sup, adp, lock, ins, stray>>

SupervisorKilled ==
    /\ Spend("faults")
    /\ sup.phase # "none"
    /\ sup' = NoSup
    /\ lock' = IF lock = "supervisor" THEN "free" ELSE lock
    /\ svc' = [svc EXCEPT !.T = IF @ = "stopping" THEN @ ELSE "failing"]
    /\ UNCHANGED <<disk, loaded, child, adp, ins, stray>>

AdapterDies ==
    /\ Spend("faults")
    /\ svc.A = "active"
    /\ adp # None
    /\ adp' = None
    /\ svc' = [svc EXCEPT !.A = "restarting"]
    /\ UNCHANGED <<disk, loaded, sup, child, lock, ins, stray>>

=============================================================================
