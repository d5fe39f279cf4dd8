------------------------------ MODULE Installer ------------------------------
(* install_joplin_terminal.py over the service of TerminalService: the steps  *)
(* of a full installation, of --upgrade and of --purge in the order of the    *)
(* script, each of which may fail, with the clean-up the script then does.    *)
(* One installer runs at a time; a Joplin command it started may outlive it.  *)
EXTENDS TerminalService

(* Mutant: the restart only starts the units, which changes nothing in one    *)
(* that runs.                                                                 *)
RestartOnlyStarts == <<"startT", "probeT", "startA", "probeA">>

Restart == <<"stopT", "startT", "probeT", "stopA", "startA", "probeA">>

(* Installer.run: both units are asked for before either is stopped. Enabling *)
(* units and lingering only matter at boot and are left out.                  *)
InstallSteps ==
    <<"ask", "stopA?", "stopT?", "lock", "npm", "launcher", "settings", "signIn", "locale",
      "sync", "relocale", "e2ee", "apiToken", "mcp", "tokens", "deploy", "unit", "aunit",
      "unlock", "reload">>

(* Mutant: the npm tree is moved away after it was replaced.                  *)
UpgradeStepsMoveLate(port) ==
    <<"askA", "stopA?", "askT", "stopT?", "lock", "backup", "npm", "move", "launcher", "mcp",
      "tokens">> \o (IF port = None THEN <<>> ELSE <<"port">>)
    \o <<"deploy", "unit", "aunit", "unlock", "reload">>

(* The profile is written only when the upgrade is given a port.              *)
UpgradeSteps(port) ==
    <<"askA", "stopA?", "askT", "stopT?", "lock", "backup", "move", "npm", "launcher", "mcp",
      "tokens">> \o (IF port = None THEN <<>> ELSE <<"port">>)
    \o <<"deploy", "unit", "aunit", "unlock", "reload">>

(* Mutant: the units are removed after what they run.                         *)
PurgeStepsUnitsLast ==
    <<"disable", "askA", "askT", "inactive", "lock", "rmLauncher", "rmMcp", "rmNpm", "rmProfile",
      "rmTokens", "rmDeploy", "rmUnit", "rmAunit", "unlock", "rmState", "reload">>

PurgeSteps ==
    <<"disable", "askA", "askT", "inactive", "lock", "rmUnit", "rmAunit", "rmLauncher", "rmMcp",
      "rmNpm", "rmProfile", "rmTokens", "rmDeploy", "unlock", "rmState", "reload">>

(* After a failed upgrade both units are stopped, whatever state they are in. *)
Halt == <<"haltA", "haltT">>

----------------------------------------------------------------------------
Idle == ins.todo = <<>>
At(step) == ~Idle /\ Head(ins.todo) = step
Advanced == [ins EXCEPT !.todo = Tail(@), !.issued = FALSE,
                        !.result = IF Len(ins.todo) = 1 /\ @ = "running" THEN "ok" ELSE @]
Advance == ins' = Advanced

Begin(mode, steps, ver, port, start) ==
    /\ Idle
    /\ Spend("runs")
    /\ ins' = [NoIns EXCEPT !.mode = mode, !.result = "running", !.ver = ver, !.port = port,
                            !.start = start, !.joplin = disk.joplin, !.mcp = disk.mcp,
                            !.locale = disk.locale, !.alone = (stray = {}),
                            !.todo = steps \o (IF start THEN Restart ELSE <<>>)]
    /\ UNCHANGED <<disk, loaded, svc, sup, child, adp, lock, stray>>

(* An upgrade needs consistent units and takes the port from them unless      *)
(* --api-port is given.                                                       *)
BeginInstall(ver, port, start) == Begin("install", InstallSteps, ver, port, start)

BeginUpgrade(ver, port, start) ==
    /\ disk.unit # None
    /\ disk.aunit = disk.unit
    /\ Begin("upgrade", UpgradeSteps(port), ver, IF port = None THEN disk.unit ELSE port, start)

BeginPurge == Begin("purge", PurgeSteps, None, None, FALSE)

----------------------------------------------------------------------------
(* Units: is-active, and the stops and starts that follow from the answers.   *)

Ask(step, S) ==
    /\ At(step)
    /\ ins' = [Advanced EXCEPT !.was = @ \cup {s \in S : IsActive(s)}]
    /\ UNCHANGED <<disk, loaded, svc, sup, child, adp, lock, stray, budget>>

(* systemctl stop: the job is queued, and the command returns when it is done. *)
Queue(how) ==
    /\ ~ins.issued
    /\ how
    /\ ins' = [ins EXCEPT !.issued = TRUE]
    /\ UNCHANGED <<disk, loaded, sup, child, adp, lock, stray, budget>>

Return(S) ==
    /\ ins.issued
    /\ \A s \in S : svc[s] # "stopping"
    /\ Advance
    /\ UNCHANGED <<disk, loaded, svc, sup, child, adp, lock, stray, budget>>

StopIfActive(step, s) ==
    /\ At(step)
    /\ IF s \in ins.was THEN Queue(StopUnits({s})) \/ Return({s})
       ELSE /\ Advance
            /\ UNCHANGED <<disk, loaded, svc, sup, child, adp, lock, stray, budget>>

RestartStop(step, s) == At(step) /\ (Queue(RestartStops(s)) \/ Return({s}))

(* Mutant: the clean-up stops only what is active.                            *)
HaltUnitIfActive(step, s) ==
    /\ At(step)
    /\ IF IsActive(s) \/ ins.issued THEN Queue(StopUnits({s})) \/ Return({s})
       ELSE /\ Advance
            /\ UNCHANGED <<disk, loaded, svc, sup, child, adp, lock, stray, budget>>

(* stop_after_startup_failure                                                 *)
HaltUnit(step, s) == At(step) /\ (Queue(StopUnits({s})) \/ Return({s}))

(* disable --now                                                              *)
Disable == At("disable") /\ (Queue(StopUnits(Services)) \/ Return(Services))

StartUnit(step, s) ==
    /\ At(step)
    /\ Startable(s)
    /\ Advance
    /\ StartUnits(Requirement(s))
    /\ UNCHANGED <<disk, loaded, child, adp, lock, stray, budget>>

(* wait_for_api, wait_for_mcp and the smoke tests, which ask the adapter for  *)
(* data that only an answering Joplin has.                                    *)
Probe(step, s, answered) ==
    /\ At(step)
    /\ IsActive(s)
    /\ answered
    /\ Advance
    /\ UNCHANGED <<disk, loaded, svc, sup, child, adp, lock, stray, budget>>

ProbeTerminal == Probe("probeT", "T", Answers(ins.port))
ProbeAdapter == Probe("probeA", "A", adp # None /\ Answers(adp.port))

InstallerLocks ==
    /\ At("lock")
    /\ lock = "free"
    /\ lock' = "installer"
    /\ Advance
    /\ UNCHANGED <<disk, loaded, svc, sup, child, adp, stray, budget>>

(* release gives up the installer's own lock only.                            *)
Released == IF lock = "installer" THEN "free" ELSE lock

InstallerUnlocks ==
    /\ At("unlock")
    /\ lock' = Released
    /\ Advance
    /\ UNCHANGED <<disk, loaded, svc, sup, child, adp, stray, budget>>

DaemonReload ==
    /\ At("reload")
    /\ loaded' = [s \in Services |-> disk[Unit[s]]]
    /\ Advance
    /\ UNCHANGED <<disk, svc, sup, child, adp, lock, stray, budget>>

(* A purge refuses while a unit is active.                                    *)
CheckInactive ==
    /\ At("inactive")
    /\ ins.was = {}
    /\ Advance
    /\ UNCHANGED <<disk, loaded, svc, sup, child, adp, lock, stray, budget>>

----------------------------------------------------------------------------
(* Files: what each step of the script leaves on the disk.                    *)

Write(step, new) ==
    /\ At(step)
    /\ disk' = new
    /\ Advance
    /\ UNCHANGED <<loaded, svc, sup, child, adp, lock, stray, budget>>

InstallNpm == Write("npm", [disk EXCEPT !.joplin = ins.ver])
InstallLauncher == Write("launcher", [disk EXCEPT !.launcher = TRUE])
InstallMcp == Write("mcp", [disk EXCEPT !.mcp = ins.ver])

(* configure_profile writes api.port last, an upgrade only writes api.port.   *)
ConfigureProfile == Write("settings", [disk EXCEPT !.port = ins.port])
WriteApiPort == Write("port", [disk EXCEPT !.port = ins.port])

(* SAML and browser sign-in end with a session in the profile, or fail.       *)
SignIn == Write("signIn", disk)

(* run_sync runs sync in a known language, checks its report and puts the     *)
(* locale back to what it had read.                                           *)
SetLocale ==
    /\ At("locale")
    /\ disk' = [disk EXCEPT !.locale = "en_GB"]
    /\ ins' = [Advanced EXCEPT !.read = disk.locale]
    /\ UNCHANGED <<loaded, svc, sup, child, adp, lock, stray, budget>>

RunSync == Write("sync", disk)
RestoreLocale == Write("relocale", [disk EXCEPT !.locale = ins.read])

(* An encrypted store is unlocked and synchronized once more.                 *)
BootstrapE2ee ==
    /\ At("e2ee")
    /\ \E again \in {<<>>, <<"locale", "sync", "relocale">>} :
          ins' = [ins EXCEPT !.todo = again \o Tail(@)]
    /\ UNCHANGED <<disk, loaded, svc, sup, child, adp, lock, stray, budget>>

ExtractApiToken == Write("apiToken", [disk EXCEPT !.tokens = @ \cup {"api"}])

(* The bearer tokens must differ from Joplin's, which is read from its file.  *)
StoreTokens ==
    /\ "api" \in disk.tokens
    /\ Write("tokens", [disk EXCEPT !.tokens = @ \cup {"mcp", "gpt"}])

DeploySupervisor == Write("deploy", [disk EXCEPT !.deployed = TRUE])
InstallUnit == Write("unit", [disk EXCEPT !.unit = ins.port])
InstallAdapterUnit == Write("aunit", [disk EXCEPT !.aunit = ins.port])

(* An upgrade copies what it replaces, and moves the npm tree away when its   *)
(* version changes.                                                           *)
BackupFiles == Write("backup", [disk EXCEPT !.kept = @ \cup {<<"mcp", disk.mcp>>}])

MoveNpmTree ==
    Write("move", IF disk.joplin \in {None, ins.ver} THEN disk
                  ELSE [disk EXCEPT !.joplin = None,
                                    !.kept = @ \cup {<<"joplin", disk.joplin>>}])

(* managed_purge_paths                                                        *)
RemoveManaged ==
    \/ Write("rmUnit", [disk EXCEPT !.unit = None])
    \/ Write("rmAunit", [disk EXCEPT !.aunit = None])
    \/ Write("rmLauncher", [disk EXCEPT !.launcher = FALSE])
    \/ Write("rmMcp", [disk EXCEPT !.mcp = None])
    \/ Write("rmNpm", [disk EXCEPT !.joplin = None])
    \/ Write("rmProfile", [disk EXCEPT !.port = None, !.locale = "own"])
    \/ Write("rmTokens", [disk EXCEPT !.tokens = {}])
    \/ Write("rmDeploy", [disk EXCEPT !.deployed = FALSE])
    \/ Write("rmState", [disk EXCEPT !.kept = {}])

FileStep ==
    \/ InstallNpm \/ InstallLauncher \/ InstallMcp \/ ConfigureProfile \/ WriteApiPort
    \/ SignIn \/ SetLocale \/ RunSync \/ RestoreLocale \/ BootstrapE2ee \/ ExtractApiToken
    \/ StoreTokens \/ DeploySupervisor \/ InstallUnit \/ InstallAdapterUnit
    \/ BackupFiles \/ MoveNpmTree \/ RemoveManaged

----------------------------------------------------------------------------
(* Failures. The lock is released by its with block and the locale is put     *)
(* back by the finally of run_sync, whatever is raised. A probe that fails    *)
(* with a ToolError stops its own unit; a failed upgrade stops both units     *)
(* after a ToolError, an OSError or an interrupt, and not after what else     *)
(* http.client may raise out of a request.                                    *)

Probes == {"probeT", "probeA"}
Requests == Probes \cup {"signIn", "mcp", "deploy"}
Failures(step) == {"tool"} \cup (IF step \in Probes THEN {"interrupt"} ELSE {})
                           \cup (IF step \in Requests THEN {"uncaught"} ELSE {})

HaltProbed(step, failure) ==
    IF failure # "tool" THEN <<>>
    ELSE CASE step = "probeT" -> <<"haltT">> [] step = "probeA" -> <<"haltA">> [] OTHER -> <<>>

(* Mutant: run_sync has no finally.                                           *)
CleanUpWithoutFinally(step, failure) ==
    HaltProbed(step, failure)
    \o (IF ins.mode = "upgrade" /\ failure # "uncaught" THEN Halt ELSE <<>>)

CleanUp(step, failure) ==
    IF step = "sync" THEN <<"relocale", "fail">>
    ELSE HaltProbed(step, failure)
         \o (IF ins.mode = "upgrade" /\ failure # "uncaught" THEN Halt ELSE <<>>)

(* The locale is set outside the try, and restored in its finally.            *)
Fails(step, failure) ==
    /\ ins' = [ins EXCEPT !.todo = CleanUp(step, failure), !.issued = FALSE,
                        !.result = IF step \in {"locale", "relocale"} THEN "not restored"
                                   ELSE IF failure = "uncaught" THEN "uncaught" ELSE "failed"]
    /\ lock' = IF step = "sync" THEN lock ELSE Released

(* A step the state of the system refuses.                                    *)
Refused(step) ==
    \/ step = "lock" /\ lock # "free"
    \/ step = "inactive" /\ ins.was # {}
    \/ step = "startT" /\ ~Startable("T")
    \/ step = "startA" /\ ~Startable("A")
    \/ step = "probeT" /\ ~(IsActive("T") /\ Answers(ins.port))
    \/ step = "probeA" /\ ~(IsActive("A") /\ adp # None /\ Answers(adp.port))
    \/ step = "tokens" /\ "api" \notin disk.tokens
    \/ step = "fail"

InstallerRefused ==
    /\ ~Idle
    /\ Refused(Head(ins.todo))
    /\ Fails(Head(ins.todo), "tool")
    /\ UNCHANGED <<disk, loaded, svc, sup, child, adp, stray, budget>>

(* What a Joplin command of the step writes into the profile, if anything.    *)
ProfileSteps == {"settings", "signIn", "locale", "sync", "relocale", "e2ee", "apiToken", "port"}

Command(step) == CASE step \in {"settings", "port"} -> <<"port", ins.port>>
                   [] step = "locale" -> <<"locale", "en_GB">>
                   [] step = "relocale" -> <<"locale", ins.read>>
                   [] OTHER -> <<"nothing", None>>

Applied(command) == CASE command[1] = "port" -> [disk EXCEPT !.port = command[2]]
                      [] command[1] = "locale" -> [disk EXCEPT !.locale = command[2]]
                      [] OTHER -> disk

(* What a failed step may leave: npm no usable program, a command the setting *)
(* it had stored when it failed or was interrupted, the two token files one.  *)
(* A file step that fails when its file is written fails like the next step.  *)
Partial(step) ==
    {disk, IF step \in ProfileSteps THEN Applied(Command(step))
           ELSE IF step = "npm" /\ disk.joplin # ins.ver THEN [disk EXCEPT !.joplin = None]
           ELSE IF step = "tokens" /\ "api" \in disk.tokens
                  THEN [disk EXCEPT !.tokens = @ \cup {"mcp"}]
           ELSE disk}

(* A command, a download or a file operation fails, or the operator           *)
(* interrupts it. A stop that fails during the clean-up is only reported, an  *)
(* interrupt ends the clean-up, and a stop that fails before a purge is left  *)
(* to its check.                                                              *)
StepFails ==
    /\ Spend("faults")
    /\ ~Idle
    /\ LET step == Head(ins.todo) IN
       IF step \in {"haltA", "haltT"}
         THEN /\ \E left \in {Tail(ins.todo), <<>>} :
                    ins' = [ins EXCEPT !.todo = left, !.issued = FALSE, !.result = "not halted"]
              /\ UNCHANGED <<disk, lock>>
       ELSE IF step = "disable"
         THEN /\ Advance \/ Fails(step, "tool")
              /\ UNCHANGED <<disk, lock>>
         ELSE /\ step \notin {"unlock", "fail"}
              /\ \E failure \in Failures(step) : Fails(step, failure)
              /\ disk' \in Partial(step)
    /\ UNCHANGED <<loaded, svc, sup, child, adp, stray>>

(* The lock ends with the process that holds its descriptor, the command it   *)
(* had started, in a session of its own and without the lock, need not.       *)
InstallerKilled ==
    /\ Spend("faults")
    /\ ~Idle
    /\ ins' = [ins EXCEPT !.todo = <<>>, !.issued = FALSE, !.result = "killed"]
    /\ lock' = Released
    /\ \/ UNCHANGED stray
       \/ /\ Head(ins.todo) \in ProfileSteps
          /\ stray' = stray \cup {Command(Head(ins.todo))}
    /\ UNCHANGED <<disk, loaded, svc, sup, child, adp>>

(* It ends at any time, having written its setting or not.                    *)
StrayEnds ==
    /\ \E command \in stray :
         /\ stray' = stray \ {command}
         /\ disk' \in {disk, Applied(command)}
    /\ UNCHANGED <<loaded, svc, sup, child, adp, lock, ins, budget>>

----------------------------------------------------------------------------
(* The machine before the first run: nothing, or a service that is up.        *)
Fresh == [joplin |-> None, launcher |-> FALSE, mcp |-> None, tokens |-> {}, port |-> None,
          locale |-> "own", deployed |-> FALSE, unit |-> None, aunit |-> None, kept |-> {}]

Installed(v, p) == [joplin |-> v, launcher |-> TRUE, mcp |-> v, tokens |-> Tokens, port |-> p,
                    locale |-> "own", deployed |-> TRUE, unit |-> p, aunit |-> p, kept |-> {}]

Init ==
    /\ \/ /\ disk = Fresh
          /\ loaded = [s \in Services |-> None]
          /\ svc = [s \in Services |-> "inactive"]
          /\ sup = NoSup /\ child = None /\ adp = None /\ lock = "free"
       \/ LET v == CHOOSE w \in Versions : TRUE
              p == CHOOSE q \in Ports : TRUE IN
          /\ disk = Installed(v, p)
          /\ loaded = [s \in Services |-> p]
          /\ svc = [s \in Services |-> "active"]
          /\ sup = [phase |-> "monitor", port |-> p, sig |-> FALSE, code |-> 0]
          /\ child = [ver |-> v, port |-> p, ok |-> TRUE]
          /\ adp = [ver |-> v, port |-> p]
          /\ lock = "supervisor"
    /\ ins = NoIns /\ stray = {}
    /\ budget = [runs |-> MaxRuns, faults |-> MaxFaults, user |-> MaxUser,
                 events |-> MaxEvents]

Supervisor ==
    Validate \/ TakeLock \/ Spawn \/ StartApi \/ Monitor \/ StopChild \/ Exit

InstallerStep ==
    \/ Ask("ask", Services) \/ Ask("askA", {"A"}) \/ Ask("askT", {"T"})
    \/ StopIfActive("stopA?", "A") \/ StopIfActive("stopT?", "T")
    \/ RestartStop("stopT", "T") \/ RestartStop("stopA", "A")
    \/ HaltUnit("haltA", "A") \/ HaltUnit("haltT", "T")
    \/ Disable \/ CheckInactive
    \/ StartUnit("startT", "T") \/ StartUnit("startA", "A")
    \/ ProbeTerminal \/ ProbeAdapter
    \/ InstallerLocks \/ InstallerUnlocks \/ DaemonReload
    \/ FileStep
    \/ InstallerRefused

Begins ==
    \/ \E v \in Versions, p \in Ports, start \in BOOLEAN : BeginInstall(v, p, start)
    \/ \E v \in Versions, p \in Ports \cup {None}, start \in BOOLEAN : BeginUpgrade(v, p, start)
    \/ BeginPurge

Next ==
    \/ \E s \in Services : AutoRestart(s) \/ UserStarts(s) \/ UserStops(s)
    \/ TermSupervisor \/ KillControlGroup \/ AdapterStops \/ AdapterStarts
    \/ Supervisor
    \/ InstallerStep \/ Begins
    \/ ChildFails \/ SupervisorKilled \/ AdapterDies \/ StepFails \/ InstallerKilled
    \/ StrayEnds

(* systemd serves each unit, and its timers fire, whatever the other unit     *)
(* does; what the two processes wait for has a timeout, but for the answers   *)
(* of the operator, whom the installer asks under the lock too, and who is    *)
(* taken to give them. Nothing ends a command whose installer is gone.        *)
Fairness ==
    /\ \A s \in Services : WF_vars(AutoRestart(s))
    /\ WF_vars(TermSupervisor) /\ WF_vars(KillControlGroup)
    /\ WF_vars(AdapterStops) /\ WF_vars(AdapterStarts)
    /\ WF_vars(Supervisor)
    /\ WF_vars(InstallerStep)

Spec == Init /\ [][Next]_vars /\ Fairness

----------------------------------------------------------------------------
TypeOK ==
    /\ disk \in [joplin : Versions \cup {None}, mcp : Versions \cup {None}, launcher : BOOLEAN,
                 tokens : SUBSET Tokens, port : Ports \cup {None}, locale : {"own", "en_GB"},
                 deployed : BOOLEAN, unit : Ports \cup {None}, aunit : Ports \cup {None},
                 kept : SUBSET ({"joplin", "mcp"} \X (Versions \cup {None}))]
    /\ loaded \in [Services -> Ports \cup {None}]
    /\ svc \in [Services -> {"inactive", "active", "stopping", "failing", "restarting"}]
    /\ sup.phase \in {"none", "validate", "lock", "spawn", "api", "monitor", "stop", "exit"}
    /\ child \in {None} \cup [ver : Versions, port : Ports, ok : BOOLEAN]
    /\ adp \in {None} \cup [ver : Versions, port : Ports]
    /\ lock \in {"free", "installer", "supervisor"}
    /\ stray \subseteq ({"port"} \X Ports) \cup ({"locale"} \X {"own", "en_GB"})
                       \cup {<<"nothing", None>>}

(* Who holds the lock is alone on the profile: the supervisor starts and      *)
(* stops Joplin, and the installer runs its commands, only under it           *)
(* (run_joplin_terminal.py:345, install_joplin_terminal.py:2945). The lock    *)
(* ends with its holder, so two kills leave a Joplin process without it: a    *)
(* killed supervisor's, until systemd kills the control group, which it does  *)
(* before the unit starts again, but perhaps after an installer took the lock;*)
(* and the command of a killed installer, which is in stray.                  *)
OneJoplin ==
    /\ sup.phase \in {"spawn", "api", "monitor", "stop", "exit"} => lock = "supervisor"
    /\ child # None => \/ lock = "supervisor" /\ sup.phase \in {"api", "monitor", "stop"}
                       \/ sup.phase = "none" /\ svc.T \in {"stopping", "failing"}
    /\ ~Idle /\ Head(ins.todo) \in ProfileSteps => lock = "installer"

(* A unit file appears after the files its process needs and goes before      *)
(* them, whichever step of whichever runs fails or is killed                  *)
(* (install_joplin_terminal.py:1445, 2173, 2308, 2332); only the program of   *)
(* the terminal is missing behind its unit while an installer replaces it,    *)
(* and after a run that did not end well (2802).                              *)
UnitsAreRunnable ==
    /\ disk.unit # None => disk.deployed /\ disk.launcher /\ disk.port # None
    /\ disk.unit # None /\ disk.joplin = None => ins.result \notin {"none", "ok"}
    /\ disk.aunit # None => disk.mcp # None /\ disk.tokens = Tokens

(* SVC-006: from the moment an upgrade touches the programs, those installed  *)
(* when it began are on the disk or among the retained files, also after a    *)
(* failure or a kill (install_joplin_terminal.py:2687, 2797).                 *)
PreviousRetained ==
    ins.mode = "upgrade" =>
      /\ ins.joplin \in {None, disk.joplin} \/ <<"joplin", ins.joplin>> \in disk.kept
      /\ ins.mcp = disk.mcp \/ <<"mcp", ins.mcp>> \in disk.kept

(* The operator's locale, which run_sync overwrites, is back when the         *)
(* installer ends, whatever the sync did (install_joplin_terminal.py:1838).   *)
(* Lost it may be by a kill, by the failure of a write of the locale itself,  *)
(* which may have stored en_GB before the try (1837) or not restore it        *)
(* (1854), and to a command that a killed run had left behind.                *)
LocaleRestored ==
    Idle /\ ins.result \in {"ok", "failed", "uncaught"} /\ ins.mode = "install" /\ ins.alone
      => disk.locale = ins.locale

(* SVC-006, for the failures the code handles (ToolError, OSError, an         *)
(* interrupt): a failed upgrade ends with both units down, also one that was  *)
(* waiting for its automatic restart, unless systemctl itself failed or was   *)
(* interrupted, or the user started them (install_joplin_terminal.py:2540,    *)
(* 2899). An HTTPException of a probe or a download is not handled (3064).    *)
FailedUpgradeStops ==
    [][~Idle /\ Idle' /\ ins.mode = "upgrade" /\ ins'.result = "failed"
         /\ budget.user = MaxUser => \A s \in Services : svc'[s] = "inactive"]_vars

(* When an installation or upgrade that starts the services ends well,        *)
(* nothing of the old version runs and both processes agree on the port, the  *)
(* one that was asked for (install_joplin_terminal.py:2721), unless a command *)
(* left by a killed run wrote its own into the profile.                       *)
RunsWhatWasInstalled ==
    [][~Idle /\ Idle' /\ ins.start /\ ins.alone /\ ins'.result = "ok" =>
         /\ child' # None => child'.ver = ins.ver /\ child'.port = ins.port
         /\ adp' # None => adp'.ver = ins.ver /\ adp'.port = ins.port]_vars

(* A service that may run does: after a crash, a hang of Joplin's API or the  *)
(* death of the supervisor, Joplin answers again, or somebody stopped it      *)
(* (run_joplin_terminal.py:311, Restart=on-failure of the unit).              *)
ServiceComesBack ==
    []<>(\/ svc.T = "inactive"
         \/ sup.phase = "monitor" /\ Answers(sup.port)
         \/ ~Runnable
         \/ loaded.T # disk.port)
=============================================================================
