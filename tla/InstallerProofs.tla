--------------------------- MODULE InstallerProofs ---------------------------
(* What holds of the service and its installer for any versions, ports and    *)
(* bounds: whatever steps of the installer fail, whoever is killed, and       *)
(* however systemd, the user and the installer start and stop the units.      *)
(*                                                                            *)
(* The script of the installer is data here, a sequence of steps. What makes  *)
(* it correct is the order of its steps, and the argument is the same         *)
(* throughout: the literal programs have an order (Guarded, Never, Until,     *)
(* Then), every tail of a program keeps it, and each step establishes the     *)
(* fact that the later ones wait for.                                         *)
EXTENDS Installer, SequenceTheorems, TLAPS

States == {"inactive", "active", "stopping", "failing", "restarting"}
Phases == {"none", "validate", "lock", "spawn", "api", "monitor", "stop", "exit"}
Holding == {"spawn", "api", "monitor", "stop", "exit"}

(* OneJoplin speaks of the lock and the child. That a start finds neither a   *)
(* supervisor nor a child needs the state of the unit too: systemd lets it    *)
(* leave "stopping" and "failing" only when nothing of it is left.            *)
Owners ==
    /\ svc \in [Services -> States]
    /\ DOMAIN sup = {"phase", "port", "sig", "code"}
    /\ sup.phase \in Phases
    /\ sup.phase \in Holding => lock = "supervisor"
    /\ child # None => \/ sup.phase \in {"api", "monitor", "stop"}
                       \/ sup.phase = "none" /\ svc["T"] \in {"stopping", "failing"}
    /\ svc["T"] \in {"inactive", "restarting", "failing"} => sup.phase = "none"

LEMMA OwnersInit == Init => Owners
BY NoneAssumption DEF Init, Owners, NoSup, Services, States, Phases, Holding

----------------------------------------------------------------------------
(* What the actions have in common, on the variables of Owners.               *)

LEMMA StillOwned ==
    ASSUME Owners, UNCHANGED <<svc, sup, child, lock>>
    PROVE  Owners'
BY DEF Owners, States, Services

(* A lock the installer takes or gives up is not the supervisor's.            *)
LEMMA LockMoves ==
    ASSUME Owners, UNCHANGED <<svc, sup, child>>,
           lock = "supervisor" => lock' = "supervisor"
    PROVE  Owners'
BY DEF Owners, States, Services

LEMMA StartsAreOwned ==
    ASSUME Owners, NEW S, StartUnits(S), UNCHANGED <<child, lock>>
    PROVE  Owners'
<1>1. svc' \in [Services -> States]
  BY DEF Owners, StartUnits, States
<1>2. CASE "T" \in S /\ svc["T"] \in {"inactive", "restarting"}
  <2>1. sup.phase = "none" /\ child = None
    BY <1>2 DEF Owners
  <2>2. sup' = [NoSup EXCEPT !.phase = "validate", !.port = loaded.T] /\ svc'["T"] = "active"
    BY <1>2 DEF StartUnits, Services
  <2>3. DOMAIN sup' = {"phase", "port", "sig", "code"} /\ sup'.phase = "validate"
    BY <2>2 DEF NoSup
  <2> QED BY <1>1, <2>1, <2>2, <2>3 DEF Owners, Phases, Holding
<1>3. CASE ~("T" \in S /\ svc["T"] \in {"inactive", "restarting"})
  <2>1. sup' = sup /\ svc'["T"] = svc["T"]
    BY <1>3 DEF StartUnits, Services
  <2> QED BY <1>1, <2>1 DEF Owners
<1> QED BY <1>2, <1>3

(* A unit stops over "stopping", or was waiting without a process.            *)
LEMMA StopsAreOwned ==
    ASSUME Owners, NEW S, StopUnits(S) \/ (\E s \in Services : RestartStops(s)),
           UNCHANGED <<sup, child, lock>>
    PROVE  Owners'
<1>1. svc' \in [Services -> States]
  BY DEF Owners, StopUnits, RestartStops, States
<1>2. \/ svc'["T"] = svc["T"]
      \/ svc["T"] \in {"active", "failing"} /\ svc'["T"] = "stopping"
      \/ svc["T"] = "restarting" /\ svc'["T"] = "inactive"
  BY DEF StopUnits, RestartStops, Services
<1> QED BY <1>1, <1>2 DEF Owners

----------------------------------------------------------------------------
LEMMA SystemdStep ==
    ASSUME Owners,
           \/ \E s \in Services : AutoRestart(s) \/ UserStarts(s) \/ UserStops(s)
           \/ TermSupervisor \/ KillControlGroup \/ AdapterStops \/ AdapterStarts
    PROVE  Owners'
<1>1. ASSUME NEW s \in Services, AutoRestart(s) PROVE Owners'
  <2>1. CASE Startable(s)
    BY <1>1, <2>1, StartsAreOwned DEF AutoRestart
  <2>2. CASE ~Startable(s)
    <3>1. svc[s] = "restarting" /\ svc' = [svc EXCEPT ![s] = "inactive"]
          /\ UNCHANGED <<sup, child, lock>>
      BY <1>1, <2>2 DEF AutoRestart
    <3> QED BY <3>1 DEF Owners, States, Services
  <2> QED BY <2>1, <2>2
<1>2. ASSUME NEW s \in Services, UserStarts(s) PROVE Owners'
  BY <1>2, StartsAreOwned DEF UserStarts
<1>3. ASSUME NEW s \in Services, UserStops(s) PROVE Owners'
  BY <1>3, StopsAreOwned DEF UserStops
<1>4. CASE TermSupervisor
  <2>1. sup' = [sup EXCEPT !.sig = TRUE] /\ UNCHANGED <<svc, child, lock>>
    BY <1>4 DEF TermSupervisor
  <2>2. DOMAIN sup' = DOMAIN sup /\ sup'.phase = sup.phase
    BY <2>1 DEF Owners
  <2> QED BY <2>1, <2>2 DEF Owners
<1>5. CASE KillControlGroup
  <2>1. /\ sup.phase = "none" /\ child' = None /\ UNCHANGED <<sup, lock>>
        /\ svc' = [svc EXCEPT !["T"] = Settled("T")]
    BY <1>5 DEF KillControlGroup
  <2>2. Settled("T") \in States
    BY DEF Settled, States
  <2> QED BY <2>1, <2>2 DEF Owners, Services
<1>6. CASE AdapterStops \/ AdapterStarts
  <2>1. /\ UNCHANGED <<sup, child, lock>>
        /\ \E state \in States : svc' = [svc EXCEPT !["A"] = state]
    BY <1>6 DEF AdapterStops, AdapterStarts, Settled, States, Owners, Services
  <2>2. svc' \in [Services -> States] /\ svc'["T"] = svc["T"]
    BY <2>1 DEF Owners, Services
  <2> QED BY <2>1, <2>2 DEF Owners
<1> QED BY <1>1, <1>2, <1>3, <1>4, <1>5, <1>6

(* The supervisor ends after its child.                                       *)
LEMMA ExitsAreOwned ==
    ASSUME Owners, NEW code, Exits(code), sup.phase \in {"validate", "lock", "exit"},
           UNCHANGED child
    PROVE  Owners'
<1>1. child' = None
  BY DEF Owners
<1>2. DOMAIN sup' = {"phase", "port", "sig", "code"} /\ sup'.phase = "none"
  BY DEF Exits, NoSup
<1>3. svc' \in [Services -> States]
  BY DEF Exits, Owners, States, Services
<1> QED BY <1>1, <1>2, <1>3 DEF Owners, Phases, Holding

LEMMA SupervisorStep ==
    ASSUME Owners, Supervisor \/ SupervisorKilled \/ ChildFails \/ AdapterDies
    PROVE  Owners'
<1>1. ASSUME NEW phase \in Phases, sup'.phase = phase, DOMAIN sup' = DOMAIN sup,
             UNCHANGED svc, svc["T"] \notin {"inactive", "restarting", "failing"},
             phase \in Holding => lock' = "supervisor",
             child' # None => phase \in {"api", "monitor", "stop"}
      PROVE  Owners'
  BY <1>1 DEF Owners
<1>2. sup.phase # "none" => svc["T"] \notin {"inactive", "restarting", "failing"}
  BY DEF Owners
<1>3. CASE Validate
  <2>1. CASE Runnable /\ PortFree
    BY <1>1, <1>2, <1>3, <2>1 DEF Validate, Owners, Phases, Holding
  <2>2. CASE ~(Runnable /\ PortFree)
    BY <1>3, <2>2, ExitsAreOwned DEF Validate
  <2> QED BY <2>1, <2>2
<1>4. CASE TakeLock
  <2>1. CASE lock = "free"
    BY <1>1, <1>2, <1>4, <2>1 DEF TakeLock, Owners, Phases, Holding
  <2>2. CASE lock # "free"
    BY <1>4, <2>2, ExitsAreOwned DEF TakeLock
  <2> QED BY <2>1, <2>2
<1>5. CASE Spawn
  BY <1>1, <1>2, <1>5 DEF Spawn, Owners, Phases, Holding
<1>6. CASE StartApi \/ Monitor \/ StopChild
  BY <1>1, <1>2, <1>6 DEF StartApi, Monitor, StopChild, Owners, Phases, Holding
<1>7. CASE Exit
  BY <1>7, ExitsAreOwned DEF Exit
<1>8. CASE SupervisorKilled
  <2>1. /\ UNCHANGED child
        /\ DOMAIN sup' = {"phase", "port", "sig", "code"} /\ sup'.phase = "none"
    BY <1>8 DEF SupervisorKilled, NoSup
  <2>2. svc' \in [Services -> States] /\ svc'["T"] \in {"stopping", "failing"}
    BY <1>8 DEF SupervisorKilled, Owners, States, Services
  <2> QED BY <2>1, <2>2 DEF Owners, Phases, Holding
<1>9. CASE ChildFails
  <2>1. child # None /\ UNCHANGED <<svc, sup, lock>>
    BY <1>9 DEF ChildFails
  <2> QED BY <2>1 DEF Owners
<1>10. CASE AdapterDies
  <2>1. svc' \in [Services -> States] /\ svc'["T"] = svc["T"] /\ UNCHANGED <<sup, child, lock>>
    BY <1>10 DEF AdapterDies, Owners, States, Services
  <2> QED BY <2>1 DEF Owners
<1> QED BY <1>3, <1>4, <1>5, <1>6, <1>7, <1>8, <1>9, <1>10 DEF Supervisor

----------------------------------------------------------------------------
(* The installer stops and starts units, and takes only a lock that is free;  *)
(* all else it does is to the disk.                                           *)
LEMMA InstallerStepOwned ==
    ASSUME Owners, InstallerStep \/ Begins \/ StepFails \/ InstallerKilled
    PROVE  Owners'
<1>2. ASSUME NEW step, NEW s \in Services,
             StopIfActive(step, s) \/ HaltUnit(step, s) \/ RestartStop(step, s)
      PROVE  Owners'
  <2>1. \/ StopUnits({s}) /\ UNCHANGED <<sup, child, lock>>
        \/ RestartStops(s) /\ UNCHANGED <<sup, child, lock>>
        \/ UNCHANGED <<svc, sup, child, lock>>
    BY <1>2 DEF StopIfActive, HaltUnit, RestartStop, Queue, Return
  <2> QED BY <2>1, StopsAreOwned, StillOwned
<1>3. CASE Disable
  BY <1>3, StopsAreOwned, StillOwned DEF Disable, Queue, Return
<1>4. ASSUME NEW step, NEW s \in Services, StartUnit(step, s) PROVE Owners'
  BY <1>4, StartsAreOwned DEF StartUnit
<1>5. ASSUME NEW step, NEW S, Ask(step, S) PROVE Owners'
  BY <1>5, StillOwned DEF Ask
<1>6. CASE ProbeTerminal \/ ProbeAdapter \/ DaemonReload \/ CheckInactive \/ BootstrapE2ee
           \/ SetLocale
  BY <1>6, StillOwned
     DEF ProbeTerminal, ProbeAdapter, Probe, DaemonReload, CheckInactive, BootstrapE2ee, SetLocale
<1>7. CASE InstallerLocks \/ InstallerUnlocks
  BY <1>7, LockMoves DEF InstallerLocks, InstallerUnlocks, Released
<1>8. ASSUME NEW step, NEW new, Write(step, new) PROVE Owners'
  BY <1>8, StillOwned DEF Write
<1>9. CASE FileStep
  BY <1>6, <1>8, <1>9
     DEF FileStep, InstallNpm, InstallLauncher, InstallMcp, ConfigureProfile, WriteApiPort,
         SignIn, RunSync, RestoreLocale, ExtractApiToken, StoreTokens,
         DeploySupervisor, InstallUnit, InstallAdapterUnit, BackupFiles, MoveNpmTree,
         RemoveManaged
<1>10. ASSUME NEW step, NEW failure, Fails(step, failure) PROVE lock = "supervisor" => lock' = "supervisor"
  BY <1>10 DEF Fails, Released
<1>11. CASE InstallerRefused
  BY <1>10, <1>11, LockMoves DEF InstallerRefused
<1>12. CASE StepFails
  <2>1. UNCHANGED <<svc, sup, child>> /\ (UNCHANGED lock \/ \E step, failure : Fails(step, failure))
    BY <1>12 DEF StepFails
  <2> QED BY <1>10, <2>1, LockMoves
<1>13. CASE InstallerKilled
  BY <1>13, LockMoves DEF InstallerKilled, Released
<1>14. CASE Begins
  BY <1>14, StillOwned DEF Begins, BeginInstall, BeginUpgrade, BeginPurge, Begin
<1> QED BY <1>2, <1>3, <1>4, <1>5, <1>6, <1>7, <1>9, <1>11, <1>12, <1>13, <1>14
        DEF InstallerStep, Services

LEMMA OwnersStep == Owners /\ [Next]_vars => Owners'
<1>1. ASSUME Owners, UNCHANGED vars \/ StrayEnds PROVE Owners'
  BY <1>1, StillOwned DEF vars, StrayEnds
<1> QED BY <1>1, SystemdStep, SupervisorStep, InstallerStepOwned DEF Next
----------------------------------------------------------------------------
(* What is left of a program: every step of it is of a kind; a step waits for *)
(* a fact that an earlier one establishes; no step of one kind comes before a *)
(* certain other one, or it is followed by one.                               *)

In(s, S) == \A i \in DOMAIN s : s[i] \in S
Has(s, b) == \E i \in DOMAIN s : s[i] = b
Guarded(s, B, a, fact) ==
    \A i \in DOMAIN s : s[i] = a => fact \/ \E j \in DOMAIN s : j < i /\ s[j] \in B
Never(s, A, b) == \A i, j \in DOMAIN s : i < j /\ s[i] \in A => s[j] # b
Until(s, A, b) == \A i \in DOMAIN s : s[i] \in A => \E j \in DOMAIN s : i < j /\ s[j] = b

(* The steps of the programs and of their clean-up.                           *)
Files == {"npm", "launcher", "mcp", "tokens", "deploy", "unit", "aunit"}
Restarting == {"stopT", "startT", "probeT", "stopA", "startA", "probeA"}
Cleaning == {"relocale", "fail", "haltT", "haltA"}
Synchronizing == {"locale", "sync", "relocale"}
Common == Files \cup Restarting \cup Cleaning
          \cup {"stopA?", "stopT?", "lock", "unlock", "reload"}
Installing == Common \cup Synchronizing \cup {"ask", "settings", "signIn", "e2ee", "apiToken"}
Upgrading == (Common \ {"relocale", "fail"}) \cup {"askA", "askT", "backup", "move", "port"}
Purging == {"disable", "askA", "askT", "inactive", "lock", "unlock", "rmState", "reload"}
           \cup {"rmUnit", "rmAunit", "rmLauncher", "rmMcp", "rmNpm", "rmProfile", "rmTokens",
                 "rmDeploy"}

Programs == Seq(Installing \cup Upgrading \cup Purging)

LEMMA ProgramShape ==
    ASSUME NEW s \in Programs
    PROVE  /\ Len(s) \in Nat /\ DOMAIN s = 1..Len(s)
           /\ s = <<>> <=> Len(s) = 0
BY LenProperties, EmptySeq DEF Programs

LEMMA ProgramTail ==
    ASSUME NEW s \in Programs, s # <<>>
    PROVE  /\ 1 \in DOMAIN s /\ Head(s) = s[1]
           /\ Tail(s) \in Programs
           /\ \A i \in DOMAIN Tail(s) : i + 1 \in DOMAIN s /\ Tail(s)[i] = s[i + 1]
           /\ \A i \in DOMAIN s : i = 1 \/ i - 1 \in DOMAIN Tail(s)
           /\ \A i \in DOMAIN s : i \in Int /\ i >= 1
           /\ \A i \in DOMAIN Tail(s) : i \in Int /\ i >= 1
           /\ Tail(s) = <<>> <=> Len(s) = 1
<1>1. Len(s) \in Nat /\ Len(s) # 0 /\ DOMAIN s = 1..Len(s)
  BY ProgramShape
<1>2. /\ Tail(s) \in Programs /\ Len(Tail(s)) = Len(s) - 1
      /\ \A i \in 1..Len(Tail(s)) : Tail(s)[i] = s[i + 1]
  BY HeadTailProperties DEF Programs
<1>3. DOMAIN Tail(s) = 1..(Len(s) - 1) /\ (Tail(s) = <<>> <=> Len(s) - 1 = 0)
  BY <1>2, ProgramShape
<1>4. Head(s) = s[1]
  BY DEF Programs
<1> QED BY <1>1, <1>2, <1>3, <1>4

LEMMA ProgramConcat ==
    ASSUME NEW s \in Programs, NEW t \in Programs
    PROVE  /\ s \o t \in Programs
           /\ \A i \in DOMAIN (s \o t) :
                \/ i \in DOMAIN s /\ (s \o t)[i] = s[i]
                \/ i - Len(s) \in DOMAIN t /\ (s \o t)[i] = t[i - Len(s)]
           /\ \A i \in DOMAIN s : i \in DOMAIN (s \o t) /\ (s \o t)[i] = s[i]
           /\ \A i \in DOMAIN t : i + Len(s) \in DOMAIN (s \o t) /\ (s \o t)[i + Len(s)] = t[i]
           /\ \A i \in DOMAIN s : i \in Int /\ i >= 1 /\ i <= Len(s)
           /\ \A i \in DOMAIN t : i \in Int /\ i >= 1
           /\ Len(s) \in Nat
           /\ \A i \in DOMAIN (s \o t) : i \in Int
<1>1. /\ s \o t \in Programs /\ Len(s \o t) = Len(s) + Len(t)
      /\ \A i \in 1..Len(s) + Len(t) : (s \o t)[i] = IF i <= Len(s) THEN s[i] ELSE t[i - Len(s)]
  BY ConcatProperties DEF Programs
<1>2. /\ Len(s) \in Nat /\ DOMAIN s = 1..Len(s)
      /\ Len(t) \in Nat /\ DOMAIN t = 1..Len(t)
  BY ProgramShape
<1>3. DOMAIN (s \o t) = 1..Len(s) + Len(t)
  BY <1>1, ProgramShape
<1> QED BY <1>1, <1>2, <1>3

----------------------------------------------------------------------------
(* One step further.                                                          *)
LEMMA InTail ==
    ASSUME NEW s \in Programs, s # <<>>, NEW S, In(s, S)
    PROVE  Head(s) \in S /\ In(Tail(s), S)
BY ProgramTail DEF In

LEMMA HasTail ==
    ASSUME NEW s \in Programs, s # <<>>, NEW b
    PROVE  Has(s, b) <=> Head(s) = b \/ Has(Tail(s), b)
<1>1. ASSUME Has(s, b) PROVE Head(s) = b \/ Has(Tail(s), b)
  <2>1. PICK i \in DOMAIN s : s[i] = b
    BY <1>1 DEF Has
  <2>2. CASE i = 1
    BY <2>1, <2>2, ProgramTail
  <2>3. CASE i # 1
    <3>1. i - 1 \in DOMAIN Tail(s) /\ Tail(s)[i - 1] = s[i - 1 + 1] /\ i \in Int
      BY <2>3, ProgramTail
    <3> QED BY <2>1, <3>1 DEF Has
  <2> QED BY <2>2, <2>3
<1>2. ASSUME Head(s) = b \/ Has(Tail(s), b) PROVE Has(s, b)
  BY <1>2, ProgramTail DEF Has
<1> QED BY <1>1, <1>2

(* The first step of a program waits for nothing that is not so.              *)
LEMMA GuardedHead ==
    ASSUME NEW s \in Programs, s # <<>>, NEW B, NEW fact, Guarded(s, B, Head(s), fact)
    PROVE  fact
<1>1. 1 \in DOMAIN s /\ Head(s) = s[1] /\ \A j \in DOMAIN s : ~(j < 1)
  BY ProgramTail
<1> QED BY <1>1 DEF Guarded

LEMMA GuardedTail ==
    ASSUME NEW s \in Programs, s # <<>>, NEW B, NEW a, NEW fact, NEW later,
           Guarded(s, B, a, fact),
           Has(Tail(s), a) => (fact \/ Head(s) \in B => later)
    PROVE  Guarded(Tail(s), B, a, later)
<1> SUFFICES ASSUME NEW i \in DOMAIN Tail(s), Tail(s)[i] = a, ~later
             PROVE  \E j \in DOMAIN Tail(s) : j < i /\ Tail(s)[j] \in B
  BY DEF Guarded
<1>1. ~fact /\ Head(s) \notin B
  BY DEF Has
<1>2. i + 1 \in DOMAIN s /\ s[i + 1] = a /\ i \in Int
  BY ProgramTail
<1>3. PICK j \in DOMAIN s : j < i + 1 /\ s[j] \in B
  BY <1>1, <1>2 DEF Guarded
<1>4. j # 1
  BY <1>1, <1>3, ProgramTail
<1>5. j - 1 \in DOMAIN Tail(s) /\ Tail(s)[j - 1] = s[j - 1 + 1] /\ j \in Int
  BY <1>4, ProgramTail
<1> QED BY <1>2, <1>3, <1>5

LEMMA NeverTail ==
    ASSUME NEW s \in Programs, s # <<>>, NEW A, NEW b, Never(s, A, b)
    PROVE  Never(Tail(s), A, b) /\ (Head(s) \in A => ~Has(Tail(s), b))
<1>1. ASSUME NEW i \in DOMAIN Tail(s), NEW j \in DOMAIN Tail(s), i < j, Tail(s)[i] \in A
      PROVE  Tail(s)[j] # b
  <2>1. /\ i + 1 \in DOMAIN s /\ Tail(s)[i] = s[i + 1] /\ i \in Int
        /\ j + 1 \in DOMAIN s /\ Tail(s)[j] = s[j + 1] /\ j \in Int
    BY ProgramTail
  <2> QED BY <1>1, <2>1 DEF Never
<1>2. ASSUME Head(s) \in A, NEW j \in DOMAIN Tail(s)
      PROVE  Tail(s)[j] # b
  <2>1. 1 \in DOMAIN s /\ Head(s) = s[1] /\ j + 1 \in DOMAIN s /\ Tail(s)[j] = s[j + 1]
        /\ j \in Int /\ j >= 1
    BY ProgramTail
  <2> QED BY <1>2, <2>1 DEF Never
<1> QED BY <1>1, <1>2 DEF Never, Has

LEMMA UntilTail ==
    ASSUME NEW s \in Programs, s # <<>>, NEW A, NEW b, Until(s, A, b)
    PROVE  Until(Tail(s), A, b) /\ (Head(s) \in A => Has(Tail(s), b))
<1>1. ASSUME NEW i \in DOMAIN s, NEW j \in DOMAIN s, i < j
      PROVE  j - 1 \in DOMAIN Tail(s) /\ Tail(s)[j - 1] = s[j] /\ i \in Int /\ j \in Int
  <2>1. j # 1 /\ i \in Int /\ j \in Int
    BY <1>1, ProgramTail
  <2>2. j - 1 \in DOMAIN Tail(s) /\ Tail(s)[j - 1] = s[j - 1 + 1]
    BY <2>1, ProgramTail
  <2> QED BY <2>1, <2>2
<1>2. ASSUME NEW i \in DOMAIN Tail(s), Tail(s)[i] \in A
      PROVE  \E j \in DOMAIN Tail(s) : i < j /\ Tail(s)[j] = b
  <2>1. i + 1 \in DOMAIN s /\ Tail(s)[i] = s[i + 1] /\ i \in Int
    BY ProgramTail
  <2>2. PICK j \in DOMAIN s : i + 1 < j /\ s[j] = b
    BY <1>2, <2>1 DEF Until
  <2>3. j - 1 \in DOMAIN Tail(s) /\ Tail(s)[j - 1] = s[j] /\ j \in Int
    BY <1>1, <2>1, <2>2
  <2> QED BY <2>1, <2>2, <2>3
<1>3. ASSUME Head(s) \in A PROVE Has(Tail(s), b)
  <2>1. 1 \in DOMAIN s /\ Head(s) = s[1]
    BY ProgramTail
  <2>2. PICK j \in DOMAIN s : 1 < j /\ s[j] = b
    BY <1>3, <2>1 DEF Until
  <2> QED BY <1>1, <2>1, <2>2 DEF Has
<1> QED BY <1>2, <1>3 DEF Until

(* Of what a program does not have nothing is asked.                          *)
LEMMA Lacking ==
    ASSUME NEW s, NEW S, In(s, S), NEW a, a \notin S
    PROVE  /\ ~Has(s, a)
           /\ \A B, fact : Guarded(s, B, a, fact)
           /\ \A A : Never(s, A, a)
BY DEF In, Has, Guarded, Never

LEMMA GuardedLater ==
    ASSUME NEW s, NEW B, NEW a, NEW fact, NEW later, Guarded(s, B, a, fact), fact => later
    PROVE  Guarded(s, B, a, later)
BY DEF Guarded

(* One program after another.                                                 *)
LEMMA InConcat ==
    ASSUME NEW s \in Programs, NEW t \in Programs, NEW S, In(s, S), In(t, S)
    PROVE  In(s \o t, S)
<1>1. ASSUME NEW i \in DOMAIN (s \o t) PROVE (s \o t)[i] \in S
  <2>1. \/ i \in DOMAIN s /\ (s \o t)[i] = s[i]
        \/ i - Len(s) \in DOMAIN t /\ (s \o t)[i] = t[i - Len(s)]
    BY ProgramConcat
  <2> QED BY <2>1 DEF In
<1> QED BY <1>1 DEF In

LEMMA HasConcat ==
    ASSUME NEW s \in Programs, NEW t \in Programs, NEW b, Has(s, b) \/ Has(t, b)
    PROVE  Has(s \o t, b)
<1>1. /\ \A i \in DOMAIN s : i \in DOMAIN (s \o t) /\ (s \o t)[i] = s[i]
      /\ \A i \in DOMAIN t : i + Len(s) \in DOMAIN (s \o t) /\ (s \o t)[i + Len(s)] = t[i]
  BY ProgramConcat
<1>2. CASE Has(s, b)
  BY <1>1, <1>2 DEF Has
<1>3. CASE Has(t, b)
  BY <1>1, <1>3 DEF Has
<1> QED BY <1>2, <1>3

LEMMA LacksConcat ==
    ASSUME NEW s \in Programs, NEW t \in Programs, NEW b, ~Has(s, b), ~Has(t, b)
    PROVE  ~Has(s \o t, b)
<1>1. ASSUME NEW i \in DOMAIN (s \o t) PROVE (s \o t)[i] # b
  <2>1. \/ i \in DOMAIN s /\ (s \o t)[i] = s[i]
        \/ i - Len(s) \in DOMAIN t /\ (s \o t)[i] = t[i - Len(s)]
    BY ProgramConcat
  <2> QED BY <2>1 DEF Has
<1> QED BY <1>1 DEF Has

LEMMA GuardedConcat ==
    ASSUME NEW s \in Programs, NEW t \in Programs, NEW B, NEW a, NEW fact,
           Guarded(s, B, a, fact),
           Guarded(t, B, a, fact) \/ \E b \in B : Has(s, b)
    PROVE  Guarded(s \o t, B, a, fact)
<1> SUFFICES ASSUME NEW i \in DOMAIN (s \o t), (s \o t)[i] = a, ~fact
             PROVE  \E j \in DOMAIN (s \o t) : j < i /\ (s \o t)[j] \in B
  BY DEF Guarded
<1>1. CASE i \in DOMAIN s /\ (s \o t)[i] = s[i]
  <2>1. PICK j \in DOMAIN s : j < i /\ s[j] \in B
    BY <1>1 DEF Guarded
  <2> QED BY <2>1, ProgramConcat
<1>2. CASE i - Len(s) \in DOMAIN t /\ (s \o t)[i] = t[i - Len(s)]
  <2>0. i \in Int /\ Len(s) \in Nat /\ i - Len(s) >= 1
    BY <1>2, ProgramConcat
  <2>1. CASE \E b \in B : Has(s, b)
    <3>1. PICK j \in DOMAIN s : s[j] \in B
      BY <2>1 DEF Has
    <3>2. j \in DOMAIN (s \o t) /\ (s \o t)[j] = s[j] /\ j \in Int /\ j <= Len(s)
      BY ProgramConcat
    <3>3. j < i
      BY <2>0, <3>2
    <3> QED BY <3>1, <3>2, <3>3
  <2>2. CASE Guarded(t, B, a, fact)
    <3>1. PICK j \in DOMAIN t : j < i - Len(s) /\ t[j] \in B
      BY <1>2, <2>2 DEF Guarded
    <3>2. j + Len(s) \in DOMAIN (s \o t) /\ (s \o t)[j + Len(s)] = t[j] /\ j \in Int
      BY ProgramConcat
    <3>3. j + Len(s) < i
      BY <2>0, <3>1, <3>2
    <3> QED BY <3>1, <3>2, <3>3
  <2> QED BY <2>1, <2>2
<1> QED BY <1>1, <1>2, ProgramConcat, ZenonT(60)

LEMMA NeverConcat ==
    ASSUME NEW s \in Programs, NEW t \in Programs, NEW A, NEW b,
           Never(s, A, b), Never(t, A, b),
           (\A a \in A : ~Has(s, a)) \/ ~Has(t, b)
    PROVE  Never(s \o t, A, b)
<1> SUFFICES ASSUME NEW i \in DOMAIN (s \o t), NEW j \in DOMAIN (s \o t), i < j,
                    (s \o t)[i] \in A, (s \o t)[j] = b
             PROVE  FALSE
  BY DEF Never
<1>1. i \in Int /\ j \in Int /\ Len(s) \in Nat
  BY ProgramConcat
<1>2. CASE i \in DOMAIN s /\ (s \o t)[i] = s[i]
  <2>1. CASE j \in DOMAIN s /\ (s \o t)[j] = s[j]
    BY <1>2, <2>1 DEF Never
  <2>2. CASE j - Len(s) \in DOMAIN t /\ (s \o t)[j] = t[j - Len(s)]
    BY <1>2, <2>2 DEF Has
  <2> QED BY <2>1, <2>2, ProgramConcat
<1>3. CASE i - Len(s) \in DOMAIN t /\ (s \o t)[i] = t[i - Len(s)]
  <2>1. i - Len(s) >= 1
    BY <1>3, ProgramConcat
  <2>2. j \notin DOMAIN s
    BY <1>1, <2>1, ProgramConcat
  <2>3. j - Len(s) \in DOMAIN t /\ (s \o t)[j] = t[j - Len(s)]
    BY <2>2, ProgramConcat
  <2>4. i - Len(s) < j - Len(s)
    BY <1>1
  <2> QED BY <1>3, <2>3, <2>4 DEF Never
<1> QED BY <1>2, <1>3, ProgramConcat

LEMMA UntilConcat ==
    ASSUME NEW s \in Programs, NEW t \in Programs, NEW A, NEW b,
           Until(s, A, b) \/ Has(t, b), Until(t, A, b)
    PROVE  Until(s \o t, A, b)
<1> SUFFICES ASSUME NEW i \in DOMAIN (s \o t), (s \o t)[i] \in A
             PROVE  \E j \in DOMAIN (s \o t) : i < j /\ (s \o t)[j] = b
  BY DEF Until
<1>1. i \in Int /\ Len(s) \in Nat
  BY ProgramConcat
<1>2. CASE i \in DOMAIN s /\ (s \o t)[i] = s[i]
  <2>1. CASE Until(s, A, b)
    <3>1. PICK j \in DOMAIN s : i < j /\ s[j] = b
      BY <1>2, <2>1 DEF Until
    <3> QED BY <3>1, ProgramConcat
  <2>2. CASE Has(t, b)
    <3>1. PICK j \in DOMAIN t : t[j] = b
      BY <2>2 DEF Has
    <3>2. j + Len(s) \in DOMAIN (s \o t) /\ (s \o t)[j + Len(s)] = t[j] /\ j \in Int /\ j >= 1
      BY ProgramConcat
    <3>3. i <= Len(s)
      BY <1>2, ProgramConcat
    <3>4. i < j + Len(s)
      BY <1>1, <3>2, <3>3
    <3> QED BY <3>1, <3>2, <3>4
  <2> QED BY <2>1, <2>2
<1>3. CASE i - Len(s) \in DOMAIN t /\ (s \o t)[i] = t[i - Len(s)]
  <2>1. PICK j \in DOMAIN t : i - Len(s) < j /\ t[j] = b
    BY <1>3 DEF Until
  <2>2. j + Len(s) \in DOMAIN (s \o t) /\ (s \o t)[j + Len(s)] = t[j] /\ j \in Int
    BY ProgramConcat
  <2>3. i < j + Len(s)
    BY <1>1, <2>1, <2>2
  <2> QED BY <2>1, <2>2, <2>3
<1> QED BY <1>2, <1>3, ProgramConcat

(* One step follows at once on another.                                       *)
Then(s, a, b) == \A i \in DOMAIN s : s[i] = a => i + 1 \in DOMAIN s /\ s[i + 1] = b

LEMMA ThenTail ==
    ASSUME NEW s \in Programs, s # <<>>, NEW a, NEW b, Then(s, a, b)
    PROVE  /\ Then(Tail(s), a, b)
           /\ Head(s) = a => Tail(s) # <<>> /\ Head(Tail(s)) = b
<1>1. ASSUME NEW i \in DOMAIN Tail(s), Tail(s)[i] = a
      PROVE  i + 1 \in DOMAIN Tail(s) /\ Tail(s)[i + 1] = b
  <2>1. i + 1 \in DOMAIN s /\ Tail(s)[i] = s[i + 1] /\ i \in Int /\ i >= 1
    BY ProgramTail
  <2>2. i + 1 + 1 \in DOMAIN s /\ s[i + 1 + 1] = b
    BY <1>1, <2>1 DEF Then
  <2>3. i + 1 + 1 - 1 \in DOMAIN Tail(s)
    BY <2>1, <2>2, ProgramTail
  <2>4. i + 1 \in DOMAIN Tail(s)
    BY <2>1, <2>3
  <2> QED BY <2>2, <2>4, ProgramTail
<1>2. ASSUME Head(s) = a PROVE Tail(s) # <<>> /\ Head(Tail(s)) = b
  <2>1. 1 \in DOMAIN s /\ Head(s) = s[1]
    BY ProgramTail
  <2>2. 1 + 1 \in DOMAIN s /\ s[1 + 1] = b
    BY <1>2, <2>1 DEF Then
  <2>3. 1 + 1 - 1 \in DOMAIN Tail(s)
    BY <2>2, ProgramTail
  <2>4. 1 \in DOMAIN Tail(s) /\ Tail(s)[1] = b
    BY <2>2, <2>3, ProgramTail
  <2>5. Tail(s) \in Programs /\ Tail(s) # <<>>
    BY <2>4, ProgramTail, ProgramShape
  <2> QED BY <2>4, <2>5, ProgramTail
<1> QED BY <1>1, <1>2 DEF Then

LEMMA ThenConcat ==
    ASSUME NEW s \in Programs, NEW t \in Programs, NEW a, NEW b, Then(s, a, b), Then(t, a, b)
    PROVE  Then(s \o t, a, b)
<1> SUFFICES ASSUME NEW i \in DOMAIN (s \o t), (s \o t)[i] = a
             PROVE  i + 1 \in DOMAIN (s \o t) /\ (s \o t)[i + 1] = b
  BY DEF Then
<1>1. CASE i \in DOMAIN s /\ (s \o t)[i] = s[i]
  <2>1. i + 1 \in DOMAIN s /\ s[i + 1] = b
    BY <1>1 DEF Then
  <2> QED BY <2>1, ProgramConcat
<1>2. CASE i - Len(s) \in DOMAIN t /\ (s \o t)[i] = t[i - Len(s)]
  <2>1. i - Len(s) + 1 \in DOMAIN t /\ t[i - Len(s) + 1] = b
    BY <1>2 DEF Then
  <2>2. i - Len(s) + 1 + Len(s) \in DOMAIN (s \o t)
        /\ (s \o t)[i - Len(s) + 1 + Len(s)] = b
    BY <2>1, ProgramConcat
  <2>3. i - Len(s) + 1 + Len(s) = i + 1
    BY ProgramConcat
  <2> QED BY <2>2, <2>3
<1> QED BY <1>1, <1>2, ProgramConcat

----------------------------------------------------------------------------
(* The programs of the installer.                                             *)

(* What the programs that build an installation have in common: a unit comes  *)
(* after what it needs, the adapter is stopped before its program is replaced *)
(* if it was found active, nothing that a process reads at its start is       *)
(* changed once that process was stopped, and the profile is worked on        *)
(* between lock and unlock.                                                   *)
Sound(s) ==
    /\ s \in Programs
    /\ \A fact : Guarded(s, {"deploy"}, "unit", fact)
    /\ \A fact : Guarded(s, {"launcher"}, "unit", fact)
    /\ \A fact : Guarded(s, {"mcp"}, "aunit", fact)
    /\ \A fact : Guarded(s, {"tokens"}, "aunit", fact)
    /\ \A fact : Guarded(s, {"aunit"}, "reload", fact)
    /\ \A step \in ProfileSteps : \A fact : Guarded(s, {"lock"}, step, fact)
    /\ \A step \in ProfileSteps : Never(s, {"unlock"}, step)
    /\ \A step \in {"sync", "relocale"} : \A fact : Guarded(s, {"locale"}, step, fact)
    /\ Has(s, "npm")
    /\ Until(s, {"move"}, "npm")
    /\ \A fact : Guarded(s, {"stopA?"}, "mcp", fact)
    /\ \A fact : Guarded(s, {"ask", "askA"}, "stopA?", fact)
    /\ Never(s, {"npm", "move"}, "move")
    /\ Never(s, {"mcp"}, "backup")
    /\ Never(s, {"probeT"}, "stopT")
    /\ Never(s, {"stopA"}, "mcp")
    /\ Never(s, {"stopA"}, "reload")
    /\ Then(s, "locale", "sync")
    /\ Then(s, "sync", "relocale")

ReadAtStart == {"npm", "move", "settings", "port"}

Restarts(s) ==
    /\ Until(s, ReadAtStart, "stopT")
    /\ Until(s, {"mcp", "reload"}, "stopA")
    /\ \A step \in {"npm", "mcp", "reload", "stopT", "probeT", "stopA"} : Has(s, step)

LEMMA Literals ==
    /\ InstallSteps \in Programs /\ PurgeSteps \in Programs /\ Restart \in Programs
    /\ <<>> \in Programs /\ <<"port">> \in Programs
<1>1. InstallSteps \in Programs
  BY DEF InstallSteps, Programs, Installing, Common, Cleaning, Files, Synchronizing
<1>2. PurgeSteps \in Programs
  BY DEF PurgeSteps, Programs, Purging
<1>3. Restart \in Programs
  BY DEF Restart, Programs, Installing, Common, Restarting
<1>4. <<>> \in Programs /\ <<"port">> \in Programs
  BY DEF Programs, Upgrading
<1> QED BY <1>1, <1>2, <1>3, <1>4

LEMMA InstallLiteral ==
    /\ Sound(InstallSteps)
    /\ In(InstallSteps, Installing)
    /\ \A fact : Guarded(InstallSteps, {"settings"}, "unit", fact)
    /\ Has(InstallSteps, "npm") /\ Has(InstallSteps, "mcp") /\ Has(InstallSteps, "reload")
    /\ ~Has(InstallSteps, "stopT") /\ ~Has(InstallSteps, "probeT") /\ ~Has(InstallSteps, "stopA")
<1>1. /\ \A fact : Guarded(InstallSteps, {"deploy"}, "unit", fact)
      /\ \A fact : Guarded(InstallSteps, {"settings"}, "unit", fact)
      /\ \A fact : Guarded(InstallSteps, {"launcher"}, "unit", fact)
  BY DEF InstallSteps, Guarded
<1>2. \A fact : Guarded(InstallSteps, {"mcp"}, "aunit", fact)
  BY DEF InstallSteps, Guarded
<1>3. \A fact : Guarded(InstallSteps, {"tokens"}, "aunit", fact)
  BY DEF InstallSteps, Guarded
<1>4. \A fact : Guarded(InstallSteps, {"aunit"}, "reload", fact)
  BY DEF InstallSteps, Guarded
<1>5. \A fact : Guarded(InstallSteps, {"stopA?"}, "mcp", fact)
  BY DEF InstallSteps, Guarded
<1>6. \A fact : Guarded(InstallSteps, {"ask", "askA"}, "stopA?", fact)
  BY DEF InstallSteps, Guarded
<1>7. Never(InstallSteps, {"npm", "move"}, "move") /\ Never(InstallSteps, {"mcp"}, "backup")
  BY DEF InstallSteps, Never
<1>8. /\ Never(InstallSteps, {"probeT"}, "stopT")
      /\ Never(InstallSteps, {"stopA"}, "mcp") /\ Never(InstallSteps, {"stopA"}, "reload")
  BY DEF InstallSteps, Never
<1>9. Then(InstallSteps, "locale", "sync") /\ Then(InstallSteps, "sync", "relocale")
  BY DEF InstallSteps, Then
<1>10. In(InstallSteps, Installing)
  BY DEF InstallSteps, In, Installing, Common, Files, Restarting, Cleaning, Synchronizing
<1>11. /\ Has(InstallSteps, "npm") /\ Has(InstallSteps, "mcp") /\ Has(InstallSteps, "reload")
       /\ ~Has(InstallSteps, "stopT") /\ ~Has(InstallSteps, "probeT")
       /\ ~Has(InstallSteps, "stopA")
  BY DEF InstallSteps, Has
<1>12. ASSUME NEW step \in ProfileSteps
       PROVE  /\ \A fact : Guarded(InstallSteps, {"lock"}, step, fact)
              /\ Never(InstallSteps, {"unlock"}, step)
  <2>1. \A fact : Guarded(InstallSteps, {"lock"}, step, fact)
    <3>1. \A i \in 1..4 : InstallSteps[i] # step
      BY DEF InstallSteps, ProfileSteps
    <3>2. InstallSteps[4] = "lock" /\ DOMAIN InstallSteps = 1..20
      BY DEF InstallSteps
    <3> QED BY <3>1, <3>2 DEF Guarded
  <2>2. Never(InstallSteps, {"unlock"}, step)
    <3>1. InstallSteps[20] # step /\ DOMAIN InstallSteps = 1..20
      BY DEF InstallSteps, ProfileSteps
    <3>2. \A i \in 1..18 : InstallSteps[i] # "unlock"
      BY DEF InstallSteps
    <3> QED BY <3>1, <3>2 DEF Never
  <2> QED BY <2>1, <2>2
<1>13. \A step \in {"sync", "relocale"} : \A fact : Guarded(InstallSteps, {"locale"}, step, fact)
  BY DEF InstallSteps, Guarded
<1>14. Until(InstallSteps, {"move"}, "npm")
  BY DEF InstallSteps, Until
<1> QED BY <1>1, <1>2, <1>3, <1>4, <1>5, <1>6, <1>7, <1>8, <1>9, <1>10, <1>11, <1>12, <1>13,
           <1>14, Literals
        DEF Sound

(* The two parts of an upgrade, between which a given port is written.        *)
LEMMA UpgradeLiteral ==
    ASSUME NEW port
    PROVE  /\ Sound(UpgradeSteps(port))
           /\ In(UpgradeSteps(port), Upgrading)
           /\ \A fact : Guarded(UpgradeSteps(port), {"move"}, "npm", fact)
           /\ \A fact : Guarded(UpgradeSteps(port), {"backup"}, "mcp", fact)
           /\ \A step \in {"npm", "mcp", "reload"} : Has(UpgradeSteps(port), step)
           /\ \A step \in Restarting : ~Has(UpgradeSteps(port), step)
<1> DEFINE first == <<"askA", "stopA?", "askT", "stopT?", "lock", "backup", "move", "npm",
                      "launcher", "mcp", "tokens">>
           write == IF port = None THEN <<>> ELSE <<"port">>
           last == <<"deploy", "unit", "aunit", "unlock", "reload">>
<1>1. first \in Programs /\ In(first, Upgrading \ {"port"})
  BY DEF Programs, Upgrading, Common, Files, In
<1>2. last \in Programs /\ In(last, Upgrading \ {"port"})
  BY DEF Programs, Upgrading, Common, Files, In
<1>3. write \in Programs /\ In(write, {"port"})
  BY Literals DEF In
<1>4. UpgradeSteps(port) = (first \o write) \o last
  BY DEF UpgradeSteps
<1>5. /\ \A fact : Guarded(first, {"stopA?"}, "mcp", fact)
      /\ \A fact : Guarded(first, {"ask", "askA"}, "stopA?", fact)
      /\ \A fact : Guarded(first, {"move"}, "npm", fact)
      /\ \A fact : Guarded(first, {"backup"}, "mcp", fact)
      /\ Until(first, {"move"}, "npm")
  BY DEF Guarded, Until
<1>6. /\ Has(first, "npm") /\ Has(first, "mcp") /\ Has(first, "tokens")
      /\ Has(first, "stopA?") /\ Has(first, "move") /\ Has(first, "backup")
      /\ Has(first, "lock") /\ Has(first, "launcher")
  BY DEF Has
<1>7. Never(first, {"npm", "move"}, "move") /\ Never(first, {"mcp"}, "backup")
  BY DEF Never
<1>8. /\ \A fact : Guarded(last, {"deploy"}, "unit", fact)
      /\ \A fact : Guarded(last, {"aunit"}, "reload", fact)
      /\ Has(last, "reload")
  BY DEF Guarded, Has
<1>9. /\ In(first, {"askA", "stopA?", "askT", "stopT?", "lock", "backup", "move", "npm",
                    "launcher", "mcp", "tokens"})
      /\ In(last, {"deploy", "unit", "aunit", "unlock", "reload"})
  BY DEF In
<1> HIDE DEF first, write, last
<1>10. ASSUME NEW a, a # "port"
       PROVE  /\ ~Has(write, a)
              /\ \A B, fact : Guarded(write, B, a, fact)
              /\ \A A : Never(write, A, a)
  <2>1. a \notin {"port"}
    BY <1>10
  <2> QED BY <1>3, <2>1, Lacking
<1>11. ASSUME NEW a, a \notin {"askA", "stopA?", "askT", "stopT?", "lock", "backup", "move",
                               "npm", "launcher", "mcp", "tokens"}
       PROVE  /\ ~Has(first, a)
              /\ \A B, fact : Guarded(first, B, a, fact)
              /\ \A A : Never(first, A, a)
  BY <1>9, <1>11, Lacking
<1>12. ASSUME NEW a, a \notin {"deploy", "unit", "aunit", "unlock", "reload"}
       PROVE  /\ ~Has(last, a)
              /\ \A B, fact : Guarded(last, B, a, fact)
              /\ \A A : Never(last, A, a)
  BY <1>9, <1>12, Lacking
<1> DEFINE begin == first \o write
<1>13. begin \in Programs /\ \A b : Has(first, b) => Has(begin, b)
  BY <1>1, <1>3, HasConcat, ProgramConcat
<1>14. In(begin, Upgrading) /\ In(last, Upgrading)
  <2>1. In(first, Upgrading) /\ In(write, Upgrading) /\ In(last, Upgrading)
    BY <1>1, <1>2, <1>3 DEF In, Upgrading
  <2> QED BY <1>1, <1>3, <2>1, InConcat
<1>15. ASSUME NEW B, NEW a, a # "port", \A fact : Guarded(first, B, a, fact)
       PROVE  \A fact : Guarded(begin, B, a, fact)
  BY <1>1, <1>3, <1>10, <1>15, GuardedConcat
<1>16. ASSUME NEW A, NEW b, b # "port", Never(first, A, b)
       PROVE  Never(begin, A, b)
  BY <1>1, <1>3, <1>10, <1>16, NeverConcat
<1>17. ASSUME NEW a, a # "port", ~Has(first, a)
       PROVE  ~Has(begin, a)
  BY <1>1, <1>3, <1>10, <1>17, LacksConcat
<1> HIDE DEF begin
<1> DEFINE all == begin \o last
<1>18. all \in Programs /\ In(all, Upgrading) /\ \A b : Has(begin, b) \/ Has(last, b) => Has(all, b)
  BY <1>2, <1>13, <1>14, InConcat, HasConcat, ProgramConcat
<1>19. ASSUME NEW B, NEW a, \A fact : Guarded(begin, B, a, fact),
              (\A fact : Guarded(last, B, a, fact)) \/ \E b \in B : Has(begin, b)
       PROVE  \A fact : Guarded(all, B, a, fact)
  BY <1>2, <1>13, <1>19, GuardedConcat
<1>20. ASSUME NEW A, NEW b, Never(begin, A, b), ~Has(last, b), Never(last, A, b)
       PROVE  Never(all, A, b)
  BY <1>2, <1>13, <1>20, NeverConcat
<1>21. ASSUME NEW A, NEW b, Never(begin, A, b), Never(last, A, b), \A a \in A : ~Has(begin, a)
       PROVE  Never(all, A, b)
  BY <1>2, <1>13, <1>21, NeverConcat
<1>22. ASSUME NEW a, ~Has(begin, a), ~Has(last, a)
       PROVE  ~Has(all, a)
  BY <1>2, <1>13, <1>22, LacksConcat
<1> HIDE DEF all
<1>30. /\ \A fact : Guarded(all, {"deploy"}, "unit", fact)
       /\ \A fact : Guarded(all, {"aunit"}, "reload", fact)
  BY <1>8, <1>11, <1>15, <1>19
<1>31. /\ \A fact : Guarded(all, {"mcp"}, "aunit", fact)
       /\ \A fact : Guarded(all, {"tokens"}, "aunit", fact)
       /\ \A fact : Guarded(all, {"launcher"}, "unit", fact)
  BY <1>6, <1>11, <1>13, <1>15, <1>19
<1>32. /\ \A fact : Guarded(all, {"stopA?"}, "mcp", fact)
       /\ \A fact : Guarded(all, {"ask", "askA"}, "stopA?", fact)
       /\ \A fact : Guarded(all, {"move"}, "npm", fact)
       /\ \A fact : Guarded(all, {"backup"}, "mcp", fact)
  BY <1>5, <1>12, <1>15, <1>19
<1>33. Never(all, {"npm", "move"}, "move") /\ Never(all, {"mcp"}, "backup")
  BY <1>7, <1>12, <1>16, <1>20
<1>34. ~Has(begin, "probeT") /\ ~Has(begin, "stopA") /\ ~Has(begin, "stopT")
       /\ ~Has(begin, "locale") /\ ~Has(begin, "sync")
  BY <1>11, <1>17
<1>35. Never(all, {"probeT"}, "stopT")
  BY <1>11, <1>12, <1>16, <1>20
<1>36. Never(all, {"stopA"}, "mcp") /\ Never(all, {"stopA"}, "reload")
  <2>1. ~Has(last, "stopA")
    BY <1>12
  <2>2. ~Has(all, "stopA")
    BY <1>22, <1>34, <2>1
  <2> QED BY <2>2 DEF Never, Has
<1>37. \A a \in Restarting \cup Synchronizing : ~Has(all, a)
  <2>1. \A a \in Restarting \cup Synchronizing : ~Has(begin, a) /\ ~Has(last, a)
    BY <1>11, <1>12, <1>17 DEF Restarting, Synchronizing
  <2> QED BY <1>22, <2>1
<1>38. Then(all, "locale", "sync") /\ Then(all, "sync", "relocale")
  BY <1>37 DEF Then, Has, Synchronizing
<1>39. \A step \in {"npm", "mcp", "reload"} : Has(all, step)
  BY <1>6, <1>8, <1>13, <1>18
<1>40. ASSUME NEW step \in ProfileSteps
       PROVE  /\ \A fact : Guarded(all, {"lock"}, step, fact)
              /\ Never(all, {"unlock"}, step)
  <2>1. step \notin {"askA", "stopA?", "askT", "stopT?", "lock", "backup", "move", "npm",
                     "launcher", "mcp", "tokens"}
        /\ step \notin {"deploy", "unit", "aunit", "unlock", "reload"}
    BY DEF ProfileSteps
  <2>2. /\ \A B, fact : Guarded(first, B, step, fact)
        /\ \A A : Never(first, A, step)
    BY <1>11, <2>1
  <2>3. ~Has(last, step) /\ \A A : Never(last, A, step)
    BY <1>12, <2>1
  <2>4. Has(begin, "lock")
    BY <1>6, <1>13
  <2>5. \A fact : Guarded(begin, {"lock"}, step, fact)
    BY <1>1, <1>3, <1>6, <2>2, GuardedConcat DEF begin
  <2>6. \A fact : Guarded(all, {"lock"}, step, fact)
    BY <1>19, <2>4, <2>5
  <2>7. Never(write, {"unlock"}, step)
    BY <1>3 DEF In, Never
  <2>8. ~Has(first, "unlock")
    BY <1>11
  <2>9. Never(begin, {"unlock"}, step)
    BY <1>1, <1>3, <2>2, <2>7, <2>8, NeverConcat DEF begin
  <2> QED BY <1>20, <2>3, <2>6, <2>9
<1>41. \A step \in {"sync", "relocale"} : \A fact : Guarded(all, {"locale"}, step, fact)
  BY <1>37 DEF Guarded, Has, Synchronizing
<1>42. Until(all, {"move"}, "npm")
  <2>1. /\ Until(write, {"move"}, "npm") /\ Until(last, {"move"}, "npm")
    BY <1>3, <1>9 DEF In, Until
  <2>2. Until(begin, {"move"}, "npm")
    BY <1>1, <1>3, <1>5, <2>1, UntilConcat DEF begin
  <2> QED BY <1>2, <1>13, <2>1, <2>2, UntilConcat DEF all
<1> QED BY <1>4, <1>18, <1>30, <1>31, <1>32, <1>33, <1>35, <1>36, <1>37, <1>38, <1>39, <1>40,
           <1>41, <1>42
        DEF Sound, all, begin

(* A program of either kind with the restart at its end.                      *)
LEMMA WithRestart ==
    ASSUME NEW s, Sound(s), \A step \in Restarting : ~Has(s, step),
           \A step \in {"npm", "mcp", "reload"} : Has(s, step)
    PROVE  Sound(s \o Restart) /\ Restarts(s \o Restart)
<1>1. s \in Programs /\ Restart \in Programs /\ In(Restart, Restarting)
  <2>1. In(Restart, Restarting)
    BY DEF Restart, In, Restarting
  <2> QED BY <2>1, Literals DEF Sound
<1>2. ASSUME NEW a, a \notin Restarting
      PROVE  /\ ~Has(Restart, a)
             /\ \A B, fact : Guarded(Restart, B, a, fact)
             /\ \A A : Never(Restart, A, a)
  BY <1>1, <1>2, Lacking
<1>3. ASSUME NEW B, NEW a, a \notin Restarting, \A fact : Guarded(s, B, a, fact)
      PROVE  \A fact : Guarded(s \o Restart, B, a, fact)
  BY <1>1, <1>2, <1>3, GuardedConcat
<1>4. ASSUME NEW A, NEW b, b \notin Restarting, Never(s, A, b)
      PROVE  Never(s \o Restart, A, b)
  BY <1>1, <1>2, <1>4, NeverConcat
<1>5. /\ \A fact : Guarded(s \o Restart, {"deploy"}, "unit", fact)
      /\ \A fact : Guarded(s \o Restart, {"launcher"}, "unit", fact)
      /\ \A fact : Guarded(s \o Restart, {"mcp"}, "aunit", fact)
      /\ \A fact : Guarded(s \o Restart, {"tokens"}, "aunit", fact)
      /\ \A fact : Guarded(s \o Restart, {"aunit"}, "reload", fact)
      /\ \A fact : Guarded(s \o Restart, {"stopA?"}, "mcp", fact)
      /\ \A fact : Guarded(s \o Restart, {"ask", "askA"}, "stopA?", fact)
  BY <1>3 DEF Sound, Restarting
<1>6. /\ Never(s \o Restart, {"npm", "move"}, "move")
      /\ Never(s \o Restart, {"mcp"}, "backup")
      /\ Never(s \o Restart, {"stopA"}, "mcp")
      /\ Never(s \o Restart, {"stopA"}, "reload")
  BY <1>4 DEF Sound, Restarting
<1>7. Never(s \o Restart, {"probeT"}, "stopT")
  <2>1. Never(Restart, {"probeT"}, "stopT")
    BY DEF Restart, Never
  <2>2. Never(s, {"probeT"}, "stopT") /\ \A a \in {"probeT"} : ~Has(s, a)
    BY DEF Sound, Restarting
  <2> QED BY <1>1, <2>1, <2>2, NeverConcat
<1>8. Then(s \o Restart, "locale", "sync") /\ Then(s \o Restart, "sync", "relocale")
  <2>1. ~Has(Restart, "locale") /\ ~Has(Restart, "sync")
    BY <1>2 DEF Restarting
  <2>2. Then(Restart, "locale", "sync") /\ Then(Restart, "sync", "relocale")
    BY <2>1 DEF Then, Has
  <2> QED BY <1>1, <2>2, ThenConcat DEF Sound
<1>9. Until(s \o Restart, ReadAtStart, "stopT") /\ Until(s \o Restart, {"mcp", "reload"}, "stopA")
  <2>1. Until(Restart, ReadAtStart, "stopT") /\ Until(Restart, {"mcp", "reload"}, "stopA")
    BY DEF Until, ReadAtStart, Restart
  <2>2. Has(Restart, "stopT") /\ Has(Restart, "stopA")
    BY DEF Has, Restart
  <2> QED BY <1>1, <2>1, <2>2, UntilConcat
<1>10. \A step \in {"npm", "mcp", "reload", "stopT", "probeT", "stopA"} : Has(s \o Restart, step)
  <2>1. Has(Restart, "stopT") /\ Has(Restart, "probeT") /\ Has(Restart, "stopA")
    BY DEF Has, Restart
  <2> QED BY <1>1, <2>1, HasConcat
<1>11. s \o Restart \in Programs
  BY <1>1, ProgramConcat
<1>12. ASSUME NEW step \in ProfileSteps
       PROVE  /\ \A fact : Guarded(s \o Restart, {"lock"}, step, fact)
              /\ Never(s \o Restart, {"unlock"}, step)
  <2>1. step \notin Restarting
    BY DEF ProfileSteps, Restarting
  <2> QED BY <1>3, <1>4, <2>1 DEF Sound
<1>13. \A step \in {"sync", "relocale"} : \A fact : Guarded(s \o Restart, {"locale"}, step, fact)
  BY <1>3 DEF Sound, Restarting
<1>14. Until(s \o Restart, {"move"}, "npm")
  <2>1. Until(Restart, {"move"}, "npm")
    BY DEF Until, Restart
  <2> QED BY <1>1, <2>1, UntilConcat DEF Sound
<1> QED BY <1>5, <1>6, <1>7, <1>8, <1>9, <1>10, <1>11, <1>12, <1>13, <1>14 DEF Sound, Restarts

LEMMA NoRestart == ASSUME NEW s \in Programs PROVE s \o <<>> = s
BY ConcatEmptySeq DEF Programs

LEMMA PurgeLiteral ==
    /\ PurgeSteps \in Programs /\ In(PurgeSteps, Purging)
    /\ Has(PurgeSteps, "rmUnit")
    /\ \A fact : /\ \A step \in {"rmDeploy", "rmProfile", "rmLauncher"} :
                      Guarded(PurgeSteps, {"rmUnit"}, step, fact)
                 /\ \A step \in {"rmMcp", "rmTokens"} :
                      Guarded(PurgeSteps, {"rmAunit"}, step, fact)
                 /\ Guarded(PurgeSteps, {"rmMcp"}, "reload", fact)
<1>1. In(PurgeSteps, Purging)
  BY DEF PurgeSteps, In, Purging
<1>2. \A fact : /\ Guarded(PurgeSteps, {"rmUnit"}, "rmDeploy", fact)
                /\ Guarded(PurgeSteps, {"rmUnit"}, "rmProfile", fact)
                /\ Guarded(PurgeSteps, {"rmUnit"}, "rmLauncher", fact)
  BY DEF PurgeSteps, Guarded
<1>3. \A fact : /\ Guarded(PurgeSteps, {"rmAunit"}, "rmMcp", fact)
                /\ Guarded(PurgeSteps, {"rmAunit"}, "rmTokens", fact)
                /\ Guarded(PurgeSteps, {"rmMcp"}, "reload", fact)
  BY DEF PurgeSteps, Guarded
<1>4. Has(PurgeSteps, "rmUnit")
  BY DEF PurgeSteps, Has
<1> QED BY <1>1, <1>2, <1>3, <1>4, Literals

----------------------------------------------------------------------------
(* What is before a program: nothing, or one more synchronization.            *)
Agains == {<<>>, <<"locale", "sync", "relocale">>}

LEMMA AgainShape ==
    ASSUME NEW again \in Agains
    PROVE  /\ again \in Programs /\ In(again, Synchronizing)
           /\ Then(again, "locale", "sync") /\ Then(again, "sync", "relocale")
           /\ \A step \in {"sync", "relocale"} :
                \A fact : Guarded(again, {"locale"}, step, fact)
           /\ again # <<>> => Head(again) = "locale"
<1>1. CASE again = <<>>
  <2>1. DOMAIN again = {}
    BY <1>1, Literals, ProgramShape
  <2> QED BY <1>1, <2>1, Literals DEF In, Then, Guarded
<1>2. CASE again = <<"locale", "sync", "relocale">>
  <2>1. again \in Programs
    BY <1>2 DEF Programs, Installing, Synchronizing
  <2>2. In(again, Synchronizing)
    BY <1>2 DEF In, Synchronizing
  <2>3. Then(again, "locale", "sync") /\ Then(again, "sync", "relocale")
    BY <1>2 DEF Then
  <2>4. \A step \in {"sync", "relocale"} : \A fact : Guarded(again, {"locale"}, step, fact)
    BY <1>2 DEF Guarded
  <2>5. Head(again) = "locale"
    BY <1>2
  <2> QED BY <2>1, <2>2, <2>3, <2>4, <2>5
<1> QED BY <1>1, <1>2 DEF Agains

LEMMA AgainKeeps ==
    ASSUME NEW again \in Agains, NEW s \in Programs
    PROVE  /\ again \o s \in Programs
           /\ \A S : In(s, S) /\ Synchronizing \subseteq S => In(again \o s, S)
           /\ \A b : Has(s, b) => Has(again \o s, b)
           /\ \A b : ~Has(s, b) /\ b \notin Synchronizing => ~Has(again \o s, b)
           /\ \A B, a, fact :
                Guarded(s, B, a, fact) /\ a \notin Synchronizing => Guarded(again \o s, B, a, fact)
           /\ \A A, b : Until(s, A, b) /\ A \cap Synchronizing = {} => Until(again \o s, A, b)
           /\ \A b \in {"sync", "relocale"} : \A a \in {"locale", "sync"} :
                Then(s, a, b) /\ Then(again, a, b) => Then(again \o s, a, b)
           /\ \A b \in {"sync", "relocale"} : \A fact :
                Guarded(s, {"locale"}, b, fact) => Guarded(again \o s, {"locale"}, b, fact)
           /\ \A A, b : Never(s, A, b) /\ A \cap Synchronizing = {} => Never(again \o s, A, b)
<1>1. again \in Programs /\ In(again, Synchronizing)
  BY AgainShape
<1>2. again \o s \in Programs /\ \A b : Has(s, b) => Has(again \o s, b)
  BY <1>1, ProgramConcat, HasConcat
<1>3. ASSUME NEW S, In(s, S), Synchronizing \subseteq S PROVE In(again \o s, S)
  <2>1. In(again, S)
    BY <1>1, <1>3 DEF In
  <2> QED BY <1>1, <1>3, <2>1, InConcat
<1>4. ASSUME NEW a, a \notin Synchronizing
      PROVE  /\ ~Has(again, a)
             /\ \A B, fact : Guarded(again, B, a, fact)
             /\ \A A : Never(again, A, a)
  BY <1>1, <1>4, Lacking
<1>5. ASSUME NEW B, NEW a, NEW fact, Guarded(s, B, a, fact), a \notin Synchronizing
      PROVE  Guarded(again \o s, B, a, fact)
  BY <1>1, <1>4, <1>5, GuardedConcat
<1>6. ASSUME NEW A, NEW b, Never(s, A, b), A \cap Synchronizing = {}
      PROVE  Never(again \o s, A, b)
  <2>1. \A a \in A : ~Has(again, a)
    BY <1>4, <1>6
  <2>2. Never(again, A, b)
    BY <2>1 DEF Never, Has
  <2> QED BY <1>1, <1>6, <2>1, <2>2, NeverConcat
<1>7. ASSUME NEW A, NEW b, Until(s, A, b), A \cap Synchronizing = {}
      PROVE  Until(again \o s, A, b)
  <2>1. Until(again, A, b)
    BY <1>1, <1>7 DEF Until, In
  <2> QED BY <1>1, <1>7, <2>1, UntilConcat
<1>8. ASSUME NEW b, ~Has(s, b), b \notin Synchronizing PROVE ~Has(again \o s, b)
  BY <1>1, <1>4, <1>8, LacksConcat
<1>9. ASSUME NEW a, NEW b, Then(s, a, b), Then(again, a, b) PROVE Then(again \o s, a, b)
  BY <1>1, <1>9, ThenConcat
<1>10. ASSUME NEW b \in {"sync", "relocale"}, NEW fact, Guarded(s, {"locale"}, b, fact)
       PROVE  Guarded(again \o s, {"locale"}, b, fact)
  BY <1>1, <1>10, AgainShape, GuardedConcat
<1> QED BY <1>2, <1>3, <1>5, <1>6, <1>7, <1>8, <1>9, <1>10

----------------------------------------------------------------------------
(* What a step does to the installer and the disk.                            *)
Modes == {"none", "install", "upgrade", "purge"}
Results == {"none", "running", "ok", "failed", "not restored", "not halted", "killed", "uncaught"}
Waiting == {"stopA?", "stopT?", "stopT", "stopA", "haltA", "haltT", "disable"}

Runs == [mode : Modes, todo : Programs, ver : Versions \cup {None}, port : Ports \cup {None},
         start : BOOLEAN, was : SUBSET Services, issued : BOOLEAN,
         joplin : Versions \cup {None}, mcp : Versions \cup {None}, result : Results,
         locale : {"own", "en_GB"}, read : {"own", "en_GB"}, alone : BOOLEAN]

Commands == ({"port"} \X Ports) \cup ({"locale"} \X {"own", "en_GB"}) \cup {<<"nothing", None>>}

Disks == [joplin : Versions \cup {None}, mcp : Versions \cup {None}, launcher : BOOLEAN,
          tokens : SUBSET Tokens, port : Ports \cup {None}, locale : {"own", "en_GB"},
          deployed : BOOLEAN, unit : Ports \cup {None}, aunit : Ports \cup {None},
          kept : SUBSET ({"joplin", "mcp"} \X (Versions \cup {None}))]

InsTyped == ins \in Runs /\ (ins.issued => ~Idle /\ Head(ins.todo) \in Waiting)
DiskTyped == disk \in Disks

SameRun ==
    /\ ins'.mode = ins.mode /\ ins'.ver = ins.ver /\ ins'.port = ins.port
    /\ ins'.start = ins.start /\ ins'.locale = ins.locale
    /\ ins'.joplin = ins.joplin /\ ins'.mcp = ins.mcp /\ ins'.alone = ins.alone

(* What a step leaves on the disk, field by field.                            *)
Effect(step) ==
    /\ disk' \in Disks
    /\ disk'.deployed <=> step = "deploy" \/ (disk.deployed /\ step # "rmDeploy")
    /\ disk'.launcher <=> step = "launcher" \/ (disk.launcher /\ step # "rmLauncher")
    /\ disk'.port = IF step \in {"settings", "port"} THEN ins.port
                    ELSE IF step = "rmProfile" THEN None ELSE disk.port
    /\ disk'.mcp = IF step = "mcp" THEN ins.ver
                   ELSE IF step = "rmMcp" THEN None ELSE disk.mcp
    /\ disk'.joplin = IF step = "npm" THEN ins.ver
                      ELSE IF step = "rmNpm" \/ (step = "move" /\ disk.joplin # ins.ver) THEN None
                      ELSE disk.joplin
    /\ disk'.unit = IF step = "unit" THEN ins.port
                    ELSE IF step = "rmUnit" THEN None ELSE disk.unit
    /\ disk'.aunit = IF step = "aunit" THEN ins.port
                     ELSE IF step = "rmAunit" THEN None ELSE disk.aunit
    /\ disk'.locale = IF step = "locale" THEN "en_GB"
                      ELSE IF step = "relocale" THEN ins.read
                      ELSE IF step = "rmProfile" THEN "own" ELSE disk.locale
    /\ step # "rmTokens" => disk.tokens \subseteq disk'.tokens
    /\ step = "tokens" => disk'.tokens = Tokens
    /\ step # "rmState" => disk.kept \subseteq disk'.kept
    /\ step = "backup" => <<"mcp", disk.mcp>> \in disk'.kept
    /\ step = "move" /\ disk.joplin \notin {None, ins.ver}
         => <<"joplin", disk.joplin>> \in disk'.kept

Onward(again) ==
    /\ ins' \in Runs
    /\ ~Idle
    /\ again # <<>> => Head(ins.todo) = "e2ee"
    /\ ins'.todo = again \o Tail(ins.todo)
    /\ ~ins'.issued
    /\ ins.was \subseteq ins'.was
    /\ \/ ins'.result = ins.result
       \/ ins'.result = "ok" /\ ins.result = "running" /\ ins'.todo = <<>>
       \/ ins'.result = "not halted"
    /\ ins'.read = IF Head(ins.todo) = "locale" THEN disk.locale ELSE ins.read
    /\ SameRun

GoesOn == (\E again \in Agains : Onward(again)) /\ Effect(Head(ins.todo))

Issues ==
    /\ ins' \in Runs
    /\ ~Idle /\ Head(ins.todo) \in Waiting
    /\ ins'.todo = ins.todo /\ ins'.was = ins.was /\ ins'.result = ins.result
    /\ ins'.read = ins.read
    /\ SameRun
    /\ UNCHANGED disk

(* What a failed step may leave on the disk.                                  *)
Left(step) ==
    /\ disk' \in Disks
    /\ disk'.deployed = disk.deployed /\ disk'.launcher = disk.launcher
    /\ disk'.unit = disk.unit /\ disk'.aunit = disk.aunit /\ disk'.mcp = disk.mcp
    /\ disk'.kept = disk.kept
    /\ disk.tokens \subseteq disk'.tokens
    /\ disk'.port = disk.port \/ (step \in {"settings", "port"} /\ disk'.port = ins.port)
    /\ disk'.locale = disk.locale \/ step \in {"locale", "relocale"}
    /\ disk'.joplin = disk.joplin
       \/ (step = "npm" /\ disk.joplin # ins.ver /\ disk'.joplin = None)

GivesUp(step) ==
    /\ ins' \in Runs
    /\ At(step)
    /\ step \notin {"haltA", "haltT", "unlock"}
    /\ ~ins'.issued
    /\ \E failure \in {"tool", "interrupt", "uncaught"} :
         /\ ins'.todo = CleanUp(step, failure)
         /\ ins'.result = IF step \in {"locale", "relocale"} THEN "not restored"
                          ELSE IF failure = "uncaught" THEN "uncaught" ELSE "failed"
         /\ failure = "uncaught" => step # "sync"
    /\ ins'.read = ins.read
    /\ SameRun
    /\ Left(step)

IsKilled ==
    /\ ins' \in Runs
    /\ ins'.todo = <<>>
    /\ ~ins'.issued
    /\ ins'.result = "killed"
    /\ SameRun
    /\ UNCHANGED disk

(* A command of a killed run writes its setting.                              *)
WritesLate ==
    /\ UNCHANGED ins
    /\ stray # {}
    /\ disk' \in Disks
    /\ \/ \E port \in Ports : disk' = [disk EXCEPT !.port = port]
       \/ \E locale \in {"own", "en_GB"} : disk' = [disk EXCEPT !.locale = locale]

Typed == InsTyped /\ DiskTyped

(* Only a run that began beside no such command can rely on the profile.      *)
StrayFollows ==
    /\ stray \subseteq Commands
    /\ ins.result = "killed" => Idle
    /\ ins.alone => stray = {} \/ ins.result = "killed"

LEMMA CleanUpShape ==
    ASSUME NEW step, NEW failure
    PROVE  /\ CleanUp(step, failure) \in Programs
           /\ ins.mode = "upgrade" /\ step # "sync" /\ failure # "uncaught" =>
                CleanUp(step, failure) \in
                  {<<"haltT", "haltA", "haltT">>, <<"haltA", "haltA", "haltT">>,
                   <<"haltA", "haltT">>}
           /\ ins.mode = "purge" /\ step \notin {"sync", "probeT", "probeA"}
                => CleanUp(step, failure) = <<>>
           /\ step # "sync" /\ failure = "uncaught" => CleanUp(step, failure) = <<>>
           /\ step = "sync" => CleanUp(step, failure) = <<"relocale", "fail">>
           /\ In(CleanUp(step, failure), Cleaning)
           /\ step # "sync" => In(CleanUp(step, failure), {"haltT", "haltA"})
           /\ step \in {"locale", "relocale"} /\ ins.mode = "install"
                => CleanUp(step, failure) = <<>>
<1> DEFINE own == HaltProbed(step, failure)
           both == IF ins.mode = "upgrade" /\ failure # "uncaught" THEN Halt ELSE <<>>
<1>1. own = IF failure # "tool" THEN <<>>
            ELSE IF step = "probeT" THEN <<"haltT">> ELSE IF step = "probeA" THEN <<"haltA">>
            ELSE <<>>
  BY DEF HaltProbed
<1>2. /\ <<"haltT">> \in Programs /\ <<"haltA">> \in Programs
      /\ <<"haltA", "haltT">> \in Programs /\ <<>> \in Programs
      /\ <<"relocale", "fail">> \in Programs
      /\ <<"haltT", "haltA", "haltT">> \in Programs /\ <<"haltA", "haltA", "haltT">> \in Programs
  BY Literals DEF Programs, Installing, Common, Cleaning
<1>3. ASSUME NEW x \in {"haltA", "haltT"}
      PROVE  <<x>> \o <<"haltA", "haltT">> = <<x, "haltA", "haltT">>
  <2>1. <<x>> \in Programs /\ <<x, "haltA", "haltT">> \in Programs
    BY <1>2
  <2>2. /\ <<x>> \o <<"haltA", "haltT">> \in Programs
        /\ Len(<<x>> \o <<"haltA", "haltT">>) = Len(<<x>>) + Len(<<"haltA", "haltT">>)
        /\ \A i \in 1..Len(<<x>>) + Len(<<"haltA", "haltT">>) :
             (<<x>> \o <<"haltA", "haltT">>)[i] =
               IF i <= Len(<<x>>) THEN <<x>>[i] ELSE <<"haltA", "haltT">>[i - Len(<<x>>)]
    BY <1>2, <2>1, ConcatProperties DEF Programs
  <2> DEFINE s == <<x>> \o <<"haltA", "haltT">>
  <2>3. Len(s) = 3 /\ s[1] = x /\ s[2] = "haltA" /\ s[3] = "haltT"
    BY <2>2
  <2>4. Len(<<x, "haltA", "haltT">>) = 3
    OBVIOUS
  <2>5. \A i \in 1..3 : s[i] = <<x, "haltA", "haltT">>[i]
    BY <2>3
  <2> QED BY <2>1, <2>2, <2>3, <2>4, <2>5, SeqEqual DEF Programs
<1>4. /\ <<>> \o <<"haltA", "haltT">> = <<"haltA", "haltT">>
      /\ \A s \in Programs : s \o <<>> = s
  BY <1>2, ConcatEmptySeq DEF Programs
<1>5a. CASE step = "sync"
  <2>1. CleanUp(step, failure) = <<"relocale", "fail">>
    BY <1>5a DEF CleanUp
  <2> QED BY <1>2, <1>5a, <2>1 DEF In, Cleaning
<1>5b. CASE step # "sync"
  <2>1. CleanUp(step, failure) = own \o both
    BY <1>5b DEF CleanUp
  <2>2. own \in Programs
    BY <1>1, <1>2
  <2> HIDE DEF own
  <2>3. CASE ins.mode = "upgrade" /\ failure # "uncaught"
    <3>1. CleanUp(step, failure) = own \o <<"haltA", "haltT">>
      BY <2>1, <2>3 DEF Halt
    <3>2. CleanUp(step, failure) \in
            {<<"haltT", "haltA", "haltT">>, <<"haltA", "haltA", "haltT">>, <<"haltA", "haltT">>}
      BY <1>1, <1>3, <1>4, <3>1
    <3> QED BY <1>2, <1>5b, <2>3, <3>2 DEF In, Cleaning
  <2>4. CASE ~(ins.mode = "upgrade" /\ failure # "uncaught")
    <3>1. CleanUp(step, failure) = own
      BY <1>4, <2>1, <2>2, <2>4
    <3>2. own \in {<<"haltT">>, <<"haltA">>, <<>>}
      BY <1>1
    <3>3. In(own, {"haltT", "haltA"}) /\ In(own, Cleaning)
      BY <3>2 DEF In, Cleaning
    <3>4. step \notin {"probeT", "probeA"} \/ failure # "tool" => own = <<>>
      BY <1>1
    <3> QED BY <1>2, <1>5b, <2>2, <2>4, <3>1, <3>3, <3>4
  <2> QED BY <2>3, <2>4
<1> QED BY <1>5a, <1>5b

LEMMA AdvanceIsOnward ==
    ASSUME InsTyped, DiskTyped, ~Idle,
           \/ /\ Head(ins.todo) # "locale"
              /\ \/ ins' = Advanced
                 \/ \E S \in SUBSET Services : ins' = [Advanced EXCEPT !.was = @ \cup S]
                 \/ ins' = [Advanced EXCEPT !.result = "not halted"]
           \/ Head(ins.todo) = "locale" /\ ins' = [Advanced EXCEPT !.read = disk.locale]
    PROVE  Onward(<<>>) /\ <<>> \in Agains
<1>1. ins.todo \in Programs /\ ins.todo # <<>>
  BY DEF InsTyped, Runs, Idle
<1>2. <<>> \o Tail(ins.todo) = Tail(ins.todo)
  BY <1>1, ProgramTail, ConcatEmptySeq DEF Programs
<1>5. Len(ins.todo) = 1 => Tail(ins.todo) = <<>>
  BY <1>1, ProgramTail
<1>6. disk.locale \in {"own", "en_GB"}
  BY DEF DiskTyped, Disks
<1> DEFINE Moves ==
             /\ ins' \in Runs
             /\ ins'.todo = Tail(ins.todo) /\ ~ins'.issued /\ ins.was \subseteq ins'.was
             /\ \/ ins'.result = ins.result
                \/ ins'.result = "ok" /\ ins.result = "running" /\ Len(ins.todo) = 1
                \/ ins'.result = "not halted"
             /\ SameRun
<1>0. Tail(ins.todo) \in Programs
  BY <1>1, ProgramTail
<1>a. ASSUME ins' = Advanced PROVE Moves /\ ins'.read = ins.read
  BY <1>0, <1>1, <1>a, ZenonT(60) DEF InsTyped, Runs, Results, Advanced, SameRun
<1>b. ASSUME NEW S \in SUBSET Services, ins' = [Advanced EXCEPT !.was = @ \cup S]
      PROVE  Moves /\ ins'.read = ins.read
  BY <1>0, <1>1, <1>b, ZenonT(60) DEF InsTyped, Runs, Results, Advanced, SameRun
<1>c. ASSUME ins' = [Advanced EXCEPT !.result = "not halted"] PROVE Moves /\ ins'.read = ins.read
  BY <1>0, <1>1, <1>c, ZenonT(60) DEF InsTyped, Runs, Results, Advanced, SameRun
<1>d. ASSUME ins' = [Advanced EXCEPT !.read = disk.locale] PROVE Moves /\ ins'.read = disk.locale
  BY <1>0, <1>1, <1>6, <1>d, ZenonT(60) DEF InsTyped, Runs, Results, Advanced, SameRun
<1>3. /\ Moves
      /\ ins'.read = IF Head(ins.todo) = "locale" THEN disk.locale ELSE ins.read
  BY <1>a, <1>b, <1>c, <1>d
<1> QED BY <1>2, <1>3, <1>5 DEF Onward, Agains

Writes == Files \cup {"settings", "port", "locale", "relocale", "backup", "move", "rmUnit",
                      "rmAunit", "rmLauncher", "rmMcp", "rmNpm", "rmProfile", "rmTokens",
                      "rmDeploy", "rmState"}

LEMMA NoEffect ==
    ASSUME DiskTyped, NEW step, step \notin Writes, UNCHANGED disk
    PROVE  Effect(step)
BY DEF Effect, Writes, Files, DiskTyped, Disks

LEMMA Reads ==
    ASSUME InsTyped, UNCHANGED disk, DiskTyped, NEW step, At(step), step \notin Writes,
           \/ Advance
           \/ \E S \in SUBSET Services : ins' = [Advanced EXCEPT !.was = @ \cup S]
           \/ ins' = [Advanced EXCEPT !.result = "not halted"]
    PROVE  GoesOn
<1>0. Head(ins.todo) # "locale" /\ ~Idle
  BY DEF At, Writes
<1>1. Onward(<<>>) /\ <<>> \in Agains
  BY <1>0, AdvanceIsOnward DEF Advance
<1>2. Effect(Head(ins.todo))
  BY NoEffect DEF At
<1> QED BY <1>1, <1>2 DEF GoesOn

LEMMA Writing ==
    ASSUME Typed, FileStep
    PROVE  GoesOn
<1>1. ASSUME NEW step, step # "locale", NEW new, Write(step, new), disk' = new => Effect(step)
      PROVE  GoesOn
  <2>1. Onward(<<>>) /\ <<>> \in Agains
    BY <1>1, AdvanceIsOnward DEF Write, At, Advance, Typed
  <2>2. Effect(Head(ins.todo))
    BY <1>1 DEF Write, At
  <2> QED BY <2>1, <2>2 DEF GoesOn
<1>2. CASE InstallNpm
  BY <1>1, <1>2 DEF InstallNpm, Effect, Typed, DiskTyped, Disks, InsTyped, Runs
<1>3. CASE InstallLauncher
  BY <1>1, <1>3, ZenonT(60) DEF InstallLauncher, Effect, Typed, DiskTyped, Disks
<1>4. CASE InstallMcp
  BY <1>1, <1>4 DEF InstallMcp, Effect, Typed, DiskTyped, Disks, InsTyped, Runs
<1>5. CASE ConfigureProfile
  BY <1>1, <1>5 DEF ConfigureProfile, Effect, Typed, DiskTyped, Disks, InsTyped, Runs
<1>6. CASE WriteApiPort
  BY <1>1, <1>6 DEF WriteApiPort, Effect, Typed, DiskTyped, Disks, InsTyped, Runs
<1>7. CASE SignIn
  BY <1>1, <1>7, NoEffect DEF SignIn, Writes, Files, Typed
<1>8. CASE SetLocale
  <2>1. Onward(<<>>) /\ <<>> \in Agains
    BY <1>8, AdvanceIsOnward DEF SetLocale, At, Typed
  <2>2. Effect("locale")
    BY <1>8 DEF SetLocale, Effect, Typed, DiskTyped, Disks
  <2> QED BY <1>8, <2>1, <2>2 DEF SetLocale, At, GoesOn
<1>9. CASE RunSync
  BY <1>1, <1>9, NoEffect DEF RunSync, Writes, Files, Typed
<1>10. CASE RestoreLocale
  BY <1>1, <1>10 DEF RestoreLocale, Effect, Typed, DiskTyped, Disks, InsTyped, Runs
<1>11. CASE ExtractApiToken
  BY <1>1, <1>11 DEF ExtractApiToken, Effect, Typed, DiskTyped, Disks, Tokens
<1>12. CASE StoreTokens
  BY <1>1, <1>12 DEF StoreTokens, Effect, Typed, DiskTyped, Disks, Tokens
<1>13. CASE DeploySupervisor
  BY <1>1, <1>13, ZenonT(60) DEF DeploySupervisor, Effect, Typed, DiskTyped, Disks
<1>14. CASE InstallUnit
  BY <1>1, <1>14 DEF InstallUnit, Effect, Typed, DiskTyped, Disks, InsTyped, Runs
<1>15. CASE InstallAdapterUnit
  BY <1>1, <1>15 DEF InstallAdapterUnit, Effect, Typed, DiskTyped, Disks, InsTyped, Runs
<1>16. CASE BackupFiles
  BY <1>1, <1>16 DEF BackupFiles, Effect, Typed, DiskTyped, Disks
<1>17. CASE MoveNpmTree
  <2>1. CASE disk.joplin \in {None, ins.ver}
    <3>1. disk' = disk => Effect("move")
      BY <2>1 DEF Effect, Typed, DiskTyped, Disks
    <3>2. Write("move", disk)
      BY <1>17, <2>1 DEF MoveNpmTree
    <3> QED BY <1>1, <3>1, <3>2
  <2>2. CASE disk.joplin \notin {None, ins.ver}
    <3>0. disk.kept \cup {<<"joplin", disk.joplin>>}
            \in SUBSET ({"joplin", "mcp"} \X (Versions \cup {None}))
      BY DEF Typed, DiskTyped, Disks
    <3>1. ASSUME disk' = [disk EXCEPT !.joplin = None,
                                      !.kept = disk.kept \cup {<<"joplin", disk.joplin>>}]
          PROVE  Effect("move")
      <4>1. /\ disk' \in Disks /\ disk'.joplin = None
            /\ disk'.kept = disk.kept \cup {<<"joplin", disk.joplin>>}
        BY <3>0, <3>1 DEF Typed, DiskTyped, Disks
      <4>2. /\ disk'.deployed = disk.deployed /\ disk'.port = disk.port /\ disk'.mcp = disk.mcp
            /\ disk'.unit = disk.unit /\ disk'.aunit = disk.aunit /\ disk'.locale = disk.locale
            /\ disk'.tokens = disk.tokens /\ disk'.launcher = disk.launcher
        BY <3>1 DEF Typed, DiskTyped, Disks
      <4> QED BY <2>2, <4>1, <4>2 DEF Effect
    <3>2. Write("move", [disk EXCEPT !.joplin = None,
                                     !.kept = disk.kept \cup {<<"joplin", disk.joplin>>}])
      BY <1>17, <2>2 DEF MoveNpmTree
    <3> QED BY <1>1, <3>1, <3>2
  <2> QED BY <2>1, <2>2
<1>18. CASE RemoveManaged
  <2>1. CASE Write("rmUnit", [disk EXCEPT !.unit = None])
    BY <1>1, <2>1, ZenonT(60) DEF Effect, Typed, DiskTyped, Disks
  <2>2. CASE Write("rmAunit", [disk EXCEPT !.aunit = None])
    BY <1>1, <2>2, ZenonT(60) DEF Effect, Typed, DiskTyped, Disks
  <2>3. CASE Write("rmLauncher", [disk EXCEPT !.launcher = FALSE])
    BY <1>1, <2>3, ZenonT(60) DEF Effect, Typed, DiskTyped, Disks
  <2>4. CASE Write("rmMcp", [disk EXCEPT !.mcp = None])
    BY <1>1, <2>4, ZenonT(60) DEF Effect, Typed, DiskTyped, Disks
  <2>5. CASE Write("rmNpm", [disk EXCEPT !.joplin = None])
    BY <1>1, <2>5, ZenonT(60) DEF Effect, Typed, DiskTyped, Disks
  <2>6. CASE Write("rmProfile", [disk EXCEPT !.port = None, !.locale = "own"])
    BY <1>1, <2>6, ZenonT(60) DEF Effect, Typed, DiskTyped, Disks
  <2>7. CASE Write("rmTokens", [disk EXCEPT !.tokens = {}])
    BY <1>1, <2>7, ZenonT(60) DEF Effect, Typed, DiskTyped, Disks
  <2>8. CASE Write("rmDeploy", [disk EXCEPT !.deployed = FALSE])
    BY <1>1, <2>8, ZenonT(60) DEF Effect, Typed, DiskTyped, Disks
  <2>9. CASE Write("rmState", [disk EXCEPT !.kept = {}])
    BY <1>1, <2>9, ZenonT(60) DEF Effect, Typed, DiskTyped, Disks
  <2> QED BY <1>18, <2>1, <2>2, <2>3, <2>4, <2>5, <2>6, <2>7, <2>8, <2>9 DEF RemoveManaged
<1>19. CASE BootstrapE2ee
  <2>1. PICK again \in Agains : ins' = [ins EXCEPT !.todo = again \o Tail(@)]
    BY <1>19 DEF BootstrapE2ee, Agains
  <2>2. At("e2ee") /\ UNCHANGED disk
    BY <1>19 DEF BootstrapE2ee
  <2>3. ~ins.issued
    BY <2>2 DEF Typed, InsTyped, At, Waiting
  <2>0. again \o Tail(ins.todo) \in Programs
    BY <2>2, ProgramTail, AgainKeeps DEF Typed, InsTyped, Runs, At, Idle
  <2>4. Onward(again)
    BY <2>0, <2>1, <2>2, <2>3 DEF Onward, At, Typed, InsTyped, Runs, SameRun
  <2>5. Effect("e2ee")
    BY <2>2, NoEffect DEF Writes, Files, Typed
  <2> QED BY <2>2, <2>4, <2>5 DEF GoesOn, At
<1> QED BY <1>2, <1>3, <1>4, <1>5, <1>6, <1>7, <1>8, <1>9, <1>10, <1>11, <1>12, <1>13, <1>14,
           <1>15, <1>16, <1>17, <1>18, <1>19 DEF FileStep

(* A step that goes on though it failed.                                      *)
Excused == \/ Head(ins.todo) = "disable"
           \/ Head(ins.todo) \in {"haltA", "haltT"} /\ ins'.result = "not halted"

(* The clean-up is interrupted.                                               *)
BreaksOff ==
    /\ ins' \in Runs
    /\ ~Idle
    /\ ins'.todo = <<>>
    /\ ~ins'.issued
    /\ ins'.result = "not halted"
    /\ Head(ins.todo) \in {"haltA", "haltT"}
    /\ ins'.read = ins.read
    /\ SameRun
    /\ UNCHANGED disk

(* Every step of the system does one of these to them.                        *)
LEMMA Script ==
    ASSUME Typed, StrayFollows, Next
    PROVE  \/ UNCHANGED <<ins, disk>>
           \/ Issues /\ InstallerStep
           \/ GoesOn /\ (InstallerStep \/ Excused)
           \/ \E step : GivesUp(step)
           \/ BreaksOff
           \/ IsKilled /\ InstallerKilled
           \/ WritesLate
           \/ Begins
<1> DEFINE Result == \/ UNCHANGED <<ins, disk>> \/ Issues \/ GoesOn
                     \/ (\E step : GivesUp(step)) \/ BreaksOff
<1>1. ASSUME \/ \E s \in Services : AutoRestart(s) \/ UserStarts(s) \/ UserStops(s)
             \/ TermSupervisor \/ KillControlGroup \/ AdapterStops \/ AdapterStarts
             \/ ChildFails \/ SupervisorKilled \/ AdapterDies
      PROVE  UNCHANGED <<ins, disk>>
  BY <1>1 DEF AutoRestart, UserStarts, UserStops, TermSupervisor, KillControlGroup,
              AdapterStops, AdapterStarts, ChildFails, SupervisorKilled, AdapterDies
<1>2. ASSUME Supervisor PROVE UNCHANGED <<ins, disk>>
  BY <1>2 DEF Supervisor, Validate, TakeLock, Spawn, StartApi, Monitor, StopChild, Exit
<1>3. ASSUME NEW step, NEW how, At(step), step \in Waiting, Queue(how) PROVE Issues
  BY <1>3 DEF Queue, Issues, At, Typed, InsTyped, Runs, SameRun
<1>4. ASSUME NEW step, NEW S, At(step), step \in Waiting, Return(S) PROVE GoesOn
  BY <1>4, Reads DEF Return, Typed, Waiting, Writes, Files
<1>5. ASSUME NEW step \in Waiting, NEW s,
             StopIfActive(step, s) \/ RestartStop(step, s) \/ HaltUnit(step, s)
      PROVE  Result
  <2>1. At(step)
    BY <1>5 DEF StopIfActive, RestartStop, HaltUnit
  <2>2. \/ \E how : Queue(how)
        \/ \E S : Return(S)
        \/ Advance /\ UNCHANGED disk
    BY <1>5 DEF StopIfActive, RestartStop, HaltUnit
  <2>3. ASSUME Advance, UNCHANGED disk PROVE GoesOn
    BY <1>5, <2>1, <2>3, Reads DEF Typed, Waiting, Writes, Files
  <2> QED BY <1>3, <1>4, <1>5, <2>1, <2>2, <2>3
<1>6. ASSUME Disable PROVE Result
  BY <1>3, <1>4, <1>6 DEF Disable, Waiting
<1>7. ASSUME NEW step, NEW S \in SUBSET Services, Ask(step, S), step \notin Writes PROVE GoesOn
  <2>1. {s \in S : IsActive(s)} \in SUBSET Services
    OBVIOUS
  <2> QED BY <1>7, <2>1, Reads DEF Ask, Typed
<1>8. ASSUME NEW step, step \notin Writes, At(step), Advance, UNCHANGED disk PROVE GoesOn
  BY <1>8, Reads DEF Typed
<1>9. ASSUME \/ StartUnit("startT", "T") \/ StartUnit("startA", "A")
             \/ ProbeTerminal \/ ProbeAdapter \/ InstallerLocks \/ InstallerUnlocks
             \/ DaemonReload \/ CheckInactive
      PROVE  GoesOn
  <2>1. \E step : step \notin Writes /\ At(step) /\ Advance /\ UNCHANGED disk
    BY <1>9 DEF StartUnit, ProbeTerminal, ProbeAdapter, Probe, InstallerLocks, InstallerUnlocks,
                DaemonReload, CheckInactive, Writes, Files
  <2> QED BY <1>8, <2>1
<1>10. ASSUME NEW step, NEW failure \in {"tool", "interrupt", "uncaught"}, At(step),
              Fails(step, failure), step \notin {"haltA", "haltT", "unlock"}, Left(step),
              failure = "uncaught" => step # "sync"
       PROVE  GivesUp(step)
  BY <1>10, CleanUpShape, ZenonT(60)
     DEF Fails, GivesUp, SameRun, Typed, InsTyped, Runs, Results
<1>0. ASSUME UNCHANGED disk PROVE \A step : Left(step)
  BY <1>0 DEF Left, Typed, DiskTyped, Disks
<1>11. ASSUME InstallerRefused PROVE Result
  <2>1. At(Head(ins.todo)) /\ Fails(Head(ins.todo), "tool") /\ UNCHANGED disk
    BY <1>11 DEF InstallerRefused, At
  <2>2. Head(ins.todo) \notin {"haltA", "haltT", "unlock"}
    BY <1>11 DEF InstallerRefused, Refused
  <2> QED BY <1>0, <1>10, <2>1, <2>2
<1>12. ASSUME InstallerStep PROVE Result
  <2>1. ASSUME Ask("ask", Services) \/ Ask("askA", {"A"}) \/ Ask("askT", {"T"}) PROVE GoesOn
    BY <1>7, <2>1 DEF Writes, Files, Services
  <2>2. ASSUME \/ StopIfActive("stopA?", "A") \/ StopIfActive("stopT?", "T")
               \/ RestartStop("stopT", "T") \/ RestartStop("stopA", "A")
               \/ HaltUnit("haltA", "A") \/ HaltUnit("haltT", "T")
        PROVE  Result
    BY <1>5, <2>2 DEF Waiting
  <2> QED BY <1>6, <1>9, <1>11, <1>12, <2>1, <2>2, Writing DEF InstallerStep
<1>15. ASSUME NEW step, disk' \in Partial(step) PROVE Left(step)
  <2>1. CASE UNCHANGED disk
    BY <1>0, <2>1
  <2>2. CASE step \in {"settings", "port"} /\ disk' = [disk EXCEPT !.port = ins.port]
    BY <2>2 DEF Left, Typed, DiskTyped, Disks, InsTyped, Runs
  <2>3. CASE step = "locale" /\ disk' = [disk EXCEPT !.locale = "en_GB"]
    BY <2>3 DEF Left, Typed, DiskTyped, Disks
  <2>4. CASE step = "relocale" /\ disk' = [disk EXCEPT !.locale = ins.read]
    BY <2>4 DEF Left, Typed, DiskTyped, Disks, InsTyped, Runs
  <2>5. CASE step = "npm" /\ disk.joplin # ins.ver /\ disk' = [disk EXCEPT !.joplin = None]
    BY <2>5 DEF Left, Typed, DiskTyped, Disks
  <2>6. CASE step = "tokens" /\ disk' = [disk EXCEPT !.tokens = @ \cup {"mcp"}]
    BY <2>6 DEF Left, Typed, DiskTyped, Disks, Tokens
  <2>7. CASE step \in ProfileSteps
    <3>1. \/ step \in {"settings", "port"} /\ Applied(Command(step)) = [disk EXCEPT !.port = ins.port]
          \/ step = "locale" /\ Applied(Command(step)) = [disk EXCEPT !.locale = "en_GB"]
          \/ step = "relocale" /\ Applied(Command(step)) = [disk EXCEPT !.locale = ins.read]
          \/ Applied(Command(step)) = disk
      BY <2>7, SMT DEF Applied, Command, ProfileSteps
    <3> QED BY <1>15, <2>1, <2>2, <2>3, <2>4, <2>7, <3>1 DEF Partial
  <2> QED BY <1>15, <2>1, <2>5, <2>6, <2>7 DEF Partial
<1>13. ASSUME StepFails
       PROVE  \/ GoesOn /\ Excused
              \/ BreaksOff
              \/ GivesUp(Head(ins.todo))
  <2> DEFINE step == Head(ins.todo)
  <2>1. At(step)
    BY <1>13 DEF StepFails, At
  <2>2. CASE step \in {"haltA", "haltT"}
    <3>1. PICK left \in {Tail(ins.todo), <<>>} :
            ins' = [ins EXCEPT !.todo = left, !.issued = FALSE, !.result = "not halted"]
      BY <1>13, <2>2 DEF StepFails
    <3>2. UNCHANGED disk
      BY <1>13, <2>2 DEF StepFails
    <3>3. CASE left = Tail(ins.todo)
      <4>1. ins' = [Advanced EXCEPT !.result = "not halted"]
        BY <3>1, <3>3 DEF Typed, InsTyped, Runs, Advanced
      <4>2. GoesOn
        BY <2>1, <2>2, <3>2, <4>1, Reads DEF Typed, Writes, Files
      <4> QED BY <2>2, <4>1, <4>2 DEF Excused, GoesOn, Typed, InsTyped, Runs, Advanced
    <3>4. CASE left = <<>>
      BY <2>1, <2>2, <3>1, <3>2, <3>4, Literals, ZenonT(60)
         DEF BreaksOff, At, SameRun, Typed, InsTyped, Runs, Results
    <3> QED BY <3>3, <3>4
  <2>3. CASE step = "disable"
    <3>1. (Advance \/ Fails(step, "tool")) /\ UNCHANGED disk
      BY <1>13, <2>3 DEF StepFails
    <3>2. ASSUME Advance PROVE GoesOn
      BY <1>8, <2>1, <2>3, <3>1, <3>2 DEF Writes, Files
    <3>3. ASSUME Fails(step, "tool") PROVE GivesUp(step)
      BY <1>0, <1>10, <2>1, <2>3, <3>1, <3>3
    <3> QED BY <2>3, <3>1, <3>2, <3>3 DEF Excused
  <2>4. CASE step \notin {"haltA", "haltT", "disable"}
    <3>1. /\ step \notin {"unlock", "fail"}
          /\ \E failure \in Failures(step) : Fails(step, failure)
          /\ disk' \in Partial(step)
      BY <1>13, <2>4 DEF StepFails
    <3>2. PICK failure \in Failures(step) : Fails(step, failure)
      BY <3>1
    <3>3. failure \in {"tool", "interrupt", "uncaught"} /\ (failure = "uncaught" => step # "sync")
      BY DEF Failures, Requests, Probes
    <3>4. Left(step)
      BY <1>15, <3>1
    <3> QED BY <1>10, <2>1, <2>4, <3>1, <3>2, <3>3, <3>4
  <2> QED BY <2>2, <2>3, <2>4
<1>14. ASSUME InstallerKilled PROVE IsKilled
  BY <1>14, Literals, ZenonT(60)
     DEF InstallerKilled, IsKilled, SameRun, Typed, InsTyped, Runs, Results
<1>16. ASSUME StrayEnds PROVE WritesLate \/ UNCHANGED <<ins, disk>>
  <2>1. PICK command \in stray : disk' \in {disk, Applied(command)}
    BY <1>16 DEF StrayEnds
  <2>2. command \in Commands /\ UNCHANGED ins
    BY <1>16 DEF StrayFollows, StrayEnds
  <2>3. CASE command[1] = "port"
    <3>1. command[2] \in Ports /\ Applied(command) = [disk EXCEPT !.port = command[2]]
      BY <2>2, <2>3 DEF Commands, Applied
    <3>2. [disk EXCEPT !.port = command[2]] \in Disks
      BY <3>1 DEF Typed, DiskTyped, Disks
    <3> QED BY <2>1, <2>2, <3>1, <3>2 DEF WritesLate
  <2>4. CASE command[1] = "locale"
    <3>1. /\ command[2] \in {"own", "en_GB"}
          /\ Applied(command) = [disk EXCEPT !.locale = command[2]]
      BY <2>2, <2>4 DEF Commands, Applied
    <3>2. [disk EXCEPT !.locale = command[2]] \in Disks
      BY <3>1 DEF Typed, DiskTyped, Disks
    <3> QED BY <2>1, <2>2, <3>1, <3>2 DEF WritesLate
  <2>5. CASE command[1] \notin {"port", "locale"}
    <3>1. Applied(command) = disk
      BY <2>5 DEF Applied
    <3> QED BY <2>1, <2>2, <3>1
  <2> QED BY <2>3, <2>4, <2>5
<1> QED BY <1>1, <1>2, <1>12, <1>13, <1>14, <1>16 DEF Next

----------------------------------------------------------------------------
(* The steps of a run are of its mode, and it knows version and port.         *)
Building == ins.mode \in {"install", "upgrade"}

ModeKnown ==
    /\ ins.mode = "none" => ins.todo = <<>>
    /\ ins.mode = "install" => In(ins.todo, Installing)
    /\ ins.mode = "upgrade" => In(ins.todo, Upgrading)
    /\ ins.mode = "purge" => In(ins.todo, Purging)
    /\ Building => ins.ver \in Versions /\ ins.port \in Ports
    /\ ins.start => Building
    /\ ins.result = "none" => ins.mode = "none"
    /\ ins.result = "ok" => Idle

(* Where the installer is in its program says which of the facts hold that    *)
(* the steps to come rely on.                                                 *)
UnitsFollow ==
    /\ UnitsAreRunnable
    /\ Building =>
         /\ Guarded(ins.todo, {"deploy"}, "unit", disk.deployed)
         /\ Guarded(ins.todo, {"launcher"}, "unit", disk.launcher)
         /\ Guarded(ins.todo, {"settings"}, "unit", disk.port # None)
         /\ Guarded(ins.todo, {"mcp"}, "aunit", disk.mcp # None)
         /\ Guarded(ins.todo, {"tokens"}, "aunit", disk.tokens = Tokens)
         /\ Until(ins.todo, {"move"}, "npm")
         /\ ins.result \in {"running", "ok"} => Has(ins.todo, "npm") \/ disk.joplin # None
    /\ ins.mode = "purge" =>
         /\ ins.result \in {"running", "ok"} => Has(ins.todo, "rmUnit") \/ disk.unit = None
         /\ \A step \in {"rmDeploy", "rmProfile", "rmLauncher"} :
              Guarded(ins.todo, {"rmUnit"}, step, disk.unit = None)
         /\ \A step \in {"rmMcp", "rmTokens"} :
              Guarded(ins.todo, {"rmAunit"}, step, disk.aunit = None)

LEMMA OnwardGuards ==
    ASSUME InsTyped, NEW again \in Agains, Onward(again), NEW B, NEW a, NEW fact, NEW later,
           Guarded(ins.todo, B, a, fact), a \notin Synchronizing,
           Has(Tail(ins.todo), a) => (fact \/ Head(ins.todo) \in B => later)
    PROVE  Guarded(ins'.todo, B, a, later)
<1>1. ins.todo \in Programs /\ ins.todo # <<>> /\ ins'.todo = again \o Tail(ins.todo)
  BY DEF InsTyped, Runs, Onward, Idle
<1>2. Tail(ins.todo) \in Programs
  BY <1>1, ProgramTail
<1>3. Guarded(Tail(ins.todo), B, a, later)
  BY <1>1, GuardedTail
<1> QED BY <1>1, <1>2, <1>3, AgainKeeps

LEMMA OnwardIn ==
    ASSUME InsTyped, NEW again \in Agains, Onward(again), NEW S, In(ins.todo, S)
    PROVE  /\ Head(ins.todo) \in S
           /\ again = <<>> \/ Synchronizing \subseteq S => In(ins'.todo, S)
           /\ again = <<>> => ins'.todo = Tail(ins.todo)
<1>1. ins.todo \in Programs /\ ins.todo # <<>> /\ ins'.todo = again \o Tail(ins.todo)
  BY DEF InsTyped, Runs, Onward, Idle
<1>2. Tail(ins.todo) \in Programs /\ In(Tail(ins.todo), S) /\ Head(ins.todo) \in S
  BY <1>1, ProgramTail, InTail
<1>3. again = <<>> => ins'.todo = Tail(ins.todo)
  BY <1>1, <1>2, ConcatEmptySeq DEF Programs
<1> QED BY <1>1, <1>2, <1>3, AgainKeeps

LEMMA ModeKnownOnward ==
    ASSUME Typed, ModeKnown, GoesOn
    PROVE  ModeKnown'
<1>1. PICK again \in Agains : Onward(again)
  BY DEF GoesOn
<1>2. SameRun /\ ins.mode # "none" /\ (again # <<>> => Head(ins.todo) = "e2ee")
  BY <1>1 DEF Onward, ModeKnown, Idle
<1>6. (ins'.result = "none" => ins'.mode = "none") /\ (ins'.result = "ok" => ins'.todo = <<>>)
  BY <1>1, <1>2 DEF Onward, ModeKnown
<1>3. CASE ins.mode = "install"
  <2>1. In(ins'.todo, Installing)
    BY <1>1, <1>3, OnwardIn DEF ModeKnown, Typed, Installing
  <2> QED BY <1>2, <1>3, <1>6, <2>1, SMT DEF ModeKnown, SameRun, Building, Idle
<1>4. CASE ins.mode = "upgrade"
  <2>1. Head(ins.todo) \in Upgrading
    BY <1>1, <1>4, OnwardIn DEF ModeKnown, Typed
  <2>2. again = <<>>
    BY <1>2, <2>1 DEF Upgrading, Common, Files, Restarting, Cleaning
  <2>3. In(ins'.todo, Upgrading)
    BY <1>1, <1>4, <2>2, OnwardIn DEF ModeKnown, Typed
  <2> QED BY <1>2, <1>4, <1>6, <2>3, SMT DEF ModeKnown, SameRun, Building, Idle
<1>5. CASE ins.mode = "purge"
  <2>1. Head(ins.todo) \in Purging
    BY <1>1, <1>5, OnwardIn DEF ModeKnown, Typed
  <2>2. again = <<>>
    BY <1>2, <2>1 DEF Purging
  <2>3. In(ins'.todo, Purging)
    BY <1>1, <1>5, <2>2, OnwardIn DEF ModeKnown, Typed
  <2> QED BY <1>2, <1>5, <1>6, <2>3, SMT DEF ModeKnown, SameRun, Building, Idle
<1> QED BY <1>2, <1>3, <1>4, <1>5 DEF Typed, InsTyped, Runs, Modes

LEMMA UnitsFollowOnward ==
    ASSUME Typed, ModeKnown, UnitsFollow, GoesOn
    PROVE  UnitsFollow'
<1>1. PICK again \in Agains : Onward(again)
  BY DEF GoesOn
<1>2. SameRun /\ Effect(Head(ins.todo)) /\ ins.todo \in Programs /\ ins.todo # <<>>
  BY <1>1 DEF GoesOn, Onward, Typed, InsTyped, Runs, Idle
<1>6. /\ Tail(ins.todo) \in Programs /\ ins'.todo = again \o Tail(ins.todo)
      /\ \A b : Has(Tail(ins.todo), b) => Has(ins'.todo, b)
  BY <1>1, <1>2, ProgramTail, AgainKeeps DEF Onward
<1>7. /\ ins'.result # "none"
      /\ ins'.result = "ok" => ins'.todo = <<>> /\ \A b : ~Has(ins'.todo, b)
      /\ ins'.result \in {"running", "ok"} => ins.result = "running"
  <2>1. DOMAIN <<>> = {}
    OBVIOUS
  <2>2. ins.result \notin {"none", "ok"}
    BY <1>1, <1>2 DEF Onward, ModeKnown
  <2> QED BY <1>1, <2>1, <2>2 DEF Onward, Has
<1>3. CASE Building
  <2>1. Head(ins.todo) \in Installing \cup Upgrading
    BY <1>1, <1>3, OnwardIn DEF Typed, ModeKnown, Building
  <2>2. Head(ins.todo) \notin {"rmUnit", "rmAunit", "rmMcp", "rmProfile", "rmTokens", "rmDeploy",
                              "rmLauncher", "rmNpm"}
    BY <2>1 DEF Installing, Upgrading, Common, Files, Restarting, Cleaning, Synchronizing
  <2>3. ins.ver # None /\ ins.port # None
    BY <1>3, NoneAssumption DEF ModeKnown
  <2>4. /\ disk.deployed \/ Head(ins.todo) \in {"deploy"} => disk'.deployed
        /\ disk.launcher \/ Head(ins.todo) \in {"launcher"} => disk'.launcher
        /\ disk.port # None \/ Head(ins.todo) \in {"settings"} => disk'.port # None
        /\ disk.mcp # None \/ Head(ins.todo) \in {"mcp"} => disk'.mcp # None
    BY <1>2, <2>2, <2>3 DEF Effect
  <2>5. disk.tokens = Tokens \/ Head(ins.todo) \in {"tokens"} => disk'.tokens = Tokens
    <3>1. disk'.tokens \subseteq Tokens
      BY <1>2 DEF Effect, Disks
    <3> QED BY <1>2, <2>2, <3>1 DEF Effect
  <2>6. /\ Guarded(ins'.todo, {"deploy"}, "unit", disk'.deployed)
        /\ Guarded(ins'.todo, {"settings"}, "unit", disk'.port # None)
        /\ Guarded(ins'.todo, {"mcp"}, "aunit", disk'.mcp # None)
        /\ Guarded(ins'.todo, {"tokens"}, "aunit", disk'.tokens = Tokens)
        /\ Guarded(ins'.todo, {"launcher"}, "unit", disk'.launcher)
    BY <1>1, <1>3, <2>4, <2>5, OnwardGuards DEF Typed, UnitsFollow, Synchronizing
  <2>7. disk'.unit # None => disk'.deployed /\ disk'.launcher /\ disk'.port # None
    <3>1. CASE Head(ins.todo) = "unit"
      <4>1. disk.deployed /\ disk.launcher
        BY <1>2, <1>3, <3>1, ProgramTail DEF Guarded, UnitsFollow
      <4>2. disk.port # None
        BY <1>2, <1>3, <3>1, GuardedHead DEF UnitsFollow
      <4> QED BY <2>4, <4>1, <4>2
    <3>2. CASE Head(ins.todo) # "unit"
      BY <1>2, <2>2, <2>4, <3>2 DEF Effect, UnitsFollow, UnitsAreRunnable
    <3> QED BY <3>1, <3>2
  <2>8. disk'.aunit # None => disk'.mcp # None /\ disk'.tokens = Tokens
    <3>1. CASE Head(ins.todo) = "aunit"
      BY <1>2, <1>3, <2>4, <2>5, <3>1, GuardedHead DEF UnitsFollow
    <3>2. CASE Head(ins.todo) # "aunit"
      BY <1>2, <2>2, <2>4, <2>5, <3>2 DEF Effect, UnitsFollow, UnitsAreRunnable
    <3> QED BY <3>1, <3>2
  <2>9. Building' /\ ins'.mode # "purge"
    BY <1>2, <1>3 DEF Building, SameRun
  <2>10. Until(ins'.todo, {"move"}, "npm")
    <3>1. Until(Tail(ins.todo), {"move"}, "npm")
      BY <1>2, <1>3, UntilTail DEF UnitsFollow
    <3> QED BY <1>6, <3>1, AgainKeeps DEF Synchronizing
  <2>11. ins'.result \in {"running", "ok"} => Has(ins'.todo, "npm") \/ disk'.joplin # None
    <3>0. SUFFICES ASSUME ins'.result \in {"running", "ok"}
                   PROVE  Has(ins'.todo, "npm") \/ disk'.joplin # None
      OBVIOUS
    <3>1. Has(ins.todo, "npm") \/ disk.joplin # None
      BY <1>3, <1>7, <3>0 DEF UnitsFollow
    <3>2. CASE Head(ins.todo) = "npm"
      BY <1>2, <2>3, <3>2 DEF Effect
    <3>3. CASE Head(ins.todo) = "move"
      <4>1. Has(Tail(ins.todo), "npm")
        BY <1>2, <1>3, <3>3, UntilTail DEF UnitsFollow
      <4> QED BY <1>6, <4>1
    <3>4. CASE Head(ins.todo) \notin {"npm", "move"}
      <4>1. disk'.joplin = disk.joplin
        BY <1>2, <2>2, <3>4 DEF Effect
      <4>2. Has(ins.todo, "npm") => Has(Tail(ins.todo), "npm")
        BY <1>2, <3>4, HasTail
      <4> QED BY <1>6, <3>1, <4>1, <4>2
    <3> QED BY <3>2, <3>3, <3>4
  <2> QED BY <1>7, <2>6, <2>7, <2>8, <2>9, <2>10, <2>11 DEF UnitsFollow, UnitsAreRunnable
<1>4. CASE ins.mode = "purge"
  <2>1. Head(ins.todo) \in Purging
    BY <1>1, <1>4, OnwardIn DEF Typed, ModeKnown
  <2>2. Head(ins.todo) \notin {"unit", "aunit", "settings", "port", "mcp", "tokens", "deploy",
                              "launcher"}
    BY <2>1 DEF Purging
  <2>3. /\ disk.unit = None \/ Head(ins.todo) \in {"rmUnit"} => disk'.unit = None
        /\ disk.aunit = None \/ Head(ins.todo) \in {"rmAunit"} => disk'.aunit = None
    BY <1>2, <2>2 DEF Effect
  <2>4. ASSUME NEW step \in {"rmDeploy", "rmProfile", "rmLauncher"}
        PROVE  Guarded(ins'.todo, {"rmUnit"}, step, disk'.unit = None)
    BY <1>1, <1>4, <2>3, OnwardGuards DEF Typed, UnitsFollow, Synchronizing
  <2>5. ASSUME NEW step \in {"rmMcp", "rmTokens"}
        PROVE  Guarded(ins'.todo, {"rmAunit"}, step, disk'.aunit = None)
    BY <1>1, <1>4, <2>3, OnwardGuards DEF Typed, UnitsFollow, Synchronizing
  <2>6. disk'.unit # None => disk'.deployed /\ disk'.launcher /\ disk'.port # None
    <3>1. CASE Head(ins.todo) \in {"rmDeploy", "rmProfile", "rmLauncher"}
      BY <1>2, <1>4, <2>3, <3>1, GuardedHead DEF UnitsFollow
    <3>2. CASE Head(ins.todo) \notin {"rmDeploy", "rmProfile", "rmLauncher"}
      BY <1>2, <2>2, <3>2 DEF Effect, UnitsFollow, UnitsAreRunnable
    <3> QED BY <3>1, <3>2
  <2>7. disk'.aunit # None => disk'.mcp # None /\ disk'.tokens = Tokens
    <3>1. CASE Head(ins.todo) \in {"rmMcp", "rmTokens"}
      BY <1>2, <1>4, <2>3, <3>1, GuardedHead DEF UnitsFollow
    <3>2. CASE Head(ins.todo) \notin {"rmMcp", "rmTokens"}
      <4>1. disk'.tokens \subseteq Tokens
        BY <1>2 DEF Effect, Disks
      <4> QED BY <1>2, <2>2, <3>2, <4>1 DEF Effect, UnitsFollow, UnitsAreRunnable
    <3> QED BY <3>1, <3>2
  <2>8. ~Building' /\ ins'.mode = "purge"
    BY <1>2, <1>4 DEF Building, SameRun
  <2>9. ins'.result \in {"running", "ok"} => Has(ins'.todo, "rmUnit") \/ disk'.unit = None
    <3>0. SUFFICES ASSUME ins'.result \in {"running", "ok"}
                   PROVE  Has(ins'.todo, "rmUnit") \/ disk'.unit = None
      OBVIOUS
    <3>1. Has(ins.todo, "rmUnit") \/ disk.unit = None
      BY <1>4, <1>7, <3>0 DEF UnitsFollow
    <3>2. Has(ins.todo, "rmUnit") => Head(ins.todo) = "rmUnit" \/ Has(ins'.todo, "rmUnit")
      BY <1>2, <1>6, HasTail
    <3> QED BY <2>3, <3>1, <3>2
  <2> QED BY <1>7, <2>4, <2>5, <2>6, <2>7, <2>8, <2>9 DEF UnitsFollow, UnitsAreRunnable
<1>5. ins.mode # "none"
  BY <1>2 DEF ModeKnown
<1> QED BY <1>3, <1>4, <1>5 DEF Building, Typed, InsTyped, Runs, Modes

(* The locale of the profile is the operator's, or a program that restores it *)
(* is under way, which has read it before.                                    *)
Spoiled == {"killed", "not restored"}

LocaleFollows ==
    ins.mode = "install" =>
      /\ Then(ins.todo, "locale", "sync")
      /\ Then(ins.todo, "sync", "relocale")
      /\ ins.result \in Spoiled => Idle
      /\ ins.alone => \/ disk.locale = ins.locale
                      \/ Idle /\ ins.result \in Spoiled
                      \/ At("sync")
                      \/ At("relocale")
      /\ \A step \in {"sync", "relocale"} :
           Guarded(ins.todo, {"locale"}, step, ins.alone => ins.read = ins.locale)

LEMMA LocaleFollowsOnward ==
    ASSUME Typed, ModeKnown, LocaleFollows, GoesOn
    PROVE  LocaleFollows'
<1> SUFFICES ASSUME ins.mode = "install"
             PROVE  LocaleFollows'
  BY DEF GoesOn, Onward, SameRun, LocaleFollows
<1>1. PICK again \in Agains : Onward(again)
  BY DEF GoesOn
<1>2. /\ SameRun /\ Effect(Head(ins.todo)) /\ ins.todo \in Programs /\ ins.todo # <<>>
      /\ ins'.todo = again \o Tail(ins.todo) /\ ~Idle
  BY <1>1 DEF GoesOn, Onward, Typed, InsTyped, Runs, Idle
<1>3. Tail(ins.todo) \in Programs
  BY <1>2, ProgramTail
<1>4. Then(ins'.todo, "locale", "sync") /\ Then(ins'.todo, "sync", "relocale")
  <2>1. Then(Tail(ins.todo), "locale", "sync") /\ Then(Tail(ins.todo), "sync", "relocale")
    BY <1>2, ThenTail DEF LocaleFollows
  <2> QED BY <1>2, <1>3, <2>1, AgainShape, AgainKeeps
<1>5. ins'.result \notin Spoiled
  <2>1. ins.result \notin Spoiled
    BY <1>2 DEF LocaleFollows
  <2> QED BY <1>1, <2>1 DEF Onward, Spoiled
<1>6. Head(ins.todo) # "rmProfile"
  <2>1. Head(ins.todo) \in Installing
    BY <1>1, OnwardIn DEF Typed, ModeKnown
  <2> QED BY <2>1 DEF Installing, Common, Files, Restarting, Cleaning, Synchronizing
<1>8. ASSUME NEW step \in {"sync", "relocale"}
      PROVE  Guarded(ins'.todo, {"locale"}, step, ins'.alone => ins'.read = ins'.locale)
  <2>1. CASE Head(ins.todo) = "locale"
    <3>1. ins.alone => disk.locale = ins.locale
      BY <1>2, <2>1 DEF LocaleFollows, At
    <3>2. ins'.alone => ins'.read = ins'.locale
      BY <1>1, <1>2, <2>1, <3>1 DEF Onward, SameRun
    <3> QED BY <3>2 DEF Guarded
  <2>2. CASE Head(ins.todo) # "locale"
    <3>1. ins'.read = ins.read /\ ins'.locale = ins.locale /\ ins'.alone = ins.alone
      BY <1>1, <1>2, <2>2 DEF Onward, SameRun
    <3>2. Guarded(Tail(ins.todo), {"locale"}, step, ins.alone => ins.read = ins.locale)
      BY <1>2, <2>2, GuardedTail DEF LocaleFollows
    <3>3. Guarded(ins'.todo, {"locale"}, step, ins.alone => ins.read = ins.locale)
      BY <1>2, <1>3, <3>2, AgainKeeps
    <3> QED BY <3>1, <3>3 DEF Guarded
  <2> QED BY <2>1, <2>2
<1>7. ASSUME ins.alone
      PROVE  \/ disk'.locale = ins'.locale
             \/ ins'.todo # <<>> /\ Head(ins'.todo) \in {"sync", "relocale"}
  <2>1. CASE Head(ins.todo) \in {"locale", "sync"}
    <3>1. Tail(ins.todo) # <<>> /\ Head(Tail(ins.todo)) \in {"sync", "relocale"}
      BY <1>2, <2>1, ThenTail DEF LocaleFollows
    <3>2. ins'.todo = Tail(ins.todo)
      BY <1>1, <1>2, <1>3, <2>1, ConcatEmptySeq DEF Onward, Programs
    <3> QED BY <3>1, <3>2
  <2>2. CASE Head(ins.todo) = "relocale"
    <3>1. ins.read = ins.locale
      BY <1>2, <1>7, <2>2, GuardedHead DEF LocaleFollows
    <3> QED BY <1>2, <2>2, <3>1 DEF Effect, SameRun
  <2>3. CASE Head(ins.todo) \notin {"locale", "sync", "relocale"}
    <3>1. disk.locale = ins.locale
      BY <1>2, <1>7, <2>3 DEF LocaleFollows, At
    <3> QED BY <1>2, <1>6, <2>3, <3>1 DEF Effect, SameRun
  <2> QED BY <2>1, <2>2, <2>3
<1>9. ins'.alone = ins.alone
  BY <1>2 DEF SameRun
<1> QED BY <1>4, <1>5, <1>7, <1>8, <1>9 DEF LocaleFollows, At, Idle

(* What an upgrade replaces is kept before it is touched.                     *)
KeptJoplin ==
    \/ ins.joplin = None
    \/ ins.joplin = ins.ver /\ disk.joplin = ins.ver
    \/ <<"joplin", ins.joplin>> \in disk.kept

KeptMcp == <<"mcp", ins.mcp>> \in disk.kept

RetainFollows ==
    /\ PreviousRetained
    /\ ins.mode = "upgrade" =>
         /\ Never(ins.todo, {"npm", "move"}, "move")
         /\ Never(ins.todo, {"mcp"}, "backup")
         /\ Guarded(ins.todo, {}, "move", disk.joplin = ins.joplin)
         /\ Guarded(ins.todo, {}, "backup", disk.mcp = ins.mcp)
         /\ Guarded(ins.todo, {"move"}, "npm", KeptJoplin)
         /\ Guarded(ins.todo, {"backup"}, "mcp", KeptMcp)

LEMMA RetainFollowsOnward ==
    ASSUME Typed, ModeKnown, RetainFollows, GoesOn
    PROVE  RetainFollows'
<1> SUFFICES ASSUME ins.mode = "upgrade"
             PROVE  RetainFollows'
  BY DEF GoesOn, Onward, SameRun, RetainFollows, PreviousRetained
<1>1. PICK again \in Agains : Onward(again)
  BY DEF GoesOn
<1>2. /\ SameRun /\ Effect(Head(ins.todo)) /\ ins.todo \in Programs /\ ins.todo # <<>>
      /\ ins'.todo = again \o Tail(ins.todo) /\ ~Idle
  BY <1>1 DEF GoesOn, Onward, Typed, InsTyped, Runs, Idle
<1>3. Tail(ins.todo) \in Programs
  BY <1>2, ProgramTail
<1> DEFINE h == Head(ins.todo)
<1>4. h \notin {"rmNpm", "rmMcp", "rmState"}
  <2>1. h \in Upgrading
    BY <1>1, OnwardIn DEF Typed, ModeKnown
  <2> QED BY <2>1 DEF Upgrading, Common, Files, Restarting, Cleaning
<1>5. Never(ins'.todo, {"npm", "move"}, "move") /\ Never(ins'.todo, {"mcp"}, "backup")
  <2>1. /\ Never(Tail(ins.todo), {"npm", "move"}, "move")
        /\ Never(Tail(ins.todo), {"mcp"}, "backup")
    BY <1>2, NeverTail DEF RetainFollows
  <2>2. {"npm", "move"} \cap Synchronizing = {} /\ {"mcp"} \cap Synchronizing = {}
        /\ "move" \notin Synchronizing /\ "backup" \notin Synchronizing
    BY DEF Synchronizing
  <2> QED BY <1>2, <1>3, <2>1, <2>2, AgainKeeps
<1>6. Guarded(ins'.todo, {}, "move", disk'.joplin = ins'.joplin)
  <2>1. Has(Tail(ins.todo), "move") => h \notin {"npm", "move"}
    BY <1>2, NeverTail DEF RetainFollows
  <2>2. Has(Tail(ins.todo), "move") => (disk.joplin = ins.joplin => disk'.joplin = ins'.joplin)
    BY <1>2, <1>4, <2>1 DEF Effect, SameRun
  <2> QED BY <1>1, <2>2, OnwardGuards DEF Typed, RetainFollows, Synchronizing
<1>7. Guarded(ins'.todo, {}, "backup", disk'.mcp = ins'.mcp)
  <2>1. Has(Tail(ins.todo), "backup") => h \notin {"mcp"}
    BY <1>2, NeverTail DEF RetainFollows
  <2>2. Has(Tail(ins.todo), "backup") => (disk.mcp = ins.mcp => disk'.mcp = ins'.mcp)
    BY <1>2, <1>4, <2>1 DEF Effect, SameRun
  <2> QED BY <1>1, <2>2, OnwardGuards DEF Typed, RetainFollows, Synchronizing
<1>8. h = "move" => disk.joplin = ins.joplin
  BY <1>2, GuardedHead DEF RetainFollows
<1>9. h = "backup" => disk.mcp = ins.mcp
  BY <1>2, GuardedHead DEF RetainFollows
<1>10. KeptJoplin \/ h = "move" => KeptJoplin'
  <2>1. disk.kept \subseteq disk'.kept /\ ins'.joplin = ins.joplin /\ ins'.ver = ins.ver
    BY <1>2, <1>4 DEF Effect, SameRun
  <2>2. CASE h = "move"
    <3>1. CASE disk.joplin \in {None, ins.ver}
      BY <1>2, <1>8, <2>1, <2>2, <3>1 DEF KeptJoplin, Effect
    <3>2. CASE disk.joplin \notin {None, ins.ver}
      BY <1>2, <1>8, <2>1, <2>2, <3>2 DEF KeptJoplin, Effect
    <3> QED BY <3>1, <3>2
  <2>3. CASE h # "move"
    BY <1>2, <1>4, <2>1, <2>3 DEF KeptJoplin, Effect
  <2> QED BY <2>2, <2>3
<1>11. Guarded(ins'.todo, {"move"}, "npm", KeptJoplin')
  BY <1>1, <1>10, OnwardGuards DEF Typed, RetainFollows, Synchronizing
<1>12. KeptMcp \/ h = "backup" => KeptMcp'
  BY <1>2, <1>4, <1>9 DEF KeptMcp, Effect, SameRun
<1>13. Guarded(ins'.todo, {"backup"}, "mcp", KeptMcp')
  BY <1>1, <1>12, OnwardGuards DEF Typed, RetainFollows, Synchronizing
<1>14. ins'.joplin \in {None, disk'.joplin} \/ <<"joplin", ins'.joplin>> \in disk'.kept
  <2>1. CASE h \in {"npm", "move"}
    <3>1. h = "npm" => KeptJoplin
      BY <1>2, GuardedHead DEF RetainFollows, KeptJoplin
    <3>2. KeptJoplin'
      BY <1>10, <2>1, <3>1
    <3> QED BY <3>2 DEF KeptJoplin
  <2>2. CASE h \notin {"npm", "move"}
    <3>1. disk'.joplin = disk.joplin /\ disk.kept \subseteq disk'.kept /\ ins'.joplin = ins.joplin
      BY <1>2, <1>4, <2>2 DEF Effect, SameRun
    <3> QED BY <3>1 DEF RetainFollows, PreviousRetained
  <2> QED BY <2>1, <2>2
<1>15. ins'.mcp = disk'.mcp \/ <<"mcp", ins'.mcp>> \in disk'.kept
  <2>1. CASE h = "mcp"
    <3>1. KeptMcp
      BY <1>2, <2>1, ProgramTail DEF Guarded, RetainFollows
    <3> QED BY <1>12, <3>1 DEF KeptMcp
  <2>2. CASE h # "mcp"
    <3>1. disk'.mcp = disk.mcp /\ disk.kept \subseteq disk'.kept /\ ins'.mcp = ins.mcp
      BY <1>2, <1>4, <2>2 DEF Effect, SameRun
    <3> QED BY <3>1 DEF RetainFollows, PreviousRetained
  <2> QED BY <2>1, <2>2
<1> QED BY <1>5, <1>6, <1>7, <1>11, <1>13, <1>14, <1>15 DEF RetainFollows, PreviousRetained

----------------------------------------------------------------------------
(* The beginnings of the programs.                                            *)
Begun(mode) ==
    /\ ins' \in Runs
    /\ ins'.mode = mode /\ ~ins'.issued /\ ins'.result = "running"
    /\ ins'.joplin = disk.joplin /\ ins'.mcp = disk.mcp /\ ins'.locale = disk.locale
    /\ ins'.alone = (stray = {})
    /\ UNCHANGED <<disk, stray>>

LEMMA BeginShape ==
    ASSUME Typed, NEW mode \in {"install", "upgrade", "purge"}, NEW steps \in Programs,
           NEW ver \in Versions \cup {None}, NEW port \in Ports \cup {None},
           NEW start \in BOOLEAN, Begin(mode, steps, ver, port, start)
    PROVE  /\ Begun(mode)
           /\ ins'.ver = ver /\ ins'.port = port /\ ins'.start = start
           /\ ins'.todo = IF start THEN steps \o Restart ELSE steps
<1> DEFINE todo == steps \o (IF start THEN Restart ELSE <<>>)
<1>1. todo \in Programs /\ todo = IF start THEN steps \o Restart ELSE steps
  BY Literals, ProgramConcat, NoRestart
<1>2. ins' = [NoIns EXCEPT !.mode = mode, !.result = "running", !.ver = ver, !.port = port,
                           !.start = start, !.joplin = disk.joplin, !.mcp = disk.mcp,
                           !.locale = disk.locale, !.alone = (stray = {}), !.todo = todo]
      /\ UNCHANGED <<disk, stray>>
  BY DEF Begin
<1> HIDE DEF todo
<1>3. ins' = [mode |-> mode, todo |-> todo, ver |-> ver, port |-> port, start |-> start,
              was |-> {}, issued |-> FALSE, joplin |-> disk.joplin, mcp |-> disk.mcp,
              result |-> "running", locale |-> disk.locale, read |-> "own",
              alone |-> (stray = {})]
  BY <1>2 DEF NoIns
<1>4. /\ disk.joplin \in Versions \cup {None} /\ disk.mcp \in Versions \cup {None}
      /\ disk.locale \in {"own", "en_GB"}
  BY DEF Typed, DiskTyped, Disks
<1>5. ins' \in Runs
  BY <1>1, <1>3, <1>4 DEF Runs, Modes, Results
<1>6. UNCHANGED <<disk, stray>>
  BY <1>2
<1> QED BY <1>1, <1>3, <1>5, <1>6 DEF Begun

LEMMA InstallBegins ==
    ASSUME Typed, NEW ver \in Versions, NEW port \in Ports, NEW start \in BOOLEAN,
           BeginInstall(ver, port, start)
    PROVE  /\ Begun("install")
           /\ ins'.ver = ver /\ ins'.port = port /\ ins'.start = start
           /\ Sound(ins'.todo) /\ In(ins'.todo, Installing)
           /\ \A fact : Guarded(ins'.todo, {"settings"}, "unit", fact)
           /\ start => Restarts(ins'.todo)
<1>1. /\ Begun("install")
      /\ ins'.ver = ver /\ ins'.port = port /\ ins'.start = start
      /\ ins'.todo = IF start THEN InstallSteps \o Restart ELSE InstallSteps
  BY BeginShape, Literals DEF BeginInstall
<1>2. \A step \in Restarting : ~Has(InstallSteps, step)
  BY DEF InstallSteps, Has, Restarting
<1>3. CASE start
  <2>1. Sound(InstallSteps \o Restart) /\ Restarts(InstallSteps \o Restart)
    BY <1>2, InstallLiteral, WithRestart
  <2>2. In(Restart, Installing) /\ In(Restart, Restarting)
    BY DEF Restart, In, Installing, Common, Restarting
  <2>3. In(InstallSteps \o Restart, Installing)
    BY <2>2, Literals, InstallLiteral, InConcat
  <2>4. \A fact : Guarded(Restart, {"settings"}, "unit", fact)
    BY <2>2, Lacking DEF Restarting
  <2>5. \A fact : Guarded(InstallSteps \o Restart, {"settings"}, "unit", fact)
    BY <2>4, Literals, InstallLiteral, GuardedConcat
  <2> QED BY <1>1, <1>3, <2>1, <2>3, <2>5
<1>4. CASE ~start
  BY <1>1, <1>4, InstallLiteral
<1> QED BY <1>3, <1>4

LEMMA UpgradeBegins ==
    ASSUME Typed, NEW ver \in Versions, NEW port \in Ports \cup {None}, NEW start \in BOOLEAN,
           BeginUpgrade(ver, port, start)
    PROVE  /\ Begun("upgrade")
           /\ ins'.ver = ver /\ ins'.port \in Ports /\ ins'.start = start
           /\ Sound(ins'.todo) /\ In(ins'.todo, Upgrading)
           /\ \A fact : Guarded(ins'.todo, {"move"}, "npm", fact)
           /\ \A fact : Guarded(ins'.todo, {"backup"}, "mcp", fact)
           /\ start => Restarts(ins'.todo)
           /\ disk.unit # None
<1> DEFINE known == IF port = None THEN disk.unit ELSE port
<1>1. disk.unit # None /\ known \in Ports
  BY NoneAssumption DEF BeginUpgrade, Typed, DiskTyped, Disks
<1>2. UpgradeSteps(port) \in Programs
  BY UpgradeLiteral DEF Sound
<1>3. /\ Begun("upgrade")
      /\ ins'.ver = ver /\ ins'.port = known /\ ins'.start = start
      /\ ins'.todo = IF start THEN UpgradeSteps(port) \o Restart ELSE UpgradeSteps(port)
  <2>1. Begin("upgrade", UpgradeSteps(port), ver, known, start)
    BY DEF BeginUpgrade
  <2> HIDE DEF known
  <2> QED BY <1>1, <1>2, <2>1, BeginShape
<1>4. CASE start
  <2>1. Sound(UpgradeSteps(port) \o Restart) /\ Restarts(UpgradeSteps(port) \o Restart)
    BY UpgradeLiteral, WithRestart
  <2>2. In(Restart, Upgrading) /\ In(Restart, Restarting)
    BY DEF Restart, In, Upgrading, Common, Restarting
  <2>3. In(UpgradeSteps(port) \o Restart, Upgrading)
    BY <1>2, <2>2, Literals, UpgradeLiteral, InConcat
  <2>4. /\ \A fact : Guarded(Restart, {"move"}, "npm", fact)
        /\ \A fact : Guarded(Restart, {"backup"}, "mcp", fact)
    <3>1. "npm" \notin Restarting /\ "mcp" \notin Restarting
      BY DEF Restarting
    <3> QED BY <2>2, <3>1, Lacking
  <2>5. /\ \A fact : Guarded(UpgradeSteps(port) \o Restart, {"move"}, "npm", fact)
        /\ \A fact : Guarded(UpgradeSteps(port) \o Restart, {"backup"}, "mcp", fact)
    BY <1>2, <2>4, Literals, UpgradeLiteral, GuardedConcat
  <2> QED BY <1>1, <1>3, <1>4, <2>1, <2>3, <2>5
<1>5. CASE ~start
  BY <1>1, <1>3, <1>5, UpgradeLiteral
<1> QED BY <1>4, <1>5

LEMMA PurgeBegins ==
    ASSUME Typed, BeginPurge
    PROVE  Begun("purge") /\ ~ins'.start /\ ins'.todo = PurgeSteps
BY BeginShape, Literals DEF BeginPurge

----------------------------------------------------------------------------
(* What the steps of the installer leave alone.                               *)
LEMMA FilesOnly ==
    ASSUME FileStep
    PROVE  UNCHANGED <<loaded, svc, sup, child, adp, lock, stray, budget>>
BY DEF FileStep, InstallNpm, InstallLauncher, InstallMcp, ConfigureProfile, WriteApiPort, SignIn,
       SetLocale, RunSync, RestoreLocale, ExtractApiToken, StoreTokens, DeploySupervisor,
       InstallUnit, InstallAdapterUnit, BackupFiles, MoveNpmTree, RemoveManaged, BootstrapE2ee,
       Write

LEMMA InstallerOnly ==
    ASSUME InstallerStep
    PROVE  UNCHANGED <<child, adp, stray, budget>>
BY FilesOnly
   DEF InstallerStep, Ask, StopIfActive, RestartStop, HaltUnit, Disable, Queue, Return,
       CheckInactive, StartUnit, ProbeTerminal, ProbeAdapter, Probe, InstallerLocks,
       InstallerUnlocks, InstallerRefused, DaemonReload

----------------------------------------------------------------------------
(* The facts about the disk hold in every state.                              *)
DiskFollows == /\ Typed /\ ModeKnown
               /\ UnitsFollow /\ LocaleFollows /\ RetainFollows

Follows == DiskFollows /\ StrayFollows

LEMMA EmptyProgram ==
    /\ \A S : In(<<>>, S)
    /\ \A B, a, fact : Guarded(<<>>, B, a, fact)
    /\ \A A, b : Never(<<>>, A, b) /\ Until(<<>>, A, b)
    /\ \A b : ~Has(<<>>, b)
    /\ \A a, b : Then(<<>>, a, b)
<1>1. DOMAIN <<>> = {}
  OBVIOUS
<1> QED BY <1>1 DEF In, Guarded, Never, Until, Has, Then

LEMMA FollowsInit == Init => Follows
<1> SUFFICES ASSUME Init PROVE Follows
  OBVIOUS
<1>1. ins = NoIns
  BY DEF Init
<1>2. ins \in Runs /\ ins.mode = "none" /\ ins.todo = <<>> /\ ~ins.start /\ ~ins.issued
     /\ ins.result = "none"
  BY <1>1, Literals DEF NoIns, Runs, Modes, Results
<1>7. StrayFollows
  BY <1>2 DEF Init, StrayFollows
<1>3. ModeKnown /\ LocaleFollows /\ RetainFollows
  BY <1>2 DEF ModeKnown, LocaleFollows, RetainFollows, PreviousRetained, Building
<1>4. CASE disk = Fresh
  BY <1>2, <1>3, <1>4, <1>7
     DEF Follows, DiskFollows, Typed, InsTyped, DiskTyped, Disks, Fresh, UnitsFollow,
         UnitsAreRunnable, Building
<1>5. CASE \E v \in Versions, p \in Ports : disk = Installed(v, p)
  BY <1>2, <1>3, <1>5, <1>7, NoneAssumption
     DEF Follows, DiskFollows, Typed, InsTyped, DiskTyped, Disks, Installed, UnitsFollow,
         UnitsAreRunnable, Building
<1>6. (CHOOSE w \in Versions : TRUE) \in Versions /\ (CHOOSE q \in Ports : TRUE) \in Ports
  BY InstallableAssumption
<1> QED BY <1>4, <1>5, <1>6 DEF Init

LEMMA FollowsBegin ==
    ASSUME Follows, Begins
    PROVE  DiskFollows'
<1>1. Typed
  BY DEF Follows, DiskFollows
<1>2. ASSUME NEW v \in Versions, NEW p \in Ports, NEW start \in BOOLEAN,
             BeginInstall(v, p, start)
      PROVE  DiskFollows'
  <2>1. /\ Begun("install") /\ ins'.ver = v /\ ins'.port = p
        /\ Sound(ins'.todo) /\ In(ins'.todo, Installing)
        /\ \A fact : Guarded(ins'.todo, {"settings"}, "unit", fact)
    BY <1>1, <1>2, InstallBegins
  <2>2. Typed'
    BY <1>1, <2>1 DEF Begun, Typed, InsTyped, DiskTyped
  <2>3. ModeKnown'
    BY <2>1 DEF Begun, ModeKnown, Building
  <2>4. UnitsFollow'
    BY <2>1 DEF Begun, Sound, Follows, DiskFollows, UnitsFollow, UnitsAreRunnable, Building
  <2>5. LocaleFollows'
    BY <2>1 DEF Begun, Sound, LocaleFollows, Spoiled
  <2>6. RetainFollows'
    BY <2>1 DEF Begun, RetainFollows, PreviousRetained
  <2> QED BY <2>2, <2>3, <2>4, <2>5, <2>6 DEF DiskFollows
<1>3. ASSUME NEW v \in Versions, NEW p \in Ports \cup {None}, NEW start \in BOOLEAN,
             BeginUpgrade(v, p, start)
      PROVE  DiskFollows'
  <2>1. /\ Begun("upgrade") /\ ins'.ver = v /\ ins'.port \in Ports
        /\ Sound(ins'.todo) /\ In(ins'.todo, Upgrading)
        /\ \A fact : Guarded(ins'.todo, {"move"}, "npm", fact)
        /\ \A fact : Guarded(ins'.todo, {"backup"}, "mcp", fact)
        /\ disk.unit # None
    BY <1>1, <1>3, UpgradeBegins
  <2>2. Typed'
    BY <1>1, <2>1 DEF Begun, Typed, InsTyped, DiskTyped
  <2>3. ModeKnown'
    BY <2>1 DEF Begun, ModeKnown, Building
  <2>4. UnitsFollow'
    <3>1. UnitsAreRunnable' /\ disk'.port # None
      BY <2>1 DEF Begun, Follows, DiskFollows, UnitsFollow, UnitsAreRunnable
    <3>2. Guarded(ins'.todo, {"settings"}, "unit", disk'.port # None)
      BY <3>1 DEF Guarded
    <3> QED BY <2>1, <3>1, <3>2 DEF Begun, Sound, UnitsFollow, Building
  <2>5. LocaleFollows'
    BY <2>1 DEF Begun, LocaleFollows
  <2>6. RetainFollows'
    <3>1. /\ Guarded(ins'.todo, {}, "move", disk'.joplin = ins'.joplin)
          /\ Guarded(ins'.todo, {}, "backup", disk'.mcp = ins'.mcp)
      BY <2>1 DEF Begun, Guarded
    <3>2. PreviousRetained'
      BY <2>1 DEF Begun, PreviousRetained
    <3> QED BY <2>1, <3>1, <3>2 DEF Begun, Sound, RetainFollows
  <2> QED BY <2>2, <2>3, <2>4, <2>5, <2>6 DEF DiskFollows
<1>4. ASSUME BeginPurge PROVE DiskFollows'
  <2>1. Begun("purge") /\ ~ins'.start /\ ins'.todo = PurgeSteps
    BY <1>1, <1>4, PurgeBegins
  <2>2. Typed'
    BY <1>1, <2>1 DEF Begun, Typed, InsTyped, DiskTyped
  <2>3. ModeKnown'
    BY <2>1, PurgeLiteral DEF Begun, ModeKnown, Building
  <2>4. UnitsFollow'
    BY <2>1, PurgeLiteral
       DEF Begun, Follows, DiskFollows, UnitsFollow, UnitsAreRunnable, Building
  <2>5. LocaleFollows' /\ RetainFollows'
    BY <2>1 DEF Begun, LocaleFollows, RetainFollows, PreviousRetained
  <2> QED BY <2>2, <2>3, <2>4, <2>5 DEF DiskFollows
<1> QED BY <1>2, <1>3, <1>4 DEF Begins

LEMMA FollowsGivesUp ==
    ASSUME Follows, NEW step, GivesUp(step)
    PROVE  DiskFollows'
<1>1. /\ Typed /\ ModeKnown /\ UnitsFollow /\ LocaleFollows /\ RetainFollows /\ SameRun
      /\ ins.todo \in Programs /\ ins.todo # <<>> /\ ins'.read = ins.read
      /\ Head(ins.todo) = step /\ ~Idle /\ Left(step)
  BY DEF Follows, DiskFollows, GivesUp, At, Typed, InsTyped, Runs, Idle
<1>0. PICK failure \in {"tool", "interrupt", "uncaught"} :
        /\ ins'.todo = CleanUp(step, failure)
        /\ ins'.result = IF step \in {"locale", "relocale"} THEN "not restored"
                         ELSE IF failure = "uncaught" THEN "uncaught" ELSE "failed"
        /\ failure = "uncaught" => step # "sync"
  BY DEF GivesUp
<1> DEFINE rest == CleanUp(step, failure)
<1>2. /\ rest \in Programs
      /\ In(rest, Cleaning)
      /\ step # "sync" => In(rest, {"haltT", "haltA"})
  BY CleanUpShape
<1>a. ins.mode = "purge" => rest = <<>>
  <2>1. ins.mode = "purge" => step \in Purging
    BY <1>1, InTail DEF ModeKnown
  <2>2. ins.mode = "purge" => step \notin {"sync", "probeT", "probeA"}
    BY <2>1 DEF Purging
  <2> QED BY <2>2, CleanUpShape
<1>b. step = "sync" => rest = <<"relocale", "fail">>
  BY CleanUpShape
<1>c. step \in {"locale", "relocale"} /\ ins.mode = "install" => rest = <<>>
  BY CleanUpShape
<1> HIDE DEF rest
<1>3. /\ disk' \in Disks /\ disk'.deployed = disk.deployed /\ disk'.launcher = disk.launcher
      /\ disk'.unit = disk.unit /\ disk'.aunit = disk.aunit /\ disk'.mcp = disk.mcp
      /\ disk'.kept = disk.kept
      /\ disk.tokens = Tokens => disk'.tokens = Tokens
      /\ disk'.locale = disk.locale \/ step \in {"locale", "relocale"}
      /\ \/ disk'.joplin = disk.joplin
         \/ step = "npm" /\ disk.joplin # ins.ver /\ disk'.joplin = None
  BY <1>1 DEF Left, Disks
<1>4. Typed'
  BY <1>3 DEF GivesUp, Typed, InsTyped, DiskTyped
<1>5. ins.mode = "upgrade" => step # "sync"
  <2>1. ins.mode = "upgrade" => step \in Upgrading
    BY <1>1, InTail DEF ModeKnown
  <2> QED BY <2>1 DEF Upgrading, Common, Files, Restarting, Cleaning
<1>6. disk.port # None => disk'.port # None
  <2>1. CASE disk'.port = disk.port
    BY <2>1
  <2>2. CASE step \in {"settings", "port"} /\ disk'.port = ins.port
    <3>1. ins.mode = "purge" => step \in Purging
      BY <1>1, InTail DEF ModeKnown
    <3>2. ins.mode # "purge" /\ ins.mode # "none"
      BY <1>1, <2>2, <3>1 DEF Purging, ModeKnown
    <3>3. ins.mode \in Modes
      BY <1>1 DEF Typed, InsTyped, Runs
    <3> QED BY <1>1, <2>2, <3>2, <3>3, NoneAssumption DEF ModeKnown, Building, Modes
  <2> QED BY <1>1, <2>1, <2>2 DEF Left
<1>d. ins'.todo = rest /\ ins'.result \notin {"none", "ok", "running"}
  BY <1>0 DEF rest
<1>7. ModeKnown'
  <2>1. ins.mode # "none"
    BY <1>1 DEF ModeKnown
  <2>2. In(rest, Installing)
    BY <1>2 DEF In, Installing, Common
  <2>3. ins.mode = "upgrade" => In(rest, Upgrading)
    BY <1>2, <1>5 DEF In, Upgrading, Common, Cleaning
  <2>4. ins.mode = "purge" => In(rest, Purging)
    BY <1>a, EmptyProgram
  <2> QED BY <1>1, <1>d, <2>1, <2>2, <2>3, <2>4 DEF ModeKnown, Building, SameRun
<1>8. UnitsFollow'
  <2>1. UnitsAreRunnable'
    BY <1>1, <1>3, <1>6, <1>d DEF UnitsFollow, UnitsAreRunnable
  <2>2. ASSUME NEW a, a \notin Cleaning PROVE \A B, fact : Guarded(rest, B, a, fact)
    BY <1>2, <2>2, Lacking
  <2>3. ASSUME NEW a \in {"unit", "aunit", "rmDeploy", "rmProfile", "rmLauncher", "rmMcp",
                          "rmTokens"}
        PROVE  \A B, fact : Guarded(ins'.todo, B, a, fact)
    BY <1>d, <2>2 DEF Cleaning
  <2>4. /\ Guarded(ins'.todo, {"deploy"}, "unit", disk'.deployed)
        /\ Guarded(ins'.todo, {"launcher"}, "unit", disk'.launcher)
        /\ Guarded(ins'.todo, {"settings"}, "unit", disk'.port # None)
        /\ Guarded(ins'.todo, {"mcp"}, "aunit", disk'.mcp # None)
        /\ Guarded(ins'.todo, {"tokens"}, "aunit", disk'.tokens = Tokens)
    BY <2>3
  <2>5. /\ \A a \in {"rmDeploy", "rmProfile", "rmLauncher"} :
             Guarded(ins'.todo, {"rmUnit"}, a, disk'.unit = None)
        /\ \A a \in {"rmMcp", "rmTokens"} :
             Guarded(ins'.todo, {"rmAunit"}, a, disk'.aunit = None)
    BY <2>3
  <2>6. Until(ins'.todo, {"move"}, "npm")
    BY <1>2, <1>d DEF In, Until, Cleaning
  <2> QED BY <1>d, <2>1, <2>4, <2>5, <2>6 DEF UnitsFollow
<1>9. LocaleFollows'
  <2> SUFFICES ASSUME ins.mode = "install" PROVE LocaleFollows'
    BY <1>1 DEF LocaleFollows, SameRun
  <2>0. ins'.alone = ins.alone /\ ins'.locale = ins.locale /\ ins'.read = ins.read
    BY <1>1 DEF SameRun
  <2>1. CASE step = "sync"
    <3>1. /\ Then(rest, "locale", "sync") /\ Then(rest, "sync", "relocale")
          /\ rest # <<>> /\ Head(rest) = "relocale"
      BY <1>b, <2>1 DEF Then
    <3>2. ins'.result = "failed"
      BY <1>0, <2>1
    <3>3. ins.alone => ins.read = ins.locale
      BY <1>1, <2>1, GuardedHead DEF LocaleFollows
    <3>4. \A s \in {"sync", "relocale"} :
            Guarded(rest, {"locale"}, s, ins.alone => ins.read = ins.locale)
      BY <3>3 DEF Guarded
    <3> QED BY <1>d, <2>0, <3>1, <3>2, <3>4 DEF LocaleFollows, At, Idle, Spoiled
  <2>2. CASE step # "sync"
    <3>1. ~Has(rest, "locale") /\ ~Has(rest, "sync")
      BY <1>2, <2>2, Lacking
    <3>2. Then(rest, "locale", "sync") /\ Then(rest, "sync", "relocale")
      BY <3>1 DEF Then, Has
    <3>0. \A s \in {"sync", "relocale"} :
            Guarded(rest, {"locale"}, s, ins.alone => ins.read = ins.locale)
      BY <1>2, <2>2, Lacking
    <3>3. CASE step \in {"locale", "relocale"}
      <4>1. rest = <<>> /\ ins'.result = "not restored"
        BY <1>0, <1>c, <3>3
      <4> QED BY <1>d, <2>0, <3>0, <3>2, <4>1 DEF LocaleFollows, Idle, Spoiled
    <3>4. CASE step \notin {"locale", "relocale"}
      <4>1. ins'.result \in {"failed", "uncaught"}
        BY <1>0, <3>4
      <4>2. ins.alone => disk'.locale = ins'.locale
        BY <1>1, <1>3, <2>0, <2>2, <3>4 DEF LocaleFollows, At
      <4> QED BY <1>d, <2>0, <3>0, <3>2, <4>1, <4>2 DEF LocaleFollows, Spoiled
    <3> QED BY <3>3, <3>4
  <2> QED BY <2>1, <2>2
<1>10. RetainFollows'
  <2> SUFFICES ASSUME ins.mode = "upgrade" PROVE RetainFollows'
    BY <1>1 DEF RetainFollows, PreviousRetained, SameRun
  <2>1. ASSUME NEW a, a \notin {"haltT", "haltA"}
        PROVE  /\ \A B, fact : Guarded(rest, B, a, fact)
               /\ \A A : Never(rest, A, a)
    BY <1>2, <1>5, <2>1, Lacking
  <2>2. PreviousRetained'
    <3>1. CASE disk'.joplin = disk.joplin
      BY <1>1, <1>3, <3>1 DEF RetainFollows, PreviousRetained, SameRun
    <3>2. CASE step = "npm" /\ disk.joplin # ins.ver
      <4>1. KeptJoplin
        BY <1>1, <3>2, GuardedHead DEF RetainFollows, KeptJoplin
      <4> QED BY <1>1, <1>3, <3>2, <4>1 DEF RetainFollows, PreviousRetained, SameRun, KeptJoplin
    <3> QED BY <1>3, <3>1, <3>2
  <2> QED BY <1>d, <2>1, <2>2 DEF RetainFollows
<1> QED BY <1>4, <1>7, <1>8, <1>9, <1>10 DEF DiskFollows

LEMMA FollowsEnded ==
    ASSUME Follows, IsKilled \/ BreaksOff
    PROVE  DiskFollows'
<1>1. ins' \in Runs /\ ~ins'.issued /\ ins'.todo = <<>> /\ SameRun /\ UNCHANGED disk
      /\ ins'.result \notin {"none", "ok", "running"}
  BY DEF IsKilled, BreaksOff
<1>2. Typed' /\ ModeKnown'
  BY <1>1, EmptyProgram
     DEF Follows, DiskFollows, Typed, InsTyped, DiskTyped, ModeKnown, Building, SameRun
<1>3. UnitsFollow'
  BY <1>1, EmptyProgram DEF Follows, DiskFollows, UnitsFollow, UnitsAreRunnable
<1>4. LocaleFollows'
  <2>1. CASE IsKilled
    BY <1>1, <2>1, EmptyProgram DEF IsKilled, LocaleFollows, Idle, Spoiled
  <2>2. CASE BreaksOff
    <3>1. ins.mode = "install" => (ins.alone => disk.locale = ins.locale)
      BY <2>2 DEF BreaksOff, Follows, DiskFollows, LocaleFollows, At
    <3> QED BY <1>1, <2>2, <3>1, EmptyProgram DEF BreaksOff, LocaleFollows, Idle, SameRun
  <2> QED BY <2>1, <2>2
<1>5. RetainFollows'
  BY <1>1, EmptyProgram DEF Follows, DiskFollows, RetainFollows, PreviousRetained, SameRun
<1> QED BY <1>2, <1>3, <1>4, <1>5 DEF DiskFollows

LEMMA FollowsWaiting ==
    ASSUME Follows, Issues \/ UNCHANGED <<ins, disk>>
    PROVE  DiskFollows'
<1>1. /\ ins'.todo = ins.todo /\ SameRun /\ ins'.result = ins.result /\ UNCHANGED disk
      /\ ins'.read = ins.read
  BY DEF Issues, SameRun
<1>2. Typed'
  BY DEF Follows, DiskFollows, Typed, InsTyped, DiskTyped, Issues, Idle
<1>3. ModeKnown' /\ UnitsFollow'
  BY <1>1 DEF Follows, DiskFollows, ModeKnown, UnitsFollow, UnitsAreRunnable, Building, SameRun,
              Idle
<1>4. LocaleFollows'
  BY <1>1 DEF Follows, DiskFollows, LocaleFollows, Idle, At, SameRun
<1>5. RetainFollows'
  BY <1>1 DEF Follows, DiskFollows, RetainFollows, PreviousRetained, KeptJoplin, KeptMcp, SameRun
<1> QED BY <1>2, <1>3, <1>4, <1>5 DEF DiskFollows

(* A late setting concerns no program, no unit and no run that is alone.      *)
LEMMA FollowsLate ==
    ASSUME Follows, WritesLate
    PROVE  DiskFollows'
<1>1. /\ UNCHANGED ins /\ disk' \in Disks
      /\ \A f \in {"joplin", "mcp", "launcher", "tokens", "deployed", "unit", "aunit", "kept"} :
           disk'[f] = disk[f]
      /\ disk.port # None => disk'.port # None
      /\ ins.alone => ins.result = "killed" /\ Idle
  BY NoneAssumption
     DEF WritesLate, Follows, DiskFollows, StrayFollows, Typed, DiskTyped, Disks
<1>2. Typed' /\ ModeKnown'
  BY <1>1 DEF Follows, DiskFollows, Typed, InsTyped, DiskTyped, ModeKnown, Building, Idle
<1>3. UnitsFollow'
  <2>1. UnitsAreRunnable'
    BY <1>1 DEF Follows, DiskFollows, UnitsFollow, UnitsAreRunnable
  <2>2. Building => Guarded(ins.todo, {"settings"}, "unit", disk'.port # None)
    BY <1>1, GuardedLater DEF Follows, DiskFollows, UnitsFollow
  <2> QED BY <1>1, <2>1, <2>2 DEF Follows, DiskFollows, UnitsFollow, Building
<1>4. LocaleFollows'
  BY <1>1 DEF Follows, DiskFollows, LocaleFollows, Idle, At, Spoiled
<1>5. RetainFollows'
  BY <1>1 DEF Follows, DiskFollows, RetainFollows, PreviousRetained, KeptJoplin, KeptMcp
<1> QED BY <1>2, <1>3, <1>4, <1>5 DEF DiskFollows

LEMMA FollowsOnward ==
    ASSUME Follows, GoesOn
    PROVE  DiskFollows'
<1>1. Typed'
  BY DEF Follows, DiskFollows, Typed, InsTyped, DiskTyped, GoesOn, Onward, Effect
<1> QED BY <1>1, ModeKnownOnward, UnitsFollowOnward, LocaleFollowsOnward, RetainFollowsOnward
        DEF Follows, DiskFollows

(* Only a kill leaves a command behind, and a run ends with it.               *)
LEMMA StrayStep ==
    ASSUME Follows, Next
    PROVE  StrayFollows'
<1>1. CASE InstallerKilled
  <2>1. ins'.todo = <<>> /\ ins'.result = "killed" /\ ~Idle
    BY <1>1 DEF InstallerKilled, Follows, DiskFollows, Typed, InsTyped, Runs
  <2>2. ASSUME Head(ins.todo) \in ProfileSteps PROVE Command(Head(ins.todo)) \in Commands
    <3>1. CASE Head(ins.todo) \in {"settings", "port"}
      <4>1. ins.todo \in Programs /\ ins.todo # <<>> /\ ins.mode \in Modes
        BY <2>1 DEF Follows, DiskFollows, Typed, InsTyped, Runs, Idle
      <4>2. ins.mode # "purge" /\ ins.mode # "none"
        <5>1. ins.mode = "purge" => Head(ins.todo) \in Purging
          BY <4>1, InTail DEF Follows, DiskFollows, ModeKnown
        <5> QED BY <3>1, <4>1, <5>1 DEF Purging, Follows, DiskFollows, ModeKnown
      <4>3. ins.port \in Ports
        BY <4>1, <4>2 DEF Follows, DiskFollows, ModeKnown, Building, Modes
      <4> QED BY <3>1, <4>3 DEF Command, Commands
    <3>2. CASE Head(ins.todo) = "locale"
      BY <3>2 DEF Command, Commands
    <3>3. CASE Head(ins.todo) = "relocale"
      <4>1. ins.read \in {"own", "en_GB"}
        BY DEF Follows, DiskFollows, Typed, InsTyped, Runs
      <4> QED BY <3>3, <4>1 DEF Command, Commands
    <3>4. CASE Head(ins.todo) \notin {"settings", "port", "locale", "relocale"}
      <4>1. Command(Head(ins.todo)) = <<"nothing", None>>
        BY <3>4 DEF Command
      <4> QED BY <4>1 DEF Commands
    <3> QED BY <3>1, <3>2, <3>3, <3>4
  <2>3. stray' \subseteq Commands
    BY <1>1, <2>2 DEF InstallerKilled, Follows, StrayFollows
  <2> QED BY <2>1, <2>3 DEF StrayFollows, Idle
<1>2. ASSUME UNCHANGED <<ins, disk>> \/ Issues \/ GoesOn \/ (\E step : GivesUp(step))
             \/ BreaksOff \/ WritesLate
      PROVE  /\ ins'.alone = ins.alone
             /\ ins'.result = "killed" => Idle'
             /\ ins.result = "killed" => ins'.result = "killed"
  <2>1. CASE UNCHANGED <<ins, disk>> \/ WritesLate
    BY <2>1 DEF WritesLate, Follows, StrayFollows, Idle
  <2>2. CASE ~Idle /\ SameRun /\ ins'.result \in {ins.result, "ok", "failed", "uncaught",
                                                  "not restored", "not halted"}
    BY <2>2 DEF Follows, StrayFollows, SameRun
  <2>3. ASSUME NEW step, GivesUp(step)
        PROVE  ~Idle /\ SameRun /\ ins'.result \in {"failed", "uncaught", "not restored"}
    BY <2>3 DEF GivesUp, At
  <2>4. ASSUME Issues \/ GoesOn \/ BreaksOff
        PROVE  ~Idle /\ SameRun /\ ins'.result \in {ins.result, "ok", "not halted"}
    BY <2>4 DEF Issues, GoesOn, Onward, BreaksOff
  <2> QED BY <1>2, <2>1, <2>2, <2>3, <2>4
<1>3. CASE Begins
  <2>1. \E mode : Begun(mode)
    BY <1>3, InstallBegins, UpgradeBegins, PurgeBegins DEF Begins, Follows, DiskFollows
  <2> QED BY <2>1 DEF Begun, Follows, StrayFollows
<1>4. CASE ~Begins /\ ~InstallerKilled
  <2>1. UNCHANGED stray \/ StrayEnds
    BY <1>4, InstallerOnly
       DEF Next, AutoRestart, UserStarts, UserStops, TermSupervisor, KillControlGroup,
           AdapterStops, AdapterStarts, Supervisor, Validate, TakeLock, Spawn, StartApi, Monitor,
           StopChild, Exit, ChildFails, SupervisorKilled, AdapterDies, StepFails
  <2>2. stray' \subseteq stray
    BY <2>1 DEF StrayEnds
  <2> QED BY <1>2, <1>4, <2>2, Script DEF Follows, DiskFollows, StrayFollows
<1> QED BY <1>1, <1>3, <1>4

LEMMA FollowsStep == Follows /\ [Next]_vars => Follows'
<1>1. ASSUME Follows, UNCHANGED vars PROVE Follows'
  <2>1. StrayFollows'
    BY <1>1 DEF vars, Follows, StrayFollows, Idle
  <2> QED BY <1>1, <2>1, FollowsWaiting DEF vars, Follows
<1>2. ASSUME Follows, Next PROVE Follows'
  BY <1>2, Script, FollowsWaiting, FollowsOnward, FollowsGivesUp, FollowsEnded, FollowsLate,
     FollowsBegin, StrayStep
     DEF Follows, DiskFollows
<1> QED BY <1>1, <1>2

LEMMA FollowsImplies == Follows => UnitsAreRunnable /\ PreviousRetained /\ LocaleRestored
<1>1. Follows => LocaleRestored
  BY DEF Follows, DiskFollows, LocaleFollows, LocaleRestored, At, Idle, Spoiled
<1> QED BY <1>1 DEF Follows, DiskFollows, UnitsFollow, RetainFollows

(* What systemd may start has what it needs, whichever step fails, is         *)
(* interrupted or killed: script, launcher and port behind the unit of the    *)
(* terminal, the program and all tokens behind that of the adapter; only      *)
(* Joplin's program may be missing, while an installer replaces it and after  *)
(* a run that did not end well                                                *)
(* (install_joplin_terminal.py:1445, 2173, 2308, 2332, 2802).                 *)
THEOREM UnitsStayRunnable == Spec => []UnitsAreRunnable
BY FollowsInit, FollowsStep, FollowsImplies, PTL DEF Spec

(* SVC-006: from the moment an upgrade touches the programs, those installed  *)
(* when it began are on the disk or among the retained files                  *)
(* (install_joplin_terminal.py:2687, 2797).                                   *)
THEOREM UpgradesRetain == Spec => []PreviousRetained
BY FollowsInit, FollowsStep, FollowsImplies, PTL DEF Spec

(* The operator's locale is back when an installation ends, well or with a    *)
(* failure, whatever its synchronization did, unless it is a write of the     *)
(* locale itself that failed, which may have stored the other one (outside    *)
(* the try, or in its finally), the installer was killed, or it began beside  *)
(* a command of a killed one (install_joplin_terminal.py:1830-1854).          *)
THEOREM LocaleComesBack == Spec => []LocaleRestored
BY FollowsInit, FollowsStep, FollowsImplies, PTL DEF Spec

----------------------------------------------------------------------------
(* The adapter: which of its processes run and what they were started with.   *)

(* Only a unit that systemd has read can be started.                          *)
NotUp == loaded["A"] = None => svc["A"] # "active"
Running == {"active", "stopping", "failing"}

AdapterOwned == adp # None => svc["A"] \in Running

(* No step starts the adapter's unit without its file, nor leaves a process   *)
(* without a unit or, while the unit is active, takes its process away.       *)
AdapterMoves ==
    /\ svc'["A"] = "active" => svc["A"] = "active" \/ loaded["A"] # None
    /\ svc'["A"] = "active" /\ adp # None => adp' # None
    /\ AdapterOwned'

LEMMA StillMoves ==
    ASSUME AdapterOwned, UNCHANGED <<svc, adp>>
    PROVE  AdapterMoves
BY DEF AdapterMoves, AdapterOwned

LEMMA StartMoves ==
    ASSUME Owners, AdapterOwned, NEW s \in Services, Startable(s), StartUnits(Requirement(s)),
           UNCHANGED adp
    PROVE  AdapterMoves
<1>1. svc'["A"] = "active" => svc["A"] = "active" \/ loaded["A"] # None
  BY DEF Startable, StartUnits, Requirement, Services
<1>2. svc["A"] \in Running => svc'["A"] = svc["A"]
  BY DEF StartUnits, Running, Services
<1> QED BY <1>1, <1>2 DEF AdapterMoves, AdapterOwned

LEMMA StopMoves ==
    ASSUME Owners, AdapterOwned, UNCHANGED adp,
           (\E S : StopUnits(S)) \/ (\E s \in Services : RestartStops(s))
    PROVE  AdapterMoves
<1>1. \/ svc'["A"] = svc["A"]
      \/ svc["A"] \in {"active", "failing"} /\ svc'["A"] \in {"stopping", "failing"}
      \/ svc["A"] = "restarting" /\ svc'["A"] = "inactive"
  BY DEF StopUnits, RestartStops, Services
<1> QED BY <1>1 DEF AdapterMoves, AdapterOwned, Running

LEMMA AdapterStep ==
    ASSUME Owners, AdapterOwned, [Next]_vars
    PROVE  AdapterMoves
<1>1. ASSUME NEW s \in Services, AutoRestart(s) \/ UserStarts(s) \/ UserStops(s)
      PROVE  AdapterMoves
  <2>1. CASE (AutoRestart(s) /\ Startable(s)) \/ UserStarts(s)
    BY <2>1, StartMoves DEF AutoRestart, UserStarts
  <2>2. CASE AutoRestart(s) /\ ~Startable(s)
    <3>1. svc[s] = "restarting" /\ svc' = [svc EXCEPT ![s] = "inactive"] /\ UNCHANGED adp
      BY <2>2 DEF AutoRestart
    <3>2. CASE s = "A"
      <4>1. svc["A"] = "restarting" /\ svc'["A"] = "inactive"
        BY <3>1, <3>2 DEF Owners, Services
      <4> QED BY <3>1, <4>1 DEF AdapterMoves, AdapterOwned, Running
    <3>3. CASE s # "A"
      <4>1. svc'["A"] = svc["A"]
        BY <3>1, <3>3 DEF Owners, Services
      <4> QED BY <3>1, <4>1 DEF AdapterMoves, AdapterOwned
    <3> QED BY <3>2, <3>3
  <2>3. CASE UserStops(s)
    BY <2>3, StopMoves DEF UserStops
  <2> QED BY <1>1, <2>1, <2>2, <2>3
<1>2. CASE TermSupervisor \/ ChildFails
  BY <1>2, StillMoves DEF TermSupervisor, ChildFails
<1>3. ASSUME svc'["A"] = svc["A"], UNCHANGED adp PROVE AdapterMoves
  BY <1>3 DEF AdapterMoves, AdapterOwned
<1>4. CASE KillControlGroup
  BY <1>3, <1>4 DEF KillControlGroup, Owners
<1>5. CASE AdapterStops
  <2>1. adp' = None /\ svc'["A"] \in {"inactive", "restarting"}
    BY <1>5 DEF AdapterStops, Settled, Owners, Services
  <2> QED BY <2>1 DEF AdapterMoves, AdapterOwned
<1>6. CASE AdapterStarts
  <2>1. svc["A"] = "active" /\ adp = None
    BY <1>6 DEF AdapterStarts
  <2>2. CASE disk.mcp # None /\ Tokens \subseteq disk.tokens
    BY <1>6, <2>1, <2>2 DEF AdapterStarts, AdapterMoves, AdapterOwned, Running
  <2>3. CASE ~(disk.mcp # None /\ Tokens \subseteq disk.tokens)
    <3>1. UNCHANGED adp /\ svc'["A"] = "restarting"
      BY <1>6, <2>3 DEF AdapterStarts, Owners, Services
    <3> QED BY <2>1, <3>1 DEF AdapterMoves, AdapterOwned
  <2> QED BY <2>2, <2>3
<1>7. CASE AdapterDies
  <2>1. adp' = None /\ svc'["A"] = "restarting"
    BY <1>7 DEF AdapterDies, Owners, Services
  <2> QED BY <2>1 DEF AdapterMoves, AdapterOwned
<1>8. CASE Supervisor \/ SupervisorKilled
  <2>1. ASSUME NEW code, Exits(code) PROVE svc'["A"] = svc["A"]
    BY <2>1 DEF Exits, Owners
  <2>2. CASE Validate \/ TakeLock \/ Exit
    <3>1. svc'["A"] = svc["A"] /\ UNCHANGED adp
      BY <2>1, <2>2 DEF Validate, TakeLock, Exit
    <3> QED BY <1>3, <3>1
  <2>3. CASE Spawn \/ StartApi \/ Monitor \/ StopChild
    BY <2>3, StillMoves DEF Spawn, StartApi, Monitor, StopChild
  <2>4. CASE SupervisorKilled
    <3>1. svc'["A"] = svc["A"] /\ UNCHANGED adp
      BY <2>4 DEF SupervisorKilled, Owners
    <3> QED BY <1>3, <3>1
  <2> QED BY <1>8, <2>2, <2>3, <2>4 DEF Supervisor
<1>9. ASSUME NEW step, NEW s \in Services,
             StopIfActive(step, s) \/ RestartStop(step, s) \/ HaltUnit(step, s)
      PROVE  AdapterMoves
  <2>1. /\ \/ StopUnits({s})
           \/ RestartStops(s)
           \/ UNCHANGED svc
        /\ UNCHANGED adp
    BY <1>9 DEF StopIfActive, HaltUnit, RestartStop, Queue, Return
  <2> QED BY <2>1, StopMoves, StillMoves
<1>10. CASE Disable
  BY <1>10, StopMoves, StillMoves DEF Disable, Queue, Return
<1>11. CASE StartUnit("startT", "T") \/ StartUnit("startA", "A")
  BY <1>11, StartMoves DEF StartUnit, Services
<1>12. CASE FileStep
  BY <1>12, FilesOnly, StillMoves
<1>13. CASE InstallerStep
  <2>1. ASSUME NEW step, NEW S, Ask(step, S) PROVE AdapterMoves
    BY <2>1, StillMoves DEF Ask
  <2>2. CASE ProbeTerminal \/ ProbeAdapter \/ InstallerLocks \/ InstallerUnlocks
             \/ DaemonReload \/ CheckInactive \/ InstallerRefused
    BY <2>2, StillMoves DEF ProbeTerminal, ProbeAdapter, Probe, InstallerLocks,
                            InstallerUnlocks, DaemonReload, CheckInactive, InstallerRefused
  <2> QED BY <1>9, <1>10, <1>11, <1>12, <1>13, <2>1, <2>2 DEF InstallerStep, Services
<1>14. CASE Begins
  BY <1>14, StillMoves DEF Begins, BeginInstall, BeginUpgrade, BeginPurge, Begin
<1>15. CASE StepFails \/ InstallerKilled \/ StrayEnds
  BY <1>15, StillMoves DEF StepFails, InstallerKilled, StrayEnds
<1>16. CASE UNCHANGED vars
  BY <1>16, StillMoves DEF vars
<1> QED BY <1>1, <1>2, <1>4, <1>5, <1>6, <1>7, <1>8, <1>13, <1>14, <1>15, <1>16 DEF Next

(* The units are read in one step only.                                       *)
LEMMA Loads ==
    ASSUME [Next]_vars
    PROVE  UNCHANGED loaded \/ DaemonReload
BY FilesOnly
   DEF Next, vars, AutoRestart, UserStarts, UserStops, TermSupervisor, KillControlGroup,
       AdapterStops, AdapterStarts, Supervisor, Validate, TakeLock, Spawn, StartApi, Monitor,
       StopChild, Exit, InstallerStep, Ask, StopIfActive, RestartStop, HaltUnit, Disable, Queue,
       Return, CheckInactive, StartUnit, ProbeTerminal, ProbeAdapter, Probe, InstallerLocks,
       InstallerUnlocks, InstallerRefused, Begins, BeginInstall, BeginUpgrade, BeginPurge,
       Begin, ChildFails, SupervisorKilled, AdapterDies, StepFails, InstallerKilled, StrayEnds

(* At each of these steps the installer does nothing else.                    *)
LEMMA OneStep ==
    ASSUME InstallerStep
    PROVE  /\ At("ask") => Ask("ask", Services)
           /\ At("askA") => Ask("askA", {"A"})
           /\ At("stopA?") => StopIfActive("stopA?", "A")
           /\ At("stopT") => RestartStop("stopT", "T")
           /\ At("stopA") => RestartStop("stopA", "A")
           /\ At("haltT") => HaltUnit("haltT", "T")
           /\ At("haltA") => HaltUnit("haltA", "A")
           /\ At("probeT") => ProbeTerminal \/ InstallerRefused
           /\ At("reload") => DaemonReload
           /\ At("lock") => InstallerLocks \/ InstallerRefused
<1>1. ASSUME NEW step, NEW other, At(step), At(other) PROVE step = other
  BY <1>1 DEF At
<1>2. ASSUME FileStep
      PROVE  \E step \in Writes \cup {"signIn", "sync", "e2ee", "apiToken"} : At(step)
  BY <1>2 DEF FileStep, InstallNpm, InstallLauncher, InstallMcp, ConfigureProfile, WriteApiPort,
              SignIn, SetLocale, RunSync, RestoreLocale, ExtractApiToken, StoreTokens,
              DeploySupervisor, InstallUnit, InstallAdapterUnit, BackupFiles, MoveNpmTree,
              RemoveManaged, BootstrapE2ee, Write, Writes, Files
<1>3. ASSUME InstallerRefused
      PROVE  \E step \in {"lock", "inactive", "startT", "startA", "probeT", "probeA", "tokens",
                          "fail"} : At(step)
  BY <1>3 DEF InstallerRefused, Refused, At
<1>4. /\ \A step, S : Ask(step, S) => At(step)
      /\ \A step, s : StopIfActive(step, s) \/ RestartStop(step, s) \/ HaltUnit(step, s)
                        \/ StartUnit(step, s) => At(step)
      /\ Disable => At("disable")
      /\ CheckInactive => At("inactive")
      /\ ProbeTerminal => At("probeT")
      /\ ProbeAdapter => At("probeA")
      /\ InstallerLocks => At("lock")
      /\ InstallerUnlocks => At("unlock")
      /\ DaemonReload => At("reload")
  BY DEF Ask, StopIfActive, RestartStop, HaltUnit, StartUnit, Disable, CheckInactive,
         ProbeTerminal, ProbeAdapter, Probe, InstallerLocks, InstallerUnlocks, DaemonReload
<1> QED BY <1>1, <1>2, <1>3, <1>4 DEF InstallerStep, Writes, Files

----------------------------------------------------------------------------
(* The lock: while a command of the installer is to come, it holds it.        *)
LockFollows ==
    \A step \in ProfileSteps :
      /\ Guarded(ins.todo, {"lock"}, step, lock = "installer")
      /\ Never(ins.todo, {"unlock"}, step)

(* Who gives it up, and when.                                                 *)
LEMMA LockKept ==
    ASSUME Next, lock = "installer"
    PROVE  \/ lock' = "installer"
           \/ InstallerUnlocks
           \/ InstallerKilled
           \/ \E step, failure : step # "sync" /\ At(step) /\ Fails(step, failure)
<1>1. ASSUME NEW step, NEW failure, At(step), Fails(step, failure)
      PROVE  \/ lock' = "installer"
             \/ step # "sync"
  BY <1>1 DEF Fails
<1>2. CASE InstallerRefused \/ StepFails
  <2>1. \/ UNCHANGED lock
        \/ \E failure : Fails(Head(ins.todo), failure)
    BY <1>2 DEF InstallerRefused, StepFails
  <2>2. ~Idle
    BY <1>2 DEF InstallerRefused, StepFails
  <2> QED BY <1>1, <2>1, <2>2 DEF At
<1>3. CASE InstallerStep /\ ~InstallerRefused
  BY <1>3, FilesOnly
     DEF InstallerStep, Ask, StopIfActive, RestartStop, HaltUnit, Disable, Queue, Return,
         CheckInactive, StartUnit, ProbeTerminal, ProbeAdapter, Probe, InstallerLocks,
         DaemonReload
<1>4. CASE Supervisor
  BY <1>4 DEF Supervisor, Validate, TakeLock, Spawn, StartApi, Monitor, StopChild, Exit, Exits
<1> QED BY <1>2, <1>3, <1>4
     DEF Next, AutoRestart, UserStarts, UserStops, TermSupervisor, KillControlGroup,
         AdapterStops, AdapterStarts, Begins, BeginInstall, BeginUpgrade, BeginPurge,
         Begin, ChildFails, SupervisorKilled, AdapterDies, StrayEnds

LEMMA LockFollowsOnward ==
    ASSUME Follows, LockFollows, GoesOn, InstallerStep \/ Excused,
           lock = "installer" => lock' = "installer",
           At("lock") => lock' = "installer"
    PROVE  LockFollows'
<1>1. PICK again \in Agains : Onward(again)
  BY DEF GoesOn
<1>2. /\ ins.todo \in Programs /\ ins.todo # <<>> /\ ~Idle
      /\ ins'.todo = again \o Tail(ins.todo) /\ Tail(ins.todo) \in Programs
  BY <1>1, ProgramTail DEF Onward, Follows, DiskFollows, Typed, InsTyped, Runs, Idle
<1> SUFFICES ASSUME NEW step \in ProfileSteps
             PROVE  /\ Guarded(ins'.todo, {"lock"}, step, lock' = "installer")
                    /\ Never(ins'.todo, {"unlock"}, step)
  BY DEF LockFollows
<1>3. Never(ins'.todo, {"unlock"}, step)
  <2>1. Never(Tail(ins.todo), {"unlock"}, step)
    BY <1>2, NeverTail DEF LockFollows
  <2> QED BY <1>2, <2>1, AgainKeeps DEF Synchronizing
<1>4. CASE again = <<>>
  <2>1. ins'.todo = Tail(ins.todo)
    BY <1>2, <1>4, ConcatEmptySeq DEF Programs
  <2>2. Guarded(ins.todo, {"lock"}, step, lock = "installer")
    BY DEF LockFollows
  <2>3. lock = "installer" \/ Head(ins.todo) \in {"lock"} => lock' = "installer"
    BY <1>2 DEF At
  <2> QED BY <1>2, <1>3, <2>1, <2>2, <2>3, GuardedTail
<1>5. CASE again # <<>>
  <2>1. Head(ins.todo) = "e2ee" /\ "e2ee" \in ProfileSteps
    BY <1>1, <1>5 DEF Onward, ProfileSteps
  <2>2. lock = "installer"
    BY <1>2, <2>1, GuardedHead DEF LockFollows
  <2> QED BY <1>3, <2>2 DEF Guarded
<1> QED BY <1>4, <1>5

LEMMA LockFollowsStep ==
    ASSUME Follows, LockFollows, [Next]_vars
    PROVE  LockFollows'
<1>0. Typed /\ StrayFollows /\ ModeKnown
  BY DEF Follows, DiskFollows
<1>1. CASE UNCHANGED vars
  BY <1>1 DEF vars, LockFollows
<1>2. ASSUME ins'.todo = <<>> PROVE LockFollows'
  BY <1>2, EmptyProgram DEF LockFollows
<1>3. ASSUME In(ins'.todo, {"haltT", "haltA"}) PROVE LockFollows'
  BY <1>3, Lacking DEF LockFollows, ProfileSteps
<1>4. ASSUME NEW step, NEW failure, step # "sync", Fails(step, failure) PROVE LockFollows'
  <2>1. ins'.todo = CleanUp(step, failure)
    BY <1>0, <1>4 DEF Fails, Typed, InsTyped, Runs
  <2> QED BY <1>3, <1>4, <2>1, CleanUpShape
<1>5. CASE InstallerUnlocks
  <2>1. /\ ins.todo \in Programs /\ ins.todo # <<>> /\ Head(ins.todo) = "unlock"
        /\ ins'.todo = Tail(ins.todo)
    BY <1>0, <1>5 DEF InstallerUnlocks, At, Idle, Advance, Advanced, Typed, InsTyped, Runs
  <2>2. ASSUME NEW step \in ProfileSteps
        PROVE  ~Has(ins'.todo, step) /\ Never(ins'.todo, {"unlock"}, step)
    <3>1. step # "unlock"
      BY DEF ProfileSteps
    <3> QED BY <2>1, <3>1, NeverTail DEF LockFollows
  <2> QED BY <2>2 DEF LockFollows, Has, Guarded
<1>6. CASE InstallerKilled
  BY <1>0, <1>2, <1>6 DEF InstallerKilled, Typed, InsTyped, Runs
<1>7. CASE Next /\ (lock = "installer" => lock' = "installer") /\ ~InstallerRefused
  <2>1. ASSUME ins'.todo = ins.todo PROVE LockFollows'
    BY <1>7, <2>1, GuardedLater DEF LockFollows
  <2>2. CASE UNCHANGED <<ins, disk>> \/ Issues \/ WritesLate
    BY <2>1, <2>2 DEF Issues, WritesLate
  <2>3. CASE GoesOn /\ (InstallerStep \/ Excused)
    <3>1. At("lock") => lock' = "installer"
      BY <1>7, <2>3, OneStep DEF InstallerLocks, Excused, At
    <3> QED BY <1>7, <2>3, <3>1, LockFollowsOnward
  <2>4. ASSUME NEW step, GivesUp(step) PROVE LockFollows'
    <3>1. /\ ins.todo \in Programs /\ ins.todo # <<>> /\ Head(ins.todo) = step
          /\ \E failure : ins'.todo = CleanUp(step, failure)
      BY <1>0, <2>4 DEF GivesUp, At, Typed, InsTyped, Runs, Idle
    <3>2. CASE step = "sync"
      <4>1. lock' = "installer"
        BY <1>7, <3>1, <3>2, GuardedHead DEF LockFollows, ProfileSteps
      <4>2. In(ins'.todo, Cleaning)
        BY <3>1, CleanUpShape
      <4>3. \A a : Never(ins'.todo, {"unlock"}, a)
        BY <4>2 DEF In, Never, Cleaning
      <4> QED BY <4>1, <4>3 DEF LockFollows, Guarded
    <3>3. CASE step # "sync"
      BY <1>3, <3>1, <3>3, CleanUpShape
    <3> QED BY <3>2, <3>3
  <2>5. CASE BreaksOff \/ IsKilled
    BY <1>2, <2>5 DEF BreaksOff, IsKilled
  <2>6. CASE Begins
    <3>1. CASE BeginPurge
      <4>1. In(ins'.todo, Purging)
        BY <1>0, <3>1, PurgeBegins, PurgeLiteral
      <4>2. \A step \in ProfileSteps : step \notin Purging
        BY DEF ProfileSteps, Purging
      <4>3. ASSUME NEW step \in ProfileSteps
            PROVE  /\ Guarded(ins'.todo, {"lock"}, step, lock' = "installer")
                   /\ Never(ins'.todo, {"unlock"}, step)
        BY <4>1, <4>2, Lacking
      <4> QED BY <4>3 DEF LockFollows
    <3>2. CASE Sound(ins'.todo)
      BY <3>2 DEF Sound, LockFollows
    <3> QED BY <1>0, <2>6, <3>1, <3>2, InstallBegins, UpgradeBegins DEF Begins
  <2> QED BY <1>0, <1>7, <2>2, <2>3, <2>4, <2>5, <2>6, Script
<1>8. CASE InstallerRefused
  <2>1. At(Head(ins.todo)) /\ Fails(Head(ins.todo), "tool") /\ Head(ins.todo) # "sync"
    BY <1>8 DEF InstallerRefused, Refused, At
  <2> QED BY <1>4, <2>1
<1> QED BY <1>1, <1>4, <1>5, <1>6, <1>7, <1>8, LockKept

LEMMA OwnersImplyOneJoplin ==
    ASSUME Owners, Follows, LockFollows
    PROVE  OneJoplin
<1>1. ~Idle /\ Head(ins.todo) \in ProfileSteps => lock = "installer"
  <2>1. ins.todo \in Programs
    BY DEF Follows, DiskFollows, Typed, InsTyped, Runs
  <2> QED BY <2>1, GuardedHead DEF LockFollows, Idle
<1> QED BY <1>1 DEF Owners, OneJoplin, Holding

(* Who holds the lock is alone on the profile: the supervisor starts and      *)
(* stops Joplin, and the installer runs its commands, only under it. What is  *)
(* left on the profile without the lock is the Joplin process of a killed     *)
(* supervisor, until systemd kills its control group, and the command of a    *)
(* killed installer (run_joplin_terminal.py:345,                              *)
(* install_joplin_terminal.py:2945).                                          *)
THEOREM ProfileIsExclusive == Spec => []OneJoplin
<1>1. Init => Owners /\ Follows /\ LockFollows
  <2>1. Init => LockFollows
    BY EmptyProgram DEF Init, NoIns, LockFollows
  <2> QED BY <2>1, OwnersInit, FollowsInit
<1>2. (Owners /\ Follows /\ LockFollows) /\ [Next]_vars => (Owners /\ Follows /\ LockFollows)'
  BY OwnersStep, FollowsStep, LockFollowsStep
<1> QED BY <1>1, <1>2, OwnersImplyOneJoplin, PTL DEF Spec

----------------------------------------------------------------------------
(* Types: a unit without its file is never left with an adapter to start.     *)
ServiceTyped ==
    /\ loaded \in [Services -> Ports \cup {None}]
    /\ child \in {None} \cup [ver : Versions, port : Ports, ok : BOOLEAN]
    /\ adp \in {None} \cup [ver : Versions, port : Ports]
    /\ lock \in {"free", "installer", "supervisor"}

(* The adapter is only started from a unit that has a port: no program is     *)
(* installed while a unit without its file is up.                             *)
AdapterKnown == svc["A"] = "active" /\ loaded["A"] = None => disk.mcp = None \/ adp # None

AdapterFollows ==
    /\ AdapterKnown
    /\ AdapterOwned
    /\ Building =>
         /\ Guarded(ins.todo, {"aunit"}, "reload", disk.aunit = ins.port)
         /\ Guarded(ins.todo, {"stopA?"}, "mcp", NotUp)
         /\ Guarded(ins.todo, {"ask", "askA"}, "stopA?", NotUp \/ "A" \in ins.was)
         /\ At("stopA?") /\ ins.issued => NotUp
    /\ ins.mode = "purge" => Guarded(ins.todo, {"rmMcp"}, "reload", disk.mcp = None)

LEMMA NotUpStays ==
    ASSUME AdapterMoves, UNCHANGED loaded, NotUp
    PROVE  NotUp'
BY DEF AdapterMoves, NotUp

(* What happens to the program of the adapter.                                *)
LEMMA McpMoves ==
    ASSUME Typed, StrayFollows, ModeKnown, AdapterFollows, Next
    PROVE  disk'.mcp = disk.mcp \/ disk'.mcp = None \/ NotUp
<1>1. ASSUME GoesOn, disk'.mcp # disk.mcp, disk'.mcp # None PROVE NotUp
  <2>1. Head(ins.todo) = "mcp" /\ ~Idle
    BY <1>1 DEF GoesOn, Effect, Onward
  <2>2. ins.todo \in Programs /\ ins.todo # <<>>
    BY <2>1 DEF Typed, InsTyped, Runs, Idle
  <2>3. Building
    <3>1. ins.mode = "purge" => "mcp" \in Purging
      BY <2>1, <2>2, InTail DEF ModeKnown
    <3> QED BY <2>2, <3>1 DEF ModeKnown, Building, Purging, Typed, InsTyped, Runs, Modes
  <2>4. Guarded(ins.todo, {"stopA?"}, "mcp", NotUp)
    BY <2>3 DEF AdapterFollows
  <2> QED BY <2>1, <2>2, <2>4, ProgramTail DEF Guarded
<1>2. ASSUME NEW step, GivesUp(step) PROVE disk'.mcp = disk.mcp
  BY <1>2 DEF GivesUp, Left
<1>4. ASSUME WritesLate PROVE disk'.mcp = disk.mcp
  BY <1>4 DEF WritesLate, Typed, DiskTyped, Disks
<1>3. ASSUME Begins PROVE UNCHANGED disk
  BY <1>3 DEF Begins, BeginInstall, BeginUpgrade, BeginPurge, Begin
<1> QED BY <1>1, <1>2, <1>3, <1>4, Script DEF Issues, IsKilled, BreaksOff

(* Joplin is started from what is on the disk, the adapter with the port of   *)
(* its unit.                                                                  *)
LEMMA ChildMoves ==
    ASSUME [Next]_vars
    PROVE  \/ UNCHANGED child
           \/ child' = None
           \/ child # None /\ child' = [child EXCEPT !.ok = FALSE]
           \/ disk.port # None /\ disk.joplin # None
              /\ child' = [ver |-> disk.joplin, port |-> disk.port, ok |-> TRUE]
<1>1. ASSUME Supervisor
      PROVE  \/ UNCHANGED child
             \/ child' = None
             \/ disk.port # None /\ disk.joplin # None
                /\ child' = [ver |-> disk.joplin, port |-> disk.port, ok |-> TRUE]
  BY <1>1 DEF Supervisor, Validate, TakeLock, Spawn, StartApi, Monitor, StopChild, Exit
<1> QED BY <1>1, InstallerOnly
   DEF Next, vars, AutoRestart, UserStarts, UserStops, TermSupervisor, KillControlGroup,
       AdapterStops, AdapterStarts, Begins, BeginInstall, BeginUpgrade, BeginPurge,
       Begin, ChildFails, SupervisorKilled, AdapterDies, StepFails, InstallerKilled, StrayEnds

LEMMA AdpMoves ==
    ASSUME [Next]_vars
    PROVE  \/ UNCHANGED adp
           \/ adp' = None
           \/ /\ svc["A"] = "active" /\ adp = None /\ disk.mcp # None
              /\ adp' = [ver |-> disk.mcp, port |-> loaded["A"]]
<1>1. ASSUME Supervisor PROVE UNCHANGED adp
  BY <1>1 DEF Supervisor, Validate, TakeLock, Spawn, StartApi, Monitor, StopChild, Exit
<1> QED BY <1>1, InstallerOnly
   DEF Next, vars, AutoRestart, UserStarts, UserStops, TermSupervisor, KillControlGroup,
       AdapterStops, AdapterStarts, Begins, BeginInstall, BeginUpgrade, BeginPurge,
       Begin, ChildFails, SupervisorKilled, AdapterDies, StepFails, InstallerKilled, StrayEnds

LEMMA ServiceTypedStep ==
    ASSUME Typed, ServiceTyped, AdapterKnown, [Next]_vars
    PROVE  ServiceTyped'
<1>1. child' \in {None} \cup [ver : Versions, port : Ports, ok : BOOLEAN]
  <2>1. CASE child # None /\ child' = [child EXCEPT !.ok = FALSE]
    <3>1. child \in [ver : Versions, port : Ports, ok : BOOLEAN]
      BY <2>1 DEF ServiceTyped
    <3>2. [child EXCEPT !.ok = FALSE] \in [ver : Versions, port : Ports, ok : BOOLEAN]
      BY <3>1
    <3> QED BY <2>1, <3>2
  <2>2. CASE disk.port # None /\ disk.joplin # None
             /\ child' = [ver |-> disk.joplin, port |-> disk.port, ok |-> TRUE]
    <3>1. disk.joplin \in Versions /\ disk.port \in Ports
      BY <2>2 DEF Typed, DiskTyped, Disks
    <3> QED BY <2>2, <3>1
  <2>3. CASE UNCHANGED child \/ child' = None
    BY <2>3 DEF ServiceTyped
  <2> QED BY <2>1, <2>2, <2>3, ChildMoves
<1>2. adp' \in {None} \cup [ver : Versions, port : Ports]
  BY AdpMoves DEF ServiceTyped, AdapterKnown, Typed, DiskTyped, Disks, Services
<1>3. loaded' \in [Services -> Ports \cup {None}]
  <2>1. [s \in Services |-> disk[Unit[s]]] \in [Services -> Ports \cup {None}]
    BY DEF Services, Unit, Typed, DiskTyped, Disks
  <2> QED BY <2>1, Loads DEF DaemonReload, ServiceTyped
<1>4. lock' \in {"free", "installer", "supervisor"}
  <2>1. ASSUME NEW step, NEW failure, Fails(step, failure) PROVE lock' \in {"free", "installer", "supervisor"}
    BY <2>1 DEF Fails, Released, ServiceTyped
  <2>2. ASSUME InstallerStep PROVE lock' \in {"free", "installer", "supervisor"}
    BY <2>1, <2>2, FilesOnly DEF InstallerStep, Ask, StopIfActive, RestartStop, HaltUnit, Disable,
       Queue, Return, CheckInactive, StartUnit, ProbeTerminal, ProbeAdapter, Probe,
       InstallerLocks, InstallerUnlocks, InstallerRefused, DaemonReload, Released, ServiceTyped
  <2>3. ASSUME Supervisor PROVE lock' \in {"free", "installer", "supervisor"}
    BY <2>3 DEF Supervisor, Validate, TakeLock, Spawn, StartApi, Monitor, StopChild, Exit, Exits,
                ServiceTyped
  <2>4. ASSUME StepFails PROVE lock' \in {"free", "installer", "supervisor"}
    BY <2>1, <2>4 DEF StepFails, ServiceTyped
  <2> QED BY <2>2, <2>3, <2>4
     DEF Next, vars, AutoRestart, UserStarts, UserStops, TermSupervisor, KillControlGroup,
         AdapterStops, AdapterStarts, Begins, BeginInstall, BeginUpgrade, BeginPurge,
         Begin, ChildFails, SupervisorKilled, AdapterDies, InstallerKilled, StrayEnds, Released,
         ServiceTyped
<1> QED BY <1>1, <1>2, <1>3, <1>4 DEF ServiceTyped

(* The units are read when they are written, or when the adapter is gone.     *)
LEMMA Reloading ==
    ASSUME Typed, ModeKnown, AdapterFollows, DaemonReload
    PROVE  /\ UNCHANGED <<disk, svc, adp>>
           /\ loaded'["A"] = disk.aunit
           /\ ins.mode \in {"install", "upgrade", "purge"}
           /\ Building => loaded'["A"] = ins.port /\ loaded'["A"] # None
           /\ ins.mode = "purge" => disk.mcp = None
<1>1. /\ ins.todo \in Programs /\ ins.todo # <<>> /\ Head(ins.todo) = "reload"
      /\ ins.mode \in Modes /\ ins.mode # "none"
  BY DEF DaemonReload, At, Idle, Typed, InsTyped, Runs, ModeKnown
<1>2. loaded'["A"] = disk.aunit /\ UNCHANGED <<disk, svc, adp>>
  BY DEF DaemonReload, Services, Unit
<1>3. ASSUME Building PROVE disk.aunit = ins.port /\ ins.port \in Ports
  <2>1. Guarded(ins.todo, {"aunit"}, "reload", disk.aunit = ins.port)
    BY <1>3 DEF AdapterFollows
  <2> QED BY <1>1, <1>3, <2>1, ProgramTail DEF Guarded, ModeKnown
<1>4. ASSUME ins.mode = "purge" PROVE disk.mcp = None
  <2>1. Guarded(ins.todo, {"rmMcp"}, "reload", disk.mcp = None)
    BY <1>4 DEF AdapterFollows
  <2> QED BY <1>1, <2>1, ProgramTail DEF Guarded
<1> QED BY <1>1, <1>2, <1>3, <1>4, NoneAssumption DEF Modes

LEMMA AdapterKnownStep ==
    ASSUME Typed, StrayFollows, ModeKnown, AdapterFollows, AdapterMoves, [Next]_vars
    PROVE  /\ AdapterKnown'
           /\ Building /\ NotUp => NotUp'
<1>1. CASE DaemonReload
  BY <1>1, Reloading DEF AdapterKnown, NotUp, Building
<1>2. CASE UNCHANGED loaded
  <2>1. NotUp => NotUp'
    BY <1>2, NotUpStays
  <2>2. disk'.mcp = disk.mcp \/ disk'.mcp = None \/ NotUp
    BY McpMoves DEF vars
  <2>3. AdapterKnown'
    BY <1>2, <2>1, <2>2 DEF AdapterFollows, AdapterKnown, AdapterMoves, NotUp
  <2> QED BY <2>1, <2>3
<1> QED BY <1>1, <1>2, Loads

(* At the step that stops the adapter for its replacement.                    *)
LEMMA Stopping ==
    ASSUME Typed, StrayFollows, ModeKnown, AdapterFollows, AdapterMoves, Next, Building, InstallerStep,
           At("stopA?"), GoesOn \/ Issues
    PROVE  NotUp'
<1>1. StopIfActive("stopA?", "A")
  BY OneStep
<1>2. NotUp => NotUp'
  BY AdapterKnownStep
<1>3. "A" \notin ins.was => NotUp
  <2>1. ins.todo \in Programs /\ ins.todo # <<>> /\ Head(ins.todo) = "stopA?"
    BY DEF At, Idle, Typed, InsTyped, Runs
  <2>2. Guarded(ins.todo, {"ask", "askA"}, "stopA?", NotUp \/ "A" \in ins.was)
    BY DEF AdapterFollows
  <2> QED BY <2>1, <2>2, ProgramTail DEF Guarded
<1>4. ins.issued => NotUp
  BY DEF AdapterFollows
<1>5. CASE Queue(StopUnits({"A"}))
  <2>1. svc'["A"] # "active"
    BY <1>5 DEF Queue, StopUnits, Services
  <2> QED BY <2>1 DEF NotUp
<1>6. CASE Return({"A"})
  BY <1>2, <1>4, <1>6 DEF Return
<1> QED BY <1>1, <1>2, <1>3, <1>5, <1>6 DEF StopIfActive

LEMMA AdapterFollowsOnward ==
    ASSUME Typed, StrayFollows, ModeKnown, AdapterFollows, AdapterMoves, Next, GoesOn,
           InstallerStep \/ Excused
    PROVE  AdapterFollows'
<1>1. PICK again \in Agains : Onward(again)
  BY DEF GoesOn
<1>2. /\ SameRun /\ ins.todo \in Programs /\ ins.todo # <<>> /\ ~Idle /\ ~ins'.issued
      /\ Effect(Head(ins.todo)) /\ ins.was \subseteq ins'.was
  BY <1>1 DEF GoesOn, Onward, Typed, InsTyped, Runs, Idle
<1>3. AdapterKnown' /\ AdapterOwned' /\ (Building /\ NotUp => NotUp')
  BY AdapterKnownStep DEF AdapterMoves
<1>4. ASSUME Building
      PROVE  /\ Guarded(ins'.todo, {"aunit"}, "reload", disk'.aunit = ins'.port)
             /\ Guarded(ins'.todo, {"stopA?"}, "mcp", NotUp')
             /\ Guarded(ins'.todo, {"ask", "askA"}, "stopA?", NotUp' \/ "A" \in ins'.was)
  <2>1. Head(ins.todo) # "rmAunit"
    <3>1. Head(ins.todo) \in Installing \cup Upgrading
      BY <1>2, <1>4, InTail DEF ModeKnown, Building
    <3> QED BY <3>1 DEF Installing, Upgrading, Common, Files, Restarting, Cleaning, Synchronizing
  <2>2. /\ Guarded(ins.todo, {"aunit"}, "reload", disk.aunit = ins.port)
        /\ Guarded(ins.todo, {"stopA?"}, "mcp", NotUp)
        /\ Guarded(ins.todo, {"ask", "askA"}, "stopA?", NotUp \/ "A" \in ins.was)
    BY <1>4 DEF AdapterFollows
  <2>3. disk.aunit = ins.port \/ Head(ins.todo) \in {"aunit"} => disk'.aunit = ins'.port
    BY <1>2, <2>1 DEF Effect, SameRun
  <2>4. NotUp \/ Head(ins.todo) \in {"stopA?"} => NotUp'
    <3>1. ASSUME Head(ins.todo) = "stopA?" PROVE NotUp'
      <4>1. At("stopA?") /\ InstallerStep
        BY <1>2, <3>1 DEF At, Excused
      <4> QED BY <1>4, <4>1, Stopping
    <3> QED BY <1>3, <1>4, <3>1
  <2>5. (NotUp \/ "A" \in ins.was) \/ Head(ins.todo) \in {"ask", "askA"}
          => NotUp' \/ "A" \in ins'.was
    <3>1. ASSUME NEW step \in {"ask", "askA"}, Head(ins.todo) = step
          PROVE  NotUp' \/ "A" \in ins'.was
      <4>1. At(step) /\ InstallerStep
        BY <1>2, <3>1 DEF At, Excused
      <4>2. \E S : "A" \in S /\ Ask(step, S)
        BY <4>1, OneStep DEF Services
      <4>3. "A" \in ins'.was \/ svc'["A"] # "active"
        BY <4>2 DEF Ask, IsActive, Advanced, Typed, InsTyped, Runs
      <4> QED BY <4>3 DEF NotUp
    <3> QED BY <1>2, <1>3, <1>4, <3>1
  <2> HIDE DEF NotUp
  <2>6. Guarded(ins'.todo, {"aunit"}, "reload", disk'.aunit = ins'.port)
    BY <1>1, <2>2, <2>3, OnwardGuards DEF Typed, Synchronizing
  <2>7. Guarded(ins'.todo, {"stopA?"}, "mcp", NotUp')
    BY <1>1, <2>2, <2>4, OnwardGuards DEF Typed, Synchronizing
  <2>8. Guarded(ins'.todo, {"ask", "askA"}, "stopA?", NotUp' \/ "A" \in ins'.was)
    BY <1>1, <2>2, <2>5, OnwardGuards DEF Typed, Synchronizing
  <2> QED BY <2>6, <2>7, <2>8
<1>5. ASSUME ins.mode = "purge" PROVE Guarded(ins'.todo, {"rmMcp"}, "reload", disk'.mcp = None)
  <2>1. Guarded(ins.todo, {"rmMcp"}, "reload", disk.mcp = None)
    BY <1>5 DEF AdapterFollows
  <2>2. Head(ins.todo) # "mcp"
    <3>1. Head(ins.todo) \in Purging
      BY <1>2, <1>5, InTail DEF ModeKnown
    <3> QED BY <3>1 DEF Purging
  <2>3. disk.mcp = None \/ Head(ins.todo) \in {"rmMcp"} => disk'.mcp = None
    BY <1>2, <2>2 DEF Effect
  <2> QED BY <1>1, <2>1, <2>3, OnwardGuards DEF Typed, Synchronizing
<1> QED BY <1>2, <1>3, <1>4, <1>5 DEF AdapterFollows, Building, SameRun

LEMMA AdapterFollowsBegin ==
    ASSUME Typed, StrayFollows, ModeKnown, AdapterFollows, AdapterMoves, Next, Begins
    PROVE  AdapterFollows'
<1>1. AdapterKnown' /\ AdapterOwned'
  BY AdapterKnownStep DEF AdapterMoves
<1>2. ASSUME NEW v \in Versions, NEW p \in Ports, NEW start \in BOOLEAN,
             BeginInstall(v, p, start)
      PROVE  Begun("install") /\ Sound(ins'.todo)
  BY <1>2, InstallBegins
<1>3. ASSUME NEW v \in Versions, NEW p \in Ports \cup {None}, NEW start \in BOOLEAN,
             BeginUpgrade(v, p, start)
      PROVE  Begun("upgrade") /\ Sound(ins'.todo)
  BY <1>3, UpgradeBegins
<1>4. CASE (Begun("install") \/ Begun("upgrade")) /\ Sound(ins'.todo)
  BY <1>1, <1>4 DEF Begun, Sound, AdapterFollows, Building
<1>5. CASE BeginPurge
  <2>1. Begun("purge") /\ ins'.todo = PurgeSteps
    BY <1>5, PurgeBegins
  <2> QED BY <1>1, <2>1, PurgeLiteral DEF Begun, AdapterFollows, Building
<1> QED BY <1>2, <1>3, <1>4, <1>5 DEF Begins

LEMMA AdapterFollowsStep ==
    ASSUME Typed, StrayFollows, ModeKnown, Owners, AdapterFollows, [Next]_vars
    PROVE  AdapterFollows'
<1>1. AdapterMoves
  BY AdapterStep DEF AdapterFollows
<1>2. AdapterKnown' /\ AdapterOwned' /\ (Building /\ NotUp => NotUp')
  BY <1>1, AdapterKnownStep DEF AdapterMoves
<1>3. CASE UNCHANGED <<ins, disk>>
  <2>1. Building => /\ Guarded(ins.todo, {"stopA?"}, "mcp", NotUp')
                    /\ Guarded(ins.todo, {"ask", "askA"}, "stopA?", NotUp' \/ "A" \in ins.was)
    BY <1>2 DEF AdapterFollows, Guarded
  <2> QED BY <1>2, <1>3, <2>1 DEF AdapterFollows, Building, At, Idle
<1>4. CASE Next /\ Issues /\ InstallerStep
  <2>1. UNCHANGED disk /\ ins'.todo = ins.todo /\ SameRun /\ ins'.was = ins.was
    BY <1>4 DEF Issues
  <2>2. Building => /\ Guarded(ins.todo, {"stopA?"}, "mcp", NotUp')
                    /\ Guarded(ins.todo, {"ask", "askA"}, "stopA?", NotUp' \/ "A" \in ins.was)
    BY <1>2 DEF AdapterFollows, Guarded
  <2>3. Building /\ At("stopA?") => NotUp'
    BY <1>1, <1>4, Stopping
  <2> QED BY <1>2, <2>1, <2>2, <2>3 DEF AdapterFollows, Building, At, Idle, SameRun
<1>5. ASSUME NEW step, GivesUp(step) PROVE AdapterFollows'
  <2>0. ~ins'.issued /\ \E failure : ins'.todo = CleanUp(step, failure)
    BY <1>5 DEF GivesUp
  <2>1. In(ins'.todo, Cleaning)
    BY <2>0, CleanUpShape
  <2>2. ASSUME NEW a, a \notin Cleaning PROVE \A B, fact : Guarded(ins'.todo, B, a, fact)
    BY <2>1, <2>2, Lacking
  <2>3. ASSUME NEW a \in {"reload", "mcp", "stopA?"}
        PROVE  \A B, fact : Guarded(ins'.todo, B, a, fact)
    BY <2>2 DEF Cleaning
  <2> QED BY <1>2, <2>0, <2>3 DEF AdapterFollows
<1>6. CASE IsKilled \/ BreaksOff
  BY <1>2, <1>6, EmptyProgram DEF IsKilled, BreaksOff, AdapterFollows
<1>7. CASE WritesLate
  <2>1. UNCHANGED ins /\ disk'.aunit = disk.aunit /\ disk'.mcp = disk.mcp
    BY <1>7 DEF WritesLate, Typed, DiskTyped, Disks
  <2>2. Building => /\ Guarded(ins.todo, {"stopA?"}, "mcp", NotUp')
                    /\ Guarded(ins.todo, {"ask", "askA"}, "stopA?", NotUp' \/ "A" \in ins.was)
    BY <1>2 DEF AdapterFollows, Guarded
  <2> QED BY <1>2, <2>1, <2>2 DEF AdapterFollows, Building, At, Idle
<1> QED BY <1>1, <1>3, <1>4, <1>5, <1>6, <1>7, Script, AdapterFollowsOnward, AdapterFollowsBegin DEF vars

----------------------------------------------------------------------------
Correct == Follows /\ Owners /\ ServiceTyped /\ AdapterFollows

LEMMA CorrectInit == Init => Correct
<1> SUFFICES ASSUME Init PROVE Correct
  OBVIOUS
<1>1. Follows /\ Owners
  BY FollowsInit, OwnersInit
<1>2. (CHOOSE w \in Versions : TRUE) \in Versions /\ (CHOOSE q \in Ports : TRUE) \in Ports
  BY InstallableAssumption
<1>3. ins.mode = "none"
  BY DEF Init, NoIns
<1>4. CASE disk = Fresh /\ loaded = [s \in Services |-> None]
           /\ svc = [s \in Services |-> "inactive"] /\ child = None /\ adp = None /\ lock = "free"
  BY <1>1, <1>3, <1>4 DEF Correct, ServiceTyped, AdapterFollows, AdapterKnown, AdapterOwned,
                          Building, Services
<1>5. ASSUME NEW v \in Versions, NEW p \in Ports,
             disk = Installed(v, p), loaded = [s \in Services |-> p],
             svc = [s \in Services |-> "active"],
             child = [ver |-> v, port |-> p, ok |-> TRUE], adp = [ver |-> v, port |-> p],
             lock = "supervisor"
      PROVE  Correct
  <2>1. ServiceTyped
    BY <1>5 DEF ServiceTyped
  <2>2. AdapterFollows
    BY <1>3, <1>5, NoneAssumption DEF AdapterFollows, AdapterKnown, AdapterOwned, Building,
                                      Services, Running
  <2> QED BY <1>1, <2>1, <2>2 DEF Correct
<1> QED BY <1>2, <1>4, <1>5 DEF Init

LEMMA CorrectStep == Correct /\ [Next]_vars => Correct'
<1> SUFFICES ASSUME Correct, [Next]_vars PROVE Correct'
  OBVIOUS
<1>1. Follows' /\ Owners'
  BY FollowsStep, OwnersStep DEF Correct
<1>2. ServiceTyped' /\ AdapterFollows'
  BY ServiceTypedStep, AdapterFollowsStep DEF Correct, Follows, DiskFollows, AdapterFollows
<1> QED BY <1>1, <1>2 DEF Correct

LEMMA CorrectTypes == Correct => TypeOK
BY DEF Correct, Follows, DiskFollows, Typed, DiskTyped, Disks, Owners, ServiceTyped, States,
       Phases, Holding, StrayFollows, Commands, TypeOK

(* Every variable keeps its type. That the adapter gets a port with every     *)
(* start, although systemd may have read its unit as gone, needs the order in *)
(* which the installer asks, stops, writes and reloads                        *)
(* (install_joplin_terminal.py:2721, 2945).                                   *)
THEOREM TypeCorrect == Spec => []TypeOK
BY CorrectInit, CorrectStep, CorrectTypes, PTL DEF Spec

----------------------------------------------------------------------------
(* A failed upgrade: what is left to do, and what that has done so far.       *)
Down(s) == svc[s] \in {"stopping", "inactive"}
NoUser == budget.user = MaxUser

BudgetTyped ==
    /\ budget \in [runs : Nat, faults : Nat, user : Nat, events : Nat]
    /\ budget.user <= MaxUser

Halting ==
    \/ ins.todo \in {<<"haltT", "haltA", "haltT">>, <<"haltA", "haltA", "haltT">>,
                     <<"haltA", "haltT">>}
    \/ ins.todo = <<"haltT">> /\ svc["A"] = "inactive"
    \/ ins.todo = <<>>

(* The adapter goes first, since its automatic restart would take the         *)
(* terminal up again.                                                         *)
HaltFollows ==
    /\ BudgetTyped
    /\ ins.mode = "upgrade" /\ ins.result = "failed" /\ NoUser => Halting
    /\ NoUser /\ ins.issued /\ At("haltA") => Down("A")
    /\ NoUser /\ ins.issued /\ At("haltT") => Down("A") /\ Down("T")

LEMMA BudgetStep ==
    ASSUME BudgetTyped, [Next]_vars
    PROVE  BudgetTyped' /\ (NoUser' => NoUser /\ \A s : ~UserStarts(s) /\ ~UserStops(s))
<1>0. MaxUser \in Nat
  BY BoundsAssumption
<1>a. ASSUME NEW n \in Nat, n > 0 PROVE n - 1 \in Nat /\ n - 1 < n
  BY <1>a
<1>b. BudgetTyped => /\ budget = [runs |-> budget.runs, faults |-> budget.faults,
                                  user |-> budget.user, events |-> budget.events]
                     /\ budget.runs \in Nat /\ budget.faults \in Nat
                     /\ budget.user \in Nat /\ budget.events \in Nat
  BY DEF BudgetTyped
<1>1. ASSUME NEW what \in {"runs", "faults"}, Spend(what)
      PROVE  BudgetTyped' /\ budget'.user = budget.user
  <2>1. budget.events > 0 /\ budget[what] > 0 /\ budget.user <= MaxUser
        /\ budget \in [runs : Nat, faults : Nat, user : Nat, events : Nat]
    BY <1>1 DEF Spend, BudgetTyped
  <2>2. CASE what = "runs"
    <3>1. budget' = [budget EXCEPT !.runs = budget.runs - 1, !.events = budget.events - 1]
          /\ budget.runs > 0
      BY <1>1, <2>2 DEF Spend
    <3>2. budget.runs - 1 \in Nat /\ budget.events - 1 \in Nat
      BY <1>a, <1>b, <2>1, <3>1
    <3> QED BY <1>b, <2>1, <3>1, <3>2 DEF BudgetTyped
  <2>3. CASE what = "faults"
    <3>1. budget' = [budget EXCEPT !.faults = budget.faults - 1, !.events = budget.events - 1]
          /\ budget.faults > 0
      BY <1>1, <2>3 DEF Spend
    <3>2. budget.faults - 1 \in Nat /\ budget.events - 1 \in Nat
      BY <1>a, <1>b, <2>1, <3>1
    <3> QED BY <1>b, <2>1, <3>1, <3>2 DEF BudgetTyped
  <2> QED BY <2>2, <2>3
<1>2. ASSUME Spend("user") PROVE BudgetTyped' /\ ~NoUser'
  <2>1. /\ budget.events > 0 /\ budget.user > 0 /\ budget.user <= MaxUser
        /\ budget \in [runs : Nat, faults : Nat, user : Nat, events : Nat]
        /\ budget' = [budget EXCEPT !.user = budget.user - 1, !.events = budget.events - 1]
    BY <1>2 DEF Spend, BudgetTyped
  <2>2. /\ budget'.user = budget.user - 1
        /\ budget' \in [runs : Nat, faults : Nat, user : Nat, events : Nat]
    <3>1. budget.user - 1 \in Nat /\ budget.events - 1 \in Nat
      BY <1>a, <1>b, <2>1
    <3> QED BY <2>1, <3>1
  <2> QED BY <1>0, <2>1, <2>2 DEF BudgetTyped, NoUser
<1>3. ASSUME UNCHANGED budget PROVE BudgetTyped' /\ budget'.user = budget.user
  BY <1>3 DEF BudgetTyped
<1>4. ASSUME Supervisor PROVE UNCHANGED budget
  BY <1>4 DEF Supervisor, Validate, TakeLock, Spawn, StartApi, Monitor, StopChild, Exit
<1>5. ASSUME NEW s, UserStarts(s) \/ UserStops(s) PROVE BudgetTyped' /\ ~NoUser'
  BY <1>2, <1>5 DEF UserStarts, UserStops
<1>6. \/ \E s \in Services : UserStarts(s) \/ UserStops(s)
      \/ \E what \in {"runs", "faults"} : Spend(what)
      \/ UNCHANGED budget
  BY <1>4, InstallerOnly
     DEF Next, vars, AutoRestart, TermSupervisor, KillControlGroup,
         AdapterStops, AdapterStarts, Begins, BeginInstall, BeginUpgrade, BeginPurge,
         Begin, ChildFails, SupervisorKilled, AdapterDies, StepFails, InstallerKilled, StrayEnds
<1>7. BudgetTyped' /\ (NoUser' => NoUser)
  BY <1>1, <1>3, <1>5, <1>6 DEF NoUser
<1> QED BY <1>5, <1>7

(* What is down comes up again by the user or by the installer's own start.   *)
DownKept ==
    /\ svc["A"] = "inactive" => svc'["A"] = "inactive"
    /\ Down("A") => Down("A")'
    /\ Down("A") /\ Down("T") => Down("T")'

LEMMA StopKeepsDown ==
    ASSUME Owners, UNCHANGED svc \/ (\E S : StopUnits(S)) \/ (\E s \in Services : RestartStops(s))
    PROVE  DownKept
<1>1. ASSUME NEW s \in Services PROVE svc[s] \in {"stopping", "inactive"} => svc'[s] = svc[s]
  BY <1>1 DEF StopUnits, RestartStops, Services
<1> QED BY <1>1 DEF DownKept, Down, Services

LEMMA DownStays ==
    ASSUME Owners, [Next]_vars, \A s : ~UserStarts(s) /\ ~UserStops(s),
           ~At("startT"), ~At("startA")
    PROVE  DownKept
<1>1. ASSUME NEW s \in Services, AutoRestart(s) PROVE DownKept
  <2>1. svc[s] = "restarting"
    BY <1>1 DEF AutoRestart
  <2>2. CASE Startable(s)
    <3>1. svc' = [u \in Services |->
                    IF u \in Requirement(s) /\ svc[u] \in {"inactive", "restarting"} THEN "active"
                    ELSE svc[u]]
      BY <1>1, <2>2 DEF AutoRestart, StartUnits, Requirement, Services
    <3>2. CASE s = "T"
      BY <2>1, <3>1, <3>2 DEF DownKept, Down, Services, Requirement
    <3>3. CASE s = "A"
      BY <2>1, <3>1, <3>3 DEF DownKept, Down, Services, Requirement
    <3> QED BY <3>2, <3>3 DEF Services
  <2>3. CASE ~Startable(s)
    <3>1. svc' = [svc EXCEPT ![s] = "inactive"]
      BY <1>1, <2>3 DEF AutoRestart
    <3> QED BY <3>1, <2>1 DEF DownKept, Down, Owners, Services
  <2> QED BY <2>2, <2>3
<1>2. CASE KillControlGroup \/ AdapterStops \/ AdapterDies
  BY <1>2 DEF KillControlGroup, AdapterStops, AdapterDies, Settled, DownKept, Down, Owners,
              Services
<1>3. CASE AdapterStarts
  <2>1. svc["A"] = "active" /\ (UNCHANGED svc \/ svc'["T"] = svc["T"])
    BY <1>3 DEF AdapterStarts, Owners, Services
  <2> QED BY <2>1 DEF DownKept, Down
<1>4. CASE Supervisor \/ SupervisorKilled
  <2>1. ASSUME NEW code, Exits(code), sup.phase # "none" PROVE DownKept
    <3>1. svc'["A"] = svc["A"] /\ (svc["T"] = "stopping" => svc'["T"] = "inactive")
      BY <2>1 DEF Exits, Owners, Services
    <3>2. svc["T"] # "inactive"
      BY <2>1 DEF Owners
    <3> QED BY <3>1, <3>2 DEF DownKept, Down
  <2>2. CASE Validate \/ TakeLock \/ Exit
    <3>1. UNCHANGED svc \/ \E code : Exits(code)
      BY <2>2 DEF Validate, TakeLock, Exit
    <3> QED BY <2>1, <2>2, <3>1, StopKeepsDown DEF Validate, TakeLock, Exit
  <2>3. CASE Spawn \/ StartApi \/ Monitor \/ StopChild
    BY <2>3, StopKeepsDown DEF Spawn, StartApi, Monitor, StopChild
  <2>4. CASE SupervisorKilled
    <3>1. svc'["A"] = svc["A"] /\ (svc["T"] = "stopping" => svc'["T"] = "stopping")
      BY <2>4 DEF SupervisorKilled, Owners, Services
    <3>2. svc["T"] # "inactive"
      BY <2>4 DEF SupervisorKilled, Owners
    <3> QED BY <3>1, <3>2 DEF DownKept, Down
  <2> QED BY <1>4, <2>2, <2>3, <2>4 DEF Supervisor
<1>5. CASE InstallerStep
  <2>1. ASSUME NEW step, NEW s \in Services,
               StopIfActive(step, s) \/ RestartStop(step, s) \/ HaltUnit(step, s)
        PROVE  DownKept
    <3>1. (\E S : StopUnits(S)) \/ RestartStops(s) \/ UNCHANGED svc
      BY <2>1 DEF StopIfActive, HaltUnit, RestartStop, Queue, Return
    <3> QED BY <3>1, StopKeepsDown
  <2>2. CASE Disable
    BY <2>2, StopKeepsDown DEF Disable, Queue, Return
  <2>3. CASE FileStep
    BY <2>3, FilesOnly, StopKeepsDown
  <2>4. ASSUME NEW step, NEW S, Ask(step, S) PROVE DownKept
    BY <2>4, StopKeepsDown DEF Ask
  <2>5. CASE ProbeTerminal \/ ProbeAdapter \/ InstallerLocks \/ InstallerUnlocks
             \/ DaemonReload \/ CheckInactive \/ InstallerRefused
    BY <2>5, StopKeepsDown DEF ProbeTerminal, ProbeAdapter, Probe, InstallerLocks,
                               InstallerUnlocks, DaemonReload, CheckInactive, InstallerRefused
  <2>6. ~StartUnit("startT", "T") /\ ~StartUnit("startA", "A")
    BY DEF StartUnit
  <2> QED BY <1>5, <2>1, <2>2, <2>3, <2>4, <2>5, <2>6 DEF InstallerStep, Services
<1>6. CASE UNCHANGED svc
  BY <1>6, StopKeepsDown
<1> QED BY <1>1, <1>2, <1>3, <1>4, <1>5, <1>6
     DEF Next, vars, TermSupervisor, Begins, BeginInstall, BeginUpgrade, BeginPurge,
         Begin, ChildFails, StepFails, InstallerKilled, StrayEnds

LEMMA HaltFollowsInit == Init => HaltFollows
<1> SUFFICES ASSUME Init PROVE HaltFollows
  OBVIOUS
<1>1. ins.mode = "none" /\ ~ins.issued
  BY DEF Init, NoIns
<1>2. MaxRuns \in Nat /\ MaxFaults \in Nat /\ MaxUser \in Nat /\ MaxEvents \in Nat
  BY BoundsAssumption
<1>3. BudgetTyped
  BY <1>2 DEF Init, BudgetTyped
<1> QED BY <1>1, <1>3 DEF HaltFollows

(* The step that completes a stop of the clean-up.                            *)
LEMMA HaltReturns ==
    ASSUME Typed, HaltFollows, NoUser, InstallerStep, GoesOn,
           NEW step \in {"haltA", "haltT"}, At(step)
    PROVE  /\ UNCHANGED svc
           /\ step = "haltA" => svc["A"] = "inactive"
           /\ step = "haltT" => svc["T"] = "inactive"
<1>1. ~ins'.issued
  BY DEF GoesOn, Onward
<1>2. ~Queue(StopUnits({"A"})) /\ ~Queue(StopUnits({"T"}))
  BY <1>1 DEF Queue, Typed, InsTyped, Runs
<1>3. CASE step = "haltA"
  <2>1. Return({"A"})
    BY <1>2, <1>3, OneStep DEF HaltUnit
  <2> QED BY <1>3, <2>1 DEF Return, HaltFollows, Down
<1>4. CASE step = "haltT"
  <2>1. Return({"T"})
    BY <1>2, <1>4, OneStep DEF HaltUnit
  <2> QED BY <1>4, <2>1 DEF Return, HaltFollows, Down
<1> QED BY <1>3, <1>4

LEMMA HaltTails ==
    /\ Tail(<<"haltT", "haltA", "haltT">>) = <<"haltA", "haltT">>
    /\ Tail(<<"haltA", "haltA", "haltT">>) = <<"haltA", "haltT">>
    /\ Tail(<<"haltA", "haltT">>) = <<"haltT">>
    /\ Tail(<<"haltT">>) = <<>>
    /\ Head(<<"haltT", "haltA", "haltT">>) = "haltT"
    /\ Head(<<"haltA", "haltA", "haltT">>) = "haltA"
    /\ Head(<<"haltA", "haltT">>) = "haltA"
    /\ Head(<<"haltT">>) = "haltT"
OBVIOUS

(* What a failed upgrade that is being cleaned up does next.                  *)
LEMMA HaltGoesOn ==
    ASSUME Typed, HaltFollows, NoUser, GoesOn, InstallerStep \/ Excused,
           ins.mode = "upgrade", ins'.result = "failed"
    PROVE  \/ ins'.todo = <<"haltA", "haltT">>
           \/ ins'.todo = <<"haltT">> /\ svc'["A"] = "inactive"
           \/ ins'.todo = <<>> /\ svc'["A"] = "inactive" /\ svc'["T"] = "inactive"
<1>1. ins.result = "failed" /\ ins.todo \in Programs /\ ins.todo # <<>>
  BY DEF GoesOn, Onward, Typed, InsTyped, Runs, Idle
<1>2. \/ ins.todo \in {<<"haltT", "haltA", "haltT">>, <<"haltA", "haltA", "haltT">>,
                       <<"haltA", "haltT">>}
      \/ ins.todo = <<"haltT">> /\ svc["A"] = "inactive"
  BY <1>1 DEF HaltFollows, Halting
<1>3. Head(ins.todo) \in {"haltA", "haltT"}
  BY <1>2, HaltTails
<1>4. At(Head(ins.todo)) /\ InstallerStep
  BY <1>1, <1>3 DEF At, Idle, Excused
<1>5. ins'.todo = Tail(ins.todo)
  <2>1. PICK again \in Agains : Onward(again)
    BY DEF GoesOn
  <2>2. again = <<>>
    BY <1>3, <2>1 DEF Onward
  <2> QED BY <1>1, <2>1, <2>2, ProgramTail, ConcatEmptySeq DEF Onward, Programs
<1>6. /\ UNCHANGED svc
      /\ Head(ins.todo) = "haltA" => svc["A"] = "inactive"
      /\ Head(ins.todo) = "haltT" => svc["T"] = "inactive"
  BY <1>3, <1>4, HaltReturns
<1>7. CASE ins.todo = <<"haltT", "haltA", "haltT">> \/ ins.todo = <<"haltA", "haltA", "haltT">>
  <2>1. ins'.todo = <<"haltA", "haltT">>
    BY <1>5, <1>7, HaltTails
  <2> QED BY <2>1
<1>8. CASE ins.todo = <<"haltA", "haltT">>
  <2>1. ins'.todo = <<"haltT">> /\ svc'["A"] = "inactive"
    BY <1>5, <1>6, <1>8, HaltTails
  <2> QED BY <2>1
<1>9. CASE ins.todo = <<"haltT">> /\ svc["A"] = "inactive"
  <2>1. ins'.todo = <<>> /\ svc'["A"] = "inactive" /\ svc'["T"] = "inactive"
    BY <1>5, <1>6, <1>9, HaltTails
  <2> QED BY <2>1
<1> QED BY <1>2, <1>7, <1>8, <1>9

LEMMA HaltGivesUp ==
    ASSUME Typed, ModeKnown, NEW step, GivesUp(step), ins.mode = "upgrade",
           ins'.result = "failed"
    PROVE  ins'.todo \in {<<"haltT", "haltA", "haltT">>, <<"haltA", "haltA", "haltT">>,
                          <<"haltA", "haltT">>}
<1>1. /\ ins.todo \in Programs /\ ins.todo # <<>> /\ Head(ins.todo) = step
      /\ \E failure : failure # "uncaught" /\ ins'.todo = CleanUp(step, failure)
  BY DEF GivesUp, At, Typed, InsTyped, Runs, Idle
<1>2. step \in Upgrading
  BY <1>1, InTail DEF ModeKnown
<1>3. step # "sync"
  BY <1>2 DEF Upgrading, Common, Files, Restarting, Cleaning
<1> QED BY <1>1, <1>3, CleanUpShape

LEMMA HaltFollowsStep ==
    ASSUME Typed, StrayFollows, ModeKnown, Owners, HaltFollows, [Next]_vars
    PROVE  HaltFollows'
<1>1. BudgetTyped' /\ (NoUser' => NoUser /\ \A s : ~UserStarts(s) /\ ~UserStops(s))
  BY BudgetStep DEF HaltFollows
<1>2. ASSUME NoUser', At("haltA") \/ At("haltT") \/ ins.todo = <<"haltT">> PROVE DownKept
  <2>1. ~At("startT") /\ ~At("startA")
    BY <1>2, HaltTails DEF At
  <2> QED BY <1>1, <1>2, <2>1, DownStays
<1>3. ASSUME ins'.todo = ins.todo, ins'.mode = ins.mode, ins'.result = ins.result
      PROVE  ins'.mode = "upgrade" /\ ins'.result = "failed" /\ NoUser' => Halting'
  <2> SUFFICES ASSUME ins.mode = "upgrade", ins.result = "failed", NoUser' PROVE Halting'
    BY <1>3
  <2>1. Halting
    BY <1>1 DEF HaltFollows
  <2> QED BY <1>2, <1>3, <2>1 DEF Halting, DownKept
<1>4. CASE UNCHANGED <<ins, disk>> \/ WritesLate
  <2>0. UNCHANGED ins
    BY <1>4 DEF WritesLate
  <2>1. NoUser' /\ ins.issued /\ At("haltA") => Down("A")'
    BY <1>1, <1>2 DEF HaltFollows, DownKept
  <2>2. NoUser' /\ ins.issued /\ At("haltT") => Down("A")' /\ Down("T")'
    BY <1>1, <1>2 DEF HaltFollows, DownKept
  <2> QED BY <1>1, <1>3, <2>0, <2>1, <2>2 DEF HaltFollows, At, Idle
<1>5. CASE Issues /\ InstallerStep
  <2>1. ins'.todo = ins.todo /\ ins'.mode = ins.mode /\ ins'.result = ins.result
    BY <1>5 DEF Issues, SameRun
  <2>2. ASSUME NoUser', At("haltA") PROVE Down("A")'
    <3>1. HaltUnit("haltA", "A")
      BY <1>5, <2>2, OneStep
    <3>2. CASE Queue(StopUnits({"A"}))
      BY <3>2 DEF Queue, StopUnits, Down, Owners, States, Services
    <3>3. CASE Return({"A"})
      BY <1>1, <1>2, <2>2, <3>3 DEF Return, HaltFollows, DownKept
    <3> QED BY <3>1, <3>2, <3>3 DEF HaltUnit
  <2>3. ASSUME NoUser', At("haltT") PROVE Down("A")' /\ Down("T")'
    <3>1. HaltUnit("haltT", "T")
      BY <1>5, <2>3, OneStep
    <3>2. CASE Queue(StopUnits({"T"}))
      BY <3>2 DEF Queue, StopUnits, Down, Owners, States, Services
    <3>3. CASE Return({"T"})
      BY <1>1, <1>2, <2>3, <3>3 DEF Return, HaltFollows, DownKept
    <3> QED BY <3>1, <3>2, <3>3 DEF HaltUnit
  <2> QED BY <1>1, <1>3, <2>1, <2>2, <2>3 DEF HaltFollows, At, Idle
<1>6. CASE GoesOn /\ (InstallerStep \/ Excused)
  <2>1. ~ins'.issued /\ ins'.mode = ins.mode
    BY <1>6 DEF GoesOn, Onward, SameRun
  <2>2. ASSUME ins.mode = "upgrade", ins'.result = "failed", NoUser' PROVE Halting'
    BY <1>1, <1>6, <2>2, HaltGoesOn DEF Halting
  <2> QED BY <1>1, <2>1, <2>2 DEF HaltFollows
<1>7. ASSUME NEW step, GivesUp(step) PROVE HaltFollows'
  <2>1. ~ins'.issued /\ ins'.mode = ins.mode
    BY <1>7 DEF GivesUp, SameRun
  <2>2. ASSUME ins.mode = "upgrade", ins'.result = "failed" PROVE Halting'
    BY <1>7, <2>2, HaltGivesUp DEF Halting
  <2> QED BY <1>1, <2>1, <2>2 DEF HaltFollows
<1>8. CASE IsKilled \/ BreaksOff
  <2>1. ~ins'.issued /\ ins'.result \in {"killed", "not halted"}
    BY <1>8 DEF IsKilled, BreaksOff
  <2> QED BY <1>1, <2>1 DEF HaltFollows
<1>9. CASE Begins
  <2>1. ~ins'.issued /\ ins'.result = "running"
    BY <1>9, ZenonT(60) DEF Begins, BeginInstall, BeginUpgrade, BeginPurge, Begin, NoIns
  <2> QED BY <1>1, <2>1 DEF HaltFollows
<1> QED BY <1>4, <1>5, <1>6, <1>7, <1>8, <1>9, Script DEF vars

LEMMA HaltStops ==
    ASSUME Typed, StrayFollows, ModeKnown, HaltFollows, Next, ~Idle, Idle',
           ins.mode = "upgrade", ins'.result = "failed", NoUser
    PROVE  \A s \in Services : svc'[s] = "inactive"
<1>1. ~(UNCHANGED <<ins, disk>>) /\ ~Issues /\ ~WritesLate
  BY DEF Issues, WritesLate, Idle
<1>2. ASSUME NEW step, GivesUp(step) PROVE FALSE
  <2>1. ins'.todo \in {<<"haltT", "haltA", "haltT">>, <<"haltA", "haltA", "haltT">>,
                       <<"haltA", "haltT">>}
    BY <1>2, HaltGivesUp
  <2> QED BY <2>1 DEF Idle
<1>3. ~IsKilled /\ ~BreaksOff /\ ~Begins
  BY DEF IsKilled, BreaksOff, Begins, BeginInstall, BeginUpgrade, BeginPurge, Begin
<1>4. GoesOn /\ (InstallerStep \/ Excused)
  BY <1>1, <1>2, <1>3, Script
<1> QED BY <1>4, HaltGoesOn DEF Idle, Services

(* SVC-006: an upgrade that a ToolError, an OSError or an interrupt ended     *)
(* leaves both units down, also one that was waiting for its automatic        *)
(* restart, unless systemctl itself failed or was interrupted, or the user    *)
(* started them (install_joplin_terminal.py:2540, 2899). Of what else         *)
(* http.client may raise, which the code does not handle (3064), nothing is   *)
(* said.                                                                      *)
THEOREM FailedUpgradesStop == Spec => FailedUpgradeStops
<1> DEFINE Stops ==
      ~Idle /\ Idle' /\ ins.mode = "upgrade" /\ ins'.result = "failed"
        /\ budget.user = MaxUser => \A s \in Services : svc'[s] = "inactive"
<1>1. Init => Correct /\ HaltFollows
  BY CorrectInit, HaltFollowsInit
<1>2. (Correct /\ HaltFollows) /\ [Next]_vars => (Correct /\ HaltFollows)'
  BY CorrectStep, HaltFollowsStep DEF Correct, Follows, DiskFollows
<1>3. (Correct /\ HaltFollows) /\ [Next]_vars => [Stops]_vars
  BY HaltStops DEF Correct, Follows, DiskFollows, NoUser
<1>4. FailedUpgradeStops <=> [][Stops]_vars
  BY DEF FailedUpgradeStops
<1> HIDE DEF Stops
<1> QED BY <1>1, <1>2, <1>3, <1>4, PTL DEF Spec

----------------------------------------------------------------------------
(* A run that starts the services: what it still has to do before they run    *)
(* what it installed.                                                         *)
Owed(s, step, fact) == fact \/ Has(s, step)

FromDisk == child # None => child.ver = disk.joplin /\ child.port = disk.port
AsAsked == adp # None => adp.ver = ins.ver /\ adp.port = ins.port

StartSteps(s) ==
    /\ Until(s, ReadAtStart, "stopT")
    /\ Until(s, {"mcp", "reload"}, "stopA")
    /\ Never(s, {"probeT"}, "stopT")
    /\ Never(s, {"stopA"}, "mcp")
    /\ Never(s, {"stopA"}, "reload")

StartOwes ==
    /\ Owed(ins.todo, "npm", disk.joplin = ins.ver)
    /\ Owed(ins.todo, "mcp", disk.mcp = ins.ver)
    /\ Owed(ins.todo, "reload", loaded["A"] = ins.port)
    /\ Owed(ins.todo, "stopT", FromDisk)
    /\ Owed(ins.todo, "probeT", disk.port = ins.port)
    /\ Owed(ins.todo, "stopA", AsAsked)

Starting == ins.start /\ ins.alone /\ ins.result \in {"running", "ok"}

StartFollows ==
    Starting =>
      /\ StartSteps(ins.todo)
      /\ StartOwes
      /\ At("stopT") /\ ins.issued => svc["T"] = "stopping" \/ FromDisk
      /\ At("stopA") /\ ins.issued => svc["A"] = "stopping" \/ AsAsked

LEMMA UntilHas ==
    ASSUME NEW s, NEW A, NEW b, Until(s, A, b), NEW a \in A, Has(s, a)
    PROVE  Has(s, b)
BY DEF Until, Has

LEMMA NeverHas ==
    ASSUME NEW s \in Programs, s # <<>>, NEW A, NEW b, Never(s, A, b), Head(s) \in A, Head(s) # b
    PROVE  ~Has(s, b)
BY NeverTail, HasTail

LEMMA OwedOnward ==
    ASSUME InsTyped, NEW again \in Agains, Onward(again), NEW b, NEW fact, NEW later,
           Owed(ins.todo, b, fact),
           Head(ins.todo) = b => later,
           fact /\ ~Has(Tail(ins.todo), b) => later
    PROVE  Owed(ins'.todo, b, later)
<1>1. ins.todo \in Programs /\ ins.todo # <<>> /\ ins'.todo = again \o Tail(ins.todo)
  BY DEF InsTyped, Runs, Onward, Idle
<1>2. Tail(ins.todo) \in Programs /\ (Has(Tail(ins.todo), b) => Has(ins'.todo, b))
  BY <1>1, ProgramTail, AgainKeeps
<1>3. Has(ins.todo, b) <=> Head(ins.todo) = b \/ Has(Tail(ins.todo), b)
  BY <1>1, HasTail
<1> QED BY <1>2, <1>3 DEF Owed

LEMMA StartStepsOnward ==
    ASSUME InsTyped, NEW again \in Agains, Onward(again), StartSteps(ins.todo)
    PROVE  StartSteps(ins'.todo)
<1>1. ins.todo \in Programs /\ ins.todo # <<>> /\ ins'.todo = again \o Tail(ins.todo)
  BY DEF InsTyped, Runs, Onward, Idle
<1>2. Tail(ins.todo) \in Programs
  BY <1>1, ProgramTail
<1>3. /\ Until(Tail(ins.todo), ReadAtStart, "stopT")
      /\ Until(Tail(ins.todo), {"mcp", "reload"}, "stopA")
      /\ Never(Tail(ins.todo), {"probeT"}, "stopT")
      /\ Never(Tail(ins.todo), {"stopA"}, "mcp")
      /\ Never(Tail(ins.todo), {"stopA"}, "reload")
  BY <1>1, UntilTail, NeverTail DEF StartSteps
<1>4. /\ ReadAtStart \cap Synchronizing = {} /\ {"mcp", "reload"} \cap Synchronizing = {}
      /\ {"probeT"} \cap Synchronizing = {} /\ {"stopA"} \cap Synchronizing = {}
      /\ "stopT" \notin Synchronizing /\ "mcp" \notin Synchronizing
      /\ "reload" \notin Synchronizing
  BY DEF ReadAtStart, Synchronizing
<1> QED BY <1>1, <1>2, <1>3, <1>4, AgainKeeps DEF StartSteps

----------------------------------------------------------------------------
(* The processes.                                                             *)

LEMMA FromDiskStays ==
    ASSUME ServiceTyped, [Next]_vars, FromDisk,
           disk'.joplin = disk.joplin, disk'.port = disk.port
    PROVE  FromDisk'
<1>1. CASE child # None /\ child' = [child EXCEPT !.ok = FALSE]
  <2>1. child \in [ver : Versions, port : Ports, ok : BOOLEAN]
    BY <1>1 DEF ServiceTyped
  <2>2. child'.ver = child.ver /\ child'.port = child.port
    BY <1>1, <2>1
  <2> QED BY <1>1, <2>2 DEF FromDisk
<1>2. CASE child' = [ver |-> disk.joplin, port |-> disk.port, ok |-> TRUE]
  BY <1>2 DEF FromDisk
<1>3. CASE UNCHANGED child \/ child' = None
  BY <1>3 DEF FromDisk
<1> QED BY <1>1, <1>2, <1>3, ChildMoves

LEMMA AsAskedStays ==
    ASSUME [Next]_vars, AsAsked, ins'.ver = ins.ver, ins'.port = ins.port,
           disk.mcp = ins.ver, loaded["A"] = ins.port
    PROVE  AsAsked'
BY AdpMoves DEF AsAsked

LEMMA LoadedStays ==
    ASSUME Typed, ModeKnown, AdapterFollows, [Next]_vars, Building, loaded["A"] = ins.port
    PROVE  loaded'["A"] = ins.port
BY Loads, Reloading

(* A stop ends without the process.                                           *)
LEMMA StoppedWithout ==
    ASSUME Owners, AdapterOwned, [Next]_vars
    PROVE  /\ svc["T"] = "stopping" => svc'["T"] = "stopping" \/ child' = None
           /\ svc["A"] = "stopping" => svc'["A"] = "stopping" \/ adp' = None
<1> DEFINE Result == /\ svc["T"] = "stopping" => svc'["T"] = "stopping" \/ child' = None
                     /\ svc["A"] = "stopping" => svc'["A"] = "stopping" \/ adp' = None
<1>0. ASSUME NEW s \in Services, svc[s] = "stopping",
             UNCHANGED svc \/ (\E S : StopUnits(S)) \/ (\E u \in Services : RestartStops(u))
               \/ (\E u \in Services : StartUnits(Requirement(u)))
      PROVE  svc'[s] = "stopping"
  BY <1>0 DEF StopUnits, RestartStops, StartUnits, Services
<1>1. ASSUME UNCHANGED svc \/ (\E S : StopUnits(S)) \/ (\E u \in Services : RestartStops(u))
               \/ (\E u \in Services : StartUnits(Requirement(u)))
      PROVE  Result
  BY <1>0, <1>1 DEF Services
<1>2. ASSUME NEW s \in Services, AutoRestart(s) PROVE Result
  <2>1. CASE Startable(s)
    BY <1>1, <1>2, <2>1 DEF AutoRestart
  <2>2. CASE ~Startable(s)
    BY <1>2, <2>2 DEF AutoRestart, Owners, Services
  <2> QED BY <2>1, <2>2
<1>3. ASSUME NEW s \in Services, UserStarts(s) \/ UserStops(s) PROVE Result
  BY <1>1, <1>3 DEF UserStarts, UserStops
<1>4. CASE KillControlGroup
  BY <1>4 DEF KillControlGroup, Owners
<1>5. CASE AdapterStops \/ AdapterDies
  <2>1. adp' = None /\ svc'["T"] = svc["T"]
    BY <1>5 DEF AdapterStops, AdapterDies, Owners, Services
  <2> QED BY <2>1
<1>6. CASE AdapterStarts
  <2>1. svc["A"] = "active" /\ svc'["T"] = svc["T"]
    BY <1>6 DEF AdapterStarts, Owners, Services
  <2> QED BY <2>1
<1>7. CASE Supervisor \/ SupervisorKilled
  <2>1. CASE Validate \/ TakeLock \/ Exit
    <3>1. child = None /\ UNCHANGED child
      BY <2>1 DEF Validate, TakeLock, Exit, Owners
    <3>2. ASSUME NEW code, Exits(code) PROVE svc'["A"] = svc["A"]
      BY <3>2 DEF Exits, Owners
    <3>3. svc'["A"] = svc["A"]
      BY <2>1, <3>2 DEF Validate, TakeLock, Exit
    <3> QED BY <3>1, <3>3
  <2>2. CASE Spawn \/ StartApi \/ Monitor \/ StopChild
    BY <1>1, <2>2 DEF Spawn, StartApi, Monitor, StopChild
  <2>3. CASE SupervisorKilled
    BY <2>3 DEF SupervisorKilled, Owners, Services
  <2> QED BY <1>7, <2>1, <2>2, <2>3 DEF Supervisor
<1>8. CASE InstallerStep
  <2>1. ASSUME NEW step, NEW s \in Services,
               StopIfActive(step, s) \/ RestartStop(step, s) \/ HaltUnit(step, s)
                 \/ StartUnit(step, s)
        PROVE  Result
    <3>1. (\E S : StopUnits(S)) \/ RestartStops(s) \/ UNCHANGED svc \/ StartUnits(Requirement(s))
      BY <2>1 DEF StopIfActive, HaltUnit, RestartStop, StartUnit, Queue, Return
    <3> QED BY <1>1, <3>1
  <2>2. CASE Disable
    BY <1>1, <2>2 DEF Disable, Queue, Return
  <2>3. CASE FileStep
    BY <1>1, <2>3, FilesOnly
  <2>4. ASSUME NEW step, NEW S, Ask(step, S) PROVE Result
    BY <1>1, <2>4 DEF Ask
  <2>5. CASE ProbeTerminal \/ ProbeAdapter \/ InstallerLocks \/ InstallerUnlocks
             \/ DaemonReload \/ CheckInactive \/ InstallerRefused
    BY <1>1, <2>5 DEF ProbeTerminal, ProbeAdapter, Probe, InstallerLocks,
                      InstallerUnlocks, DaemonReload, CheckInactive, InstallerRefused
  <2> QED BY <1>8, <2>1, <2>2, <2>3, <2>4, <2>5 DEF InstallerStep, Services
<1>9. CASE UNCHANGED svc
  BY <1>1, <1>9
<1> QED BY <1>2, <1>3, <1>4, <1>5, <1>6, <1>7, <1>8, <1>9
     DEF Next, vars, TermSupervisor, Begins, BeginInstall, BeginUpgrade, BeginPurge,
         Begin, ChildFails, StepFails, InstallerKilled, StrayEnds

----------------------------------------------------------------------------
(* What the steps of the restart leave.                                       *)

LEMMA TermStopped ==
    ASSUME Correct, StartFollows, Starting, InstallerStep, At("stopT"), NEW again, Onward(again)
    PROVE  FromDisk /\ UNCHANGED child
<1>1. ~Queue(RestartStops("T"))
  BY DEF Queue, Onward, Correct, Follows, DiskFollows, Typed, InsTyped, Runs
<1>2. Return({"T"})
  BY <1>1, OneStep DEF RestartStop
<1> QED BY <1>2 DEF Return, StartFollows

LEMMA AdapterStopped ==
    ASSUME Correct, StartFollows, Starting, InstallerStep, At("stopA"), NEW again, Onward(again)
    PROVE  AsAsked /\ UNCHANGED adp
<1>1. ~Queue(RestartStops("A"))
  BY DEF Queue, Onward, Correct, Follows, DiskFollows, Typed, InsTyped, Runs
<1>2. Return({"A"})
  BY <1>1, OneStep DEF RestartStop
<1> QED BY <1>2 DEF Return, StartFollows

LEMMA TermProbed ==
    ASSUME Correct, StartFollows, Starting, InstallerStep, At("probeT"),
           ins'.result \in {"running", "ok"}
    PROVE  disk.port = ins.port
<1>1. ~InstallerRefused
  BY DEF InstallerRefused, Fails, Correct, Follows, DiskFollows, Typed, InsTyped, Runs
<1>2. Answers(ins.port)
  BY <1>1, OneStep DEF ProbeTerminal, Probe
<1>3. ~Has(ins.todo, "stopT")
  <2>1. ins.todo \in Programs /\ ins.todo # <<>> /\ Head(ins.todo) = "probeT"
    BY DEF At, Idle, Correct, Follows, DiskFollows, Typed, InsTyped, Runs
  <2> QED BY <2>1, NeverHas DEF StartFollows, StartSteps
<1> QED BY <1>2, <1>3 DEF Answers, StartFollows, StartOwes, Owed, FromDisk

(* Nothing that the adapter is started with changes any more.                 *)
LEMMA AdapterSettled ==
    ASSUME StartFollows, Starting, ~Has(ins.todo, "mcp"), ~Has(ins.todo, "reload")
    PROVE  disk.mcp = ins.ver /\ loaded["A"] = ins.port
BY DEF StartFollows, StartOwes, Owed

LEMMA AdapterSettles ==
    ASSUME StartFollows, Starting, ~Has(ins.todo, "stopA")
    PROVE  disk.mcp = ins.ver /\ loaded["A"] = ins.port
BY UntilHas, AdapterSettled DEF StartFollows, StartSteps

LEMMA StartOnward ==
    ASSUME Correct, StartFollows, Next, GoesOn, InstallerStep \/ Excused, Starting'
    PROVE  StartFollows'
<1>1. PICK again \in Agains : Onward(again)
  BY DEF GoesOn
<1>2. /\ Starting /\ SameRun /\ Building /\ InsTyped
      /\ ins.todo \in Programs /\ ins.todo # <<>> /\ ~ins'.issued
      /\ Effect(Head(ins.todo)) /\ At(Head(ins.todo)) /\ Typed /\ ModeKnown
  BY <1>1 DEF GoesOn, Onward, Starting, SameRun, Correct, Follows, DiskFollows, ModeKnown, Typed, InsTyped,
              Runs, Idle, At
<1>3. Head(ins.todo) \notin {"disable", "rmNpm", "rmProfile", "rmMcp"}
  <2>1. Head(ins.todo) \in Installing \cup Upgrading
    BY <1>2, InTail DEF ModeKnown, Building
  <2> QED BY <2>1 DEF Installing, Upgrading, Common, Files, Restarting, Cleaning, Synchronizing
<1>4. InstallerStep
  BY <1>3 DEF Excused, Starting
<1>5. StartSteps(ins.todo) /\ StartOwes
  BY <1>2 DEF StartFollows
<1>6. StartSteps(ins'.todo)
  BY <1>1, <1>2, <1>5, StartStepsOnward
<1>7. Owed(ins'.todo, "npm", disk'.joplin = ins'.ver)
  <2>1. Head(ins.todo) = "npm" \/ disk.joplin = ins.ver => disk'.joplin = ins'.ver
    BY <1>2, <1>3 DEF Effect, SameRun
  <2> QED BY <1>1, <1>2, <1>5, <2>1, OwedOnward DEF StartOwes
<1>8. Owed(ins'.todo, "mcp", disk'.mcp = ins'.ver)
  <2>1. Head(ins.todo) = "mcp" \/ disk.mcp = ins.ver => disk'.mcp = ins'.ver
    BY <1>2, <1>3 DEF Effect, SameRun
  <2> QED BY <1>1, <1>2, <1>5, <2>1, OwedOnward DEF StartOwes
<1>9. Owed(ins'.todo, "reload", loaded'["A"] = ins'.port)
  <2>1. Head(ins.todo) = "reload" => loaded'["A"] = ins'.port
    BY <1>2, <1>4, OneStep, Reloading DEF SameRun, Correct
  <2>2. loaded["A"] = ins.port => loaded'["A"] = ins'.port
    BY <1>2, LoadedStays DEF SameRun, Correct
  <2> QED BY <1>1, <1>2, <1>5, <2>1, <2>2, OwedOnward DEF StartOwes
<1>10. Owed(ins'.todo, "stopT", FromDisk')
  <2>1. Head(ins.todo) = "stopT" => FromDisk'
    <3>1. ASSUME Head(ins.todo) = "stopT" PROVE FromDisk'
      <4>1. FromDisk /\ UNCHANGED child
        BY <1>1, <1>2, <1>4, <3>1, TermStopped
      <4>2. disk'.joplin = disk.joplin /\ disk'.port = disk.port
        BY <1>2, <3>1 DEF Effect
      <4> QED BY <4>1, <4>2 DEF FromDisk
    <3> QED BY <3>1
  <2>2. ASSUME FromDisk, ~Has(Tail(ins.todo), "stopT") PROVE FromDisk'
    <3>1. Head(ins.todo) \notin ReadAtStart
      BY <1>2, <1>5, <2>2, UntilTail DEF StartSteps
    <3>2. disk'.joplin = disk.joplin /\ disk'.port = disk.port
      BY <1>2, <1>3, <3>1 DEF Effect, ReadAtStart
    <3> QED BY <2>2, <3>2, FromDiskStays DEF Correct
  <2> HIDE DEF FromDisk
  <2> QED BY <1>1, <1>2, <1>5, <2>1, <2>2, OwedOnward DEF StartOwes
<1>11. Owed(ins'.todo, "probeT", disk'.port = ins'.port)
  <2>1. Head(ins.todo) = "probeT" => disk.port = ins.port
    BY <1>2, <1>4, TermProbed DEF Starting
  <2>2. Head(ins.todo) = "probeT" \/ disk.port = ins.port => disk'.port = ins'.port
    BY <1>2, <1>3, <2>1 DEF Effect, SameRun
  <2> QED BY <1>1, <1>2, <1>5, <2>2, OwedOnward DEF StartOwes
<1>12. Owed(ins'.todo, "stopA", AsAsked')
  <2>1. Head(ins.todo) = "stopA" => AsAsked'
    BY <1>1, <1>2, <1>4, AdapterStopped DEF AsAsked, SameRun
  <2>2. ASSUME AsAsked, ~Has(Tail(ins.todo), "stopA"), Head(ins.todo) # "stopA" PROVE AsAsked'
    <3>1. disk.mcp = ins.ver /\ loaded["A"] = ins.port
      BY <1>2, <2>2, HasTail, AdapterSettles
    <3> QED BY <1>2, <2>2, <3>1, AsAskedStays DEF SameRun
  <2> HIDE DEF AsAsked
  <2> QED BY <1>1, <1>2, <1>5, <2>1, <2>2, OwedOnward DEF StartOwes
<1> QED BY <1>2, <1>6, <1>7, <1>8, <1>9, <1>10, <1>11, <1>12 DEF StartFollows, StartOwes

(* While the installer waits.                                                 *)
LEMMA StartWaits ==
    ASSUME Correct, StartFollows, [Next]_vars, Starting,
           ins'.todo = ins.todo, SameRun, ins'.result = ins.result, UNCHANGED disk,
           ins'.issued = ins.issued \/ InstallerStep
    PROVE  StartFollows'
<1>1. Building /\ Typed /\ ModeKnown /\ InsTyped
  BY DEF Starting, Correct, Follows, DiskFollows, ModeKnown, Typed
<1>2. loaded["A"] = ins.port => loaded'["A"] = ins.port
  BY <1>1, LoadedStays DEF Correct
<1>3. FromDisk => FromDisk'
  BY FromDiskStays DEF Correct
<1>4. disk.mcp = ins.ver /\ loaded["A"] = ins.port /\ AsAsked => AsAsked'
  BY AsAskedStays DEF SameRun
<1>5. AsAsked \/ Has(ins.todo, "stopA") => AsAsked' \/ Has(ins.todo, "stopA")
  BY <1>4, AdapterSettles
<1>6. StartSteps(ins'.todo) /\ StartOwes'
  BY <1>2, <1>3, <1>5 DEF StartFollows, StartOwes, Owed, SameRun
<1>7. /\ svc["T"] = "stopping" => svc'["T"] = "stopping" \/ child' = None
      /\ svc["A"] = "stopping" => svc'["A"] = "stopping" \/ adp' = None
  BY StoppedWithout DEF Correct, AdapterFollows
<1>8. ASSUME At("stopT"), ins.issued PROVE svc'["T"] = "stopping" \/ FromDisk'
  BY <1>3, <1>7, <1>8 DEF StartFollows, FromDisk
<1>9. ASSUME At("stopA"), ins.issued PROVE svc'["A"] = "stopping" \/ AsAsked'
  <2>1. ins.todo \in Programs /\ ins.todo # <<>> /\ Head(ins.todo) = "stopA"
    BY <1>1, <1>9 DEF At, Idle, InsTyped, Runs
  <2>2. ~Has(ins.todo, "mcp") /\ ~Has(ins.todo, "reload")
    BY <2>1, NeverHas DEF StartFollows, StartSteps
  <2>3. disk.mcp = ins.ver /\ loaded["A"] = ins.port
    BY <2>2, AdapterSettled
  <2> QED BY <1>4, <1>7, <1>9, <2>3 DEF StartFollows, AsAsked
<1>10. ASSUME At("stopT"), InstallerStep PROVE svc'["T"] = "stopping" \/ FromDisk'
  <2>1. RestartStop("stopT", "T")
    BY <1>10, OneStep
  <2>2. CASE Queue(RestartStops("T"))
    <3>1. svc["T"] \in {"active", "failing", "stopping"} => svc'["T"] = "stopping"
      BY <2>2 DEF Queue, RestartStops, Services
    <3>2. svc["T"] \notin {"active", "failing", "stopping"} => child = None
      BY DEF Correct, Owners, States, Services
    <3>3. UNCHANGED child
      BY <2>2 DEF Queue
    <3> QED BY <3>1, <3>2, <3>3 DEF FromDisk
  <2> QED BY <1>8, <1>10, <2>1, <2>2 DEF RestartStop, Return
<1>11. ASSUME At("stopA"), InstallerStep PROVE svc'["A"] = "stopping" \/ AsAsked'
  <2>1. RestartStop("stopA", "A")
    BY <1>11, OneStep
  <2>2. CASE Queue(RestartStops("A"))
    <3>1. svc["A"] \in {"active", "failing", "stopping"} => svc'["A"] = "stopping"
      BY <2>2 DEF Queue, RestartStops, Services
    <3>2. svc["A"] \notin {"active", "failing", "stopping"} => adp = None
      BY DEF Correct, AdapterFollows, AdapterOwned, Running
    <3>3. UNCHANGED adp
      BY <2>2 DEF Queue
    <3> QED BY <3>1, <3>2, <3>3 DEF AsAsked
  <2> QED BY <1>9, <1>11, <2>1, <2>2 DEF RestartStop, Return
<1> QED BY <1>6, <1>8, <1>9, <1>10, <1>11 DEF StartFollows, StartOwes, At, Idle

LEMMA StartBegins ==
    ASSUME Correct, Begins
    PROVE  StartFollows'
<1>1. Typed
  BY DEF Correct, Follows, DiskFollows
<1>2. ~ins'.issued /\ (ins'.start => Sound(ins'.todo) /\ Restarts(ins'.todo))
  <2>1. ASSUME NEW v \in Versions, NEW p \in Ports, NEW start \in BOOLEAN,
               BeginInstall(v, p, start)
        PROVE  ~ins'.issued /\ (ins'.start => Sound(ins'.todo) /\ Restarts(ins'.todo))
    BY <1>1, <2>1, InstallBegins DEF Begun
  <2>2. ASSUME NEW v \in Versions, NEW p \in Ports \cup {None}, NEW start \in BOOLEAN,
               BeginUpgrade(v, p, start)
        PROVE  ~ins'.issued /\ (ins'.start => Sound(ins'.todo) /\ Restarts(ins'.todo))
    BY <1>1, <2>2, UpgradeBegins DEF Begun
  <2>3. BeginPurge => ~ins'.issued /\ ~ins'.start
    BY <1>1, PurgeBegins DEF Begun
  <2> QED BY <2>1, <2>2, <2>3 DEF Begins
<1> QED BY <1>2 DEF Sound, Restarts, StartFollows, Starting, StartSteps, StartOwes, Owed

LEMMA StartStep ==
    ASSUME Correct, StartFollows, [Next]_vars
    PROVE  StartFollows'
<1>1. CASE UNCHANGED <<ins, disk>>
  BY <1>1, StartWaits DEF StartFollows, Starting, SameRun
<1>2. CASE Issues /\ InstallerStep
  BY <1>2, StartWaits DEF StartFollows, Starting, SameRun, Issues
<1>3. CASE Next /\ GoesOn /\ (InstallerStep \/ Excused)
  BY <1>3, StartOnward DEF StartFollows
<1>4. ASSUME NEW step, GivesUp(step) PROVE StartFollows'
  BY <1>4 DEF GivesUp, StartFollows, Starting
<1>5. CASE IsKilled \/ BreaksOff
  BY <1>5 DEF IsKilled, BreaksOff, StartFollows, Starting
<1>7. CASE WritesLate
  BY <1>7 DEF WritesLate, Correct, Follows, StrayFollows, StartFollows, Starting
<1>6. CASE Begins
  BY <1>6, StartBegins
<1> QED BY <1>1, <1>2, <1>3, <1>4, <1>5, <1>6, <1>7, Script
        DEF vars, Correct, Follows, DiskFollows

LEMMA StartEnds ==
    ASSUME Correct, StartFollows', [Next]_vars, ~Idle, Idle', ins.start, ins.alone,
           ins'.result = "ok"
    PROVE  /\ child' # None => child'.ver = ins.ver /\ child'.port = ins.port
           /\ adp' # None => adp'.ver = ins.ver /\ adp'.port = ins.port
<1>1. SameRun
  <2>1. ~Begins
    BY DEF Begins, BeginInstall, BeginUpgrade, BeginPurge, Begin
  <2> QED BY <2>1, Script
         DEF Correct, Follows, DiskFollows, vars, Issues, GoesOn, Onward, GivesUp, IsKilled,
             BreaksOff, WritesLate, SameRun
<1>2. Starting' /\ ins'.todo = <<>>
  BY <1>1 DEF Starting, SameRun, Idle
<1>3. \A step : ~Has(ins'.todo, step)
  BY <1>2 DEF Has
<1>4. /\ disk'.joplin = ins'.ver /\ disk'.port = ins'.port /\ FromDisk' /\ AsAsked'
  BY <1>2, <1>3 DEF StartFollows, StartOwes, Owed
<1> QED BY <1>1, <1>4 DEF FromDisk, AsAsked, SameRun

(* When a run that starts the services ends well, every process there is runs *)
(* the version and the port that were asked for, whatever the user, systemd   *)
(* and faults did meanwhile (install_joplin_terminal.py:2721), unless it      *)
(* began beside a Joplin command that a killed installer had left.            *)
THEOREM NewVersionRuns == Spec => RunsWhatWasInstalled
<1> DEFINE Ends ==
      ~Idle /\ Idle' /\ ins.start /\ ins.alone /\ ins'.result = "ok" =>
         /\ child' # None => child'.ver = ins.ver /\ child'.port = ins.port
         /\ adp' # None => adp'.ver = ins.ver /\ adp'.port = ins.port
<1>1. Init => Correct /\ StartFollows
  <2>1. Init => StartFollows
    BY DEF Init, NoIns, StartFollows, Starting
  <2> QED BY <2>1, CorrectInit
<1>2. (Correct /\ StartFollows) /\ [Next]_vars => (Correct /\ StartFollows)'
  BY CorrectStep, StartStep
<1>3. (Correct /\ StartFollows) /\ [Next]_vars => [Ends]_vars
  BY StartStep, StartEnds
<1>4. RunsWhatWasInstalled <=> [][Ends]_vars
  BY DEF RunsWhatWasInstalled
<1> HIDE DEF Ends
<1> QED BY <1>1, <1>2, <1>3, <1>4, PTL DEF Spec
=============================================================================
