# Verification of joplin-md-sync

TLA+ models of `joplin-md-sync`, the command that keeps a directory of Markdown
files and a Joplin installation in step, the TLC runs that check them, and
proofs checked by TLAPS. Source paths below are relative to
`src/joplin_md_sync/` of the repository; contracts `SYN-00x` are those of
`docs/contracts/SYNCHRONIZATION.md`.

## 1. Inventory

| Part | State it keeps | Operations | Talks to |
|---|---|---|---|
| Planner (`planner.py`, `canonical.py`) | none: a function of base, files and snapshot | `classify`, `build_plan` | called by every command |
| Executor (`sync.py`, `cli._sync_like`) | per run: rename map, created folders, tag map | `pull`, `push`, `sync`; one handler per operation kind | files, Joplin, state database, journal |
| Journal (`journal.py`) | one JSON file per run, a row in `runs` | `begin`, `mark`, `finish`, `recover` | state database |
| Conflicts (`conflicts.py`) | bundle directories, rows in `conflicts` | create, `resolve` in three modes, `discard`, `list`, `show` | files, Joplin, state database |
| State (`state.py`) | SQLite: notes, folders, conflicts, runs, tombstones, meta | single-statement commits | everything above |
| Workspace (`workspace.py`, `metadata.py`, `paths.py`, `locking.py`) | managed files, backups, quarantine, lock file | scan, atomic write, backup, quarantine | OS |
| Joplin client (`api.py`) | none | paginated reads with retries, writes sent once | Joplin's Data API |
| MCP service and servers (`mcp_*.py`, `tool_*.py`) | a creation lock, request slots | note, notebook, tag and resource tools | Joplin client, concurrent HTTP requests |
| GPT Actions server (`gpt_*.py`) | capacity semaphore, token buckets | the same tools over HTTP | tool executor |
| Joplin Terminal service (`scripts/joplin_terminal_service`) | profile lock, child process | install, supervise, sync | systemd, Joplin CLI |

There are three copies of a note - the *base* row of the last synchronization,
the *file*, and the *remote* note - and two of them are written by actors that
take no lock: an editor in the workspace, and the users and the own sync of
Joplin. What makes the system hard is that a command is a long sequence of
reads and writes of those copies, that each request can fail or end without an
answer, and that the process can die between any two of them. The parts that
keep the copies consistent are the ones modelled first.

What makes each part correct:

- *Planner*: it never plans to replace a copy that holds an edit, deletes only
  when asked to, converges, and treats the two directions alike.
- *Executor*: a write replaces only what was seen, the base row is written only
  after both sides were read back, a note nobody interferes with is handled as
  if the run were atomic, and every run ends.
- *Journal*: effects happen only in a run `recover` would find, and what the
  journal says of an operation on an existing note is true, after any crash. (Of
  operations on notebooks it is not, see section 6.)
- *Conflicts*: only fresh evidence is resolved, nothing is lost, a bundle is
  closed only when both sides agree.
- *Notebooks*: directories and notebooks stay paired by id, a run that reports
  success leaves nothing to do, and no note changes its notebook unasked - as long
  as directory names are cosmetic, which they are not always (section 4).
- *Servers*: requests are admitted up to a limit and slots come back; concurrent
  creations give no identity twice; an agent is never told that a write whose
  outcome is unknown was done, refused, or may be repeated.
- *Service*: who holds the profile lock is alone on the Joplin profile, a unit file
  is on the disk only while what it needs is (Joplin's own program may be missing
  during and after an upgrade that did not end well), an upgrade that failed in a
  way the installer handles leaves the services stopped, and the service comes back
  by itself.

`PROJECT.json` lists every component, and under `hazards` each place where this
code is hard to test, with the property that covers it or the reason none does.

## 2. Modules

| Module | Extends | Models |
|---|---|---|
| `Planner` | - | classification, planned kind and ideal effect of an operation, as pure operators |
| `AtomicSync` | `Planner` | the contract of one note with a run as one step |
| `NoteSync` | `Planner` | the engine step by step, for existing notes |
| `NoteSyncClaims` | `NoteSync` | sentences of the contracts the code does not keep |
| `AtomicSyncProofs` | `AtomicSync`, `TLAPS` | the planner computes the three-way rule, and what follows from it |
| `NoteSyncProofs` | `NoteSync`, `TLAPS` | the inductive invariant of the engine; what its guards achieve; the journal, and what `recover` makes of it, is true; a note nobody interferes with is handled atomically |
| `Conflicts` | `Planner` | the life of a conflict bundle |
| `ConflictsProofs` | `Conflicts`, `TLAPS` | what a resolution still knows of each side, and its safety |
| `ConflictsClaims` | `Conflicts` | a message of `conflicts.py` the code does not keep |
| `Folders` | - | notebooks, directories and the places of notes, run by run |
| `FoldersClaims` | `Folders` | a sentence of the workspace contract the code does not keep |
| `FoldersProofs` | `Folders`, `TLAPS` | the tree of directories, and that notebooks keep theirs |
| `FoldersPlacesProofs` | `FoldersProofs` | where files are, and that notes stay in their notebooks |
| `FoldersCalmProofs` | `FoldersPlacesProofs` | a run that reports no failure leaves nothing to do |
| `NoteTools` | - | the agent tools as sequences of requests of concurrent calls |
| `AgentServer` | `NoteTools` | the MCP and Actions transports around them |
| `AgentService` | - | what the agent server promises; `AgentServer` implements it |
| `AgentServerProofs` | `AgentServer`, `TLAPS` | slots and permits, lost writes, identities, and the refinement of `AgentService` |
| `TerminalService` | - | systemd, the supervisor, its Joplin process and the adapter |
| `Installer` | `TerminalService` | install, upgrade and purge over that service |
| `InstallerProofs` | `Installer`, `TLAPS` | what the order of the installer's steps achieves, with the service running beside it |
| `MCAtomicSync`, `MCNoteSync`, `MCConflicts`, `MCFolders`, `MCAgents`, `MCInstaller` | | values of the constants for TLC |

**Planner.** A content is a record over `Components`, or `None`. The hashes of
`canonical.py` are taken to be injective, so contents are compared directly.
`Classify` is `_classify_one_note`, `KindFor` the chain of `build_plan` (step 3),
`PlanOp` a `PlanOperation` with the `ItemState` its expected hashes come from.
`Effect` is what the handlers do to the copies when nothing interferes.

**AtomicSync.** One record `s` holds the three copies and whether a bundle is
open. Editors write either side at any moment, the state database may be lost
and recreated, bundles may be discarded, and a run applies `Effect`. It is the
abstract specification: what the planner promises. `Merge` restates that promise
without statuses, operations and partial PUTs, as the three-way rule a user
would expect.

**NoteSync.** `remote` has a status (live, trashed, purged), a version and a
content. The version stands for `updated_time`: an edit of fields and a restore
move it forward, tag changes leave it alone, which is what
`tests/fake_joplin_server` and the comment in `build_remote_snapshot` say of
Joplin. A command is the sequence

    Begin (scan) - ReadTagMap(t) for each tag - ListNotes - FetchBody* - MakePlan
      - RecordRun (StartOp - steps of the handler - Mark)*  - FinishFile - FinishRun

and `pc` says where it is. One action is one thing another actor can come
between: an HTTP request, a file access, a commit. The tag map is read tag by tag,
so that a snapshot may mix moments; `fetch_remote_canonical` is two requests and
hence two actions (`GetNote`, then the tags in `GuardRemote`, `Probe` or `Verify`;
`phase` says which); `reconcile_tags` reads the tags (`PutTags`) and adds or removes
one at a time (`PutTag`, or `PutTagAmbiguous` when the answer is lost). A written
file is read back (`ReadBack`). `PutAmbiguous` is the write without an answer: it was
applied or not, and `Probe` decides as the code does. `OpFails` is any other
exception of a handler, also between two tags, which `Executor.run` turns into a
failed operation. `Crash` loses the memory of the process and keeps files, rows and
journal; `Recover` is `recover_incomplete_runs`, with `WasApplied` as its test of an
operation on an existing note.
`quiet`, `raced` and `committed` are observations: no action reads them in a
guard, and the properties use them to say "unless this side was edited since".

**Conflicts.** Runs are atomic here (their effect is `Effect`), and it is
`conflicts resolve` that is taken apart: the staleness check of each side, the
mode, backup, fetch, lookup in the trash, restore, create, PUT, tags,
verification, file, base row, closing of the bundle. Reading a remote note is two
requests here too, the note and then its tags (`CheckRemote` and `CheckTags`, `Fetch`
and `FetchTags`, `Verify` and `VerifyTags`), between which Joplin's users may edit.
`Fail` is a
`JoplinSyncError`, which finishes the run in the journal; `Escape` is any other
exception (the assertions after the staleness check) or a crash, which leaves
the run incomplete so that only `recover` and `discard` are possible.

**Folders.** Titles, ids and path components are numbers, so that the orders of the
planner are those of the code; a component is a title with an id as suffix when a
sibling has the same title (`folder_dirname`). Paths are sorted as strings
(`SortsBefore`), where a name with a suffix comes before what is in the directory
without one ("A--id" before "A/x"). A directory without metadata has its own name as
its title, until its notebook is created. A note is its place. `Plan` is
`build_plan` for notebooks, new notes and places: a set of operations with the order
of the code's list (`Sooner`), of which the executor takes the first (`op`);
`Entered` is the scan's treatment of a second directory with one id; `run.now` and
`ResolveFolder` are the executor's renames (where each path of the plan is by now)
and its table of notebooks created in this run. A directory is made, gets its
metadata and its row in three steps, between which a crash or a refusal may come.
Users rename, move and create on both sides between runs. The ghost `moved` has the
notes whose file a user moved, or of which a pull that died left two files, until a
commit finds one file (`Settled`). The ghost `spoilt` is set when a plan, or a
rename on its way, depends on a directory name in one of the ways described in
section 4, or when an operation on a notebook fails or dies half way. It never
resets: the three safety properties of `Folders` speak of histories in which none of
this has happened yet, and say nothing afterwards, not even of later runs and other
notes. After a crash the journal is taken to be settled by `recover` without a trace
in this module.

**NoteTools, AgentServer, AgentService.** A call is the list of requests its
handler sends (`ProgramOf`); reads and writes of other calls come between any
two. A call may name any id Joplin has at that moment or had, also of a notebook
another call has just created (`Ask`). `Joplin` (`store`) has notes, notebooks, tags
and resources with status and tags. A write is done, refused, or its answer is lost
(`Lost`): then it was applied, was not, or `Land` applies it later. The call is
answered as ambiguous when the connection ended without an answer, and as an internal
error when one came that is broken off or unreadable, which `api.py:112-143` does not
catch. `Answer` is the classification of `tool_executor.py`, including
`PARTIAL_NOTE_CREATE`. `AgentServer` adds the accept
loop with its slots, the early answers of both transports and whether each
leaves the connection usable, and the Actions permits. `AgentService` knows
connections that are served or turned away and identities (kind, parent, name)
that are given by one step that checks and creates. Refinement mapping: every
connection with a thread is `served`; `named` has the identities of objects that
are `sure`, that is, whose name was given by a creation Joplin answered and not by
a late write or a rename, for which the code promises nothing.

**TerminalService, Installer.** A run of the installer is the list of its steps
(`InstallSteps`, `UpgradeSteps`, `PurgeSteps`), each of which changes the disk, asks
systemd or waits for it, and may fail, perhaps half done (`Partial`). How it fails
matters (`Failures`): the code handles ToolError, OSError and the interrupt of an
upgrade, and ToolError of a probe; another exception, such as those of
`http.client`, passes all but `with` and `finally` (`"uncaught"`). `CleanUp` says
what the handlers still do. `InstallerKilled` ends the process and its lock, but not
the Joplin command it may have started in a session of its own
(`install_joplin_terminal.py:744`): that is in `stray` until `StrayEnds`, with or
without having stored its setting. npm and the other programs of a killed installer
are taken to end with it. The steps of a sign-in by browser are those of the other
targets. systemd starts, stops and restarts both units (`Restart=on-failure`,
`Requires=`, `After=`), with the states a unit passes through; "restarting" is the
wait for the automatic restart, in which `is-active` says no. The supervisor takes
the profile lock, spawns Joplin, waits for its API, watches it and stops it; a port
in use makes it exit at its start, where the only other listener the model knows is
Joplin. A package is its version, a unit file its port.

## 3. Runs

| Run | Instance | Distinct states | What it shows |
|---|---|---|---|
| `atomic_sync` | 4 components, 2 values each | 9,826 | every base / file / remote combination the planner can meet, including notes without a base and one-sided deletions |
| `note_sync` | 1 note, 2 bodies, 2 tags, 2 edits, 2 faults | 912,918 | the engine with editors, failures, ambiguous writes and crashes at every step |
| `note_sync_pair` | 2 notes, 2 bodies, 1 tag, 2 edits, 1 fault | 1,369,064 | operations of one run do not disturb each other |
| `conflicts` | 2 texts, 2 tag sets, 3 edits, 1 fault | 441,492 | bundles and resolutions |
| `folders` | 3 notebooks, 2 notes, 3 titles, 2 edits, 1 fault, 2 runs | 343,866 | notebooks and places under renames, moves and creations on both sides, until `spoilt` |
| `agents` | 3 connections, 2 slots, 1 permit, 2 calls, 1 fault, 10 requests | 491,334 | concurrent calls over both transports, and the refinement of `AgentService` |
| `installer` | 2 versions, 2 ports, 2 runs, 2 faults, 1 command of the user, 3 of these in all | 640,987 | the installer beside the live service and its own stray commands |
| `remote_edit_overwritten`, `local_edit_lost`, `applied_put_not_recognized`, `stale_bundle`, `directory_names_cosmetic` | | | expected violations, section 4 |

`atomic_sync`: `PlansTheThreeWayRule` (the tables of the planner and the effects of
the handlers compute `Merge`), `NoEditOverwritten` (a copy is replaced only when it
equals the base), `DeletionIsOptIn`, `SyncSettles` (one sync reaches a fixed point
in one of four settled shapes), `DirectionsCompose` (pull then push, push then pull
and sync give the same result).

`note_sync`: `VersionTruth` (a base row with the version of the remote note has its
title and body: the body shortcut of the snapshot is sound even though rows are
written after races, failures and crashes), `JournalTellsTruth` (of the operations
on existing notes none is claimed whose commit did not happen and none disclaimed
whose commit did, whoever settled it), `QuietRunIsAtomic` (a note without edits and
faults ends where `AtomicSync` puts it), `OverwritesOnlyWhatWasSeen`,
`CommitMatchesBothSides`, `WritesAreJournaled`, and the liveness property `RunEnds`.

`conflicts`: `ResolvesOnlyFreshEvidence`, `NothingLostLocally`,
`ClosesOnlyWhenSettled`, `ConflictIsABarrier` and the liveness property
`ResolutionEnds`.

`folders`, each as long as nothing is `spoilt`: `SuccessLeavesNothing` (the command
that reported success plans nothing when it is repeated, except file moves that
follow a renamed notebook, the move of a notebook into one created in the same run,
and what it makes of a note that has two files), `NotebooksKeepTheirDirectory` (the
row of a notebook never outruns its directory and metadata), `NotesStayUnlessMoved`
(failed operations on notes, crashes between operations and later runs never carry a
note to another notebook).

`agents`: `PermitsAreHeld`, `LostWritesAreFinal` (a call that lost the answer of a
write ends there and is answered as ambiguous, partial or internal error),
`ConflictChangesNothing` (who is told that the name exists has written nothing; the
exception, which `docs/user/MCP_API.md:151-152` does not make, is the notebook made
on the way into which somebody has moved or renamed a note of that name before the
search), `ImplementsService` (the safety of `AgentService`) and the liveness property
`EverybodyLeaves` (its fairness: whoever can be admitted, turned away or finished is
not left for ever).

`installer`: `OneJoplin` (supervisor and installer work on the profile only under the
lock; what is without one is the child of a killed supervisor before systemd kills its
control group, and `stray`), `UnitsAreRunnable` (unit files appear last and go first;
of what they need only Joplin's program may be missing, while an installer runs or
after a run that did not end well), `PreviousRetained` (an upgrade never holds the only
copy of the old programs and loses it), `LocaleRestored` (unless a write of the locale
itself failed, the run was killed, or began beside a stray command),
`FailedUpgradeStops` (an upgrade that failed in a way the code handles ends with both
units down, also one that waited for its restart), `RunsWhatWasInstalled` (for a run
that began without stray commands), and the liveness property `ServiceComesBack`.

**Bounds.** Two values per component suffice to tell equal from different
between any two of three copies; a third matters only where an edit must differ
from both the planned and the pushed value, and the run that needs it
(`remote_edit_overwritten`) has it. Two edits let both sides diverge, or one
side change and change back; a third lets a resolution be raced after a
conflict exists. Two faults give a crash after a failed or ambiguous write.
`MaxEdits` and `MaxFaults` bound nothing else: versions and the number of runs
follow from them. In `note_sync` the title is fixed, since title and body are
sent, read and compared by the same code; `local_edit_lost` varies it.

**Deadlock** is not checked in `NoteSync` and `Conflicts`: with the bounds used
up, an idle system with an incomplete run may only recover, and an idle one
without editors has nothing to do. The same holds of `Folders`, `AgentServer` and
`Installer` once their bounded edits, requests and runs are used up.

In `folders` three notebooks and three titles give every shape of name clash
between two siblings and a third place; two edits give one change on each side or
a chain of two; two runs show what the second makes of the first. In `agents`
three connections over two slots make one wait and two interleave; two calls
suffice for every race of the tools, which touch one another's objects pairwise.
In `installer` a run can be interrupted, followed by another, and meet one action
of the user or a second fault; `MaxEvents` bounds their sum because the events
are independent and the cases of interest need three.

**Fairness.** `WF(Running)` in `NoteSync` and `WF(Step)` in `Conflicts`: a
command that was started goes on. A request cannot block it for ever since every
request has a timeout (`--timeout`, `api.py`), files and database are local,
and no other command holds the lock it has. Nothing is assumed of users: they
need not edit, start commands, or run `recover`. Crashes and failures are never
fair, and their number is bounded, so `RunEnds` says that handlers and journal
introduce no loop of their own.

`AgentServer` assumes weak fairness of one action, that some thread or the accept
loop goes on (`Forced`): sockets and requests to Joplin have timeouts, so a silent
client and an unreachable Joplin end, but nothing is assumed of a particular
thread or of a client sending anything. That gives the weak fairness of `Ending`
of `AgentService`. `Installer` assumes it of each systemd action (a timer fires, a
unit is served whatever the other does), of the supervisor, whose waits all have
timeouts, and of the installer's steps; where those ask the operator, also under the
lock (`install_joplin_terminal.py:1948`, `2108`, `2953`), an answer is taken to come.
Nothing ends a stray command. Its faults are bounded, so
`ServiceComesBack` says that the service recovers from each; the systemd start
limit is not reached within the bounds.

## 4. Where the code and its documents part

- `NoRemoteEditOverwritten` (SYN-006, "without overwriting either concurrent
  edit"). Between the guard and the PUT of a push there is a window; the Data
  API has no conditional write. `OverwritesOnlyWhatWasSeen` is what holds: only
  edits inside the window are at risk, and `CommitMatchesBothSides` still holds.
- `NoLocalEditLostByPush` (same sentence, for the file). After a push that
  changes the canonical file name, the file is written from the content parsed
  before the requests, without a re-read or a backup.
- `AppliedPutIsRecognized` (SYN-007, "an intended result counts as applied").
  When a push changes tags as well, the probe expects tags that were not sent
  yet, and calls an applied PUT a concurrent modification.
- `RerunRefreshesEvidence` (`conflicts.py:215` and `:240`, "rerun sync to create
  a fresh conflict"). An open bundle is never refreshed; only `discard` helps.
- `DirectoryNamesAreCosmetic` (WSP-004, "filenames and directory names are
  cosmetic"). A notebook gets the title of its sibling in Joplin. Pull cannot rename
  its directory, for the target exists (`sync.py:361-362`), but the operations on its
  notes move their files to where the new title says, into the directory of the
  sibling (`sync.py:699-706`), and the next push moves the notes into that notebook.
  Nobody has moved a file.

The last one has more forms than that trace. In `Folders` they set `spoilt`, at the
plan that starts them, and each was found as a counterexample of a property before it
did: a directory renamed by hand, or its `title` edited in `.joplin-folder.json` (which
`docs/user/WORKSPACE_FORMAT.md` describes), then two or three syncs: a second
notebook; a notebook renamed in Joplin to the title a sibling gives up in the same
run, or a chain of such renames, or a new notebook with the old title: notes change
notebooks; a directory and a notebook of one name created on both sides: a second
notebook; an operation on a notebook that fails while notes of the same run rely
on it: a note with no notebook (`parent_id` "") or in the wrong one. Two notebooks
that exchange their names fail on every run. A note whose file a dying pull moved
counts as moved by its user, and is moved back in Joplin by the next push.

Two forms were found by the proof of `NotesStayUnlessMoved`, since they need more
notebooks, edits and runs than the `folders` run has; TLC then confirmed each.

- `current_path` follows renames also for the *targets* of notes (`sync.py:421`,
  `702`), which are names of after the renames. Let notebook X become Y with its
  child X/C, which becomes Y/D, and a third notebook Z become Y/C: the child passes
  through Y/C on its way, so what belongs to Z goes to Y/D, and the next push moves
  those notes to the child. `RenameDir` records a rename that takes its directory
  away from the name of some notebook.
- A pull that dies between writing a moved file and unlinking the old one leaves two
  files with one id. The planner reports the second one and goes on with the first
  (`planner.py:265-279`), a sync adopts it, and from then on the order of two paths
  says where the note is: renaming the directory of one of them in Joplin may swap
  that order, and a push moves the note back. Such a note stays in `moved`.

Editing `parent_id` in the metadata has no effect: the scan takes the parent from
the directory tree (`workspace.py:211-239`).

More observations from the models. `docs/user/MCP_API.md:151-152` says that
`NOTE_ALREADY_EXISTS` means nothing was written; `update_note` takes no lock
(`mcp_service.py:813-832`), so a note may come into the notebook that `create_note`
has just made, and the notebook stays (`ConflictChangesNothing` has the exception).
`docs/user/MCP_API.md:199` says that an ambiguous write returns `AMBIGUOUS_WRITE`;
one whose answer is broken off or unreadable returns `INTERNAL_ERROR`
(`api.py:112-143`, `tool_executor.py:106-113`). SVC-006 wants failed health checks
to stop both units; an exception of `http.client` in a probe is not among those
handled (`install_joplin_terminal.py:2899`, `3064`). The properties above are stated
with these exceptions.

Two more, which no document contradicts plainly enough to be a finding.
`--no-start-service` stops only units that `is-active` reports
(`install_joplin_terminal.py:2789`): one that waits for its automatic restart starts
again after a run that ended well. And `retryable` of a tool answer is decided from
the failed request alone (`tool_executor.py:97`): a call whose write was applied and
whose last read failed is answered as retryable.

## 5. Proofs

**`AtomicSyncProofs`**, for any set of components and any contents, under
`ContentAssumption` (a content is a function on the components, and `None` is
not one):

- `TypeCorrect`: `Spec => []TypeOK`;
- `PlannerIsThreeWay`: `Spec => []PlansTheThreeWayRule`;
- `EditsSurvive`, `DeletionsAreOptIn`, `OneSyncSettles`, `SyncIsPullAndPush`: the
  other properties of the `atomic_sync` run.

The work is in the lemma `AfterIsMerge`, a case split on which copies exist and
which are equal: each case gives one set of statuses, one operation and one
effect. That a push of the changed components alone yields the whole local
content is `OverlayOfChanged`. The other theorems never look at the planner
again: they follow from `Merge`.

**`NoteSyncProofs`**, for any sets of notes, titles, bodies and tag sets and any
bounds, under `ConstantsAssumption` (the components are title, body and tags;
`None` is none of the values):

- `TypeCorrect`: `Spec => []TypeOK`;
- `BaseNeverLies`: `Spec => []VersionTruth`.

`VersionTruth` alone is not inductive: a commit writes what the handler holds,
so one must know what that is. The inductive invariant is

    IInv == TypeOK /\ PlanInv /\ ControlInv /\ GotTruth /\ VersionTruth

`PlanInv` says what `build_plan` guarantees of an operation (a push has a remote
note and a file, a rebase has equal ones); `ControlInv` what the place in a
handler says of the operation and of what it has read (at the commit of a push,
the note read back equals the content sent); `GotTruth` that the note a handler
holds is the remote note or an earlier version of it. The step for the version
rests on `RemoteMovesForward`: no step, of the program or of a user, gives an
old version other fields. `ToggledTags` and `OverlayKeepsTags` separate the two kinds
of writes: a request for a tag changes only the tags, a PUT of fields none of them.

About the guards, in the same module:

- `EffectsAreJournaled`: `Spec => WritesAreJournaled`;
- `CommitsAreObserved`: `Spec => CommitMatchesBothSides`;
- `OverwritesAreSeen`: `Spec => OverwritesOnlyWhatWasSeen`.

The first rests on `RunInv` (between `RecordRun` and `FinishRun` the run is in
progress). The other two rest on `SeenInv`: for each place in a handler it says
what the handler knows of the file (`FileSeen`) and of the remote note
(`RemoteSeen`), unless that side is in `raced`. It is inductive relative to
`IInv`: an edit of the current note puts its side in `raced`, each step of a
handler passes on what the previous one knew or compares again, and no other
step runs while a handler does. `TagsRead` is the fact that makes the two
requests of `fetch_remote_canonical` safe: without an edit in between, note and
tags are those of one moment.

About runs, in the same module, first `JournalIsTrue`:
`Spec => []JournalTellsTruth`. `recover` has only the state database to go by, so
the proof is that the base row and the bundle of a note tell whether its operation
committed: nothing is planned whose post-state the base row already has
(`PlanChangesBase`), until its own handler commits the row stays what it was when
the plan was made (`Pending`), and a commit makes the operation look applied. The
two exceptions of the property are where this fails: a bundle opened by an earlier
run, and a push of a file edited after planning. The theorem is about operations on
existing notes, the kinds of `NoteSync`; section 6 says what `recover` makes of others.

Then `QuietRunsAreAtomic`: `Spec => []QuietRunIsAtomic`, which ties the steps of
`NoteSync` to the one step of `AtomicSync`. For a note without an edit or a fault in
this run, `SnapshotInv` says that what the list, the tag map and the fetched bodies
add up to is the note (here the shortcut for unchanged versions needs
`VersionTruth`), `OpsInv` that an operation not yet started still finds the copies
it was planned from, and `RunningInv` gives the file and the remote note at every
step of the handler (`FileNow`, `RemoteNow`). That every guard and verification then
passes is `QuietInHandler`, from `SeenInv` with nothing in `raced`; that the fields
and then the tags make up the whole push is `OverlayThenTags`, and between two tags
the note is `HalfTagged`: those still to be sent are as they were. Earlier runs,
faults in them and the other notes of the run are arbitrary.

**`ConflictsProofs`**, for any texts, tag sets and bounds, under
`ConstantsAssumption` (the components are text and tags; `None` is not a content):

- `TypeCorrect`: `Spec => []TypeOK`;
- `OnlyFreshEvidence`: `Spec => ResolvesOnlyFreshEvidence`;
- `NoLocalLoss`: `Spec => NothingLostLocally`;
- `ClosedMeansSettled`: `Spec => ClosesOnlyWhenSettled`;
- `OpenConflictIsABarrier`: `Spec => ConflictIsABarrier`.

`conflicts resolve` compares each side once and writes it several requests later,
so the invariant says for every step what still holds of a side that nobody has
edited since: `FileKnown` (equal to the evidence, then to the content read again
or the backup, then to the result) and `RemoteKnown` (equal to the evidence, then
absent or live as the lookup found it, then of the text sent, then the result).
`IInv` is these with `StateKnown`, `TextKnown` and `TypeOK`; TLC finds it true in
every state of the `conflicts` run. Typing runs needs the planner: only a
`push_update` composes a content, and it has one on both sides (`EffectTyped`);
the barrier is a fact about the planner alone (`EffectOfConflict`).

**`AgentServerProofs`**, for any callers, requests, objects, slots and permits,
under `ServerAssumption` (finitely many callers; at least one slot and one permit)
and `ToolsAssumption` (the objects Joplin starts with are objects; one that is `sure`
is in a notebook Joplin knows or at the top, and no two that are `sure` have one
identity; a request sets finitely many tags). Requests are not restricted in what they
name:

- `PermitsNeverLeak`: `Spec => []PermitsAreHeld`, and `AdmissionIsBounded`;
- `LostWritesAreReported`: `Spec => []LostWritesAreFinal`;
- `ConflictsChangeNothing`: `Spec => []ConflictChangesNothing`;
- `TypeCorrect`: `Spec => []TypeOK`;
- `ServerImplementsService`: `Spec => ImplementsService`.

The first is an induction over `Accounts`: every action moves one connection, so
the cardinality of the connections in a set of states changes by one or not at
all (`OneMoves`, from the theorems on finite sets), and each action changes slots
and permits by the same amount. The second needs that a call which loses an
answer is over (`LostEnds`): otherwise its later requests would decide the answer.

The others rest on `ToolsInv`. An object gets its identity by two requests, a search
and a POST, so what must survive in between is that the identity found free is still
free (`NewId`, in `Creation`). It does because every other creation waits for the
same lock, because a rename or move makes its object unsure, and because a restored
or late object is not one whose name was given by an answered creation. That the
holder of the lock is in the right part of its program is `Ordered`: every program
of `ProgramOf` goes through the stages in one order and every search is followed by
its POST (`ProgramsAreOrdered`), and what is left of a program keeps that order.
`ConflictChangesNothing` adds what a call may have written before its search: at
most a notebook of its own in which no other creation has put anything (`Virgin`),
so that the search for a note in it finds only what was moved or renamed. The
refinement then maps each step: a transport step moves one connection, a POST is
`Creates`, a rename or an erasure is `Forget`, and all else stutters.

**`InstallerProofs`**, for any versions, ports and bounds, under
`BoundsAssumption`, `NoneAssumption` and `InstallableAssumption` (there is a version
and a port to install: without one the initial state of an installed service does
not exist):

- `ProfileIsExclusive`: `Spec => []OneJoplin`;
- `TypeCorrect`: `Spec => []TypeOK`;
- `UnitsStayRunnable`: `Spec => []UnitsAreRunnable`;
- `UpgradesRetain`: `Spec => []PreviousRetained`;
- `LocaleComesBack`: `Spec => []LocaleRestored`;
- `FailedUpgradesStop`: `Spec => FailedUpgradeStops`;
- `NewVersionRuns`: `Spec => RunsWhatWasInstalled`.

`OneJoplin` is not inductive: that a start finds neither a supervisor nor a child
depends on the state of the unit. `Owners` adds that a unit which is inactive, failed
or waiting for its restart has no supervisor; the installer only takes a free lock and
releases its own. `LockFollows` says that every step on the profile that is still to
come is behind a `lock` to come or under the lock held now. What each theorem leaves
out is in its property: the child of a killed supervisor, stray commands, failures the
code does not handle.

The other theorems depend on the order of the installer's steps, and a run of the
installer is data: the sequence `ins.todo` of what is left. An invariant that named
every position would repeat the programs, so the order is said by five predicates
on a sequence: every step is of a kind (`In`), a step comes only after one of some
others unless its fact holds already (`Guarded`), never after some (`Never`), some
are followed by one (`Until`), or at once (`Then`). Each has a lemma for the tail of
a sequence and one for concatenation; the literal programs satisfy them by
inspection, whichever optional parts a run has. Then an action that does a step
takes the tail, and has to show only that it establishes the fact later steps wait
for. The invariants, each checked by TLC on the `installer` instance first, are

- `Follows`, the conjunction of `DiskFollows` and `StrayFollows` (stray commands are
  commands; a run that began `alone` meets none of them, for only a kill leaves one):
  `UnitsFollow` (what a unit file needs is on the disk when the file is
  written, and the file is gone when what it needs is removed), `LocaleFollows`
  (the locale is the operator's, or the step that restores it is next or after
  `sync`) and `RetainFollows` (before `npm` the old tree was moved, before `mcp` the
  old files were copied), with the types and modes they rest on;
- `Correct`: `Follows`, `Owners`, the types of the service, and `AdapterFollows`.
  The type of `adp` is a theorem about the installer: the adapter is started with
  the port `systemd` has loaded, so no unit that was loaded without a port may be up
  once the program exists. `install` and `upgrade` ask for and stop the adapter
  before they install its program, write the unit before they reload, and `purge`
  removes the program before it reloads without the unit (`AdapterKnown`);
- `HaltFollows`: after the failure of an upgrade what is left is one of three
  clean-up sequences, and a unit that was halted stays down. The adapter is halted
  before the terminal, because the automatic restart of the adapter takes the
  terminal up again (`Requires=`);
- `StartFollows`: in a run that starts the services and has not failed, every
  process that is not of this run's version and port is owed a stop
  (`StartOwes`), and once the stop was issued the unit is stopping or the process
  is of the new version, even if systemd restarts it in between.

**`FoldersProofs`**, for any number of notebooks, notes and titles, under
`BoundsAssumption` (there are the two notebooks, the note and the two titles of the
initial state, and `None` is neither a number nor a row):

- `TypeCorrect`: `Spec => []TypeOK`;
- `NotebooksKeepDirectories`: `Spec => []NotebooksKeepTheirDirectory`.

That a directory keeps its parents (`Tree`) is a fact about the operations on trees:
`mkdir` with parents (`WithDirTree`) and moving a directory with all below it
(`MoveTreeTree`). Both need paths to be paths, and the paths of a plan come from
`RemotePath`, which is recursive over the tree of notebooks. `Forest` says that
Joplin's notebooks have a rank that grows from parent to child; it survives every
change of a parent because Joplin refuses cycles (`Reparent`). With it `RemotePath`
is a path for every notebook, and no two notebooks have one path (`PathsDiffer`):
of the notebooks for which either failed, one of least rank has a parent for which
it does not. `Typed` is the invariant: the forest, the tree, the files in it, and
what a plan and the place in it must be (`TypedRun`, `TypedPhase`).

`NotebooksKeepTheirDirectory` needs to know of each operation not yet done that it
is still possible. `Kept` says, while no plan met a name that stands for two things:
no id is in two directories (`Unique`), so that the scan enters all of them; what
the base knows has one (`KeptBase`); a notebook that gets a directory has none, and
no other operation works where it will be (`CreateKept`); a directory to be renamed,
or announced to Joplin, is where the renames so far have taken it (`MoveKept`,
`AnnounceKept`); a row that only has to be written has its directory (`RowsKept`);
and what holds between the steps of the operation at work (`PhaseKept`). Four lemmas
say how `Kept` passes through an operation that adds directories (`PlanGrown`), gives
one its id (`PlanGiven`) or moves one (`PlanMoved`), and through the end of one; each
action is one of these. That no directory is created after a rename is the order of
the plan (`CreationsFirst`). TLC finds `Typed` and `Kept` true in every state of the
`folders` run.

**`FoldersPlacesProofs`**, under the same assumption: `NotesStay`:
`Spec => NotesStayUnlessMoved`. Push writes a note's notebook in one place, and plans
it when the note's file is in a directory of another notebook than the base says. So
the invariant, `Placed`, says while nothing is `spoilt`:

- `NotesSettled`: a note that was not moved has at most one file, and that is in the
  directory of the notebook the base has for it, except while pull moves it;
- `PlanDrawn`: what an operation on a note relies on; a note whose notebook push
  changes was moved, a note to be created or adopted is where the plan saw it;
- `WaysKept`: where the renames have taken each path of the plan (`Followed`: to the
  directory the scan saw there, and never onto the name of another one), that a
  directory without an id becomes a notebook before notes are pushed from it
  (`Announced`), and that the targets of notes are directories of their notebooks
  (`Lodging`, `Aimed`);
- `WorkPlaced`: what holds between the steps of the operation at work.

The difficult part is `Lodging`. While directories are still created and renamed, no
target exists for certain; what the invariant has is that every notebook either has
an operation to come or is next to the notebook above it under the name of its title
(`Beside`), a fact about one directory and its parent, which survives the renaming of
any directory above. When the last operation is done it holds of all notebooks, and
`Arrive` concludes by their rank that each is at `RemotePath`. `FollowedMoved`,
`LodgedMoved` and `MovedNotes` carry the invariant through a rename, `DrawnStep` and
`WaysRise` through everything else, `StartPlaced` shows that a plan begins with it.

**`FoldersCalmProofs`**, under the same assumption: `SuccessLeavesNothingToDo`:
`Spec => []SuccessLeavesNothing`. The property compares two plans, the one that was
carried out and the one its end state would give, and by `PlanSources` an operation
of the second is there because of one notebook, one note or one directory. So the
invariant, `Calm`, says of each of these, in every state of a run that has not failed,
that it is settled or that an operation to come is about it:

- `FoldersCalm` and `NotesCalm`: a notebook or note that no operation left is about
  has nothing for the planner to do (`FolderCalm`, `NoteCalm`: the three-way
  comparison restated, without the planner's statuses);
- `DirsCalm`, `DraftsCalm`: what push has to announce has its operation, or is the
  place of a notebook that pull has yet to give its id;
- `FoldersDue`, `NotesDue`, `WorkDue`: that an operation, when it is done, leaves the
  thing it is about settled: what it saw is still so on the side it does not write;
- `BaseNow` holds whatever has failed: every directory with an id has a row in the
  base, except while that row is the next thing to be written. It is what makes
  "identical, without a row" impossible for a notebook.

Two points carry the proof. While pull creates and renames directories, a directory
may be below the wrong one, or below none that has an id yet, without any operation
being about it: what counts is not what the disk says of a notebook but what it will
say (`Becoming`), which is the parent in Joplin, and when the last directory is done
`Arrive` makes the two equal (`ArrivedParent`). And push gives a directory its id while
the directories below it are already settled by the base: their notebooks now are in
another one, which is the exception the property makes for notebooks below one that the
run itself created (`Under`). `FolderCalmStays`, `NoteCalmStays` and `DirsAhead` carry
the rest through the steps that do not concern it; `StartFolders` and `StartNotes` show
that a plan has an operation for everything that is not settled. TLC finds `Calm` true
in every state of the `folders` instance. Two more exceptions are in the property
because of states TLC and the proof found: a note whose notebook was renamed may only
be owed a new name (`normalize`), and of a note with two files, which a pull that died
between writing the new one and removing the old one leaves, the scan takes the one
that comes first, and a renamed notebook above can change which that is.

Only model-checked: liveness (`RunEnds`, `ResolutionEnds`, `ServiceComesBack`,
`EverybodyLeaves`; it needs fairness and ENABLED, which are out of the prover's
reach). Every safety invariant and action property that a passing run checks is also
a theorem.

## 6. Not modelled

- Contents in `Folders` and file names in `NoteSync`: a run that moves and edits
  one note at once is in neither; both are guarded by the same two functions.
  Titles that become equal only by sanitizing (`paths.py`) and file name suffixes
  of notes with equal titles.
- What `recover` says of other operations than those on existing notes. Of an
  interrupted `push_create` it looks for any note with the same content, which needs
  contents of notes without an id; of a new file name, for the path in the base row; of
  an operation on a notebook, whether the base has a row for it (`journal.py:133-156`).
  For the renaming of a notebook that row is always there: reading the code, `recover`
  reports such an operation as verified although it may never have run
  (`journal.py:155`). The journal has no effect on later runs, which plan from the
  copies, so `Folders` does without it.
- Tombstones, which are only written. `pull_create` commits its row and removes the
  tombstone separately (`sync.py:402-411`); `NoteSync` has the first commit.
- The planner's `drop_base` of a notebook that is gone on both sides.
- A directory whose name has a suffix and that an interrupted pull left without
  metadata: the title of the notebook a push makes of it would have the suffix, too.
  In `Folders` it is the title alone.
- Deletions of notebooks, which runs only report, and Joplin's own conflict notes,
  which are listed and skipped.
- `--dry-run` bookkeeping of local-first workspaces: `Abandon` is the dry run.
- The events cursor and pruning of backups: written, never read by a decision. The
  paths stored in base rows do reach one: `planner.py:410` and `420` pass them into
  conflict bundles, where `conflicts.py` looks for the file; `Conflicts` has one file,
  which is where the bundle says.
- The bytes of headers and hashes; schema migration; the workspace lock, which is
  assumed to admit one command at a time.
- Of the agent tools: searches, listings and downloads, which change nothing;
  bodies and the contents of resources; the token buckets, which only choose one
  of the early answers; the stdio bridge, which serves one request after another;
  the OpenAPI document. Of Joplin: attributes the tools do not check.
- Of the installer: dry runs, lingering and enabling, the choice and download of
  versions, the dialogues of sign-in and encryption beyond success and failure, what
  npm and other programs do when they outlive a killed installer, the check of Node.js,
  other programs that listen on the port, rollback by hand from the retained files. Of systemd: start limits and jobs that replace others.
- `doctor`, `status`, `plan`, `note`, the update check: read-only or a single write,
  whose effect on a run is that of an editor.

## 7. Plan

1. Done: `Planner`, `AtomicSync`, `NoteSync`, `Conflicts`, `Folders`, `NoteTools`
   with `AgentServer` and its refinement, `TerminalService` with `Installer`, and
   the theorems of section 5.
2. Done: every safety property that a passing run checks, as a theorem.
3. To do: files without an id with their contents, lost answers and `recover`; the
   journal of operations on notebooks; what of the three properties of `Folders` still
   holds of notes and notebooks that a misleading directory name does not touch.
