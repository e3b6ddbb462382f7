# A TLA+ verification of label-printer-monitor (lpm)

lpm polls label printers over SNMP, stores their counters in SQLite and
reports what was printed per week.  These modules model the program's own
logic, TLC checks them on small instances and TLAPS proves the main results
for every value of the constants.  Paths below are those of the repository
(`src/adapters/base.py` is the adapter engine, `main.py` the command line).

## Inventory of the system

| Component | State it keeps | Operations | Hard behaviour | What makes it correct |
| --- | --- | --- | --- | --- |
| SNMP polling engine: `src/adapters/base.py`, `src/snmp_client.py` | the result dict; two retry counters | poke, read each metric, hook, convert | lost, late, refused and unparsable replies; nested retries; time | bounded requests and time; no counter lost to one lost packet; lengths in metres |
| Adapters, registry: `src/adapters/` | none (declarations) | look a model up, Sato hook | a reading used with another reading's unit | right unit, unknown models refused |
| Collection: `main.py` `run_collection`, `_collect_one` | thread pool, futures, tallies | submit, take finished polls, save, summarise | completion in any order, a failing save in mid-loop, overlapping processes, kills | every printer tallied once; a success has a row; every run ends |
| Snapshot database: `src/db.py` | table `snapshots` keyed (printer, slot) | open, insert-or-ignore, query | write lock, rollback, kills, duplicate keys | append-only, one row per slot, true counters |
| Backups and logs: `main.py` `backup_data`, `_prune_*` | `data/backups/*`, `logs/run_*` | copy, verify, prune | concurrent prunes, copy of a live database, clock changes, failed verification | newest kept, limit kept, copies complete |
| Scheduled task: `src/schedule/` | the Windows task and its folder | register, compare, remove, check | failing COM calls between two steps, several commands, kills | what is reported done is registered; idempotent; one failure loses no task |
| Purge, installer: `src/purge.py`, `installer/lpm.nsi` | data root, task, PATH | remove what was asked | one failing target of several, other commands that create what is being removed | success means gone; nothing goes unasked |
| Weekly report: `src/report.py` | none | group, subtract, print | UTC weeks and local ranges, missing counters, resets, overlapping runs, inserts between its queries | deltas of the right rows |
| Shell and logging: `src/shell.py`, `setup_logging` | logger handlers, open run logs | run commands in one process | every way a command can end; state left by one command to the next | the prompt comes back; what is left blocks nobody else |
| Init, validate, schema copy, paths: `main.py`, `src/validate.py`, `src/env.py` | data root, config files | bootstrap, refresh, check | crash between or during writes, two commands at once, shipped files that are missing or unreadable | a success means that everything is in place and whole |
| SNMP tools: `tools/` | semaphore, host reports | plan, probe, walk subtrees | agents that loop, lie or stall; many hosts for few permits | walks end; reports are ordered, complete and say what was asked |

Interactions: `lpm collect` makes a backup, opens a log, then runs a
collection.  The collection starts one poll per configured printer in a
thread pool; worker threads share nothing but the futures.  Only the main
thread touches SQLite.  Processes (the scheduled task, a person at a prompt)
share the database file, the backup directory and the log directory.  The task
scheduler starts `lpm collect` with IgnoreNew, which keeps the *scheduled*
instances apart and nothing else; `lpm schedule`, `purge --tasks` and `validate`
act on that task through the service's COM interface.  The report reads what
collections wrote, row by row in queries of its own.  `init`, `validate`,
`collect`, `report` and `purge` all create or remove parts of one data root,
and a shell holds the run logs of the collects it ran until it is left.
`tools/linkos_walk.py` shares no state with the rest.

## Modules

| Module | Models | Reading guide |
| --- | --- | --- |
| `SnmpPoll` | one poll: `get_counters`, `_snmp_get(_retry)`, `snmp_client.get`, the five adapters, `to_meters` | `read` is the position in `self.metrics` (0: the poke), `attempt` the loop of `_snmp_get_retry`, `try` the loop of `snmp_client.get`; `Timeout`, `SnmpError`, `GoodReply`, `BadReply`, `Raise` are the ways a GET ends, each with everything that follows up to the next request |
| `SnapshotLog` | the promise of the stored data, with no thread or lock | `Record` adds a row under a fresh key, with a counter the printer showed since the run opened |
| `Collection` | several `lpm collect` processes, their workers, the as_completed loop, SQLite's write lock | `main[r]` is where the main thread of run r is, `task[r][e]` the future of the e-th configured printer; a poll is its start and its outcome |
| `Backup` | several commands in `backup_data`, `_verify_db`, `_prune_backups`, then on the database until `close_db` | `pc[p]` follows a command from `Stamp` (the directory) through `Verify`, `CopyBegins`/`CopyEnds`, `ListBackups`, `Remove` to `Open`, `Commit`, `Close`; `rows` are in the main file, `wal` in the log beside it; `Faults` says what may go wrong |
| `Schedule` | the task `\LPM\LPM_Collect` under `install`, `remove`, `prune_task`, `check_schedule` by several processes | one action per call to the service: `Connect`, `Read`, `EnsureFolder` (GetFolder, CreateFolder), `Register`, `FallbackDelete`, `Reregister`, `FindFolder`, `Delete`, `Sweep`; `Launch` holds the gates of `main.py` (elevation, section, enabled, errors); `Want` is `build_task_xml`, `UpToDate` the comparison of `install`, `Check` that of `check_schedule` |
| `DataRoot` | the directories and files under the data root, and `init`, `validate`, `report`, `purge` on them | `proc[p].pc` names the next file-system call: a copy is `Truncate` then `Write`, `RefreshSchema` is `_refresh_schema_copy` with its silent way out (`SchemaLeft`), `RmTree` removes one entry per step, `todo` are the purge targets left |
| `Shell` | the processes: one command and exit, or a shell with its commands, shells in the shell, log handlers; `setup_logging`, `_prune_logs` and the frame of `collect` | extends `DataRoot`; `Start` is `main`, `Submit`/`Over`/`Leave` the loop of `run_shell` and `_execute`, `PruneLogs`/`Unlink` the loop of `_prune_logs`, `Fault` an exception at any call, `Kill` the end of the process |
| `Walk` | `tools/linkos_walk.py`: plan of subtrees, list of hosts, a task per host | the plan (`Kept`, `Expanded`, `SelectRoots`) and `ExpandTargets` are operators, computed once per command line; `pc[h]` follows `walk_host`; `Judge` is what `walk_subtree` makes of one binding |
| `WeeklyReport` | `compute_weekly` and the grand total, over a table that runs of collect still fill | `Answer` is the poll of a printer and `Save` its `save_snapshot`, stamp, lock and commit; `Begin` is the query for the printers, `ReadPrinter` the query for one printer's rows with the grouping (`AddRow`) and the difference (`Delta`) |
| `MCCollection`, `MCBackup`, `MCSchedule`, `MCShell`, `MCWalk`, `MCWeeklyReport` | values and symmetry for TLC | |
| `SnmpPollProofs` | proofs about `SnmpPoll` | one lemma per kind of step, as the actions are built from them (next read, retry, give up, stop) |
| `CollectionProofs` | proofs about `Collection` | one lemma per group of conjuncts of `IInv`, one step per action |
| `BackupProofs` | proofs about `Backup` | counting lemmas, then one lemma per conjunct of `IInv` |
| `ScheduleProofs` | proofs about `Schedule` | what a step leaves of the claims of the other processes, then one lemma per action |
| `WalkProofs` | proofs about `Walk` | the order of OIDs, the sorted specs, the loop that keeps the broadest, the expanded plan; then one lemma per conjunct of `IInv`, one step per action |
| `ShellProofs` | proofs about `Shell` and `DataRoot` | what each command is at each place, then one lemma per group of actions and conjunct of `IInv`; the action properties at the end |
| `WeeklyReportProofs` | proofs about `WeeklyReport` | the sorted rows, the loop `AddRow`, the lines of one printer; then the actions; then days, weeks and totals |
| `Facts` | nothing of the program | what all these proofs need of natural numbers, folds, sorting by rank and sums over finite sets |

`Collection` takes a poll as two events: it starts, and it ends in an answer
or in none.  That every poll ends, which its fairness uses, is what `SnmpPoll`
checks (`Terminates`).  `Shell` takes what a collect saves as one step; that
part of it is `Collection`.  What a purge does to the task is in `Schedule`;
`DataRoot` only lets it succeed or fail before the directories' turn.

Abstractions, each chosen by what the properties tell apart:

* In `SnmpPoll` a counter is the *unit* its number is expressed in, so that a
  conversion with the wrong unit shows; a reply converts or it does not.  Time
  is in half seconds, the unit of both backoffs.  A new dispatcher and socket
  per try means that late answers to an earlier try are never seen.
* In `Collection` the two counters of a row are one value, which only grows at
  the printer.  The clock does not go back (a clock set back is outside the
  model, and so is a counter reset), and 5 minutes are `Interval` ticks.
  Waiting for SQLite's lock is bounded by its busy timeout: the wait ends in
  the lock (`Insert`) or in "database is locked" (`Locked`).
* In `Backup` a directory is its name and the state of the database copy in it
  ("none" yet, "partial", "whole", or "torn" by a checkpoint while it was
  copied), with the number of rows the copy holds.  The second of the local
  clock is the name, so two commands of one second share a directory
  (`makedirs(exist_ok=True)`).  Of SQLite it takes three facts: commits go to
  the log, the last connection to close moves them into the main file, and a
  read-only connection (`_verify_db`) does not.  The copies of config and
  schema, automatic checkpoints of a long log, and a disk that is full are left
  out.
* In `Schedule` the task's XML is the record of what the two comparisons read
  from it (trigger times, weekdays, account, arguments, executable).  A service call either
  does what it is asked or raises and changes nothing; a `GetFolder` or
  `GetTask` that raises reads as "no task" where the code suppresses it, and
  nothing else is assumed of the service but that it deletes empty folders only.
  The exception is `CreateFolder`, which may create and still end the command
  (`GetFolder` is called again after it).
* In `DataRoot` a build is a development tree, an installation, one that lost a
  file it was shipped with ("incomplete"), or one whose `%LPM_HOME%` is refused.
  `_refresh_schema_copy` does nothing when it cannot read the shipped schema
  (`main.py:105-109`), which may happen in any build; `fresh` records when it
  could.  A file is absent, torn (truncated and not written yet), old (of
  an earlier release), new (as shipped, or an empty database) or mine (edited,
  or with rows); copies are not atomic.  As on Windows, a file that a process holds
  open is not deleted.  What the schema or the task finds in a config that
  parses is arbitrary.
* In `Shell` the clock's instants are further apart than `log.retention_days`,
  which is positive, and no command lasts from one to the next.  A line of
  input that parses to no command is not a step.
* In `Walk` an OID is the sequence of its numbers, the order of these sequences
  being that of Python tuples; what targets, groups and branch tables stand for
  are constants.  A reply is one binding of any OID and type at a time; the end
  of the rows comes with any error.
* In `WeeklyReport` time is in hours of UTC, labels and meters are one counter,
  and a local day may be an hour longer or shorter than the 86400 seconds the
  code takes it to have.  A printer that is reset or replaced starts again at
  any count.  A run of collect is reduced to its answers: read at one time
  (`Answer`), stamped at any later one up to the present and committed, found to
  be a second row of its slot and ignored, or lost (`Save`).  Which run an answer
  belongs to does not matter here; `Collection` has the runs.
* `truth`, `born`, `made`, `base`, `alone` in `Backup`, `failed`, `disturbed`,
  `settled`, `was` in `Schedule`, `alone` and `fresh` in `DataRoot`, `answered` in `Walk`,
  `disturbed`, `before`, `seen` in `WeeklyReport`, like the logs of `Collection`,
  record history for the properties; the code's actions never read them (`SetBack`
  of `Backup` does, once is its bound, and so do the bounds on faults in `Schedule`).  Operator names
  beginning with `Bug_` are plausible wrong versions of the definition that
  follows them; no specification uses them, they show which property would
  notice.

## Runs

| Run | Question | Bounds and why they suffice |
| --- | --- | --- |
| `poll` | budgets, order, missing counters, units, waiting time, termination of one poll; `IInv` in every state | two extra tries so that the inner loop has a first, a middle and a last one; all three adapter shapes and all firmware units |
| `poll_sato_unit_lost` | a sentence of the repository that the code does not follow (below) | one extra try |
| `overlap` | a scheduled and a manual run in every interleaving | two printers, one of them of unknown model, one worker, three instants in two slots, one count: an answer can be saved in a later slot, find its key taken, be older than the row before it; a transaction can meet another, fail or be killed |
| `scheduled` | scheduled runs only; `IInv` in every state | two slots and two counts: a stale counter in a later slot would show |
| `live` | the summary; progress with failures and kills | one address configured twice and two workers, so that an exception finds queued, running and finished polls; the clock stands still because no progress depends on it |
| `backup` | several commands and every fault: what survives, what a command leaves behind, limit, completeness, order of pruning; `IInv` in every state | three commands, one backup kept, up to one older one, three instants, one row: a listing can be stale by a new directory or a removed one, two commands can share a name, a third can find what two left behind, and a clock set back can name a backup before, on or after the others |
| `backup_main_file` | a second such sentence | two commands, one fault |
| `schedule` | what success and failure mean for the task, what a removal may leave behind and why, agreement of the two comparisons, no needless registration; `IInv` in every state | two processes and three commands, of which one can interfere with two; five configs (no section, disabled, two times out of order, a time twice, an invalid time) and four tasks found (of an older version, of an install that is gone, of another install, of another schedule), each of which differs in one comparison; two faults: the least that loses a task |
| `shell` | what success of `init`, `validate` and `purge` means, nothing lost unasked, logs, the shell; progress with kills and failures; `IInv` in every state | two processes, two commands: one can interfere with the other between any two calls, or find what the other left; two shells, one in the other; nothing, one target or all of them to purge; six combinations of build and disk found, one of them an incomplete build, one what a killed `init` left, with one log that expires; two instants |
| `purge_stranded` | a third such sentence | as `shell` |
| `walk` | order, completeness and honesty of the reports, permits, the plan against its definition; progress; `IInv` in every state | two hosts for one permit; five command lines with overlapping groups, branches and a selected root that is none of them, both versions, with and without fallback and probe; two bindings per subtree, so that the limit, a repeated and a decreasing OID all come about; subtrees 1.2 and 1.10 beside 1 in an order that differs as strings; three subtrees, so that one can be skipped |
| `report` | lines against their definition, which rows are in range, which week they get, totals; `IInv` in every state | two printers, three rows and answers, counts to 1 and resets, an hour between poll and save at the most: a printer polled twice and saved in the other order, with its rows in either week, is among them, 10 million states; days of two hours, weeks of two days, in a zone an hour west of UTC, with a day of three hours, one of one and one of two, so that either change of the clocks falls on the last day of a range |

Where several parts make one promise they are one property of a run, the
conjunction of named parts: `SuccessMeans` of `Shell` is `PurgeComplete`,
`InitComplete` and `ValidateMeans`; `PromptReturns` is `ShellSurvives` and
`CommandsEnd`; `IInv` of `Shell` and `Walk` holds `TreeClosed` and
`PermitsKept`; `OidsOnceInOrder` is `SubtreesInOrder` and `NoOidTwice`;
`RowsOfTheRange` is `RangeCovered` and `PrintersKept`; `RunsSettle` is
`EveryRunEnds` and `AnswersSettled`.  The type invariants are part of the
`IInv` of their modules, as is `OneRowPerSlot`, which `SnapshotLog` also promises by its fresh keys;
`MetricsInOrder` is proved only.

Deadlock checking is off: a program that has ended, with clock and odometers at
their bounds, does nothing more.  `MaxNow`, `MaxCount` bound clock and
odometers, `MaxRows` the rows of `Backup` (whose clock is set back at most once)
and the rows and answers of `WeeklyReport`, `MaxWait` the hours that begin while one
of these answers is saved, `MaxFaults`, `MaxCmds`, `MaxCommands`, `MaxDepth` the
failures, commands and nested shells; `MaxHosts`, `MaxOids` and `Concurrency` of
`Walk` are options of the program.  No safety property but the type invariants
speaks of a bound, and the proofs hold for any.

Fairness.  `SnmpPoll`: the worker goes on sending and pysnmp's timer fires
(`WF(Send)`, `WF(Timeout)`); no printer owes an answer.  `Collection`: the
threads of a live process are scheduled (`WF` of each run's workers and main
thread); no run has to start or to be killed, no printer has to print, no
particular branch of a choice is promised (a lock wait may always end in an
error).  `Shell`: every file-system call returns, so a command goes on and ends
(`WF` of each process's `Over` and `Command`); no process has to be started, no
line has to be typed, nobody is killed of necessity.  `Walk`: every request is
answered or times out and the event loop runs every task and `main`
(`WF(Step(h))`, `WF(Exit)`); the semaphore needs no more, as each task that
holds a permit gives it back.  `Backup`, `Schedule` and `WeeklyReport` state no
fairness and no liveness.

## What the repository says and the code does not do

Shown by a run:

* `get_counters` promises metres "regardless of what the printer firmware
  reports" (`src/adapters/base.py:197-199`).  A Sato whose meters read succeeds
  and whose unit read fails is taken to count in metres (`poll_sato_unit_lost`).
* `backup_data` takes a "Snapshot [of] config + db" (`main.py:205`).  It copies
  the main file only; what a running or killed collector committed is still in
  the `-wal` file (`backup_main_file`).  `AloneBackupWhole` is what does hold:
  complete when nothing overlaps and all earlier commands ended well.
* "Each target is attempted independently, so one failure does not strand the
  rest" (`src/purge.py:123-124`).  The directories share one `prune_dirs` call
  in one `try`: after one that cannot be removed the later ones are not
  attempted (`purge_stranded`).  `PurgeComplete` is what does hold: the exit
  code says so.

Noted while modelling; the property named is the one that holds:

* `snmp.retries` is the "Number of retry attempts per query"
  (`config/config.json.schema:60`).  A metric is tried 3 x (retries + 1) times
  (`RequestBudget`).
* The Sato adapter announces "Two SNMP requests total"
  (`src/adapters/sato_cl4nx_plus.py:3`).  It sends three.
* `_round_timestamp` says "nearest interval" (`src/db.py:228`).  It rounds down.
* `backups.keep` is the "Maximum number of backup snapshots to retain"
  (`config/config.json.schema:85`).  A failed integrity check ends the command
  after it made its directory and before it pruned, each time
  (`LimitUpToFailures`).
* "a lexicographic sort gives chronological order" (`main.py:150-151`).  Names
  are local times, which repeat an hour when daylight saving ends
  (`ForwardOldestFirst`).
* Any failure of `GetFolder` reads as "no task" (`src/schedule/commands.py:197`):
  a removal may then report success while the task is registered
  (`RemovalExplained` says when).
* "A task that was never registered counts as success: purging twice [...] must
  stay a no-op" (`src/purge.py:91-95`).  That is so when the folder is gone.  With
  a folder left without the task, because deleting it failed, because somebody
  else's task was in it and was removed later, or after a kill, `DeleteTask`
  raises (`src/schedule/commands.py:201`) and the purge reports a failure although
  nothing failed; the folder stays.  `RemovalExplained` names this as the only
  error of a removal none of whose calls failed for another reason.
* Overlapping selections "are walked once, from the broadest root"
  (`tools/linkos_walk.py:445-446`).  With `--per-branch` this root gives way to
  its registered branches, so that a subtree asked for with `--root` below it is
  not walked when it is none of them (`PlanIsBroadest` says exactly when).
* The advice for a stray task, `lpm schedule --remove`
  (`src/schedule/validate.py:38`), is refused when the config has no schedule
  section (`main.py:534`), which is one of the cases it is given in.
* `TERMINAL_TYPES` of `linkos_walk` names pysnmp's classes and is compared with
  rendered names (`tools/linkos_walk.py:652`), so `END_OF_MIB_VIEW` is never
  recognised; `SubtreesInOrder` holds all the same.
* `tools/snmpwalk.py:109` sends a plain GET of the OID it starts from, so the
  announced walk "using GETNEXT" (`tools/snmpwalk.py:100`) stops after one answer.
* `purge` creates the data root of a build before it removes it: importing
  `main.py` asks for it (`src/env.py:54`).
* Two collects that list the same expired log, or a collect beside a shell
  whose log has expired, raise in `_prune_logs` and collect nothing
  (`BlockedByShell` says when).

## Proofs

Every safety property that a run expects to hold, state invariant or action
property, is also a theorem, for all values of the constants that satisfy the
assumptions named in its module (of `PromptReturns` it is the safety part,
`ShellSurvives`).  Every proof has the same shape: an inductive invariant
`IInv`, defined in the component's module and checked by TLC on a run; one
lemma or step per action; the property from `IInv`, or from `IInv` and a step.

`CollectionProofs`, for any set of runs, any printer list, any number of
workers and any slot length: `TypeOK`, `OneRowPerSlot`, `SuccessHasRow`,
`SummaryAddsUp`, `HistoryOrdered`, `ScheduledHistoryGrows`, and that
`Collection` implements `SnapshotLog`.  The properties are not inductive as
they stand.  `IInv` adds:

* `LockInv`: who is between INSERT and COMMIT holds the write lock and knows
  whether its key is free.  Hence no other run commits in between, which is
  what `OneRowPerSlot` and `SuccessHasRow` need;
* `ReadingInv`, `RowInv`: an answer, and then a row, lies between the odometer
  when its run began and the odometer now, and its stamp between the slot the
  run began in and the present one;
* `EarlierInv`: rows of runs that were over when r began lie below r's start,
  which orders them against all r will write (`HistoryOrdered`);
* `SerialInv`: of two scheduled runs, one was over when the other began
  (IgnoreNew), which turns `HistoryOrdered` into `ScheduledHistoryGrows`;
* `Tally`: the two counters of `run_collection` are the numbers of futures
  taken, which gives `SummaryAddsUp` when all were taken.

Assumptions: printers have an address and a known-or-not model,
`MaxConcurrency` and `Interval` are positive (`max(1, ...)` in the code, 5 in
the code), `Null` is no number and `NoOne` no run.

`SnmpPollProofs`, for every `Retries` and every timeout: `TypeOK`,
`RequestBudget`, `MetricsInOrder`, `MissingMeansExhausted`, `MetersWhenUnitKnown`
and `WaitBound`.  `IInv` adds `ReadInv` and `PollInv`, which relate the requests
sent for each read to the two loop counters `attempt` and `try`, without which
the product bound of `RequestBudget` is not inductive; `MetersInv`, which says
which unit a length is in before and after the hook; and `WaitInv`, which bounds
the time of the reads, attempts and tries that are over, each with the sleep
after it, which is twice the one before.  It assumes only that `Null` is not a
unit.

`BackupProofs`, for any finite set of commands, any `Keep`, any faults and any
bounds: `TypeOK`, `NewestSurvive`, `ReadyHasCopy`, `LimitUpToFailures`,
`AloneBackupWhole` and `ForwardOldestFirst`.  The argument: what is to be
removed (`todo`) has `Keep` later names among all names ever made, and that
count only grows, so a listing may go stale without harm (`MadeInv`); a
directory that is not in excess is either an old one, untouched, or belongs to
a command whose `pc` says how far its copy is (`CopyInv`, which needs `RowsInv`
for commands that found no database); and names are times of creation as long
as the clock goes forward, so with a name all older directories are to be
removed too (`OrderInv`).  The limit is not inductive while listings overlap:
`LimitInv` states it for every set of the commands that are removing, as if
each of these had removed all it listed.  `QuietInv` says who may have left
rows in the log or a torn file, which is what a backup taken alone has to be
free of.

`ScheduleProofs`, for any set of processes, any configs and tasks found, and any
number of faults and commands: `SuccessMatches` (with the agreement of
`validate`), `LossNeedsTwoFailures`, `RemovalExplained` and `Converges`.
What a process knows of the task holds only until another one writes, hence the
history `disturbed` (a registration of the very same task disturbs nobody who
registers): `IInv` says for every process not in it what it may rely on
at each place (`Known`: after it found a task, one is there until it deletes it;
at `sweep` none is), and for every process what its place says of its command
and config (`Placed`).  `SettledOK` says that the config a registration was made
for still describes the task, from which a second registration of it is needless
unless a time is configured twice (`Converges`).  The assumptions are those on
the constants: configs and tasks have their fields, the running executable is
runnable.

`ShellProofs`, for any set of processes, any selections to purge, any number of
commands and any depth of shells: `TypeOK` with `TreeClosed`, `SuccessMeans`,
`NothingLostUnasked`, `BlockedByShell` and `ShellSurvives`.  `IInv` adds `PlaceInv`
(a process is at a place of its command, in a build where that place is
reached, and what it still has to purge was asked for), `HeldInv` (a file that
is held open is there, so that no deletion pulls it away from its writer; the
database is never torn), and `AloneInv`, which says for a command that no other
has interfered with what it has achieved at each place, of the schema only when
`fresh`: it is what `SuccessMeans` says at the last of them.  `ShellSurvives` needs
that a process that is off has no shell and no handler left.  Nothing is assumed of the processes;
selections are of the four targets.

`WalkProofs`, for any command lines, groups, branch tables, targets, hosts and
permits: `TypeOK` with `PermitsKept`, `OidsOnceInOrder`, `RootsReported`,
`HeaderHonest` and `PlanIsBroadest`.  `HeaderInv` says what session and report
show at each place of a task, `TimeoutsInv` that the counter of timeouts counts
the last reports without an answer, and `RowsInv` that what has been kept of
the subtree being walked lies in it.  That no OID is reported twice follows
from the plan: `Kept` is proved equal to its definition (the loop over the
sorted roots, by induction on the loop), so two subtrees of it are disjoint.
Assumed: roots are sequences of numbers, finitely many, and an agent's OIDs are
sequences of numbers too.

`WeeklyReportProofs`, for any finite set of printers, any rows, any resets, any
overlap of the runs of collect, and days of any length: `TypeOK`, `LinesExact`, `RowsOfTheRange`, `WeekDated` and
`NothingOvercounted`.  `TableInv` is the key of the table and, while no
odometer went back and no printer had two answers in flight (`disturbed`), the order
of its counts; `AnswersInv` is the same for the answers that are not saved yet,
without which that order is not inductive; `ReadInv` what has been read when (all that the table held of a printer
when the report began, of printers in the range and no others), `LineInv` that
every line has a row, and the lines are exact so far.  `LinesExact` is about a
fold over rows in the order of time: for each beginning of them, a week's
entry has the count of the first and of the last of its rows so far.
`NothingOvercounted` is about sums: the lines of a printer are spans of a count
that does not fall, in weeks of their own, so each begins where an earlier one,
at most, has ended, and they add up to no more than the last count.  It is about
histories that are not `disturbed`: of two runs that overlap, one may save the
older count under the later stamp, and the week is negative although no odometer
went back (TLC finds it when that condition is dropped).  Assumed of
the zone: it is less than a day from UTC, and its days differ from `DayHours` by
an hour at most.

Induction.  The library's induction theorems take an operator as a parameter,
which the provers cannot instantiate.  `Facts` states what is needed with a set
in the predicate's place (`FromZeroOn`, `FromEmptyOn`, from the least element of
a set of numbers), and from it that a fold over a finite set exists, that the
choice of rank i orders a set, and that a sum over a finite set does not depend
on the order of its terms.

Only model-checked: liveness (`Terminates`, `RunsSettle`, `WalkEnds`, and
`CommandsEnd` of `PromptReturns`), which rests on fairness and is out of the
provers' reach.

## Plan

The safety properties of all runs are proved.  What is left, by what it would
add:

1. The components' promises as abstract specifications of their own, as
   `SnapshotLog` is for the stored data: a set of backups that only gains its
   newest and loses its oldest member, a task that is there or not, a report
   that is a function of the rows it has seen.  Their refinement is within
   reach of the invariants proved.
2. What `Shell` takes of a collect as one step, as a lemma between `Shell` and
   `Collection`.

## Not modelled

* Pure code or I/O without a state to keep: the prefix lookup of the adapter
  registry, the parsing of values, argument parsing, printing, table and CSV
  layout, the strings of paths, `validate_network` (which only reads).
* Code without a caller among the commands: `get_bulk`, `get_multiple`,
  `is_reachable`, the query helpers of `src/db.py` that only tests use.
* A library's: JSON Schema evaluation, SNMP itself, SQLite but for its lock and
  its log, the Task Scheduler but for what a call does.
* `tools/snmpget.py` and `tools/snmpwalk.py`, one request each; the rendering
  and the JSON and CSV output of `linkos_walk`.
* `installer/lpm.nsi`, which runs on a machine of its own in an installer's
  language and calls `lpm purge`; build and development scripts; the tests.
* The copies of config and schema in a backup, automatic checkpoints of a long
  log, disks that fill up in the middle of a backup.

What the properties do not say:

* `SuccessMeans` says nothing of the schema's age when the shipped one could not
  be read: `_refresh_schema_copy` then does nothing (`main.py:98-99`), as its
  test asks, and `init` and `validate` may succeed over an older copy.  Nor does
  it speak of an `init` that finds a config, which exits with 0 and leaves even
  a torn one as it is.
* `NewestSurvive` is about names, which are times only while the clock goes
  forward (`ForwardOldestFirst`).
* `NothingLostUnasked` is about files that go, not about what is written over;
  `BlockedByShell` about logs that are held, not about the lines that repeat in
  them.
* `WeekDated` is checked in a zone west of UTC; its proof is for any.
* A `--max-oids` of 0 or less, which argparse accepts, is excluded by the
  assumption of `Walk`.

Two hazards have no property because the code promises nothing there: a
reachable printer without any counter takes its slot with an empty row
(`src/db.py:92`), and two commands of one second share a backup directory
(`main.py:208`).  A third, a task that somebody disabled by hand, is outside
the model of the service (`src/schedule/__init__.py:67`), and two are about
wording or options only (`src/schedule/validate.py:38`,
`tools/linkos_walk.py:744`).
