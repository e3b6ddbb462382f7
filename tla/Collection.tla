----------------------------- MODULE Collection -----------------------------
(***************************************************************************)
(* "lpm collect": run_collection() of main.py with db.save_snapshot().     *)
(* Several runs, each a process of its own, poll the configured printers   *)
(* from a pool of worker threads; the main thread of each run takes the    *)
(* finished polls in any order and inserts one row per answer into the     *)
(* SQLite database they all share.  Runs can be killed, the database can   *)
(* be locked or fail, printers keep printing and the clock goes on.        *)
(*                                                                         *)
(* A poll (module SnmpPoll) is here its start and its outcome.  The two    *)
(* counters of a row are one value; the 5 minutes of _round_timestamp are  *)
(* Interval ticks of the clock.                                            *)
(***************************************************************************)
EXTENDS Integers, Sequences, FiniteSets

CONSTANTS
  Runs,             (* invocations of "lpm collect"                          *)
  Scheduled,        (* those started by the scheduled task                   *)
  Dry,              (* those given --dry                                     *)
  Ips,              (* printer addresses                                     *)
  Printers,         (* config["printers"], in order: address, known model?   *)
  MaxConcurrency,   (* collection.max_concurrency                            *)
  Interval,         (* length of a time slot                                 *)
  MaxNow,           (* bound on the clock                                    *)
  MaxCount,         (* bound on each odometer                                *)
  Null,             (* a counter that could not be read                      *)
  NoOne             (* no run holds the write lock                           *)

ASSUME RunsAssumption == /\ Scheduled \subseteq Runs
                         /\ Dry \subseteq Runs
                         /\ NoOne \notin Runs
ASSUME PrintersAssumption == Printers \in Seq([ip : Ips, known : BOOLEAN])
ASSUME NumbersAssumption == /\ MaxConcurrency \in Nat \ {0}
                            /\ Interval \in Nat \ {0}
                            /\ MaxNow \in Nat /\ MaxCount \in Nat
ASSUME NullAssumption == Null \notin Nat

VARIABLES
  now,              (* the wall clock                                        *)
  counter,          (* what each printer's odometer shows                    *)
  table,            (* the committed rows of the snapshots table             *)
  writer,           (* the run whose transaction holds the write lock        *)
  main,             (* where the main thread of each run is                  *)
  task,             (* state of each printer's future, per run               *)
  reading,          (* the counter its poll returned                         *)
  current,          (* the printer whose answer the main thread is saving    *)
  fresh,            (* did its INSERT OR IGNORE find the key free?           *)
  stamp,            (* the rounded timestamp it saved each answer under      *)
  success, fail,    (* the two tallies of run_collection                     *)
  began, floor,     (* history: clock and odometers when the run began       *)
  earlier           (* history: the runs that were over by then              *)

world == <<now, counter>>
pool  == <<task, reading>>
book  == <<current, fresh, stamp, success, fail>>
past  == <<began, floor, earlier>>
vars  == <<world, table, writer, main, pool, book, past>>

Entries == 1..Len(Printers)
Ip(e) == Printers[e].ip
Slot(t) == t - (t % Interval)               \* _round_timestamp

Over == {"done", "failed", "killed"}
Pooled == {"collecting", "saving", "inserted", "aborting"}
Ended == {r \in Runs : main[r] \in Over}
With(r, status) == {e \in Entries : task[r][e] = status}
-----------------------------------------------------------------------------
Init ==
  /\ now = 0
  /\ counter = [ip \in Ips |-> 0]
  /\ table = {}
  /\ writer = NoOne
  /\ main = [r \in Runs |-> "idle"]
  /\ task = [r \in Runs |-> [e \in Entries |-> "queued"]]
  /\ reading = [r \in Runs |-> [e \in Entries |-> Null]]
  /\ current = [r \in Runs |-> 1]
  /\ fresh = [r \in Runs |-> FALSE]
  /\ stamp = [r \in Runs |-> [e \in Entries |-> 0]]
  /\ success = [r \in Runs |-> 0]
  /\ fail = [r \in Runs |-> 0]
  /\ began = [r \in Runs |-> 0]
  /\ floor = [r \in Runs |-> counter]
  /\ earlier = [r \in Runs |-> {}]

Tick ==
  /\ now < MaxNow
  /\ now' = now + 1
  /\ UNCHANGED <<counter, table, writer, main, pool, book, past>>

PrintLabel(ip) ==
  /\ counter[ip] < MaxCount
  /\ counter' = [counter EXCEPT ![ip] = @ + 1]
  /\ UNCHANGED <<now, table, writer, main, pool, book, past>>
-----------------------------------------------------------------------------
\* Bug: MultipleInstancesPolicy is Parallel.
Bug_ParallelInstances(r) ==
  /\ main[r] = "idle"
  /\ main' = [main EXCEPT ![r] = "opening"]
  /\ began' = [began EXCEPT ![r] = now]
  /\ floor' = [floor EXCEPT ![r] = counter]
  /\ earlier' = [earlier EXCEPT ![r] = Ended]
  /\ UNCHANGED <<world, table, writer, pool, book>>

(* The process of a run starts.  The task's MultipleInstancesPolicy is     *)
(* IgnoreNew, so no scheduled run starts while another is alive; a run     *)
(* from the command line starts at any time.                               *)
Begin(r) ==
  /\ main[r] = "idle"
  /\ r \in Scheduled => \A other \in Scheduled : main[other] \in {"idle"} \union Over
  /\ main' = [main EXCEPT ![r] = "opening"]
  /\ began' = [began EXCEPT ![r] = now]
  /\ floor' = [floor EXCEPT ![r] = counter]
  /\ earlier' = [earlier EXCEPT ![r] = Ended]
  /\ UNCHANGED <<world, table, writer, pool, book>>

(* init_db, unless --dry, and the submission of every printer.             *)
Submit(r) ==
  /\ main[r] = "opening"
  /\ main' = [main EXCEPT ![r] = "collecting"]
  /\ UNCHANGED <<world, table, writer, pool, book, past>>

(* init_db raises: nothing is polled.                                      *)
OpenFails(r) ==
  /\ main[r] = "opening" /\ r \notin Dry
  /\ main' = [main EXCEPT ![r] = "failed"]
  /\ UNCHANGED <<world, table, writer, pool, book, past>>

(* A free worker takes the first queued printer; create_adapter raises     *)
(* ValueError at once for a model it does not know.                        *)
StartPoll(r, e) ==
  /\ main[r] \in Pooled
  /\ task[r][e] = "queued"
  /\ \A d \in 1..(e - 1) : task[r][d] # "queued"
  /\ Cardinality(With(r, "polling")) < MaxConcurrency
  /\ task' = [task EXCEPT ![r][e] = IF Printers[e].known THEN "polling" ELSE "failed"]
  /\ UNCHANGED <<world, table, writer, main, reading, book, past>>

\* Bug: a late answer to an earlier request is taken for this one's.
Bug_LateAnswer(r, e) ==
  /\ main[r] \in Pooled
  /\ task[r][e] = "polling"
  /\ task' = [task EXCEPT ![r][e] = "answered"]
  /\ \E v \in 0..counter[Ip(e)] : reading' = [reading EXCEPT ![r][e] = v]
  /\ UNCHANGED <<world, table, writer, main, book, past>>

(* The printer answers with what its odometer shows now, or is reachable   *)
(* and yields no counter at all.                                           *)
Answer(r, e) ==
  /\ main[r] \in Pooled
  /\ task[r][e] = "polling"
  /\ task' = [task EXCEPT ![r][e] = "answered"]
  /\ \E v \in {counter[Ip(e)], Null} : reading' = [reading EXCEPT ![r][e] = v]
  /\ UNCHANGED <<world, table, writer, main, book, past>>

(* Unreachable, or an exception on the way: collect_printer returns None.  *)
NoAnswer(r, e) ==
  /\ main[r] \in Pooled
  /\ task[r][e] = "polling"
  /\ task' = [task EXCEPT ![r][e] = "failed"]
  /\ UNCHANGED <<world, table, writer, main, reading, book, past>>
-----------------------------------------------------------------------------
\* Bug: one of the branches that end in continue does not tally.
Bug_FailureNotTallied(r, e) ==
  /\ main[r] = "collecting"
  /\ task[r][e] = "failed"
  /\ task' = [task EXCEPT ![r][e] = "missed"]
  /\ UNCHANGED <<world, table, writer, main, reading, book, past>>

(* The as_completed loop.  A failed future is tallied; an answer is too    *)
(* in a dry run, and is otherwise stamped with the time it is saved at.    *)
TakeFailure(r, e) ==
  /\ main[r] = "collecting"
  /\ task[r][e] = "failed"
  /\ task' = [task EXCEPT ![r][e] = "missed"]
  /\ fail' = [fail EXCEPT ![r] = @ + 1]
  /\ UNCHANGED <<world, table, writer, main, reading, current, fresh, stamp, success, past>>

TakeDry(r, e) ==
  /\ main[r] = "collecting" /\ r \in Dry
  /\ task[r][e] = "answered"
  /\ task' = [task EXCEPT ![r][e] = "counted"]
  /\ success' = [success EXCEPT ![r] = @ + 1]
  /\ UNCHANGED <<world, table, writer, main, reading, current, fresh, stamp, fail, past>>

TakeAnswer(r, e) ==
  /\ main[r] = "collecting" /\ r \notin Dry
  /\ task[r][e] = "answered"
  /\ main' = [main EXCEPT ![r] = "saving"]
  /\ current' = [current EXCEPT ![r] = e]
  /\ stamp' = [stamp EXCEPT ![r][e] = Slot(now)]
  /\ UNCHANGED <<world, table, writer, pool, fresh, success, fail, past>>

(* The row save_snapshot inserts for r, and whether its key is free.       *)
NewRow(r) == [ip |-> Ip(current[r]), ts |-> stamp[r][current[r]],
              val |-> reading[r][current[r]], by |-> r]
KeyFree(row) == \A old \in table : old.ip # row.ip \/ old.ts # row.ts

(* INSERT OR IGNORE opens a transaction: it needs the write lock, and      *)
(* raises "database is locked" when it waits too long for another run.     *)
Insert(r) ==
  /\ main[r] = "saving" /\ writer = NoOne
  /\ writer' = r
  /\ fresh' = [fresh EXCEPT ![r] = KeyFree(NewRow(r))]
  /\ main' = [main EXCEPT ![r] = "inserted"]
  /\ UNCHANGED <<world, table, pool, current, stamp, success, fail, past>>

Locked(r) ==
  /\ main[r] = "saving" /\ writer # NoOne
  /\ main' = [main EXCEPT ![r] = "aborting"]
  /\ UNCHANGED <<world, table, writer, pool, book, past>>

\* Bug: INSERT OR REPLACE.
Bug_InsertOrReplace(r) ==
  /\ main[r] = "inserted"
  /\ table' = {old \in table : old.ip # NewRow(r).ip \/ old.ts # NewRow(r).ts} \union {NewRow(r)}
  /\ writer' = NoOne
  /\ main' = [main EXCEPT ![r] = "collecting"]
  /\ task' = [task EXCEPT ![r][current[r]] = "counted"]
  /\ success' = [success EXCEPT ![r] = @ + 1]
  /\ UNCHANGED <<world, reading, current, fresh, stamp, fail, past>>

(* The row stays unless its key was taken; the answer counts as a success  *)
(* either way, since the result of save_snapshot is not looked at.         *)
Commit(r) ==
  /\ main[r] = "inserted"
  /\ table' = IF fresh[r] THEN table \union {NewRow(r)} ELSE table
  /\ writer' = NoOne
  /\ main' = [main EXCEPT ![r] = "collecting"]
  /\ task' = [task EXCEPT ![r][current[r]] = "counted"]
  /\ success' = [success EXCEPT ![r] = @ + 1]
  /\ UNCHANGED <<world, reading, current, fresh, stamp, fail, past>>

\* Bug: the error is logged and the answer counted all the same.
Bug_ErrorSwallowed(r) ==
  /\ main[r] = "inserted"
  /\ writer' = NoOne
  /\ main' = [main EXCEPT ![r] = "collecting"]
  /\ task' = [task EXCEPT ![r][current[r]] = "counted"]
  /\ success' = [success EXCEPT ![r] = @ + 1]
  /\ UNCHANGED <<world, table, reading, current, fresh, stamp, fail, past>>

(* sqlite3.Error on the way (disk full, I/O): rolled back and raised.      *)
SaveFails(r) ==
  /\ main[r] = "inserted"
  /\ writer' = NoOne
  /\ main' = [main EXCEPT ![r] = "aborting"]
  /\ UNCHANGED <<world, table, pool, book, past>>

(* as_completed is exhausted: close_db and the summary.                    *)
Finish(r) ==
  /\ main[r] = "collecting"
  /\ \A e \in Entries : task[r][e] \in {"counted", "missed"}
  /\ main' = [main EXCEPT ![r] = "done"]
  /\ UNCHANGED <<world, table, writer, pool, book, past>>

\* Bug: the exception waits for results that nobody takes any more.
Bug_AbortWaitsForResults(r) ==
  /\ main[r] = "aborting"
  /\ \A e \in Entries : task[r][e] \in {"counted", "missed"}
  /\ main' = [main EXCEPT ![r] = "failed"]
  /\ UNCHANGED <<world, table, writer, pool, book, past>>

(* The exception leaves the executor's with block only when every poll,    *)
(* the queued ones included, has run; their results are dropped.           *)
AbortEnds(r) ==
  /\ main[r] = "aborting"
  /\ \A e \in Entries : task[r][e] \notin {"queued", "polling"}
  /\ main' = [main EXCEPT ![r] = "failed"]
  /\ UNCHANGED <<world, table, writer, pool, book, past>>

(* The process dies; SQLite rolls an open transaction back.                *)
Kill(r) ==
  /\ main[r] \in {"opening"} \union Pooled
  /\ main' = [main EXCEPT ![r] = "killed"]
  /\ writer' = IF writer = r THEN NoOne ELSE writer
  /\ UNCHANGED <<world, table, pool, book, past>>
-----------------------------------------------------------------------------
Worker(r) == \E e \in Entries : StartPoll(r, e) \/ Answer(r, e) \/ NoAnswer(r, e)

Main(r) ==
  \/ Submit(r) \/ OpenFails(r)
  \/ \E e \in Entries : TakeFailure(r, e) \/ TakeDry(r, e) \/ TakeAnswer(r, e)
  \/ Insert(r) \/ Locked(r) \/ Commit(r) \/ SaveFails(r)
  \/ Finish(r) \/ AbortEnds(r)

Next ==
  \/ Tick
  \/ \E ip \in Ips : PrintLabel(ip)
  \/ \E r \in Runs : Begin(r) \/ Worker(r) \/ Main(r) \/ Kill(r)

(* Threads of a live process keep running: polls end (SnmpPoll), the pool  *)
(* hands out queued work, and a wait for the lock is bounded.  Nothing     *)
(* obliges a run to begin, a printer to print, or a process to be killed.  *)
Fairness == \A r \in Runs : WF_vars(Worker(r)) /\ WF_vars(Main(r))

Spec == Init /\ [][Next]_vars /\ Fairness
-----------------------------------------------------------------------------
Reading == Nat \union {Null}
Row == [ip : Ips, ts : Nat, val : Reading, by : Runs]

TypeOK ==
  /\ now \in Nat
  /\ counter \in [Ips -> Nat]
  /\ table \in SUBSET Row
  /\ writer \in Runs \union {NoOne}
  /\ main \in [Runs -> {"idle", "opening"} \union Pooled \union Over]
  /\ task \in [Runs -> [Entries -> {"queued", "polling", "answered", "failed", "counted", "missed"}]]
  /\ reading \in [Runs -> [Entries -> Reading]]
  /\ current \in [Runs -> Nat \ {0}]
  /\ fresh \in [Runs -> BOOLEAN]
  /\ stamp \in [Runs -> [Entries -> Nat]]
  /\ success \in [Runs -> Nat]
  /\ fail \in [Runs -> Nat]
  /\ began \in [Runs -> Nat]
  /\ floor \in [Runs -> [Ips -> Nat]]
  /\ earlier \in [Runs -> SUBSET Runs]

(* The inductive strengthening of the properties below.  What the main     *)
(* thread is saving is an answer under the slot of a time since the run    *)
(* began; a polled counter lies between the odometer at the beginning of   *)
(* the run and the odometer now; a transaction holds the lock and knows    *)
(* whether its key is free.                                                *)
SaveInv ==
  \A r \in Runs : main[r] \in {"saving", "inserted"} =>
    /\ r \notin Dry /\ current[r] \in Entries /\ task[r][current[r]] = "answered"
    /\ Slot(began[r]) <= stamp[r][current[r]] /\ stamp[r][current[r]] <= Slot(now)

Since(r, ip, v) == v # Null => floor[r][ip] <= v /\ v <= counter[ip]

ReadingInv ==
  \A r \in Runs, e \in Entries :
    /\ main[r] = "idle" => task[r][e] = "queued"
    /\ main[r] = "done" => task[r][e] \in {"counted", "missed"}
    /\ task[r][e] = "answered" => Since(r, Ip(e), reading[r][e])

LockInv ==
  \A r \in Runs : main[r] = "inserted" =>
    /\ writer = r
    /\ IF fresh[r] THEN KeyFree(NewRow(r))
       ELSE \E old \in table : old.ip = Ip(current[r]) /\ old.ts = stamp[r][current[r]]

(* Rows come from runs that have begun, whose time and odometers they lie  *)
(* above; those of the runs that were over when r began lie below r's.     *)
RowInv ==
  \A row \in table :
    /\ main[row.by] # "idle"
    /\ Slot(began[row.by]) <= row.ts /\ row.ts <= Slot(now)
    /\ Since(row.by, row.ip, row.val)

EarlierInv ==
  \A r \in Runs :
    /\ earlier[r] \subseteq Ended
    /\ began[r] <= now /\ \A ip \in Ips : floor[r][ip] <= counter[ip]
    /\ \A row \in table : row.by \in earlier[r] =>
         row.ts <= Slot(began[r]) /\ (row.val # Null => row.val <= floor[r][row.ip])

(* Of two scheduled runs, one was over when the other began.               *)
SerialInv ==
  \A r, x \in Scheduled : r # x /\ main[r] # "idle" /\ main[x] # "idle" =>
    r \in earlier[x] \/ x \in earlier[r]

(* A run that reports a summary accounts for every configured printer      *)
(* exactly once (run_collection returns success, fail and total).          *)
SummaryAddsUp == \A r \in Runs : main[r] = "done" => success[r] + fail[r] = Len(Printers)

(* PRIMARY KEY (printer_ip, timestamp): at most one row per printer and    *)
(* time slot, whoever writes.                                              *)
OneRowPerSlot == \A a, b \in table : a.ip = b.ip /\ a.ts = b.ts => a = b

(* Every printer a run counts as a success has a row for the slot it was   *)
(* saved in, although INSERT OR IGNORE may have dropped this run's own.    *)
SuccessHasRow ==
  \A r \in Runs \ Dry, e \in Entries : task[r][e] = "counted" =>
    \E row \in table : row.ip = Ip(e) /\ row.ts = stamp[r][e]

(* The counters of one printer never go back from a run to a later one:    *)
(* what compute_weekly() subtracts is never negative across runs that did  *)
(* not overlap.                                                            *)
HistoryOrdered ==
  \A a, b \in table : a.ip = b.ip /\ a.by \in earlier[b.by] =>
    /\ a.ts <= b.ts
    /\ a.val # Null /\ b.val # Null => a.val <= b.val

(* The scheduled task alone yields histories that only grow: rows of two   *)
(* different scheduled runs are in the order of their timestamps.          *)
ScheduledHistoryGrows ==
  \A a, b \in table :
    /\ a.by \in Scheduled /\ b.by \in Scheduled /\ a.by # b.by
    /\ a.ip = b.ip /\ a.ts < b.ts
    /\ a.val # Null /\ b.val # Null
    => a.val <= b.val

(* The tallies count what the main thread took, entry by entry.            *)
Tally ==
  \A r \in Runs : /\ success[r] = Cardinality(With(r, "counted"))
                  /\ fail[r] = Cardinality(With(r, "missed"))

(* All of it together: what CollectionProofs shows to be inductive.        *)
IInv ==
  /\ TypeOK /\ SaveInv /\ ReadingInv /\ LockInv /\ RowInv /\ EarlierInv /\ SerialInv
  /\ OneRowPerSlot /\ SuccessHasRow /\ Tally

(* Every run that begins ends, whatever the printers and the other runs    *)
(* do.                                                                     *)
EveryRunEnds == \A r \in Runs : main[r] = "opening" ~> main[r] \in Over

(* No answer is left hanging: it is counted, or its run ends without a     *)
(* summary.                                                                *)
AnswersSettled ==
  \A r \in Runs, e \in Entries :
    task[r][e] = "answered" ~> task[r][e] = "counted" \/ main[r] \in {"failed", "killed"}

(* Progress of lpm collect: every run ends and leaves no answer behind.    *)
RunsSettle ==
  /\ EveryRunEnds
  /\ AnswersSettled

(* The snapshots table is the log of SnapshotLog: the threads, the lock,   *)
(* the failures and the kills are invisible in it.                         *)
Life(r) == IF main[r] = "idle" THEN "new" ELSE IF main[r] \in Over THEN "closed" ELSE "open"

Log == INSTANCE SnapshotLog WITH rows <- table, life <- [r \in Runs |-> Life(r)]
LogSpec == Log!Spec
=============================================================================
