------------------------------- MODULE Backup -------------------------------
(***************************************************************************)
(* backup_data() and _prune_backups() of main.py, run by every "lpm        *)
(* collect" and "lpm report" before anything else, and what the commands   *)
(* do to the database file meanwhile.  Commands are processes: they        *)
(* interleave, fail and are killed at any point.                           *)
(*                                                                         *)
(* The database is in WAL mode: committed rows are in the main file or     *)
(* still in the log beside it; the last connection to close moves them     *)
(* into the main file, and only the main file is copied.  A backup is its  *)
(* directory, named by the second of the local clock, and the state of     *)
(* the database copy in it.                                                *)
(***************************************************************************)
EXTENDS Integers, FiniteSets

CONSTANTS
  Procs,        (* the commands                                              *)
  Collectors,   (* those that write rows ("lpm collect")                     *)
  Keep,         (* backups.keep of config.json                               *)
  Faults,       (* what may go wrong, of AllFaults                           *)
  Start,        (* the clock at first; older backups have earlier names      *)
  MaxNow,       (* bound on the clock                                        *)
  MaxRows       (* bound on the rows ever committed                          *)

AllFaults == {"kill",      \* the process dies
              "corrupt",   \* the integrity check fails
              "io",        \* rmtree fails halfway (a file is in use)
              "clock"}     \* the local clock is set back

ASSUME ProcsAssumption == IsFiniteSet(Procs) /\ Collectors \subseteq Procs
ASSUME FaultsAssumption == Faults \subseteq AllFaults
ASSUME KeepAssumption == Keep \in Nat \ {0}     \* "minimum": 1 in the schema
ASSUME BoundsAssumption == /\ Start \in Nat /\ MaxNow \in Nat /\ MaxRows \in Nat
                           /\ Start <= MaxNow

VARIABLES
  now,          (* the local clock, in seconds                               *)
  dirs,         (* names of the directories in data/backups                  *)
  copy,         (* of each name: the database copy in that directory         *)
  file,         (* the main database file: "absent", "whole" or "torn"       *)
  rows, wal,    (* committed rows in the main file, and in the log           *)
  pc,           (* where each command is                                     *)
  name,         (* the backup it makes                                       *)
  todo,         (* the backups it has still to remove                        *)
  taint,        (* was the file torn while it was being copied?              *)
  truth,        (* history: the clock as if it had never been set back       *)
  born,         (* history: the true time each directory was last stamped    *)
  made,         (* history: names of all backups there ever were             *)
  base,         (* history: rows committed when the command began            *)
  alone         (* history: did nothing overlap or precede it badly?         *)

clock    == <<now, truth>>
store    == <<dirs, copy, born, made>>
database == <<file, rows, wal>>
command  == <<name, todo, taint, base, alone>>
vars     == <<clock, store, database, pc, command>>

Names == 0..MaxNow
Copy(state, n) == [state |-> state, rows |-> n]

Copying   == {"named", "verifying", "copying"}
Pruning   == {"copied", "pruning"}
Backed    == {"ready", "open", "closing", "done"}
Over      == {"done", "failed"}
Live      == Copying \union Pruning \union (Backed \ Over)
Connected == {p \in Procs : pc[p] \in {"open", "closing"}}
Readers   == {p \in Procs : pc[p] = "verifying"}
Closing   == \E p \in Procs : pc[p] = "closing"

Forward == now = truth     \* the clock was never set back

Go(p, place) == pc' = [pc EXCEPT ![p] = place]
-----------------------------------------------------------------------------
Init ==
  /\ now = Start /\ truth = Start
  /\ dirs \in {old \in SUBSET (0..(Start - 1)) : Cardinality(old) <= Keep}
  /\ copy = [n \in Names |-> Copy("whole", 0)]
  /\ born = [n \in Names |-> n]
  /\ made = dirs
  /\ file \in {"absent", "whole"}
  /\ rows = 0 /\ wal = 0
  /\ pc = [p \in Procs |-> "idle"]
  /\ name = [p \in Procs |-> 0]
  /\ todo = [p \in Procs |-> {}]
  /\ taint = [p \in Procs |-> FALSE]
  /\ base = [p \in Procs |-> 0]
  /\ alone = [p \in Procs |-> FALSE]

Tick ==
  /\ now < MaxNow
  /\ now' = now + 1 /\ truth' = truth + 1
  /\ UNCHANGED <<store, database, pc, command>>

(* The end of daylight saving time, or a correction (bound: once).         *)
SetBack ==
  /\ "clock" \in Faults /\ Forward
  /\ now' \in 0..(now - 1)
  /\ truth' = truth + 1
  /\ UNCHANGED <<store, database, pc, command>>
-----------------------------------------------------------------------------
(* makedirs(exist_ok=True) and the copies of config and schema.            *)
Stamp(p) ==
  /\ pc[p] = "idle"
  /\ Go(p, "named")
  /\ name' = [name EXCEPT ![p] = now]
  /\ dirs' = dirs \union {now}
  /\ copy' = IF now \in dirs THEN copy ELSE [copy EXCEPT ![now] = Copy("none", 0)]
  /\ born' = [born EXCEPT ![now] = truth]
  /\ made' = made \union {now}
  /\ base' = [base EXCEPT ![p] = rows + wal]
  /\ alone' = [q \in Procs |-> IF q = p THEN \A r \in Procs \ {p} : pc[r] \in {"idle", "done"}
                               ELSE alone[q] /\ pc[q] \notin Copying]
  /\ UNCHANGED <<clock, database, todo, taint>>

(* Nothing collected yet: there is no file to copy.                        *)
NoDatabase(p) ==
  /\ pc[p] = "named" /\ file = "absent"
  /\ Go(p, "copied")
  /\ UNCHANGED <<clock, store, database, command>>

(* _verify_db reads file and log through a connection of its own.          *)
Verify(p) ==
  /\ pc[p] = "named" /\ file # "absent" /\ ~Closing
  /\ Go(p, "verifying")
  /\ UNCHANGED <<clock, store, database, command>>

(* SystemExit: the directory stays behind and nothing is pruned.           *)
VerifyFails(p) ==
  /\ "corrupt" \in Faults
  /\ pc[p] = "verifying"
  /\ Go(p, "failed")
  /\ UNCHANGED <<clock, store, database, command>>

(* It says "ok", and copy2 opens the target, which truncates it ...        *)
CopyBegins(p) ==
  /\ pc[p] = "verifying" /\ name[p] \in dirs
  /\ Go(p, "copying")
  /\ copy' = [copy EXCEPT ![name[p]] = Copy("partial", 0)]
  /\ taint' = [taint EXCEPT ![p] = file = "torn"]
  /\ UNCHANGED <<clock, dirs, born, made, database, name, todo, base, alone>>

\* Bug: the error of a copy whose directory is gone is suppressed.
Bug_CopyUnchecked(p) ==
  /\ pc[p] = "copying"
  /\ Go(p, "copied")
  /\ UNCHANGED <<clock, store, database, command>>

(* ... and reads what checkpoints leave of the main file meanwhile.        *)
CopyEnds(p) ==
  /\ pc[p] = "copying" /\ name[p] \in dirs
  /\ Go(p, "copied")
  /\ copy' = [copy EXCEPT ![name[p]] = Copy(IF taint[p] THEN "torn" ELSE "whole", rows)]
  /\ UNCHANGED <<clock, dirs, born, made, database, command>>

(* The directory was pruned by another command.                            *)
CopyFails(p) ==
  /\ pc[p] \in {"verifying", "copying"} /\ name[p] \notin dirs
  /\ Go(p, "failed")
  /\ UNCHANGED <<clock, store, database, command>>
-----------------------------------------------------------------------------
(* entries[:excess] of the sorted listing: all but the Keep last names.    *)
\* Bugs: excess is one too large, or one too small.
Bug_KeepOneLess(listing) == {n \in listing : Cardinality({m \in listing : m > n}) >= Keep - 1}
Bug_KeepOneMore(listing) == {n \in listing : Cardinality({m \in listing : m > n}) > Keep}
Excess(listing) == {n \in listing : Cardinality({m \in listing : m > n}) >= Keep}

ListBackups(p) ==
  /\ pc[p] = "copied"
  /\ Go(p, "pruning")
  /\ todo' = [todo EXCEPT ![p] = Excess(dirs)]
  /\ UNCHANGED <<clock, store, database, name, taint, base, alone>>

\* Bug: sorted(..., reverse=True).
Bug_NewestFirst(p) == IF todo[p] = {} THEN {} ELSE {CHOOSE n \in todo[p] : \A m \in todo[p] : n >= m}
Oldest(p) == {n \in todo[p] : \A m \in todo[p] : n <= m}

Remove(p) ==
  /\ pc[p] = "pruning"
  /\ \E n \in Oldest(p) \intersect dirs :
       /\ dirs' = dirs \ {n}
       /\ todo' = [todo EXCEPT ![p] = @ \ {n}]
  /\ UNCHANGED <<clock, copy, born, made, database, pc, name, taint, base, alone>>

(* Another command was faster: FileNotFoundError ends this one.            *)
RemoveMissing(p) ==
  /\ pc[p] = "pruning"
  /\ \E n \in Oldest(p) : n \notin dirs
  /\ Go(p, "failed")
  /\ UNCHANGED <<clock, store, database, command>>

RemoveFails(p) ==
  /\ "io" \in Faults
  /\ pc[p] = "pruning"
  /\ \E n \in Oldest(p) \intersect dirs : copy' = [copy EXCEPT ![n] = Copy("partial", 0)]
  /\ Go(p, "failed")
  /\ UNCHANGED <<clock, dirs, born, made, database, command>>

Pruned(p) ==
  /\ pc[p] = "pruning" /\ todo[p] = {}
  /\ Go(p, "ready")
  /\ UNCHANGED <<clock, store, database, command>>
-----------------------------------------------------------------------------
(* What the command then does to the database: init_db, the inserts of a   *)
(* collection, and close_db, which checkpoints when nobody else is there.  *)
Open(p) ==
  /\ pc[p] = "ready" /\ ~Closing
  /\ Go(p, "open")
  /\ file' = IF file = "absent" THEN "whole" ELSE file
  /\ UNCHANGED <<clock, store, rows, wal, command>>

Commit(p) ==
  /\ pc[p] = "open" /\ p \in Collectors /\ ~Closing
  /\ rows + wal < MaxRows
  /\ wal' = wal + 1
  /\ UNCHANGED <<clock, store, file, rows, pc, command>>

\* Bug: the connection is leaked and never checkpoints.
Bug_LeftOpen(p) ==
  /\ pc[p] = "open" /\ ~Closing
  /\ Go(p, "done")
  /\ UNCHANGED <<clock, store, database, command>>

Close(p) ==
  /\ pc[p] = "open" /\ ~Closing
  /\ IF wal > 0 /\ Connected = {p} /\ Readers = {}
     THEN /\ Go(p, "closing")
          /\ file' = "torn"
          /\ taint' = [q \in Procs |-> taint[q] \/ pc[q] = "copying"]
     ELSE Go(p, "done") /\ UNCHANGED <<file, taint>>
  /\ UNCHANGED <<clock, store, rows, wal, name, todo, base, alone>>

Checkpointed(p) ==
  /\ pc[p] = "closing"
  /\ Go(p, "done")
  /\ file' = "whole"
  /\ rows' = rows + wal /\ wal' = 0
  /\ UNCHANGED <<clock, store, command>>

(* The log survives a crash; a main file half checkpointed stays so until  *)
(* the next checkpoint.                                                    *)
Kill(p) ==
  /\ "kill" \in Faults
  /\ pc[p] \in Live
  /\ Go(p, "failed")
  /\ UNCHANGED <<clock, store, database, command>>
-----------------------------------------------------------------------------
BackupStep(p) ==
  \/ Stamp(p) \/ NoDatabase(p) \/ Verify(p) \/ VerifyFails(p)
  \/ CopyBegins(p) \/ CopyEnds(p) \/ CopyFails(p)
  \/ ListBackups(p) \/ Remove(p) \/ RemoveMissing(p) \/ RemoveFails(p) \/ Pruned(p)

DatabaseStep(p) == Open(p) \/ Commit(p) \/ Close(p) \/ Checkpointed(p)

Next == Tick \/ SetBack \/ \E p \in Procs : BackupStep(p) \/ DatabaseStep(p) \/ Kill(p)

Spec == Init /\ [][Next]_vars
-----------------------------------------------------------------------------
TypeOK ==
  /\ now \in Names /\ truth \in Nat
  /\ dirs \in SUBSET Names
  /\ copy \in [Names -> [state : {"none", "partial", "whole", "torn"}, rows : Nat]]
  /\ born \in [Names -> Nat]
  /\ made \in SUBSET Names
  /\ file \in {"absent", "whole", "torn"}
  /\ rows \in Nat /\ wal \in Nat /\ rows + wal <= MaxRows
  /\ pc \in [Procs -> {"idle"} \union Copying \union Pruning \union Backed \union Over]
  /\ name \in [Procs -> Names]
  /\ todo \in [Procs -> SUBSET Names]
  /\ taint \in [Procs -> BOOLEAN]
  /\ base \in [Procs -> Nat]
  /\ alone \in [Procs -> BOOLEAN]

Newer(n) == {m \in made : m > n}
Own(p) == \A q \in Procs \ {p} : pc[q] # "idle" => name[q] # name[p]
Kept(p) == Own(p) /\ Cardinality(Newer(name[p])) < Keep
Shown(p) == copy[name[p]]

(* Whatever listings the commands prune from, a backup is only ever        *)
(* removed when at least Keep later ones were made.                        *)
NewestSurvive == \A n \in made \ dirs : Cardinality(Newer(n)) >= Keep

(* A command that got past backup_data has its directory, and in it a      *)
(* finished copy of the database if anything had been committed, unless    *)
(* another command of the same second shares the directory or Keep later   *)
(* backups were made.                                                      *)
ReadyHasCopy ==
  \A p \in Procs : pc[p] \in Backed /\ Kept(p) =>
    /\ name[p] \in dirs
    /\ Shown(p).state \in {"whole", "torn"} \/ (Shown(p).state = "none" /\ base[p] = 0)

(* The limit on backups can be exceeded only by as many as there were      *)
(* commands that did not get through.                                      *)
LimitUpToFailures ==
  (\A p \in Procs : pc[p] \notin Copying \union Pruning) =>
    Cardinality(dirs) <= Keep + Cardinality({p \in Procs : pc[p] = "failed"})

(* A command that overlaps with no other until its copy is made, and comes *)
(* after commands that all ended well, has every committed row in it.      *)
AloneBackupWhole ==
  \A p \in Procs : alone[p] /\ pc[p] \in Pruning \union {"ready"} /\ Kept(p) =>
    Shown(p) = Copy("whole", base[p]) \/ Shown(p) = Copy("none", base[p])

(* As long as the clock only went forward, pruning removes the oldest:     *)
(* nothing that stays is older than what goes, whoever removes it.         *)
ForwardOldestFirst ==
  [][Forward => \A n \in dirs \ dirs', m \in dirs \intersect dirs' : born[n] <= born[m]]_vars

(* What backup_data says of itself: "Snapshot config + db into             *)
(* data/backups/<timestamp>/ before a run": a finished copy has the rows   *)
(* that were committed when its command began.                             *)
BackupHasCommitted ==
  \A p \in Procs : pc[p] \in Pruning \union {"ready"} /\ Kept(p) =>
    Shown(p).rows >= base[p]
-----------------------------------------------------------------------------
(* The inductive invariant of the proofs.                                  *)
MadeInv ==
  /\ dirs \subseteq made
  /\ \A p \in Procs : pc[p] # "idle" => name[p] \in made
  /\ \A p \in Procs : \A n \in todo[p] : Cardinality(Newer(n)) >= Keep
  /\ NewestSurvive

RowsInv ==
  /\ file = "absent" => rows + wal = 0 /\ Connected = {}
  /\ \A p \in Procs : base[p] <= rows + wal

(* Rows left in the log, and a file left torn, have a command that is not  *)
(* through; one that is alone and still copies has nothing of either.      *)
QuietInv ==
  /\ wal > 0 => \E p \in Procs : pc[p] \notin {"idle", "done"}
  /\ file = "torn" => \E p \in Procs : pc[p] \in {"closing", "failed"}
  /\ \A p \in Procs : alone[p] /\ pc[p] \in Copying =>
       /\ \A q \in Procs \ {p} : pc[q] \in {"idle", "done"}
       /\ wal = 0 /\ rows = base[p]
       /\ pc[p] = "copying" => ~taint[p]

(* What is in the directories that may not be pruned yet: older ones are   *)
(* untouched, and those of the running commands are as far as they are.    *)
Foreign(n) == \A p \in Procs : pc[p] # "idle" => name[p] # n

CopyInv ==
  /\ \A n \in dirs :
       Foreign(n) /\ Cardinality(Newer(n)) < Keep => copy[n] = Copy("whole", 0)
  /\ \A p \in Procs : Kept(p) =>
       /\ pc[p] \in {"named", "verifying"} => Shown(p) \in {Copy("none", 0), Copy("whole", 0)}
       /\ pc[p] \in Pruning \union Backed =>
            Shown(p).state \in {"whole", "torn"} \/ (Shown(p).state = "none" /\ base[p] = 0)
  /\ AloneBackupWhole

(* However many listings are being pruned from, what none of them lists is *)
(* within the limit, but for one directory per command not through yet.    *)
Holding == {p \in Procs : pc[p] \in Copying \union Pruning \union {"failed"}}
Pruners == {p \in Procs : pc[p] = "pruning"}
Listed(S) == UNION {todo[p] : p \in S}

LimitInv ==
  \A S \in SUBSET Pruners :
    Cardinality(dirs \ Listed(S)) <= Keep + Cardinality(Holding \ S)

(* While the clock only goes forward: names are the times of creation, and *)
(* a backup older than one to be removed is to be removed as well.         *)
OrderInv ==
  Forward =>
    /\ \A n \in made : n <= now /\ born[n] = n
    /\ \A p \in Procs : \A n \in todo[p] :
         n <= now /\ \A m \in dirs : m < n => m \in todo[p]

IInv ==
  TypeOK /\ MadeInv /\ RowsInv /\ QuietInv /\ CopyInv /\ LimitInv /\ OrderInv
=============================================================================
