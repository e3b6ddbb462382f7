------------------------------ MODULE DataRoot ------------------------------
(***************************************************************************)
(* The data root (src/env.py) and the commands that build it, check it and *)
(* take it down: init, validate and report of main.py, run_purge of        *)
(* src/purge.py.  A command is a process that takes one file-system call   *)
(* after the other, so that two of them can interleave, and may raise at   *)
(* any of them.  What a file holds is kept as far as the commands tell it  *)
(* apart: absent, torn (truncated, not yet written), old (of an earlier    *)
(* release), new (as shipped, or an empty database), mine (edited, or with *)
(* rows).  As on Windows, a file that a process holds open is not deleted. *)
(***************************************************************************)
EXTENDS Integers, Sequences, FiniteSets, SequencesExt

CONSTANTS Procs,       \* the processes
          Selections   \* what purge may be asked to remove

ASSUME SelectionsAssumption ==
  Selections \subseteq SUBSET {"tasks", "config", "data", "logs"}

VARIABLES
  build,   \* "dev", "installed", "incomplete": a file that it shipped is gone,
           \*  or "misplaced": %LPM_HOME% is refused
  disk,    \* [tree: the directories, file: what they hold, logs: the run logs
           \*  by their time, extra: whether the root holds another file]
  proc,    \* [pc, cmd, todo, log, outcome, depth, handlers, fresh] of each
           \*  process; todo: the targets left to a purge, log: the run log
           \*  listed last, fresh: history, it read the schema of the build
  alone    \* history: no other process changed the disk since the command began

Targets == <<"config", "data", "logs">>
Dirs == {"root", "config", "data", "logs", "backups"}
Files == {"config", "example", "schema", "db"}
In(d) == CASE d = "config" -> {"config", "example", "schema"}
           [] d = "data" -> {"db"}
           [] d = "logs" -> {}

Plain(n) == [name |-> n, on |-> {}, dry |-> FALSE]
Commands ==
  {Plain("init"), Plain("validate"), Plain("report"), Plain("collect"),
   [name |-> "collect", on |-> {}, dry |-> TRUE]}
  \cup [name : {"purge"}, on : Selections, dry : BOOLEAN]

Exists(f) == disk.file[f] # "absent"
Whole(f) == disk.file[f] \notin {"absent", "torn"}

\* The directories with those above them; the repository is always there.
WithDirs(dirs) ==
  disk.tree \cup dirs \cup {"root"} \cup (IF "backups" \in dirs THEN {"data"} ELSE {})
\* config_dir(), and DATA_ROOT on import: only a build creates the root.
RootMade == IF build = "dev" THEN disk.tree ELSE WithDirs({})

Goto(p, step) == proc' = [proc EXCEPT ![p].pc = step]
End(p, how) == proc' = [proc EXCEPT ![p].pc = "done", ![p].outcome = how]

\* An exception, a refused lock or Ctrl+C ends the command.
Raise(p) == UNCHANGED disk /\ End(p, "failed")

\* The targets of a purge, in the order of Targets.
Only(d, on) == IF d \in on THEN <<d>> ELSE <<>>
Chosen(on) == Only("config", on) \o Only("data", on) \o Only("logs", on)

\* The first step of a command.
Begin(p, c) ==
  proc' = [proc EXCEPT ![p].cmd = c, ![p].outcome = "ok", ![p].fresh = FALSE,
    ![p].pc = IF c.name = "validate" THEN "schema" ELSE c.name,
    ![p].todo = Chosen(c.on)]
-----------------------------------------------------------------------------
(* Writing a file of the config directory: it is truncated, then written.  *)

Truncate(p, f, dirs, next) ==
  /\ disk' = [disk EXCEPT !.tree = dirs, !.file[f] = "torn"]
  /\ Goto(p, next)

Write(p, f, content) == disk' = [disk EXCEPT !.file[f] = content]

\* The files p holds open.
Held(p) == CASE proc[p].pc = "example2" -> {"example"}
             [] proc[p].pc = "schema2" -> {"schema"}
             [] proc[p].pc = "config2" -> {"config", "example"}
             [] proc[p].pc = "saving" -> {"db"}
             [] OTHER -> {}
Free(f) == \A p \in Procs : f \notin Held(p)
LogFree(l) == \A p \in Procs : ~Contains(proc[p].handlers, l)

(* lpm init                                                                *)

\* Both shipped files are in bundled_config_dir(): next to the exe of a build,
\* config_dir() otherwise.
Shipped == IF build = "dev" THEN Exists("example") /\ Exists("schema")
                            ELSE build # "incomplete"

InitChecks(p) ==
  /\ proc[p].pc = "init"
  /\ \/ /\ Exists("config")
        /\ disk' = [disk EXCEPT !.tree = RootMade]
        /\ End(p, "kept")
     \/ /\ ~Exists("config") /\ ~Shipped
        /\ disk' = [disk EXCEPT !.tree = WithDirs({"config"})]
        /\ End(p, "missing")
     \/ /\ ~Exists("config") /\ Shipped
        /\ disk' = [disk EXCEPT !.tree = WithDirs({"config"})]
        /\ Goto(p, IF build = "dev" THEN "config" ELSE "example")

CopyExample(p) ==
  \/ /\ proc[p].pc = "example" /\ "config" \in disk.tree
     /\ Truncate(p, "example", disk.tree, "example2")
  \/ proc[p].pc = "example" /\ "config" \notin disk.tree /\ Raise(p)
  \/ /\ proc[p].pc = "example2"
     /\ Write(p, "example", "new") /\ Goto(p, "schema")

AfterSchema(p) == IF proc[p].cmd.name = "init" THEN "config" ELSE "load"

\* Nothing is written: the schema of the build is in place, or cannot be read.
SchemaLeft == disk' = [disk EXCEPT !.tree = RootMade]

\* A plausible bug: a copy that is there is taken to be current.
Bug_CopyKept(p) ==
  \/ /\ proc[p].pc = "schema"
     /\ SchemaLeft /\ Goto(p, AfterSchema(p))
  \/ /\ proc[p].pc = "schema" /\ build # "dev"
     /\ IF Exists("schema")
        THEN /\ SchemaLeft
             /\ proc' = [proc EXCEPT ![p].pc = AfterSchema(p), ![p].fresh = TRUE]
        ELSE /\ disk' = [disk EXCEPT !.tree = WithDirs({"config"}), !.file["schema"] = "torn"]
             /\ proc' = [proc EXCEPT ![p].pc = "schema2", ![p].fresh = TRUE]
  \/ /\ proc[p].pc = "schema2"
     /\ Write(p, "schema", "new") /\ Goto(p, AfterSchema(p))

\* _refresh_schema_copy: in the repository, and when the schema of the build is
\* missing or unreadable, it does nothing and the command goes on; the copy is
\* rewritten when its bytes differ.
RefreshSchema(p) ==
  \/ /\ proc[p].pc = "schema"
     /\ SchemaLeft /\ Goto(p, AfterSchema(p))
  \/ /\ proc[p].pc = "schema" /\ build # "dev"
     /\ IF disk.file["schema"] = "new"
        THEN /\ SchemaLeft
             /\ proc' = [proc EXCEPT ![p].pc = AfterSchema(p), ![p].fresh = TRUE]
        ELSE /\ disk' = [disk EXCEPT !.tree = WithDirs({"config"}), !.file["schema"] = "torn"]
             /\ proc' = [proc EXCEPT ![p].pc = "schema2", ![p].fresh = TRUE]
  \/ /\ proc[p].pc = "schema2"
     /\ Write(p, "schema", "new") /\ Goto(p, AfterSchema(p))

\* The config is a copy of whatever the example holds.
CopyConfig(p) ==
  \/ /\ proc[p].pc = "config" /\ Exists("example")
     /\ Truncate(p, "config", disk.tree, "config2")
  \/ proc[p].pc = "config" /\ ~Exists("example") /\ Raise(p)
  \/ /\ proc[p].pc = "config2"
     /\ Write(p, "config", disk.file["example"]) /\ Goto(p, "dirs")

MakeDirs(p) ==
  /\ proc[p].pc = "dirs"
  /\ disk' = [disk EXCEPT !.tree = WithDirs({"data", "logs", "backups"})]
  /\ End(p, "ok")

(* lpm validate, after the schema was refreshed                            *)

\* validate_setup up to the database, and check_schedule: what the schema or
\* the task finds in a config that parses is arbitrary.
ValidateConfig(p) ==
  /\ proc[p].pc = "load"
  /\ \/ /\ ~Whole("config") /\ End(p, "failed")
     \/ /\ Whole("config")
        /\ \E found \in IF Whole("schema") THEN {"ok", "failed"} ELSE {"failed"} :
             proc' = [proc EXCEPT ![p].pc = "open", ![p].outcome = found]
  /\ UNCHANGED disk

\* init_db creates the database, not its directory.
DbOpened == [disk EXCEPT !.file["db"] = IF @ = "absent" THEN "new" ELSE @]

ValidateDb(p) ==
  /\ proc[p].pc = "open"
  /\ \/ /\ "data" \in disk.tree /\ disk' = DbOpened /\ End(p, proc[p].outcome)
     \/ "data" \notin disk.tree /\ Raise(p)

(* lpm report; its first two steps are those of lpm collect                *)

LoadConfig(p) ==
  /\ proc[p].pc \in {"report", "collect"}
  /\ disk' = [disk EXCEPT !.tree = RootMade]
  /\ \/ ~Whole("config") /\ End(p, "missing")
     \/ Whole("config") /\ Goto(p, IF proc[p].cmd.dry THEN "log" ELSE "backup")

\* backup_data creates data and data/backups; it raises as every step may.
BackUp(p) ==
  /\ proc[p].pc = "backup"
  /\ disk' = [disk EXCEPT !.tree = WithDirs({"backups"})]
  /\ Goto(p, IF proc[p].cmd.name = "report" THEN "weekly" ELSE "log")

\* The CSV of a report is a file of the root.
Report(p) ==
  /\ proc[p].pc = "weekly"
  /\ \/ /\ "data" \in disk.tree
        /\ \E csv \in BOOLEAN : disk' = [DbOpened EXCEPT !.extra = @ \/ csv]
        /\ End(p, "ok")
     \/ "data" \notin disk.tree /\ Raise(p)

(* lpm purge                                                               *)

\* What prune_task does to the scheduled task is in Schedule; here it succeeds
\* or fails, and the directories are next in either case.
PurgeTask(p) ==
  /\ proc[p].pc = "purge" /\ UNCHANGED disk
  /\ LET c == proc[p].cmd
         after == IF proc[p].todo = <<>> THEN "done" ELSE "next"
     IN  \/ c.on = {} /\ End(p, "missing")
         \/ c.on # {} /\ Goto(p, after)
         \/ /\ "tasks" \in c.on /\ ~c.dry
            /\ proc' = [proc EXCEPT ![p].pc = after, ![p].outcome = "failed"]

\* A plausible bug: --dry-run is looked at after the loop only.
Bug_DryTooLate(p) ==
  /\ proc[p].pc = "next"
  /\ \/ /\ build = "misplaced" /\ End(p, "failed")
     \/ /\ build # "misplaced" /\ proc[p].todo = <<>>
        /\ IF proc[p].cmd.dry THEN End(p, proc[p].outcome) ELSE Goto(p, "rmdir")
     \/ /\ build # "misplaced" /\ proc[p].todo # <<>>
        /\ IF Head(proc[p].todo) \notin disk.tree
           THEN proc' = [proc EXCEPT ![p].todo = Tail(@)]
           ELSE Goto(p, "rmtree")
  /\ UNCHANGED disk

\* The loop of prune_dirs, unless _refusal_reason speaks.
PurgeNext(p) ==
  /\ proc[p].pc = "next"
  /\ \/ /\ build = "misplaced" /\ End(p, "failed")
     \/ /\ build # "misplaced" /\ proc[p].todo = <<>>
        /\ IF proc[p].cmd.dry THEN End(p, proc[p].outcome) ELSE Goto(p, "rmdir")
     \/ /\ build # "misplaced" /\ proc[p].todo # <<>>
        /\ IF proc[p].cmd.dry \/ Head(proc[p].todo) \notin disk.tree
           THEN proc' = [proc EXCEPT ![p].todo = Tail(@)]
           ELSE Goto(p, "rmtree")
  /\ UNCHANGED disk

\* A plausible bug: only the files are removed before their directory.
Bug_FilesOnly(p) ==
  /\ proc[p].pc = "rmtree"
  /\ LET d == Head(proc[p].todo)
     IN  /\ \A f \in In(d) : Free(f)
         /\ disk' = [disk EXCEPT !.tree = @ \ {d}, !.file = [f \in Files |->
                       IF f \in In(d) THEN "absent" ELSE @[f]]]
         /\ proc' = [proc EXCEPT ![p].pc = "next", ![p].todo = Tail(@)]

\* shutil.rmtree of the next target, entry by entry; it raises at an entry
\* that is held open or at a directory that is gone, and run_purge ends.
RmTree(p) ==
  /\ proc[p].pc = "rmtree"
  /\ LET d == Head(proc[p].todo)
         files == {f \in In(d) : Exists(f)}
         subdirs == IF d = "data" THEN disk.tree \cap {"backups"} ELSE {}
         logs == IF d = "logs" THEN disk.logs ELSE {}
     IN  \/ /\ \E f \in files : Free(f) /\ disk' = [disk EXCEPT !.file[f] = "absent"]
            /\ UNCHANGED proc
         \/ /\ \E l \in logs : LogFree(l) /\ disk' = [disk EXCEPT !.logs = @ \ {l}]
            /\ UNCHANGED proc
         \/ /\ subdirs # {} /\ disk' = [disk EXCEPT !.tree = @ \ subdirs]
            /\ UNCHANGED proc
         \/ /\ files = {} /\ logs = {} /\ subdirs = {} /\ d \in disk.tree
            /\ disk' = [disk EXCEPT !.tree = @ \ {d}]
            /\ proc' = [proc EXCEPT ![p].pc = "next", ![p].todo = Tail(@)]
         \/ /\ \/ \E f \in files : ~Free(f)
               \/ \E l \in logs : ~LogFree(l)
               \/ d \notin disk.tree
            /\ Raise(p)

\* os.rmdir(root) removes it when it is empty, and is silent otherwise.
RmRoot(p) ==
  /\ proc[p].pc = "rmdir"
  /\ disk' = IF disk.tree = {"root"} /\ ~disk.extra
             THEN [disk EXCEPT !.tree = {}] ELSE disk
  /\ End(p, proc[p].outcome)

Steps == {"init", "example", "example2", "schema", "schema2", "config",
  "config2", "dirs", "load", "open", "report", "collect", "backup", "weekly",
  "purge", "next", "rmtree", "rmdir", "log", "prune", "unlink", "run", "saving"}
Running(p) == proc[p].pc \in Steps

RootStep(p) ==
  \/ InitChecks(p) \/ CopyExample(p) \/ RefreshSchema(p) \/ CopyConfig(p)
  \/ MakeDirs(p) \/ ValidateConfig(p) \/ ValidateDb(p) \/ LoadConfig(p)
  \/ BackUp(p) \/ Report(p) \/ PurgeTask(p) \/ PurgeNext(p) \/ RmTree(p)
  \/ RmRoot(p)
-----------------------------------------------------------------------------
(* Correctness.                                                            *)

Ended(p, name, how) ==
  /\ proc[p].pc = "done" /\ proc[p].cmd.name = name /\ proc[p].outcome = how
  /\ alone[p]

\* Exit code 0 of a purge means that every directory requested is gone with all
\* that was in it (docstring of run_purge), whatever was there, was torn or was
\* held open, unless another command runs beside it.
PurgeComplete ==
  \A p \in Procs : Ended(p, "purge", "ok") /\ ~proc[p].cmd.dry =>
    /\ disk.tree \cap proc[p].cmd.on = {}
    /\ \A d \in ToSet(Targets) \cap proc[p].cmd.on : \A f \in In(d) : ~Exists(f)
    /\ "logs" \in proc[p].cmd.on => disk.logs = {}

\* A target that cannot be removed, as a file of it is held open, is the last
\* one left: "one failure does not strand the rest" (src/purge.py:122-123).
NoneStranded ==
  [][\A p \in Procs :
       /\ proc[p].pc = "rmtree" /\ proc'[p].pc = "done"
       /\ \E f \in In(Head(proc[p].todo)) : ~Free(f)
       => Len(proc[p].todo) = 1]_<<disk, proc>>

\* Nothing is lost that was not asked for: a file or a directory goes only by
\* a purge of its target that is neither dry nor refused, and the root only
\* when it holds nothing any more.
Asked(d) == \E p \in Procs : /\ proc[p].cmd.name = "purge" /\ ~proc[p].cmd.dry
                             /\ Running(p) /\ d \in proc[p].cmd.on
LosesNothingElse ==
  /\ \A d \in {"config", "data"}, f \in Files :
       f \in In(d) /\ Exists(f) /\ disk'.file[f] = "absent" =>
         Asked(d) /\ build # "misplaced"
  /\ \A d \in disk.tree \ disk'.tree :
       \/ d = "root" /\ disk.tree = {"root"} /\ ~disk.extra /\ disk.logs = {}
       \/ Asked(IF d = "backups" THEN "data" ELSE d) /\ build # "misplaced"
  /\ disk.extra => disk'.extra

\* After an init that wrote the config and ran alone everything is in place
\* and whole, whatever earlier commands, cut short, had left behind; but for
\* the schema, which it leaves as it was, and goes on, when the one that the
\* build shipped could not be read after its first look at it.
InitComplete ==
  \A p \in Procs : Ended(p, "init", "ok") =>
    /\ Whole("config") /\ disk.file["config"] = disk.file["example"]
    /\ build # "dev" => disk.file["example"] = "new"
    /\ build # "dev" /\ proc[p].fresh => disk.file["schema"] = "new"
    /\ build # "incomplete"
    /\ {"config", "data", "logs", "backups"} \subseteq disk.tree

\* validate that finds no problem means that the config, the schema and the
\* database are there and whole, and, when it could read the schema that the
\* build shipped, that the copy is now this one, however stale or torn it was.
ValidateMeans ==
  \A p \in Procs : Ended(p, "validate", "ok") =>
    /\ Whole("config") /\ Whole("schema") /\ Whole("db") /\ "data" \in disk.tree
    /\ build # "dev" /\ proc[p].fresh => disk.file["schema"] = "new"

\* What the exit code 0 of a command that ran alone says of the data root.
SuccessMeans == PurgeComplete /\ InitComplete /\ ValidateMeans
=============================================================================
