------------------------------- MODULE Shell -------------------------------
(***************************************************************************)
(* The processes that run the commands of DataRoot: one command and exit   *)
(* (main), or the interactive shell (src/shell.py), which outlives its     *)
(* commands and keeps the log handlers that setup_logging adds.  Here are  *)
(* also the steps of lpm collect that concern logs: setup_logging,         *)
(* _prune_logs; what it collects is in Collection.  A run log is named by  *)
(* the time it was opened at.                                              *)
(***************************************************************************)
EXTENDS DataRoot

CONSTANTS MaxNow,        \* bound of the clock
          MaxCommands,   \* bound of the commands of all processes together
          MaxDepth       \* bound of the shells within shells

ASSUME ShellAssumption == MaxNow \in Nat /\ MaxCommands \in Nat /\ MaxDepth \in Nat \ {0}

VARIABLES now,      \* the clock; its instants are further apart than the retention
          begun     \* the commands begun so far

vars == <<build, disk, proc, alone, now, begun>>

Blank == [tree |-> {}, file |-> [f \in Files |-> "absent"], logs |-> {},
          extra |-> FALSE]
Used == [tree |-> {"root", "config", "data", "logs", "backups"},
         file |-> [f \in Files |-> IF f = "schema" THEN "old" ELSE "mine"],
         logs |-> {0}, extra |-> FALSE]
\* What an init that was killed while it copied the config leaves behind,
\* where the config had been purged.
CutShort == [Used EXCEPT !.file = [f \in Files |->
               CASE f = "config" -> "torn" [] f = "db" -> "mine" [] OTHER -> "new"]]
\* The repository as it is cloned.
Cloned == [Blank EXCEPT !.tree = {"root", "config"}, !.extra = TRUE,
             !.file = [f \in Files |-> IF f \in {"example", "schema"} THEN "new"
                                       ELSE "absent"]]

NoProcess == [pc |-> "off", cmd |-> Plain("init"), todo |-> <<>>, log |-> 0,
              outcome |-> "ok", depth |-> 0, handlers |-> <<>>, fresh |-> FALSE]

Init ==
  /\ \/ build = "dev" /\ disk = Cloned
     \/ build = "installed" /\ disk \in {Blank, CutShort, Used}
     \/ build = "incomplete" /\ disk = Blank
     \/ build = "misplaced" /\ disk = Used
  /\ proc = [p \in Procs |-> NoProcess]
  /\ alone = [p \in Procs |-> FALSE]
  /\ now = 0 /\ begun = 0

(* main(): the import of DATA_ROOT creates the root of a build, then one    *)
(* command runs, or the shell.                                             *)
Start(p) ==
  /\ proc[p].pc = "off" /\ begun < MaxCommands
  /\ disk' = [disk EXCEPT !.tree = RootMade]
  /\ \/ /\ \E c \in Commands : Begin(p, c)
        /\ begun' = begun + 1
     \/ /\ proc' = [proc EXCEPT ![p].pc = "prompt", ![p].depth = 1]
        /\ UNCHANGED begun

\* A line that parses to a command; the others leave the prompt as it is.
Submit(p) ==
  /\ proc[p].pc = "prompt" /\ begun < MaxCommands
  /\ \/ \E c \in Commands : Begin(p, c)
     \/ /\ proc[p].depth < MaxDepth   \* the command shell, in the shell
        /\ proc' = [proc EXCEPT ![p].depth = @ + 1]
  /\ begun' = begun + 1
  /\ UNCHANGED disk

\* The process is gone, its handlers are closed, and another may start.
Gone(p) == proc' = [proc EXCEPT ![p] = NoProcess]

\* A plausible bug: sys.exit of a command is not caught by the shell.
Bug_ExitNotContained(p) ==
  /\ proc[p].pc = "done"
  /\ \/ (proc[p].depth = 0 \/ proc[p].outcome # "ok") /\ Gone(p)
     \/ /\ proc[p].depth > 0 /\ proc[p].outcome = "ok"
        /\ proc' = [proc EXCEPT ![p].pc = "prompt"]
  /\ UNCHANGED <<disk, begun>>

\* The command is over: main() exits with its code, _execute contains it.
Over(p) ==
  /\ proc[p].pc = "done"
  /\ \/ proc[p].depth = 0 /\ Gone(p)
     \/ /\ proc[p].depth > 0
        /\ proc' = [proc EXCEPT ![p] = [@ EXCEPT !.pc = "prompt",
                      !.cmd = Plain("init"), !.todo = <<>>, !.log = 0, !.outcome = "ok",
                      !.fresh = FALSE]]
  /\ UNCHANGED <<disk, begun>>

\* exit, quit or the end of the input leave the innermost shell.
Leave(p) ==
  /\ proc[p].pc = "prompt"
  /\ \/ proc[p].depth = 1 /\ Gone(p)
     \/ proc[p].depth > 1 /\ proc' = [proc EXCEPT ![p].depth = @ - 1]
  /\ UNCHANGED <<disk, begun>>

\* setup_logging: a file handler more, and the ones before it stay.
SetUpLogging(p) ==
  /\ proc[p].pc = "log"
  /\ disk' = [disk EXCEPT !.tree = WithDirs({"logs"}), !.logs = @ \cup {now}]
  /\ proc' = [proc EXCEPT ![p].pc = "prune", ![p].handlers = Append(@, now)]

\* A plausible bug: the cutoff is not behind the current log.
Bug_CurrentToo(l) == l <= now

Expired(l) == l < now

\* _prune_logs, for a retention of some days: scandir lists a log after the
\* other ...
PruneLogs(p) ==
  /\ proc[p].pc = "prune" /\ UNCHANGED disk
  /\ \/ /\ \A l \in disk.logs : ~Expired(l)
        /\ IF proc[p].cmd.dry THEN End(p, "ok") ELSE Goto(p, "run")
     \/ \E l \in disk.logs :
          /\ Expired(l)
          /\ proc' = [proc EXCEPT ![p].pc = "unlink", ![p].log = l]

\* ... and os.remove takes it away.  A log that is held open, or that another
\* process removed since it was listed, raises, and nothing is collected.
Unlink(p) ==
  /\ proc[p].pc = "unlink"
  /\ LET l == proc[p].log
     IN  \/ /\ l \in disk.logs /\ LogFree(l)
            /\ disk' = [disk EXCEPT !.logs = @ \ {l}]
            /\ proc' = [proc EXCEPT ![p].pc = "prune", ![p].log = 0]
         \/ /\ l \notin disk.logs \/ ~LogFree(l)
            /\ UNCHANGED disk /\ End(p, "blocked")

\* run_collection: the database is open while it collects.
Collect(p) ==
  \/ /\ proc[p].pc = "run" /\ "data" \in disk.tree
     /\ disk' = DbOpened
     /\ Goto(p, "saving")
  \/ proc[p].pc = "run" /\ "data" \notin disk.tree /\ Raise(p)
  \/ /\ proc[p].pc = "saving"
     /\ \E any \in BOOLEAN :
          disk' = [disk EXCEPT !.file["db"] = IF any THEN "mine" ELSE @]
     /\ End(p, "ok")

Command(p) == /\ \/ RootStep(p) \/ SetUpLogging(p) \/ PruneLogs(p) \/ Unlink(p)
                 \/ Collect(p)
              /\ UNCHANGED begun

\* Any call may raise: the disk is full, a file is held by another program.
Fault(p) == Running(p) /\ Raise(p) /\ UNCHANGED begun

\* The process is killed at any step of a command (at the prompt, as Leave).
Kill(p) ==
  /\ Running(p) /\ Gone(p)
  /\ UNCHANGED <<disk, begun>>

Act(p) == \/ Start(p) \/ Submit(p) \/ Over(p) \/ Leave(p) \/ Command(p)
          \/ Fault(p) \/ Kill(p)

\* The history goes with every action of a process.
Step(p, act) ==
  /\ act
  /\ alone' = [q \in Procs |->
       IF q = p THEN (Running(p) => alone[p]) /\ proc'[p].pc \in Steps \cup {"done"}
       ELSE alone[q] /\ disk' = disk]
  /\ UNCHANGED <<build, now>>

\* Between commands, none of which lasts that long, the operator edits or mends
\* the config, and time passes.
Quiet == \A p \in Procs : proc[p].pc \in {"off", "prompt"}
Edit ==
  /\ Quiet /\ Exists("config")
  /\ disk' = [disk EXCEPT !.file["config"] = "mine"]
  /\ UNCHANGED <<build, proc, alone, now, begun>>
Tick ==
  /\ Quiet /\ now < MaxNow /\ now' = now + 1
  /\ UNCHANGED <<build, disk, proc, alone, begun>>

Next == \/ Edit \/ Tick
        \/ \E p \in Procs : Step(p, Act(p))

\* Every system call returns; no process need be started or killed.
Spec == /\ Init /\ [][Next]_vars
        /\ \A p \in Procs : WF_vars(Step(p, Over(p) \/ Command(p)))
-----------------------------------------------------------------------------
(* Correctness.                                                            *)

Typed ==
  /\ build \in {"dev", "installed", "incomplete", "misplaced"}
  /\ disk \in [tree : SUBSET Dirs, logs : SUBSET (0..MaxNow), extra : BOOLEAN,
               file : [Files -> {"absent", "torn", "old", "new", "mine"}]]
  /\ proc \in [Procs -> [pc : Steps \cup {"off", "prompt", "done"}, cmd : Commands,
       todo : Seq(ToSet(Targets)), log : 0..MaxNow, depth : 0..MaxDepth,
       outcome : {"ok", "failed", "kept", "missing", "blocked"},
       handlers : Seq(0..MaxNow), fresh : BOOLEAN]]
  /\ alone \in [Procs -> BOOLEAN]
  /\ now \in 0..MaxNow /\ begun \in 0..MaxCommands

\* Nothing is anywhere but in its directory, and no directory without those
\* above it, whatever creates and removes them at the same time.
TreeClosed ==
  /\ disk.tree # {} => "root" \in disk.tree
  /\ "backups" \in disk.tree => "data" \in disk.tree
  /\ \A d \in ToSet(Targets) : (\E f \in In(d) : Exists(f)) => d \in disk.tree
  /\ disk.logs # {} => "logs" \in disk.tree
  /\ \A p \in Procs : ToSet(proc[p].handlers) \subseteq disk.logs

TypeOK == Typed /\ TreeClosed

\* Only a command that is collecting, and then prunes logs that are past
\* their retention, or a purge of the logs, removes a run log.
KeepsRecentLogs ==
  \A l \in disk.logs \ disk'.logs : Expired(l) \/ Asked("logs")

\* An expired log keeps a collect from collecting only while a shell that
\* collected before is still open, its own or another, or when another command
\* interferes: what commands that have exited left never blocks one.
BlockedByShell ==
  [][\A p \in Procs : alone[p] /\ proc[p].pc = "unlink" /\ proc'[p].pc = "done"
                       /\ proc'[p].outcome = "blocked" =>
       \E q \in Procs : /\ proc[q].depth > 0
                        /\ \E l \in ToSet(proc[q].handlers) : Expired(l)]_vars

NothingLostUnasked == [][LosesNothingElse /\ KeepsRecentLogs]_vars

\* No shell, also none within another, ends with a command: however that ends,
\* its own prompt comes back (docstring of src/shell.py).  A shell is left at
\* its prompt, one at a time, or all end with the process when it is killed.
ShellSurvives ==
  [][\A p \in Procs : proc'[p].depth < proc[p].depth =>
       \/ /\ proc[p].pc = "prompt" /\ proc'[p].depth = proc[p].depth - 1
          /\ proc'[p].pc = IF proc[p].depth > 1 THEN "prompt" ELSE "off"
       \/ Running(p) /\ proc'[p].pc = "off"]_vars

\* Every command ends, whatever else runs, and in a shell the prompt is back.
CommandsEnd ==
  \A p \in Procs : Running(p) ~> proc[p].pc \in {"prompt", "off"}

\* Whatever becomes of a command, the shell it was typed in goes on.
PromptReturns ==
  /\ ShellSurvives
  /\ CommandsEnd

(* What makes these inductive.                                             *)

Stages(name) ==
  CASE name = "init" -> {"init", "example", "example2", "schema", "schema2",
                         "config", "config2", "dirs"}
    [] name = "validate" -> {"schema", "schema2", "load", "open"}
    [] name = "report" -> {"report", "backup", "weekly"}
    [] name = "collect" -> {"collect", "backup", "log", "prune", "unlink", "run", "saving"}
    [] name = "purge" -> {"purge", "next", "rmtree", "rmdir"}

\* How far a process is goes with its command, its flags and its shell, and
\* what it has left to do with what it was asked.
PlaceInv ==
  \A p \in Procs :
    LET r == proc[p]
    IN  /\ Running(p) => r.pc \in Stages(r.cmd.name)
        /\ r.pc \in {"example", "example2", "schema2"} => build # "dev"
        /\ r.cmd.name = "purge" => ToSet(r.todo) \subseteq ToSet(Targets) \cap r.cmd.on
        /\ r.pc = "rmtree" => build # "misplaced" /\ ~r.cmd.dry /\ r.todo # <<>>
        /\ r.pc = "rmdir" => ~r.cmd.dry /\ r.todo = <<>>
        /\ r.pc = "unlink" => r.log < now
        /\ r.pc = "prompt" => r.depth > 0
        /\ r.fresh => r.pc \notin {"init", "example", "example2", "schema"}
        /\ r.cmd.name = "init" /\ r.pc \in Stages("init") \ {"init"} =>
             build # "incomplete"
        /\ r.pc = "off" => r.depth = 0 /\ r.handlers = <<>>
        /\ r.depth = 0 => ToSet(r.handlers) \subseteq {now}

\* A file that is held open is there; the example of the repository and the
\* database are never torn.
HeldInv ==
  /\ \A p \in Procs : \A f \in Held(p) : Exists(f)
  /\ build = "dev" => disk.file["example"] # "torn"
  /\ disk.file["db"] # "torn"

\* What a command has achieved so far, while it is alone.
AloneInv ==
  \A p \in Procs : alone[p] =>
    LET r == proc[p]
        Past(name, steps) ==
          r.cmd.name = name /\ (r.pc \in steps \/ (r.pc = "done" /\ r.outcome = "ok"))
    IN  /\ r.pc \in Steps \cup {"done"}
        /\ r.pc = "unlink" => r.log \in disk.logs
        /\ Past("purge", {"purge", "next", "rmtree", "rmdir"}) /\ ~r.cmd.dry =>
             r.cmd.on \cap disk.tree \subseteq ToSet(r.todo)
        /\ Past("purge", {"rmdir"}) /\ ~r.cmd.dry => r.todo = <<>>
        /\ Past("init", {"schema", "schema2", "config", "config2", "dirs"}) =>
             build = "dev" \/ disk.file["example"] = "new"
        /\ Past("init", {"config", "config2", "dirs"}) /\ r.fresh =>
             build = "dev" \/ disk.file["schema"] = "new"
        /\ Past("init", {"dirs"}) =>
             Whole("config") /\ disk.file["config"] = disk.file["example"]
        /\ Past("init", {}) => {"config", "data", "logs", "backups"} \subseteq disk.tree
                               /\ build # "incomplete"
        /\ Past("validate", {"load", "open"}) /\ r.fresh =>
             build = "dev" \/ disk.file["schema"] = "new"
        /\ Past("validate", {}) => Whole("db") /\ "data" \in disk.tree
        /\ r.cmd.name = "validate" /\ r.pc \in {"open", "done"} /\ r.outcome = "ok" =>
             Whole("config") /\ Whole("schema")

IInv == TypeOK /\ PlaceInv /\ HeldInv /\ AloneInv
=============================================================================
