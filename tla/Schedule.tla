------------------------------ MODULE Schedule ------------------------------
(***************************************************************************)
(* The scheduled task \LPM\LPM_Collect: what "lpm schedule", "lpm schedule *)
(* --remove", "lpm purge --tasks" and the task check of "lpm validate" do  *)
(* to it (src/schedule/, prune_task of purge.py, _handle_schedule of       *)
(* main.py).  Several such commands may run at once; every call to the     *)
(* Task Scheduler service is a step that may fail, and a command may be    *)
(* killed between two of them.  The service itself is external: a folder   *)
(* exists or not, a folder is deleted only when empty, a call either does  *)
(* what it is asked or raises and changes nothing.                         *)
(***************************************************************************)
EXTENDS Naturals, Sequences, FiniteSets, Functions, FiniteSetsExt

CONSTANTS
  Proc,       \* the processes that run commands
  Configs,    \* the schedule sections an operator may write into config.json
  Tasks,      \* the tasks found in the scheduler before the first command
  This,       \* the path of the lpm.exe that runs the commands
  Runnable,   \* the absolute command paths that name an existing file
  BadTime,    \* a string of schedule.times that is not HH:MM
  MaxFaults,  \* bound: failing service calls and kills of the last commands
  MaxCmds,    \* bound: commands started in a behaviour
  Null

Times == UNION {Range(c.times) : c \in Configs} \ {BadTime}

\* config.get("schedule"): missing, something other than an object, an object.
ConfigSet == [section : {"absent", "other", "object"},
              enabled : {"true", "false", "missing"},
              times : Seq(Times \cup {BadTime}),
              weekdays : BOOLEAN]

\* What the commands look at in a task's XML, abstracted from its text.
TaskSet == [times : SUBSET Times, weekdays : BOOLEAN, system : BOOLEAN,
            args : BOOLEAN, exe : Runnable \cup {"none", "bare", "gone"}]

ASSUME ScheduleAssumption ==
  /\ Configs \subseteq ConfigSet
  /\ \A c \in Configs : Range(c.times) \subseteq Times \cup {BadTime}
  /\ Tasks \subseteq TaskSet
  /\ This \in Runnable
  /\ Runnable \cap {"none", "bare", "gone"} = {}
  /\ MaxFaults \in Nat /\ MaxCmds \in Nat
  /\ Null \notin TaskSet \cup Configs

VARIABLES
  task,       \* \LPM\LPM_Collect, or Null
  folder,     \* the folder \LPM exists
  others,     \* the folder holds tasks of somebody else
  pc, cmd,    \* where each process is, in which command
  cfg,        \* the schedule part of the config.json it loaded
  seen,       \* the task XML it read
  out,        \* how its last command ended
  failed,     \* history: the service calls of that command that raised
  disturbed,  \* history: the processes during or since whose last command
              \* another one wrote to the service what they had not asked for
  settled,    \* history: the config the task is known to be registered for
  was,        \* history: settled, when the process read the task
  started     \* the commands started so far, up to MaxCmds

local == <<pc, cmd, cfg, seen, out>>
service == <<task, folder, others>>
vars == <<task, folder, others, pc, cmd, cfg, seen, out, failed,
          disturbed, settled, was, started>>

Commands == {"schedule", "remove", "purge", "validate"}
Done == {"created", "updated", "uptodate"}        \* lpm schedule succeeded
Gone == {"removed", "none"}                       \* a removal succeeded
Verdicts == {"ok", "off", "stray", "missing", "broken", "differs"}
Outcomes == Done \cup Gone \cup Verdicts \cup
  {"none yet", "refused", "disabled", "error", "killed"}
Places == {"idle", "connect", "read", "getfolder", "create", "register",
           "delete", "reregister", "sweep"}
Calls == {"connect", "read", "getfolder", "create", "register", "delete",
          "reregister", "count", "sweep", "kill"}

Faults == SumFunction([p \in Proc |-> Cardinality(failed[p])])
-----------------------------------------------------------------------------
(* The task that a config asks for, and the two places that compare.       *)

Distinct(c) == IsInjective(c.times)

ValidConfig(c) ==
  /\ c.section = "object"
  /\ c.enabled # "missing"
  /\ c.times # <<>>
  /\ BadTime \notin Range(c.times)

\* The configs that _handle_schedule and install register a task for.
Asked(c) == ValidConfig(c) /\ c.enabled = "true"

\* build_task_xml: one trigger per time, SYSTEM, "collect", the running exe.
Want(c) == [times |-> Range(c.times), weekdays |-> c.weekdays,
            system |-> TRUE, args |-> TRUE, exe |-> This]

\* The sorted unique trigger times equal the sorted list of the config.
SameTriggers(t, c) ==
  /\ Distinct(c)
  /\ t.times = Range(c.times)
  /\ t.weekdays = c.weekdays

\* Mutant of UpToDate: the task's command is not compared.
Bug_CommandIgnored(t, c) == SameTriggers(t, c) /\ t.system /\ t.args

\* Mutant of UpToDate: the arguments of the old command line are expected.
Bug_OldArguments(t, c) ==
  SameTriggers(t, c) /\ t.system /\ ~t.args /\ t.exe = This

\* install: no mismatch.
UpToDate(t, c) ==
  SameTriggers(t, c) /\ t.system /\ t.args /\ t.exe = This

\* check_schedule, after the task was read.
Check(t, c) ==
  CASE c.section # "object" -> IF t = Null THEN "off" ELSE "stray"
    [] c.section = "object" /\ c.enabled = "false" ->
         IF t = Null THEN "off" ELSE "stray"
    [] OTHER ->
         IF t = Null THEN "missing"
         ELSE IF t.exe \in {"none", "bare"} THEN "differs"
         ELSE IF t.exe \notin Runnable THEN "broken"
         ELSE IF SameTriggers(t, c) /\ t.system /\ t.args THEN "ok"
         ELSE "differs"
-----------------------------------------------------------------------------
Init ==
  /\ task \in Tasks \cup {Null}
  /\ folder \in BOOLEAN
  /\ others \in BOOLEAN
  /\ (task # Null \/ others) => folder
  /\ pc = [p \in Proc |-> "idle"]
  /\ cmd = [p \in Proc |-> "validate"]
  /\ cfg = [p \in Proc |-> Null]
  /\ seen = [p \in Proc |-> Null]
  /\ out = [p \in Proc |-> "none yet"]
  /\ failed = [p \in Proc |-> {}]
  /\ disturbed = {}
  /\ settled = Null
  /\ was = [p \in Proc |-> Null]
  /\ started = 0

\* Control moves on; the service is not written.
Goto(p, label) == /\ pc' = [pc EXCEPT ![p] = label]
                  /\ UNCHANGED out

End(p, outcome) == /\ pc' = [pc EXCEPT ![p] = "idle"]
                   /\ out' = [out EXCEPT ![p] = outcome]

Fails(p, call) == /\ Faults < MaxFaults
                  /\ failed' = [failed EXCEPT ![p] = @ \cup {call}]

Quiet == UNCHANGED <<task, folder, others, disturbed, settled>>

\* Every other process loses its claim to know the task and its folder.
Disturbs(p, except) == disturbed' = disturbed \cup (Proc \ ({p} \cup except))

Deletes(p) == Disturbs(p, {}) /\ UNCHANGED others

\* But not those that are registering, or registered, the very same task, and
\* a new folder is in the way of nobody who registers.
Installers == {q \in Proc : cmd[q] = "schedule"}

Registers(p) == /\ Disturbs(p, {q \in Installers : cfg[q] = cfg[p]})
                /\ UNCHANGED others

\* An operator starts a command, with config.json as it then is, and its gates
\* are passed or not: elevation, the config section, --remove before "enabled",
\* then the config's errors.
Launch(p, c, config, admin) ==
  /\ pc[p] = "idle"
  /\ started < MaxCmds /\ started' = started + 1
  /\ cmd' = [cmd EXCEPT ![p] = c]
  /\ cfg' = [cfg EXCEPT ![p] = config]
  /\ seen' = [seen EXCEPT ![p] = Null]
  /\ failed' = [failed EXCEPT ![p] = {}]
  /\ disturbed' = disturbed \ {p}
  /\ was' = [was EXCEPT ![p] = Null]
  /\ \/ /\ c # "validate" /\ ~admin
        /\ End(p, "refused")
     \/ /\ c \in {"schedule", "remove"} /\ admin /\ config.section = "absent"
        /\ End(p, "refused")
     \/ /\ c = "schedule" /\ admin
        /\ config.section = "object" /\ config.enabled = "false"
        /\ End(p, "disabled")
     \/ /\ c = "schedule" /\ admin /\ config.section # "absent"
        /\ ~(config.section = "object" /\ config.enabled = "false")
        /\ ~ValidConfig(config)
        /\ End(p, "refused")
     \/ /\ \/ c = "validate"
           \/ c = "purge" /\ admin
           \/ c = "remove" /\ admin /\ config.section # "absent"
           \/ c = "schedule" /\ admin /\ Asked(config)
        /\ Goto(p, "connect")
  /\ UNCHANGED <<task, folder, others, settled>>

\* connect(); what remove --verbose reads after it changes nothing.
Connect(p) ==
  /\ pc[p] = "connect"
  /\ \/ /\ Goto(p, IF cmd[p] \in {"schedule", "validate"} THEN "read"
                   ELSE "getfolder")
        /\ UNCHANGED failed
     \/ /\ Fails(p, "connect")
        /\ End(p, "error")
  /\ Quiet /\ UNCHANGED <<cmd, cfg, seen, was, started>>

\* get_task_xml() and what install or check_schedule makes of it.  A failing
\* lookup reads as "no task"; a failing task.Xml raises.
Judge(p, t) ==
  \/ /\ cmd[p] = "validate"
     /\ End(p, Check(t, cfg[p]))
  \/ /\ cmd[p] = "schedule" /\ t # Null /\ UpToDate(t, cfg[p])
     /\ End(p, "uptodate")
  \/ /\ cmd[p] = "schedule" /\ ~(t # Null /\ UpToDate(t, cfg[p]))
     /\ Goto(p, "getfolder")

Read(p) ==
  /\ pc[p] = "read"
  /\ \/ /\ seen' = [seen EXCEPT ![p] = task]
        /\ Judge(p, task)
        /\ UNCHANGED failed
     \/ /\ Fails(p, "read")
        /\ seen' = [seen EXCEPT ![p] = Null]
        /\ Judge(p, Null)
     \/ /\ Fails(p, "read")
        /\ End(p, "error")
        /\ UNCHANGED seen
  /\ was' = [was EXCEPT ![p] = settled]
  /\ Quiet /\ UNCHANGED <<cmd, cfg, started>>

\* register_task: GetFolder, and when it raised CreateFolder (which raises when
\* the folder exists after all) and GetFolder once more.
EnsureFolder(p) ==
  /\ cmd[p] = "schedule"
  /\ \/ /\ pc[p] = "getfolder"
        /\ \/ folder /\ Goto(p, "register") /\ UNCHANGED failed
           \/ /\ \/ ~folder /\ UNCHANGED failed
                 \/ Fails(p, "getfolder")
              /\ Goto(p, "create")
        /\ UNCHANGED <<folder, disturbed>>
     \/ /\ pc[p] = "create" /\ ~folder
        /\ folder' = TRUE
        /\ \/ Goto(p, "register") /\ UNCHANGED failed
           \/ End(p, "error") /\ Fails(p, "create")
        /\ Disturbs(p, Installers)
     \/ /\ pc[p] = "create"
        /\ \/ folder /\ UNCHANGED failed
           \/ Fails(p, "create")
        /\ End(p, "error")
        /\ UNCHANGED <<folder, disturbed>>
  /\ UNCHANGED <<task, others, settled, cmd, cfg, seen, was, started>>

\* Mutant of Register: the old task is deleted before the new is registered.
Bug_DeleteFirst(p) ==
  /\ pc[p] = "register"
  /\ Goto(p, "delete")
  /\ UNCHANGED <<others, task, settled, disturbed, failed>>
  /\ UNCHANGED <<folder, cmd, cfg, seen, was, started>>

\* The first RegisterTask: done, or rejected (the folder may be gone again).
Register(p) ==
  /\ pc[p] = "register"
  /\ \/ /\ folder
        /\ task' = Want(cfg[p])
        /\ settled' = cfg[p]
        /\ End(p, IF seen[p] = Null THEN "created" ELSE "updated")
        /\ Registers(p)
        /\ UNCHANGED failed
     \/ /\ \/ Fails(p, "register")
           \/ ~folder /\ UNCHANGED failed
        /\ Goto(p, "delete")
        /\ UNCHANGED <<others, task, settled, disturbed>>
  /\ UNCHANGED <<folder, cmd, cfg, seen, was, started>>

\* The fallback deletes the old task; a failure is suppressed.
FallbackDelete(p) ==
  /\ pc[p] = "delete" /\ cmd[p] = "schedule"
  /\ \/ /\ task # Null
        /\ task' = Null
        /\ settled' = Null
        /\ Deletes(p)
        /\ UNCHANGED failed
     \/ /\ \/ task = Null /\ UNCHANGED failed
           \/ Fails(p, "delete")
        /\ UNCHANGED <<others, task, settled, disturbed>>
  /\ Goto(p, "reregister")
  /\ UNCHANGED <<folder, cmd, cfg, seen, was, started>>

\* ... and registers again; this failure ends the command.
Reregister(p) ==
  /\ pc[p] = "reregister"
  /\ \/ /\ folder
        /\ task' = Want(cfg[p])
        /\ settled' = cfg[p]
        /\ End(p, IF seen[p] = Null THEN "created" ELSE "updated")
        /\ Registers(p)
        /\ UNCHANGED failed
     \/ /\ \/ Fails(p, "reregister")
           \/ ~folder /\ UNCHANGED failed
        /\ End(p, "error")
        /\ UNCHANGED <<others, task, settled, disturbed>>
  /\ UNCHANGED <<folder, cmd, cfg, seen, was, started>>

\* delete_task: no folder, or any failure to open it, reads as "no task".
FindFolder(p) ==
  /\ pc[p] = "getfolder" /\ cmd[p] \in {"remove", "purge"}
  /\ \/ /\ folder
        /\ Goto(p, "delete")
        /\ UNCHANGED failed
     \/ /\ \/ ~folder /\ UNCHANGED failed
           \/ Fails(p, "getfolder")
        /\ End(p, "none")
  /\ Quiet /\ UNCHANGED <<cmd, cfg, seen, was, started>>

\* Mutant of Delete: a failing DeleteTask is suppressed as in the fallback.
Bug_DeleteSuppressed(p) ==
  /\ pc[p] = "delete" /\ cmd[p] \in {"remove", "purge"}
  /\ Goto(p, "sweep")
  /\ \/ /\ task' = Null /\ settled' = Null
        /\ Deletes(p)
        /\ UNCHANGED failed
     \/ /\ Fails(p, "delete")
        /\ UNCHANGED <<others, task, settled, disturbed>>
  /\ UNCHANGED <<folder, cmd, cfg, seen, was, started>>

\* DeleteTask raises when there is no such task: the command fails.
Delete(p) ==
  /\ pc[p] = "delete" /\ cmd[p] \in {"remove", "purge"}
  /\ \/ /\ task # Null
        /\ task' = Null
        /\ settled' = Null
        /\ Goto(p, "sweep")
        /\ Deletes(p)
        /\ UNCHANGED failed
     \/ /\ \/ task = Null /\ UNCHANGED failed
           \/ Fails(p, "delete")
        /\ End(p, "error")
        /\ UNCHANGED <<others, task, settled, disturbed>>
  /\ UNCHANGED <<folder, cmd, cfg, seen, was, started>>

\* Mutant of Sweep: the emptied folder is left behind.
Bug_FolderKept(p) ==
  /\ pc[p] = "sweep"
  /\ End(p, "removed")
  /\ Quiet /\ UNCHANGED <<failed, folder, cmd, cfg, seen, was, started>>

\* GetTasks (which raises when the folder is gone); an empty folder is
\* deleted, and a failure of that is suppressed.
Sweep(p) ==
  /\ pc[p] = "sweep"
  /\ \/ /\ folder /\ task = Null /\ ~others
        /\ folder' = FALSE
        /\ End(p, "removed")
        /\ Disturbs(p, {})
        /\ UNCHANGED failed
     \/ /\ folder
        /\ \/ (task # Null \/ others) /\ UNCHANGED failed
           \/ Fails(p, "sweep")
        /\ End(p, "removed")
        /\ UNCHANGED <<folder, disturbed>>
     \/ /\ \/ ~folder /\ UNCHANGED failed
           \/ Fails(p, "count")
        /\ End(p, "error")
        /\ UNCHANGED <<folder, disturbed>>
  /\ UNCHANGED <<task, others, settled, cmd, cfg, seen, was, started>>

\* Ctrl+C, a closed console or a power cut between two calls.
Kill(p) ==
  /\ pc[p] # "idle"
  /\ Fails(p, "kill")
  /\ End(p, "killed")
  /\ Quiet /\ UNCHANGED <<cmd, cfg, seen, was, started>>

\* Somebody puts a task of their own into \LPM.
AddOther ==
  /\ folder /\ ~others
  /\ others' = TRUE
  /\ UNCHANGED <<task, folder, local, failed, disturbed, settled, was, started>>

Step(p) ==
  \/ Connect(p) \/ Read(p) \/ EnsureFolder(p) \/ Register(p)
  \/ FallbackDelete(p) \/ Reregister(p) \/ FindFolder(p) \/ Delete(p)
  \/ Sweep(p)

Next ==
  \/ \E p \in Proc :
       \/ \E c \in Commands, config \in Configs, admin \in BOOLEAN :
            Launch(p, c, config, admin)
       \/ Step(p)
       \/ Kill(p)
  \/ AddOther

Spec == Init /\ [][Next]_vars
-----------------------------------------------------------------------------
(* Correctness.                                                            *)

TypeOK ==
  /\ task \in TaskSet \cup {Null}
  /\ folder \in BOOLEAN /\ others \in BOOLEAN
  /\ pc \in [Proc -> Places]
  /\ cmd \in [Proc -> Commands]
  /\ cfg \in [Proc -> Configs \cup {Null}]
  /\ seen \in [Proc -> TaskSet \cup {Null}]
  /\ out \in [Proc -> Outcomes]
  /\ failed \in [Proc -> SUBSET Calls]
  /\ disturbed \subseteq Proc
  /\ settled \in Configs \cup {Null}
  /\ was \in [Proc -> Configs \cup {Null}]
  /\ started \in 0..MaxCmds
  /\ (task # Null \/ others) => folder

Ended(p, c) == pc[p] = "idle" /\ cmd[p] = c /\ out[p] # "none yet"

\* When lpm schedule reports that the schedule is created, updated or up to
\* date and nobody else wrote anything else meanwhile, the registered task is
\* exactly the one its config asks for: the comparison that skips the registration
\* (install) misses nothing that build_task_xml would have written.
Registered(p) ==
  Ended(p, "schedule") /\ out[p] \in Done /\ p \notin disturbed
    => task = Want(cfg[p])

\* The two comparisons, in install and in _matches_config, agree: what lpm
\* schedule has just reported done, lpm validate finds in order, when no time
\* is configured twice.
Validated(p) ==
  Ended(p, "schedule") /\ out[p] \in Done /\ p \notin disturbed
    /\ Distinct(cfg[p])
    => Check(task, cfg[p]) = "ok"

\* What a success of lpm schedule means, for the service and for validate.
SuccessMatches == \A p \in Proc : Registered(p) /\ Validated(p)

\* lpm schedule finds a task and ends without one only after RegisterTask was
\* rejected and then the second attempt failed or the command was killed
\* between the fallback's DeleteTask and it: one failing call loses nothing.
LossExplained(p) ==
  Ended(p, "schedule") /\ seen[p] # Null /\ task = Null /\ p \notin disturbed
    => /\ "register" \in failed[p]
       /\ failed[p] \cap {"reregister", "kill"} # {}

LossNeedsTwoFailures == \A p \in Proc : LossExplained(p)

\* What a removal (--remove, purge --tasks) leaves behind: the task is still
\* registered only when an error was reported after a failing connect or
\* DeleteTask, or when GetFolder failed, which reads as "no task"; the folder
\* stays after a success only when it holds tasks of others, deleting it
\* failed, or GetFolder failed; and an error without any failing call is the
\* one of DeleteTask on a folder without the task, which stays as it was (the
\* docstring of prune_task has such a purge succeed).
Cleared(p) ==
  /\ pc[p] = "idle" /\ cmd[p] \in {"remove", "purge"}
  /\ out[p] \in Gone \cup {"error"} /\ p \notin disturbed
  => /\ task # Null =>
          \/ out[p] = "error" /\ failed[p] \cap {"connect", "delete"} # {}
          \/ out[p] = "none" /\ "getfolder" \in failed[p]
     /\ folder /\ out[p] = "removed" => others \/ "sweep" \in failed[p]
     /\ folder /\ out[p] = "none" => "getfolder" \in failed[p]
     /\ out[p] = "error" /\ failed[p] = {} => folder /\ task = Null

RemovalExplained == \A p \in Proc : Cleared(p)

\* lpm schedule registers again what is already registered for this very
\* config only when a time is configured twice (the sorted unique trigger
\* times then never equal the list) or its reading of the task failed.
Again(p) == was[p] = cfg[p] /\ "read" \notin failed[p]

Converges ==
  \A p \in Proc :
    Ended(p, "schedule") /\ out[p] \in {"created", "updated"} /\ Again(p)
      => ~Distinct(cfg[p])

\* What the proofs use: what is known at each place of a command.
Writing == {"getfolder", "create", "register", "delete", "reregister"}

Placed(p) ==
  /\ pc[p] \in {"read", "create", "register", "reregister"}
       => cmd[p] \in {"schedule", "validate"}
  /\ pc[p] \in Writing => cmd[p] # "validate"
  /\ pc[p] = "sweep" => cmd[p] \in {"remove", "purge"}
  /\ pc[p] # "idle" => cfg[p] \in Configs
  /\ cmd[p] = "schedule" /\ (pc[p] # "idle" \/ out[p] \in Done)
       => cfg[p] \in Configs /\ Asked(cfg[p])
  /\ cmd[p] = "schedule" /\ Again(p)
       /\ \/ pc[p] \in Writing
          \/ pc[p] = "idle" /\ out[p] \in {"created", "updated"}
       => ~Distinct(cfg[p])

Known(p) ==
  p \notin disturbed =>
    /\ cmd[p] = "schedule" /\ pc[p] \in {"getfolder", "create", "register", "delete"}
         /\ seen[p] # Null => task # Null
    /\ cmd[p] = "schedule" /\ pc[p] \in {"delete", "reregister"}
         => "register" \in failed[p]
    /\ pc[p] \in {"register", "delete", "reregister", "sweep"} => folder
    /\ cmd[p] = "schedule" /\ pc[p] \in {"connect", "read"} => seen[p] = Null
    /\ pc[p] = "sweep" => task = Null

Claims(p) ==
  Placed(p) /\ Known(p) /\ Registered(p) /\ LossExplained(p) /\ Cleared(p)

SettledOK ==
  settled # Null => settled \in Configs /\ Asked(settled)
                    /\ task = Want(settled)

IInv == TypeOK /\ SettledOK /\ \A p \in Proc : Claims(p)
=============================================================================
