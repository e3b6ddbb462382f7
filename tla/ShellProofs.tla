---------------------------- MODULE ShellProofs ----------------------------
(***************************************************************************)
(* Proofs about Shell: what holds of the data root and of the commands     *)
(* that work on it, for any number of processes and of shells in shells.   *)
(***************************************************************************)
EXTENDS Shell, FiniteSetTheorems, TLAPS

Places == Steps \cup {"off", "prompt", "done"}
Contents == {"absent", "torn", "old", "new", "mine"}
Outcomes == {"ok", "failed", "kept", "missing", "blocked"}
Three == {"config", "data", "logs"}
Disks == [tree : SUBSET Dirs, logs : SUBSET (0..MaxNow), extra : BOOLEAN,
          file : [Files -> Contents]]
Processes == [pc : Places, cmd : Commands, todo : Seq(Three), log : 0..MaxNow,
              depth : 0..MaxDepth, outcome : Outcomes, handlers : Seq(0..MaxNow),
              fresh : BOOLEAN]

(* The targets of purge are three directories.                             *)
LEMMA TargetSet == ToSet(Targets) = Three
BY DEF ToSet, Targets, Three

Kinds ==
  /\ build \in {"dev", "installed", "incomplete", "misplaced"}
  /\ disk \in Disks /\ proc \in [Procs -> Processes]
  /\ alone \in [Procs -> BOOLEAN] /\ now \in 0..MaxNow /\ begun \in 0..MaxCommands

(* Kinds is the type of the variables.                                     *)
LEMMA TypedKinds == Typed <=> Kinds
BY TargetSet DEF Typed, Kinds, Disks, Processes, Places, Contents, Outcomes

(* Only a purge has something selected, and only a collect or a purge may  *)
(* be dry.                                                                 *)
LEMMA CommandShape ==
  ASSUME NEW c \in Commands
  PROVE  /\ c.name \in {"init", "validate", "report", "collect", "purge"}
         /\ c.dry \in BOOLEAN /\ c.on \subseteq {"tasks", "config", "data", "logs"}
         /\ c.dry => c.name \in {"collect", "purge"}
<1>1. CASE c \in [name : {"purge"}, on : Selections, dry : BOOLEAN]
  BY <1>1, SelectionsAssumption
<1>2. CASE c = [name |-> "collect", on |-> {}, dry |-> TRUE]
  BY <1>2
<1>3. CASE \E n \in {"init", "validate", "report", "collect"} : c = Plain(n)
  BY <1>3 DEF Plain
<1> QED BY <1>1, <1>2, <1>3 DEF Commands

(* Chosen is a sequence of the targets selected.                           *)
LEMMA ChosenShape ==
  ASSUME NEW on
  PROVE  Chosen(on) \in Seq(Three) /\ ToSet(Chosen(on)) = on \cap Three
<1> DEFINE a == Only("config", on)
           b == Only("data", on)
           c == Only("logs", on)
<1>1. ASSUME NEW d \in Three
      PROVE  Only(d, on) \in Seq(Three) /\ ToSet(Only(d, on)) = on \cap {d}
  BY DEF Only, ToSet
<1>2. /\ a \in Seq(Three) /\ b \in Seq(Three) /\ c \in Seq(Three)
      /\ ToSet(a) = on \cap {"config"} /\ ToSet(b) = on \cap {"data"}
      /\ ToSet(c) = on \cap {"logs"}
  BY <1>1 DEF Three
<1>3. ASSUME NEW s \in Seq(Three), NEW t \in Seq(Three)
      PROVE  s \o t \in Seq(Three) /\ ToSet(s \o t) = ToSet(s) \cup ToSet(t)
  <2>1. s \o t \in Seq(Three) /\ Len(s \o t) = Len(s) + Len(t)
    OBVIOUS
  <2>2. \A i \in 1..Len(s) : (s \o t)[i] = s[i]
    OBVIOUS
  <2>3. \A i \in 1..Len(t) : Len(s) + i \in 1..Len(s \o t) /\ (s \o t)[Len(s) + i] = t[i]
    OBVIOUS
  <2>4. \A i \in 1..Len(s \o t) : \/ i \in 1..Len(s)
                                   \/ \E j \in 1..Len(t) : i = Len(s) + j
    <3> SUFFICES ASSUME NEW i \in 1..Len(s \o t), i \notin 1..Len(s)
                 PROVE  \E j \in 1..Len(t) : i = Len(s) + j
      OBVIOUS
    <3>1. i - Len(s) \in 1..Len(t) /\ i = Len(s) + (i - Len(s))
      BY <2>1
    <3> QED BY <3>1
  <2> DEFINE u == s \o t
  <2>5. /\ DOMAIN s = 1..Len(s) /\ DOMAIN t = 1..Len(t) /\ DOMAIN u = 1..Len(u)
        /\ Len(s) \in Nat /\ Len(t) \in Nat /\ Len(u) = Len(s) + Len(t)
    BY <2>1
  <2>6. u \in Seq(Three)
    BY <2>1
  <2> HIDE DEF u
  <2>7. ToSet(u) = ToSet(s) \cup ToSet(t)
    <3>1. \A x \in ToSet(s) : x \in ToSet(u)
      BY <2>2, <2>5 DEF ToSet, u
    <3>2. \A x \in ToSet(t) : x \in ToSet(u)
      BY <2>3, <2>5 DEF ToSet, u
    <3>3. \A x \in ToSet(u) : x \in ToSet(s) \cup ToSet(t)
      BY SMTT(30), <2>2, <2>3, <2>4, <2>5 DEF ToSet, u
    <3> QED BY <3>1, <3>2, <3>3
  <2> QED BY <2>6, <2>7 DEF u
<1> HIDE DEF a, b, c
<1>4. a \o b \in Seq(Three) /\ ToSet(a \o b) = on \cap {"config", "data"}
  BY <1>2, <1>3
<1> DEFINE ab == a \o b
<1> HIDE DEF ab
<1>5. ab \o c \in Seq(Three) /\ ToSet(ab \o c) = ToSet(ab) \cup ToSet(c)
  BY <1>2, <1>3, <1>4 DEF ab
<1>6. ToSet(ab \o c) = on \cap {"config", "data", "logs"}
  BY <1>2, <1>4, <1>5 DEF ab
<1>7. Chosen(on) = ab \o c
  BY DEF Chosen, ab, a, b, c
<1> QED BY <1>5, <1>6, <1>7 DEF Three

(* What is left when the next target is done with.                         *)
LEMMA TailShape ==
  ASSUME NEW s \in Seq(Three), s # <<>>
  PROVE  /\ Tail(s) \in Seq(Three) /\ Head(s) \in Three /\ Head(s) \in ToSet(s)
         /\ ToSet(Tail(s)) \subseteq ToSet(s)
         /\ ToSet(s) \subseteq ToSet(Tail(s)) \cup {Head(s)}
<1> DEFINE t == Tail(s)
<1>1. t \in Seq(Three) /\ Len(s) \in Nat \ {0} /\ Len(t) = Len(s) - 1
  OBVIOUS
<1>2. \A i \in 1..Len(t) : t[i] = s[i + 1] /\ i + 1 \in 1..Len(s)
  BY <1>1
<1>3. \A i \in 1..Len(s) : i # 1 => i - 1 \in 1..Len(t) /\ t[i - 1] = s[i]
  BY <1>1
<1>4. Head(s) = s[1] /\ 1 \in 1..Len(s) /\ s[1] \in Three
  BY <1>1
<1>5. DOMAIN s = 1..Len(s) /\ DOMAIN t = 1..Len(t)
  BY <1>1
<1> HIDE DEF t
<1>6. ToSet(t) \subseteq ToSet(s)
  BY <1>2, <1>5 DEF ToSet
<1>7. ToSet(s) \subseteq ToSet(t) \cup {Head(s)}
  BY <1>3, <1>4, <1>5 DEF ToSet
<1>8. Head(s) \in ToSet(s)
  BY <1>4, <1>5 DEF ToSet
<1> QED BY <1>1, <1>4, <1>6, <1>7, <1>8 DEF t
-----------------------------------------------------------------------------
(* Changes of the disk.                                                    *)

Closed ==
  /\ disk.tree # {} => "root" \in disk.tree
  /\ "backups" \in disk.tree => "data" \in disk.tree
  /\ Exists("config") \/ Exists("example") \/ Exists("schema") => "config" \in disk.tree
  /\ Exists("db") => "data" \in disk.tree
  /\ disk.logs # {} => "logs" \in disk.tree

Sane == /\ disk \in Disks /\ Closed
        /\ build = "dev" => disk.file["example"] # "torn"
        /\ disk.file["db"] # "torn"

(* TreeClosed, directory by directory.                                     *)
LEMMA ClosedTree ==
  TreeClosed <=> Closed /\ \A p \in Procs : ToSet(proc[p].handlers) \subseteq disk.logs
BY TargetSet DEF TreeClosed, Closed, In, Three

\* Nothing is lost.
Grows == /\ disk.tree \subseteq disk'.tree /\ disk.logs \subseteq disk'.logs
         /\ disk.extra => disk'.extra
         /\ \A f \in Files : Exists(f) => Exists(f)'

(* Directories that are made with those above them.                        *)
LEMMA DirsMade ==
  ASSUME Sane, UNCHANGED build,
         NEW dirs \in SUBSET {"config", "data", "logs", "backups"},
         disk' = [disk EXCEPT !.tree = WithDirs(dirs)]
  PROVE  /\ Sane' /\ Grows /\ disk'.tree = WithDirs(dirs) /\ disk'.file = disk.file
         /\ dirs \subseteq disk'.tree
<1>1. /\ disk' \in Disks /\ disk'.file = disk.file /\ disk'.logs = disk.logs
      /\ disk'.extra = disk.extra /\ disk'.tree = WithDirs(dirs)
  BY DEF Sane, Disks, WithDirs, Dirs
<1>2. disk.tree \subseteq disk'.tree /\ dirs \subseteq disk'.tree /\ "root" \in disk'.tree
      /\ ("backups" \in dirs => "data" \in disk'.tree)
  BY <1>1 DEF WithDirs
<1>3. "backups" \in disk'.tree => "data" \in disk'.tree
  BY <1>1, <1>2 DEF Sane, Closed, WithDirs
<1>4. Closed'
  BY <1>1, <1>2, <1>3 DEF Sane, Closed, Exists
<1>5. Grows
  BY <1>1, <1>2 DEF Grows, Exists
<1> QED BY <1>1, <1>2, <1>4, <1>5 DEF Sane

(* The root alone, and only of a build.                                    *)
LEMMA RootIsMade ==
  ASSUME Sane, UNCHANGED build, disk' = [disk EXCEPT !.tree = RootMade]
  PROVE  /\ Sane' /\ Grows /\ disk'.file = disk.file
         /\ disk'.tree \subseteq disk.tree \cup {"root"}
<1>1. CASE build = "dev"
  <2>1. disk' = disk
    BY <1>1 DEF RootMade, Sane, Disks
  <2> QED BY <2>1 DEF Grows, Sane, Closed, Exists
<1>2. CASE build # "dev"
  <2>1. disk' = [disk EXCEPT !.tree = WithDirs({})]
    BY <1>2 DEF RootMade
  <2>2. Sane' /\ Grows /\ disk'.file = disk.file /\ disk'.tree = WithDirs({})
    BY <2>1, DirsMade
  <2> QED BY <2>2 DEF WithDirs
<1> QED BY <1>1, <1>2

(* A file that is written, or truncated, where its directory is.           *)
LEMMA FileWritten ==
  ASSUME Sane, UNCHANGED build, NEW f \in Files, NEW c \in Contents \ {"absent"},
         disk' \in Disks, disk'.file = [disk.file EXCEPT ![f] = c],
         disk'.logs = disk.logs, disk.extra => disk'.extra,
         disk'.tree \in {disk.tree, WithDirs({"config"})},
         f # "db" => "config" \in disk'.tree,
         f = "db" => "data" \in disk'.tree /\ c # "torn",
         f = "example" /\ build = "dev" => c # "torn"
  PROVE  Sane' /\ Grows /\ disk'.file[f] = c
         /\ \A g \in Files \ {f} : disk'.file[g] = disk.file[g]
<1>1. disk'.file[f] = c /\ \A g \in Files \ {f} : disk'.file[g] = disk.file[g]
  BY DEF Sane, Disks
<1>2. disk.tree \subseteq disk'.tree /\ disk'.tree # {} /\ "root" \in disk'.tree
      /\ ("backups" \in disk'.tree => "backups" \in disk.tree)
  BY DEF Sane, Closed, WithDirs
<1>3. Closed'
  BY <1>1, <1>2 DEF Sane, Closed, Exists, Files
<1>4. Grows
  BY <1>1, <1>2 DEF Grows, Exists
<1>5. (build = "dev" => disk'.file["example"] # "torn") /\ disk'.file["db"] # "torn"
  BY <1>1 DEF Sane, Files
<1> QED BY <1>1, <1>3, <1>4, <1>5 DEF Sane
-----------------------------------------------------------------------------
(* Changes of a process.                                                   *)

\* The process is at pc with that todo, log and outcome, the rest is as it was.
Moves(p, pc, todo, log, outcome) ==
  /\ proc' \in [Procs -> Processes] /\ \A q \in Procs \ {p} : proc'[q] = proc[q]
  /\ proc'[p].pc = pc /\ proc'[p].todo = todo /\ proc'[p].log = log
  /\ proc'[p].outcome = outcome /\ proc'[p].cmd = proc[p].cmd
  /\ proc'[p].depth = proc[p].depth /\ proc'[p].handlers = proc[p].handlers
  /\ proc'[p].fresh = proc[p].fresh

(* The record of a process, field by field.                                *)
LEMMA ProcessShape ==
  ASSUME proc \in [Procs -> Processes], NEW p \in Procs
  PROVE  /\ proc[p].pc \in Places /\ proc[p].cmd \in Commands /\ proc[p].todo \in Seq(Three)
         /\ proc[p].log \in 0..MaxNow /\ proc[p].depth \in 0..MaxDepth
         /\ proc[p].outcome \in Outcomes /\ proc[p].handlers \in Seq(0..MaxNow)
         /\ proc[p].fresh \in BOOLEAN
BY DEF Processes

(* Another record in place of the one of a process.                        *)
LEMMA Replaced ==
  ASSUME proc \in [Procs -> Processes], NEW p \in Procs, NEW r \in Processes,
         proc' = [proc EXCEPT ![p] = r]
  PROVE  /\ proc' \in [Procs -> Processes] /\ proc'[p] = r
         /\ \A q \in Procs \ {p} : proc'[q] = proc[q]
OBVIOUS

(* Goto.                                                                   *)
LEMMA GotoMoves ==
  ASSUME proc \in [Procs -> Processes], NEW p \in Procs, NEW step \in Places, Goto(p, step)
  PROVE  Moves(p, step, proc[p].todo, proc[p].log, proc[p].outcome)
<1> DEFINE r == [proc[p] EXCEPT !.pc = step]
<1>1. /\ r \in Processes /\ r.pc = step /\ r.todo = proc[p].todo /\ r.log = proc[p].log
      /\ r.outcome = proc[p].outcome /\ r.cmd = proc[p].cmd /\ r.depth = proc[p].depth
      /\ r.handlers = proc[p].handlers /\ r.fresh = proc[p].fresh
  BY DEF Processes
<1>2. proc' = [proc EXCEPT ![p] = r]
  BY DEF Goto
<1> HIDE DEF r
<1> QED BY <1>1, <1>2, Replaced DEF Moves

(* End.                                                                    *)
LEMMA EndMoves ==
  ASSUME proc \in [Procs -> Processes], NEW p \in Procs, NEW how \in Outcomes, End(p, how)
  PROVE  Moves(p, "done", proc[p].todo, proc[p].log, how)
<1> DEFINE r == [proc[p] EXCEPT !.pc = "done", !.outcome = how]
<1>1. /\ r \in Processes /\ r.pc = "done" /\ r.todo = proc[p].todo /\ r.log = proc[p].log
      /\ r.outcome = how /\ r.cmd = proc[p].cmd /\ r.depth = proc[p].depth
      /\ r.handlers = proc[p].handlers /\ r.fresh = proc[p].fresh
  BY DEF Processes, Places
<1>2. proc' = [proc EXCEPT ![p] = r]
  BY DEF End
<1> HIDE DEF r
<1> QED BY <1>1, <1>2, Replaced DEF Moves

(* Another place and another outcome.                                      *)
LEMMA OutcomeMoves ==
  ASSUME proc \in [Procs -> Processes], NEW p \in Procs, NEW step \in Places,
         NEW how \in Outcomes,
         proc' = [proc EXCEPT ![p].pc = step, ![p].outcome = how]
  PROVE  Moves(p, step, proc[p].todo, proc[p].log, how)
<1> DEFINE r == [proc[p] EXCEPT !.pc = step, !.outcome = how]
<1>1. /\ r \in Processes /\ r.pc = step /\ r.todo = proc[p].todo /\ r.log = proc[p].log
      /\ r.outcome = how /\ r.cmd = proc[p].cmd /\ r.depth = proc[p].depth
      /\ r.handlers = proc[p].handlers /\ r.fresh = proc[p].fresh
  BY DEF Processes
<1>2. proc' = [proc EXCEPT ![p] = r]
  OBVIOUS
<1> HIDE DEF r
<1> QED BY <1>1, <1>2, Replaced DEF Moves

(* The next target.                                                        *)
LEMMA TailMoves ==
  ASSUME proc \in [Procs -> Processes], NEW p \in Procs, proc[p].todo # <<>>,
         \/ proc' = [proc EXCEPT ![p].pc = "next", ![p].todo = Tail(@)]
         \/ proc[p].pc = "next" /\ proc' = [proc EXCEPT ![p].todo = Tail(@)]
  PROVE  Moves(p, "next", Tail(proc[p].todo), proc[p].log, proc[p].outcome)
<1> DEFINE t == Tail(proc[p].todo)
           r == [proc[p] EXCEPT !.pc = "next", !.todo = t]
<1>1. t \in Seq(Three) /\ proc[p] \in Processes
  BY ProcessShape, TailShape
<1>2. proc' = [proc EXCEPT ![p] = r]
  <2>1. CASE proc' = [proc EXCEPT ![p].pc = "next", ![p].todo = Tail(@)]
    BY <2>1
  <2>2. CASE proc[p].pc = "next" /\ proc' = [proc EXCEPT ![p].todo = Tail(@)]
    <3>1. proc' = [proc EXCEPT ![p] = [proc[p] EXCEPT !.todo = t]]
      BY <2>2
    <3> HIDE DEF t
    <3>2. r = [proc[p] EXCEPT !.todo = t]
      BY <1>1, <2>2 DEF Processes
    <3> QED BY <3>1, <3>2
  <2> QED BY <2>1, <2>2
<1> HIDE DEF t
<1>3. /\ r \in Processes /\ r.pc = "next" /\ r.todo = t /\ r.log = proc[p].log
      /\ r.outcome = proc[p].outcome /\ r.cmd = proc[p].cmd /\ r.depth = proc[p].depth
      /\ r.handlers = proc[p].handlers /\ r.fresh = proc[p].fresh
  BY <1>1 DEF Processes, Places, Steps
<1> HIDE DEF r
<1> QED BY <1>2, <1>3, Replaced DEF Moves, t

(* The next log.                                                           *)
LEMMA LogMoves ==
  ASSUME proc \in [Procs -> Processes], NEW p \in Procs, NEW step \in Places,
         NEW l \in 0..MaxNow,
         proc' = [proc EXCEPT ![p].pc = step, ![p].log = l]
  PROVE  Moves(p, step, proc[p].todo, l, proc[p].outcome)
<1> DEFINE r == [proc[p] EXCEPT !.pc = step, !.log = l]
<1>1. /\ r \in Processes /\ r.pc = step /\ r.todo = proc[p].todo /\ r.log = l
      /\ r.outcome = proc[p].outcome /\ r.cmd = proc[p].cmd /\ r.depth = proc[p].depth
      /\ r.handlers = proc[p].handlers /\ r.fresh = proc[p].fresh
  BY DEF Processes
<1>2. proc' = [proc EXCEPT ![p] = r]
  OBVIOUS
<1> HIDE DEF r
<1> QED BY <1>1, <1>2, Replaced DEF Moves
-----------------------------------------------------------------------------
(* The steps of the commands.                                              *)

\* The schema was not looked at yet.
Early == {"init", "example", "example2", "schema"}

PlacedAt(p) ==
  LET r == proc[p]
  IN  /\ Running(p) => r.pc \in Stages(r.cmd.name)
      /\ r.pc \in {"example", "example2", "schema2"} => build # "dev"
      /\ r.cmd.name = "purge" => ToSet(r.todo) \subseteq Three \cap r.cmd.on
      /\ r.pc = "rmtree" => build # "misplaced" /\ ~r.cmd.dry /\ r.todo # <<>>
      /\ r.pc = "rmdir" => ~r.cmd.dry /\ r.todo = <<>>
      /\ r.pc = "unlink" => r.log < now
      /\ r.pc = "prompt" => r.depth > 0
      /\ r.fresh => r.pc \notin Early
      /\ r.cmd.name = "init" /\ r.pc \in Stages("init") \ {"init"} =>
           build # "incomplete"
      /\ r.pc = "off" => r.depth = 0 /\ r.handlers = <<>>
      /\ r.depth = 0 => ToSet(r.handlers) \subseteq {now}

HeldAt(p) == \A f \in Held(p) : Exists(f)

Past(r, name, steps) ==
  r.cmd.name = name /\ (r.pc \in steps \/ (r.pc = "done" /\ r.outcome = "ok"))

AchievedAt(p) ==
  LET r == proc[p]
  IN  /\ r.pc \in Steps \cup {"done"}
      /\ r.pc = "unlink" => r.log \in disk.logs
      /\ Past(r, "purge", {"purge", "next", "rmtree", "rmdir"}) /\ ~r.cmd.dry =>
           r.cmd.on \cap disk.tree \subseteq ToSet(r.todo)
      /\ Past(r, "purge", {"rmdir"}) /\ ~r.cmd.dry => r.todo = <<>>
      /\ Past(r, "init", {"schema", "schema2", "config", "config2", "dirs"}) =>
           build = "dev" \/ disk.file["example"] = "new"
      /\ Past(r, "init", {"config", "config2", "dirs"}) /\ r.fresh =>
           build = "dev" \/ disk.file["schema"] = "new"
      /\ Past(r, "init", {"dirs"}) =>
           Whole("config") /\ disk.file["config"] = disk.file["example"]
      /\ Past(r, "init", {}) => {"config", "data", "logs", "backups"} \subseteq disk.tree
                                /\ build # "incomplete"
      /\ Past(r, "validate", {"load", "open"}) /\ r.fresh =>
           build = "dev" \/ disk.file["schema"] = "new"
      /\ Past(r, "validate", {}) => Whole("db") /\ "data" \in disk.tree
      /\ r.cmd.name = "validate" /\ r.pc \in {"open", "done"} /\ r.outcome = "ok" =>
           Whole("config") /\ Whole("schema")

\* The invariant, process by process.
Good == /\ Kinds /\ Sane
        /\ \A p \in Procs : /\ PlacedAt(p) /\ HeldAt(p) /\ (alone[p] => AchievedAt(p))
                            /\ ToSet(proc[p].handlers) \subseteq disk.logs

(* It is the invariant of Shell.                                           *)
LEMMA Processwise == IInv <=> Good
<1>1. PlaceInv <=> \A p \in Procs : PlacedAt(p)
  BY TargetSet DEF PlaceInv, PlacedAt, Early
<1>2. AloneInv <=> \A p \in Procs : alone[p] => AchievedAt(p)
  BY DEF AloneInv, AchievedAt, Past
<1>3. Typed /\ TreeClosed /\ HeldInv <=>
        /\ Kinds /\ Sane /\ \A p \in Procs : HeldAt(p)
        /\ \A p \in Procs : ToSet(proc[p].handlers) \subseteq disk.logs
  BY TypedKinds, ClosedTree DEF HeldInv, HeldAt, Sane, Kinds
<1> QED BY <1>1, <1>2, <1>3 DEF IInv, TypeOK, Good

(* ... and so it is after a step.                                          *)
LEMMA GoodNext == Good' => IInv'
BY Processwise, PTL

\* A command may take a step.
Ready(p) == /\ Kinds /\ Sane /\ PlacedAt(p) /\ HeldAt(p)
            /\ UNCHANGED <<build, now>>

\* It has taken one.
Fits(p) == /\ proc' \in [Procs -> Processes]
           /\ \A q \in Procs \ {p} : proc'[q] = proc[q]
           /\ proc'[p].depth = proc[p].depth /\ proc'[p].handlers = proc[p].handlers
           /\ Sane' /\ PlacedAt(p)' /\ HeldAt(p)'
           /\ AchievedAt(p) => AchievedAt(p)'

(* A step that stays in the command keeps its place.                       *)
LEMMA PlaceKept ==
  ASSUME NEW p \in Procs, Ready(p), Running(p), NEW pc, NEW todo, NEW log, NEW outcome,
         Moves(p, pc, todo, log, outcome),
         pc \in Stages(proc[p].cmd.name) \cup {"done"},
         pc \in {"example", "example2", "schema2"} => build # "dev",
         pc \in Early => proc[p].pc \in Early,
         proc[p].pc = "init" => build # "incomplete" \/ pc = "done",
         ToSet(todo) \subseteq ToSet(proc[p].todo),
         pc = "rmtree" => build # "misplaced" /\ ~proc[p].cmd.dry /\ todo # <<>>,
         pc = "rmdir" => ~proc[p].cmd.dry /\ todo = <<>>,
         pc = "unlink" => log < now
  PROVE  PlacedAt(p)'
<1>1. pc \in Steps \cup {"done"}
  <2>1. proc[p].cmd.name \in {"init", "validate", "report", "collect", "purge"}
    BY ProcessShape, CommandShape DEF Ready, Kinds
  <2> QED BY <2>1 DEF Stages, Steps
<1>2. pc # "off" /\ pc # "prompt" /\ (pc = "done" => pc \notin Steps)
  BY <1>1 DEF Steps
<1>3. proc[p].fresh => proc[p].pc \notin Early
  BY DEF Ready, PlacedAt
<1>4. proc[p].cmd.name = "init" /\ pc # "done" => build # "incomplete"
  BY DEF Ready, PlacedAt, Running
<1>5. "done" \notin Stages("init") /\ "done" \notin Early
  BY DEF Stages, Early
<1> QED BY <1>1, <1>2, <1>3, <1>4, <1>5 DEF PlacedAt, Moves, Ready, Running

(* An exception, and every other end that is not a success.                *)
LEMMA EndsBadly ==
  ASSUME NEW p \in Procs, Ready(p), Running(p), NEW how \in Outcomes \ {"ok"},
         End(p, how), Sane'
  PROVE  Fits(p)
<1>1. Moves(p, "done", proc[p].todo, proc[p].log, how)
  BY EndMoves DEF Ready, Kinds
<1>2. PlacedAt(p)'
  BY <1>1, PlaceKept DEF Early
<1>3. HeldAt(p)'
  BY <1>1 DEF HeldAt, Held, Moves
<1>4. AchievedAt(p)'
  BY <1>1 DEF AchievedAt, Moves, Past
<1> QED BY <1>1, <1>2, <1>3, <1>4 DEF Fits, Moves

(* Raise.                                                                  *)
LEMMA RaiseFits ==
  ASSUME NEW p \in Procs, Ready(p), Running(p), Raise(p)
  PROVE  Fits(p) /\ Grows
<1>1. disk' = disk /\ Sane'
  BY DEF Raise, Ready, Sane, Closed, Exists
<1>2. Fits(p)
  BY <1>1, EndsBadly DEF Raise, Outcomes
<1> QED BY <1>1, <1>2 DEF Grows, Exists
(* Which command a place belongs to.                                       *)
LEMMA NameAt ==
  ASSUME NEW p \in Procs, Ready(p)
  PROVE  LET r == proc[p]
         IN  /\ r \in Processes /\ r.pc \in Places
             /\ r.pc \in Steps => Running(p)
             /\ r.pc \in {"init", "example", "example2", "config", "config2", "dirs"}
                  => r.cmd.name = "init"
             /\ r.pc \in {"schema", "schema2"} => r.cmd.name \in {"init", "validate"}
             /\ r.pc \in {"load", "open"} => r.cmd.name = "validate"
             /\ r.pc \in {"report", "weekly"} => r.cmd.name = "report"
             /\ r.pc \in {"collect", "log", "prune", "unlink", "run", "saving"}
                  => r.cmd.name = "collect"
             /\ r.pc = "backup" => r.cmd.name \in {"report", "collect"}
             /\ r.pc \in {"purge", "next", "rmtree", "rmdir"} => r.cmd.name = "purge"
             /\ r.cmd.name = "report" => ~r.cmd.dry
<1> DEFINE name == proc[p].cmd.name
<1>1. /\ proc[p] \in Processes /\ proc[p].pc \in Places
      /\ name \in {"init", "validate", "report", "collect", "purge"}
      /\ name = "report" => ~proc[p].cmd.dry
  BY ProcessShape, CommandShape DEF Ready, Kinds
<1>2. proc[p].pc \in Steps => Running(p) /\ proc[p].pc \in Stages(name)
  BY DEF Ready, PlacedAt, Running
<1> HIDE DEF name
<1>3. CASE proc[p].pc \notin Steps
  BY <1>1, <1>3 DEF Steps, name
<1>4. CASE proc[p].pc \in Steps
  <2>1. Stages(name) = CASE name = "init" -> Stages("init")
                         [] name = "validate" -> Stages("validate")
                         [] name = "report" -> Stages("report")
                         [] name = "collect" -> Stages("collect")
                         [] name = "purge" -> Stages("purge")
    BY <1>1 DEF Stages
  <2> QED BY <1>1, <1>2, <1>4 DEF Stages, name
<1> QED BY <1>3, <1>4

(* lpm init looks for the config, and whether it was shipped with one.     *)
LEMMA InitChecksFits ==
  ASSUME NEW p \in Procs, Ready(p), InitChecks(p)
  PROVE  Fits(p) /\ Grows
<1>1. Running(p) /\ proc[p].cmd.name = "init"
  BY NameAt DEF InitChecks, Steps
<1>2. CASE disk' = [disk EXCEPT !.tree = RootMade] /\ End(p, "kept")
  <2>1. Sane' /\ Grows
    BY <1>2, RootIsMade DEF Ready
  <2> QED BY <1>1, <1>2, <2>1, EndsBadly DEF Outcomes
<1>3. CASE disk' = [disk EXCEPT !.tree = WithDirs({"config"})] /\ End(p, "missing")
  <2>1. Sane' /\ Grows
    BY <1>3, DirsMade DEF Ready
  <2> QED BY <1>1, <1>3, <2>1, EndsBadly DEF Outcomes
<1>4. CASE /\ Shipped
           /\ disk' = [disk EXCEPT !.tree = WithDirs({"config"})]
           /\ Goto(p, IF build = "dev" THEN "config" ELSE "example")
  <2> DEFINE step == IF build = "dev" THEN "config" ELSE "example"
  <2>1. Sane' /\ Grows /\ disk'.file = disk.file
    BY <1>4, DirsMade DEF Ready
  <2>2. /\ step \in Stages("init") /\ step \in Places /\ step \in {"config", "example"}
        /\ (step = "config" => build = "dev") /\ (step = "example" => build # "dev")
    BY DEF Stages, Places, Steps
  <2> HIDE DEF step
  <2>3. Moves(p, step, proc[p].todo, proc[p].log, proc[p].outcome)
    BY <1>4, <2>2, GotoMoves DEF Ready, Kinds, step
  <2>4. PlacedAt(p)'
    <3>1. proc[p].pc \in Early /\ build # "incomplete"
      BY <1>4 DEF InitChecks, Early, Shipped
    <3> QED BY <1>1, <2>2, <2>3, <3>1, PlaceKept
  <2>5. HeldAt(p)'
    BY <2>2, <2>3 DEF HeldAt, Held, Moves
  <2>6. AchievedAt(p)'
    BY <1>1, <2>2, <2>3 DEF AchievedAt, Moves, Past, Ready, Steps
  <2> QED BY <2>1, <2>3, <2>4, <2>5, <2>6 DEF Fits, Moves
<1> QED BY <1>2, <1>3, <1>4 DEF InitChecks

(* The example is copied.                                                  *)
LEMMA CopyExampleFits ==
  ASSUME NEW p \in Procs, Ready(p), CopyExample(p)
  PROVE  Fits(p) /\ Grows
<1>1. Running(p) /\ proc[p].cmd.name = "init" /\ build # "dev"
  BY NameAt DEF CopyExample, Steps, Ready, PlacedAt
<1>2. CASE proc[p].pc = "example" /\ "config" \in disk.tree
           /\ Truncate(p, "example", disk.tree, "example2")
  <2>1. /\ disk' \in Disks /\ disk'.tree = disk.tree /\ disk'.logs = disk.logs
        /\ disk'.extra = disk.extra /\ disk'.file = [disk.file EXCEPT !["example"] = "torn"]
    BY <1>2 DEF Truncate, Ready, Sane, Disks, Contents
  <2>2. Sane' /\ Grows /\ disk'.file["example"] = "torn"
    BY <1>1, <1>2, <2>1, FileWritten DEF Ready, Files, Contents
  <2>3. Moves(p, "example2", proc[p].todo, proc[p].log, proc[p].outcome)
    BY <1>2, GotoMoves DEF Ready, Kinds, Truncate, Places, Steps
  <2>4. PlacedAt(p)'
    BY <1>1, <1>2, <2>3, PlaceKept DEF Stages, Early
  <2>5. HeldAt(p)'
    BY <2>2, <2>3 DEF HeldAt, Held, Moves, Exists
  <2>6. AchievedAt(p)'
    BY <1>1, <2>3 DEF AchievedAt, Moves, Past, Ready, Steps
  <2> QED BY <2>2, <2>3, <2>4, <2>5, <2>6 DEF Fits, Moves
<1>3. CASE Raise(p)
  BY <1>1, <1>3, RaiseFits
<1>4. CASE proc[p].pc = "example2" /\ Write(p, "example", "new") /\ Goto(p, "schema")
  <2>1. /\ disk' \in Disks /\ disk'.tree = disk.tree /\ disk'.logs = disk.logs
        /\ disk'.extra = disk.extra /\ disk'.file = [disk.file EXCEPT !["example"] = "new"]
    BY <1>4 DEF Write, Ready, Sane, Disks, Contents
  <2>2. "config" \in disk.tree
    BY <1>4 DEF Ready, HeldAt, Held, Sane, Closed
  <2>3. Sane' /\ Grows /\ disk'.file["example"] = "new"
    BY <1>1, <2>1, <2>2, FileWritten DEF Ready, Files, Contents
  <2>4. Moves(p, "schema", proc[p].todo, proc[p].log, proc[p].outcome)
    BY <1>4, GotoMoves DEF Ready, Kinds, Places, Steps
  <2>5. PlacedAt(p)'
    BY <1>1, <1>4, <2>4, PlaceKept DEF Stages, Early
  <2>6. HeldAt(p)'
    BY <2>4 DEF HeldAt, Held, Moves
  <2>7. AchievedAt(p)'
    BY <1>1, <2>3, <2>4 DEF AchievedAt, Moves, Past, Ready, Steps
  <2> QED BY <2>3, <2>4, <2>5, <2>6, <2>7 DEF Fits, Moves
<1> QED BY <1>2, <1>3, <1>4 DEF CopyExample
(* The schema of the build was read.                                       *)
LEMMA FreshMoves ==
  ASSUME proc \in [Procs -> Processes], NEW p \in Procs, NEW step \in Places,
         proc' = [proc EXCEPT ![p].pc = step, ![p].fresh = TRUE]
  PROVE  /\ proc' \in [Procs -> Processes] /\ \A q \in Procs \ {p} : proc'[q] = proc[q]
         /\ proc'[p].pc = step /\ proc'[p].todo = proc[p].todo
         /\ proc'[p].log = proc[p].log /\ proc'[p].outcome = proc[p].outcome
         /\ proc'[p].cmd = proc[p].cmd /\ proc'[p].depth = proc[p].depth
         /\ proc'[p].handlers = proc[p].handlers /\ proc'[p].fresh = TRUE
<1> DEFINE r == [proc[p] EXCEPT !.pc = step, !.fresh = TRUE]
<1>1. /\ r \in Processes /\ r.pc = step /\ r.todo = proc[p].todo /\ r.log = proc[p].log
      /\ r.outcome = proc[p].outcome /\ r.cmd = proc[p].cmd /\ r.depth = proc[p].depth
      /\ r.handlers = proc[p].handlers /\ r.fresh = TRUE
  BY DEF Processes
<1>2. proc' = [proc EXCEPT ![p] = r]
  OBVIOUS
<1> HIDE DEF r
<1> QED BY <1>1, <1>2, Replaced

(* The copy of the schema is left as it is, or compared and, when it       *)
(* differs, rewritten.                                                     *)
LEMMA RefreshSchemaFits ==
  ASSUME NEW p \in Procs, Ready(p), RefreshSchema(p)
  PROVE  Fits(p) /\ Grows
<1> DEFINE after == AfterSchema(p)
           name == proc[p].cmd.name
           Keeps(step) ==
             /\ proc' \in [Procs -> Processes] /\ \A q \in Procs \ {p} : proc'[q] = proc[q]
             /\ proc'[p].pc = step /\ proc'[p].todo = proc[p].todo
             /\ proc'[p].log = proc[p].log /\ proc'[p].outcome = proc[p].outcome
             /\ proc'[p].cmd = proc[p].cmd /\ proc'[p].depth = proc[p].depth
             /\ proc'[p].handlers = proc[p].handlers
           Read(step) == proc' = [proc EXCEPT ![p].pc = step, ![p].fresh = TRUE]
<1>1. /\ Running(p) /\ name \in {"init", "validate"} /\ proc[p].pc \in {"schema", "schema2"}
      /\ (name = "init" => build # "incomplete") /\ proc \in [Procs -> Processes]
  BY NameAt DEF RefreshSchema, Steps, Ready, PlacedAt, Stages, Kinds
<1>2. /\ after \in Places /\ after \in Stages(name) /\ after \in {"config", "load"}
      /\ (after = "config" <=> name = "init")
      /\ "schema2" \in Places /\ "schema2" \in Stages(name)
  BY <1>1 DEF AfterSchema, Stages, Places, Steps
<1> HIDE DEF after
<1>3. ASSUME NEW step \in {after, "schema2"}, Goto(p, step)
      PROVE  Keeps(step) /\ proc'[p].fresh = proc[p].fresh
  BY <1>1, <1>2, <1>3, GotoMoves DEF Moves
<1>4. ASSUME NEW step \in {after, "schema2"}, Read(step)
      PROVE  Keeps(step) /\ proc'[p].fresh
  BY <1>1, <1>2, <1>4, FreshMoves
<1>5. ASSUME NEW step \in {after, "schema2"}, Keeps(step), step = "schema2" => build # "dev"
      PROVE  PlacedAt(p)'
  <2>1. step \in Stages(name) /\ step \in {"config", "load", "schema2"}
    BY <1>2
  <2>2. step \notin Early
    BY <2>1 DEF Early
  <2>3. (build # "incomplete" \/ name # "init") /\ UNCHANGED <<build, now>>
    BY <1>1 DEF Ready
  <2>4. PlacedAt(p)
    BY DEF Ready
  <2> HIDE DEF name
  <2>5. proc'[p].cmd.name = name
    BY <1>5 DEF name
  <2> QED BY <1>1, <1>5, <2>1, <2>2, <2>3, <2>4, <2>5 DEF PlacedAt, name
<1>6. ASSUME Keeps(after), proc'[p].fresh => build = "dev" \/ disk'.file["schema"] = "new",
             disk'.file["example"] = disk.file["example"], Sane'
      PROVE  Fits(p)
  <2>1. PlacedAt(p)'
    BY <1>2, <1>5, <1>6
  <2>2. HeldAt(p)'
    BY <1>2, <1>6 DEF HeldAt, Held
  <2>3. AchievedAt(p) => AchievedAt(p)'
    BY <1>1, <1>2, <1>6 DEF AchievedAt, Past, Ready, Steps
  <2> QED BY <1>6, <2>1, <2>2, <2>3 DEF Fits
<1>7. CASE proc[p].pc = "schema" /\ SchemaLeft /\ Goto(p, AfterSchema(p))
  <2>1. Sane' /\ Grows /\ disk'.file = disk.file
    BY <1>7, RootIsMade DEF Ready, SchemaLeft
  <2>2. ~proc[p].fresh
    BY <1>7 DEF Ready, PlacedAt, Early
  <2> QED BY <1>3, <1>6, <1>7, <2>1, <2>2 DEF after
<1>8. CASE proc[p].pc = "schema" /\ disk.file["schema"] = "new" /\ SchemaLeft
           /\ Read(AfterSchema(p))
  <2>1. Sane' /\ Grows /\ disk'.file = disk.file
    BY <1>8, RootIsMade DEF Ready, SchemaLeft
  <2> QED BY <1>4, <1>6, <1>8, <2>1 DEF after
<1>9. CASE /\ proc[p].pc = "schema" /\ build # "dev" /\ Read("schema2")
           /\ disk' = [disk EXCEPT !.tree = WithDirs({"config"}), !.file["schema"] = "torn"]
  <2>1. /\ disk' \in Disks /\ disk'.tree = WithDirs({"config"}) /\ disk'.logs = disk.logs
        /\ disk'.extra = disk.extra /\ disk'.file = [disk.file EXCEPT !["schema"] = "torn"]
    BY <1>9 DEF Ready, Sane, Disks, Contents, WithDirs, Dirs
  <2>2. "config" \in disk'.tree
    BY <2>1 DEF WithDirs
  <2>3. /\ Sane' /\ Grows /\ disk'.file["schema"] = "torn"
        /\ disk'.file["example"] = disk.file["example"]
    BY <2>1, <2>2, FileWritten DEF Ready, Files, Contents
  <2>4. Keeps("schema2")
    BY <1>4, <1>9
  <2>5. PlacedAt(p)'
    BY <1>5, <1>9, <2>4
  <2>6. HeldAt(p)'
    BY <2>3, <2>4 DEF HeldAt, Held, Exists
  <2>7. AchievedAt(p) => AchievedAt(p)'
    BY <1>1, <1>9, <2>3, <2>4 DEF AchievedAt, Past, Ready, Steps
  <2> QED BY <2>3, <2>4, <2>5, <2>6, <2>7 DEF Fits
<1>10. CASE proc[p].pc = "schema2" /\ Write(p, "schema", "new") /\ Goto(p, AfterSchema(p))
  <2>1. /\ disk' \in Disks /\ disk'.tree = disk.tree /\ disk'.logs = disk.logs
        /\ disk'.extra = disk.extra /\ disk'.file = [disk.file EXCEPT !["schema"] = "new"]
    BY <1>10 DEF Write, Ready, Sane, Disks, Contents
  <2>2. "config" \in disk.tree
    BY <1>10 DEF Ready, HeldAt, Held, Sane, Closed
  <2>3. /\ Sane' /\ Grows /\ disk'.file["schema"] = "new"
        /\ disk'.file["example"] = disk.file["example"]
    BY <2>1, <2>2, FileWritten DEF Ready, Files, Contents
  <2> QED BY <1>3, <1>6, <1>10, <2>3 DEF after
<1> QED BY <1>7, <1>8, <1>9, <1>10 DEF RefreshSchema

(* The config is copied from the example.                                  *)
LEMMA CopyConfigFits ==
  ASSUME NEW p \in Procs, Ready(p), CopyConfig(p)
  PROVE  Fits(p) /\ Grows
<1>1. Running(p) /\ proc[p].cmd.name = "init"
  BY NameAt DEF CopyConfig, Steps
<1>2. CASE proc[p].pc = "config" /\ Exists("example")
           /\ Truncate(p, "config", disk.tree, "config2")
  <2>1. /\ disk' \in Disks /\ disk'.tree = disk.tree /\ disk'.logs = disk.logs
        /\ disk'.extra = disk.extra /\ disk'.file = [disk.file EXCEPT !["config"] = "torn"]
    BY <1>2 DEF Truncate, Ready, Sane, Disks, Contents
  <2>2. "config" \in disk.tree
    BY <1>2 DEF Ready, Sane, Closed
  <2>3. /\ Sane' /\ Grows /\ disk'.file["config"] = "torn"
        /\ disk'.file["example"] = disk.file["example"]
        /\ disk'.file["schema"] = disk.file["schema"]
    BY <2>1, <2>2, FileWritten DEF Ready, Files, Contents
  <2>4. Moves(p, "config2", proc[p].todo, proc[p].log, proc[p].outcome)
    BY <1>2, GotoMoves DEF Ready, Kinds, Truncate, Places, Steps
  <2>5. PlacedAt(p)'
    BY <1>1, <1>2, <2>4, PlaceKept DEF Stages, Early
  <2>6. HeldAt(p)'
    BY <1>2, <2>3, <2>4 DEF HeldAt, Held, Moves, Exists
  <2>7. AchievedAt(p) => AchievedAt(p)'
    BY <1>1, <1>2, <2>3, <2>4 DEF AchievedAt, Moves, Past, Ready, Steps
  <2> QED BY <2>3, <2>4, <2>5, <2>6, <2>7 DEF Fits, Moves
<1>3. CASE Raise(p)
  BY <1>1, <1>3, RaiseFits
<1>4. CASE proc[p].pc = "config2" /\ Write(p, "config", disk.file["example"])
           /\ Goto(p, "dirs")
  <2> DEFINE c == disk.file["example"]
  <2>1. c \in Contents \ {"absent"} /\ "config" \in disk.tree
    BY <1>4 DEF Ready, Sane, Disks, Files, HeldAt, Held, Exists, Closed
  <2>2. /\ disk' \in Disks /\ disk'.tree = disk.tree /\ disk'.logs = disk.logs
        /\ disk'.extra = disk.extra /\ disk'.file = [disk.file EXCEPT !["config"] = c]
    BY <1>4, <2>1 DEF Write, Ready, Sane, Disks
  <2>3. /\ Sane' /\ Grows /\ disk'.file["config"] = c
        /\ disk'.file["example"] = disk.file["example"]
        /\ disk'.file["schema"] = disk.file["schema"]
    BY <2>1, <2>2, FileWritten DEF Ready, Files
  <2>4. Moves(p, "dirs", proc[p].todo, proc[p].log, proc[p].outcome)
    BY <1>4, GotoMoves DEF Ready, Kinds, Places, Steps
  <2>5. PlacedAt(p)'
    BY <1>1, <1>4, <2>4, PlaceKept DEF Stages, Early
  <2>6. HeldAt(p)'
    BY <2>4 DEF HeldAt, Held, Moves
  <2>7. AchievedAt(p) => AchievedAt(p)'
    <3> SUFFICES ASSUME AchievedAt(p)  PROVE AchievedAt(p)'
      OBVIOUS
    <3>1. c # "torn"
      BY <1>1, <1>4 DEF AchievedAt, Past, Ready, Sane
    <3>2. (Whole("config") /\ disk.file["config"] = disk.file["example"])'
      BY <2>1, <2>3, <3>1 DEF Whole
    <3> HIDE DEF c
    <3> QED BY <1>1, <1>4, <2>3, <2>4, <3>2 DEF AchievedAt, Moves, Past, Ready, Steps
  <2> QED BY <2>3, <2>4, <2>5, <2>6, <2>7 DEF Fits, Moves
<1> QED BY <1>2, <1>3, <1>4 DEF CopyConfig

(* The directories are made, and the init is over.                         *)
LEMMA MakeDirsFits ==
  ASSUME NEW p \in Procs, Ready(p), MakeDirs(p)
  PROVE  Fits(p) /\ Grows
<1>1. Running(p) /\ proc[p].cmd.name = "init" /\ proc[p].pc = "dirs"
  BY NameAt DEF MakeDirs, Steps
<1>2. Sane' /\ Grows /\ disk'.file = disk.file /\ {"data", "logs", "backups"} \subseteq disk'.tree
  BY DirsMade DEF MakeDirs, Ready
<1>3. Moves(p, "done", proc[p].todo, proc[p].log, "ok")
  BY EndMoves DEF MakeDirs, Ready, Kinds, Outcomes
<1>4. PlacedAt(p)'
  BY <1>1, <1>3, PlaceKept DEF Early
<1>5. HeldAt(p)'
  BY <1>3 DEF HeldAt, Held, Moves
<1>6. AchievedAt(p) => AchievedAt(p)'
  <2> SUFFICES ASSUME AchievedAt(p)  PROVE AchievedAt(p)'
    OBVIOUS
  <2>1. Whole("config") /\ disk.file["config"] = disk.file["example"]
    BY <1>1 DEF AchievedAt, Past
  <2>2. "config" \in disk'.tree
    BY <1>2, <2>1 DEF Ready, Sane, Closed, Whole, Exists, Grows
  <2>3. build # "incomplete"
    BY <1>1 DEF Ready, PlacedAt, Stages
  <2> QED BY <1>1, <1>2, <1>3, <2>1, <2>2, <2>3 DEF AchievedAt, Moves, Past, Ready, Whole
<1> QED BY <1>2, <1>3, <1>4, <1>5, <1>6 DEF Fits, Moves

(* The config is checked against the schema.                               *)
LEMMA ValidateConfigFits ==
  ASSUME NEW p \in Procs, Ready(p), ValidateConfig(p)
  PROVE  Fits(p) /\ Grows
<1>1. /\ Running(p) /\ proc[p].cmd.name = "validate" /\ proc[p].pc = "load"
      /\ disk' = disk
  BY NameAt DEF ValidateConfig, Steps
<1>2. Sane' /\ Grows
  BY <1>1 DEF Ready, Sane, Closed, Exists, Grows
<1>3. CASE End(p, "failed")
  BY <1>1, <1>2, <1>3, EndsBadly DEF Outcomes
<1>4. CASE Whole("config") /\ ~End(p, "failed")
  <2>1. PICK found \in IF Whole("schema") THEN {"ok", "failed"} ELSE {"failed"} :
          proc' = [proc EXCEPT ![p].pc = "open", ![p].outcome = found]
    BY <1>4 DEF ValidateConfig
  <2>2. found \in {"ok", "failed"} /\ (found = "ok" => Whole("schema"))
    <3>1. CASE Whole("schema")
      <4>1. found \in {"ok", "failed"}
        BY <3>1, Zenon
      <4> QED BY <3>1, <4>1
    <3>2. CASE ~Whole("schema")
      <4>1. found \in {"failed"}
        BY <3>2, Zenon
      <4>2. found = "failed"
        BY <4>1
      <4> QED BY <4>2
    <3> QED BY <3>1, <3>2
  <2>3. Moves(p, "open", proc[p].todo, proc[p].log, found)
    BY <2>1, <2>2, OutcomeMoves DEF Ready, Kinds, Places, Steps, Outcomes
  <2>4. PlacedAt(p)'
    BY <1>1, <2>3, PlaceKept DEF Stages, Early
  <2>5. HeldAt(p)'
    BY <2>3 DEF HeldAt, Held, Moves
  <2>6. AchievedAt(p) => AchievedAt(p)'
    BY <1>1, <1>4, <2>2, <2>3 DEF AchievedAt, Moves, Past, Ready, Whole, Steps
  <2> QED BY <1>2, <2>3, <2>4, <2>5, <2>6 DEF Fits, Moves
<1> QED BY <1>2, <1>3, <1>4 DEF ValidateConfig
(* The database is opened, and created when it is not there.               *)
LEMMA DbIsOpened ==
  ASSUME Sane, UNCHANGED build, "data" \in disk.tree, NEW csv \in BOOLEAN,
         disk' = DbOpened \/ disk' = [DbOpened EXCEPT !.extra = @ \/ csv]
  PROVE  /\ Sane' /\ Grows /\ Whole("db")' /\ "data" \in disk'.tree
         /\ \A f \in Files \ {"db"} : disk'.file[f] = disk.file[f]
<1> DEFINE c == IF disk.file["db"] = "absent" THEN "new" ELSE disk.file["db"]
<1>1. /\ disk \in Disks /\ disk.file \in [Files -> Contents] /\ disk.extra \in BOOLEAN
      /\ c \in Contents \ {"absent", "torn"}
  BY DEF Sane, Disks, Contents, Files
<1>2. DbOpened = [disk EXCEPT !.file = [disk.file EXCEPT !["db"] = c]]
  BY DEF DbOpened
<1> HIDE DEF c
<1> DEFINE files == [disk.file EXCEPT !["db"] = c]
<1>3. files \in [Files -> Contents]
  BY <1>1
<1> HIDE DEF files
<1>4. /\ disk' \in Disks /\ disk'.tree = disk.tree /\ disk'.logs = disk.logs
      /\ disk'.file = files /\ (disk.extra => disk'.extra)
  <2>1. CASE disk' = DbOpened
    BY <1>1, <1>2, <1>3, <2>1 DEF Disks, files
  <2>2. CASE disk' = [DbOpened EXCEPT !.extra = @ \/ csv]
    <3> DEFINE e == disk.extra \/ csv
    <3>1. e \in BOOLEAN /\ (disk.extra => e)
      BY <1>1
    <3>2. disk' = [DbOpened EXCEPT !.extra = e]
      BY <1>1, <1>2, <2>2 DEF Disks
    <3> HIDE DEF e
    <3>3. disk' = [disk EXCEPT !.file = files, !.extra = e]
      BY <1>1, <1>2, <3>2 DEF Disks, files
    <3>4. disk'.extra = e
      BY <1>1, <3>3 DEF Disks
    <3>5. /\ disk' \in Disks /\ disk'.tree = disk.tree /\ disk'.logs = disk.logs
          /\ disk'.file = files
      BY <1>1, <1>3, <3>1, <3>3 DEF Disks
    <3> QED BY <3>1, <3>4, <3>5
  <2> QED BY <2>1, <2>2
<1>5. /\ Sane' /\ Grows /\ disk'.file["db"] = c
      /\ \A f \in Files \ {"db"} : disk'.file[f] = disk.file[f]
  BY <1>1, <1>4, FileWritten DEF files, Files
<1> QED BY <1>1, <1>4, <1>5 DEF Whole

(* validate opens the database.                                            *)
LEMMA ValidateDbFits ==
  ASSUME NEW p \in Procs, Ready(p), ValidateDb(p)
  PROVE  Fits(p) /\ Grows
<1>1. Running(p) /\ proc[p].cmd.name = "validate" /\ proc[p].pc = "open"
  BY NameAt DEF ValidateDb, Steps
<1>2. CASE Raise(p)
  BY <1>1, <1>2, RaiseFits
<1>3. CASE "data" \in disk.tree /\ disk' = DbOpened /\ End(p, proc[p].outcome)
  <2>1. /\ Sane' /\ Grows /\ Whole("db")' /\ "data" \in disk'.tree
        /\ \A f \in Files \ {"db"} : disk'.file[f] = disk.file[f]
    BY <1>3, DbIsOpened DEF Ready
  <2>2. Moves(p, "done", proc[p].todo, proc[p].log, proc[p].outcome)
    BY <1>3, EndMoves, ProcessShape DEF Ready, Kinds
  <2>3. PlacedAt(p)'
    BY <1>1, <2>2, PlaceKept DEF Early
  <2>4. HeldAt(p)'
    BY <2>2 DEF HeldAt, Held, Moves
  <2>5. /\ disk'.file["config"] = disk.file["config"]
        /\ disk'.file["schema"] = disk.file["schema"]
    BY <2>1 DEF Files
  <2>6. AchievedAt(p) => AchievedAt(p)'
    BY <1>1, <2>1, <2>2, <2>5 DEF AchievedAt, Moves, Past, Ready, Whole
  <2> QED BY <2>1, <2>2, <2>3, <2>4, <2>6 DEF Fits, Moves
<1> QED BY <1>1, <1>2, <1>3 DEF ValidateDb

(* A report or a collect only has its place to keep.                       *)
LEMMA OtherFits ==
  ASSUME NEW p \in Procs, Ready(p), Running(p), NEW pc, NEW log, NEW outcome,
         Moves(p, pc, proc[p].todo, log, outcome), Sane',
         proc[p].cmd.name \in {"report", "collect"},
         pc \in Stages(proc[p].cmd.name) \cup {"done"},
         pc = "unlink" => log < now /\ log \in disk'.logs,
         pc = "saving" => Exists("db")'
  PROVE  Fits(p)
<1>1. pc \in Stages("report") \cup Stages("collect") \cup {"done"}
  OBVIOUS
<1>2. pc \in {"report", "backup", "weekly", "collect", "log", "prune", "unlink", "run",
              "saving", "done"}
  BY <1>1 DEF Stages
<1>3. PlacedAt(p)'
  <2>1. proc[p].pc # "init" /\ pc \notin Early
    BY <1>2 DEF Ready, PlacedAt, Running, Stages, Early
  <2> QED BY <1>2, <2>1, PlaceKept
<1>4. HeldAt(p)'
  BY <1>2 DEF HeldAt, Held, Moves
<1>5. AchievedAt(p)'
  BY <1>2 DEF AchievedAt, Moves, Past, Steps
<1> QED BY <1>3, <1>4, <1>5 DEF Fits, Moves

(* The config is loaded.                                                   *)
LEMMA LoadConfigFits ==
  ASSUME NEW p \in Procs, Ready(p), LoadConfig(p)
  PROVE  Fits(p) /\ Grows
<1>1. /\ Running(p) /\ proc[p].cmd.name \in {"report", "collect"}
      /\ (proc[p].cmd.name = "report" => ~proc[p].cmd.dry)
  BY NameAt DEF LoadConfig, Steps
<1>2. Sane' /\ Grows
  BY RootIsMade DEF LoadConfig, Ready
<1>3. CASE End(p, "missing")
  BY <1>1, <1>2, <1>3, EndsBadly DEF Outcomes
<1>4. CASE Goto(p, IF proc[p].cmd.dry THEN "log" ELSE "backup")
  <2> DEFINE step == IF proc[p].cmd.dry THEN "log" ELSE "backup"
  <2>1. step \in Places /\ step \in Stages(proc[p].cmd.name) /\ step \in {"log", "backup"}
    BY <1>1 DEF Stages, Places, Steps
  <2> HIDE DEF step
  <2>2. Moves(p, step, proc[p].todo, proc[p].log, proc[p].outcome)
    BY <1>4, <2>1, GotoMoves DEF Ready, Kinds, step
  <2> QED BY <1>1, <1>2, <2>1, <2>2, OtherFits
<1> QED BY <1>2, <1>3, <1>4 DEF LoadConfig

(* A backup is made.                                                       *)
LEMMA BackUpFits ==
  ASSUME NEW p \in Procs, Ready(p), BackUp(p)
  PROVE  Fits(p) /\ Grows
<1> DEFINE step == IF proc[p].cmd.name = "report" THEN "weekly" ELSE "log"
<1>1. Running(p) /\ proc[p].cmd.name \in {"report", "collect"}
  BY NameAt DEF BackUp, Steps
<1>2. Sane' /\ Grows
  BY DirsMade DEF BackUp, Ready
<1>3. step \in Places /\ step \in Stages(proc[p].cmd.name) /\ step \in {"weekly", "log"}
  BY <1>1 DEF Stages, Places, Steps
<1> HIDE DEF step
<1>4. Moves(p, step, proc[p].todo, proc[p].log, proc[p].outcome)
  BY <1>3, GotoMoves DEF BackUp, Ready, Kinds, step
<1> QED BY <1>1, <1>2, <1>3, <1>4, OtherFits

(* The report is printed, and perhaps a CSV written.                       *)
LEMMA ReportFits ==
  ASSUME NEW p \in Procs, Ready(p), Report(p)
  PROVE  Fits(p) /\ Grows
<1>1. Running(p) /\ proc[p].cmd.name = "report"
  BY NameAt DEF Report, Steps
<1>2. CASE Raise(p)
  BY <1>1, <1>2, RaiseFits
<1>3. CASE /\ "data" \in disk.tree
           /\ \E csv \in BOOLEAN : disk' = [DbOpened EXCEPT !.extra = @ \/ csv]
           /\ End(p, "ok")
  <2>1. Sane' /\ Grows
    BY <1>3, DbIsOpened DEF Ready
  <2> DEFINE step == "done"
  <2>2. Moves(p, step, proc[p].todo, proc[p].log, "ok")
    BY <1>3, EndMoves DEF Ready, Kinds, Outcomes
  <2>3. step \notin {"unlink", "saving"} /\ step \in Stages(proc[p].cmd.name) \cup {"done"}
    OBVIOUS
  <2> HIDE DEF step
  <2> QED BY <1>1, <2>1, <2>2, <2>3, OtherFits
<1> QED BY <1>1, <1>2, <1>3 DEF Report
(* A purge has its place to keep, and what it was asked for is gone or left *)
(* to do.                                                                  *)
LEMMA PurgeFits ==
  ASSUME NEW p \in Procs, Ready(p), Running(p), NEW pc, NEW todo, NEW outcome,
         Moves(p, pc, todo, proc[p].log, outcome), Sane',
         proc[p].cmd.name = "purge", ToSet(todo) \subseteq ToSet(proc[p].todo),
         pc \in {"next", "rmtree", "rmdir", "done"},
         pc = "rmtree" => build # "misplaced" /\ ~proc[p].cmd.dry /\ todo # <<>>,
         pc = "rmdir" => ~proc[p].cmd.dry /\ todo = <<>>,
         pc = "done" /\ outcome = "ok" /\ ~proc[p].cmd.dry => todo = <<>>,
         AchievedAt(p) /\ ~proc[p].cmd.dry /\ (pc # "done" \/ outcome = "ok") =>
           proc[p].cmd.on \cap disk'.tree \subseteq ToSet(todo)
  PROVE  Fits(p)
<1>1. PlacedAt(p)'
  <2>1. proc[p].pc # "init" /\ pc \notin Early
    BY DEF Ready, PlacedAt, Running, Stages, Early
  <2> QED BY <2>1, PlaceKept DEF Stages
<1>2. HeldAt(p)'
  BY DEF HeldAt, Held, Moves
<1>3. AchievedAt(p) => AchievedAt(p)'
  BY DEF AchievedAt, Moves, Past, Steps
<1> QED BY <1>1, <1>2, <1>3 DEF Fits, Moves

(* The task is pruned, or not.                                             *)
LEMMA PurgeTaskFits ==
  ASSUME NEW p \in Procs, Ready(p), PurgeTask(p)
  PROVE  Fits(p) /\ Grows
<1> DEFINE r == proc[p]
           after == IF r.todo = <<>> THEN "done" ELSE "next"
<1>1. Running(p) /\ r.cmd.name = "purge" /\ r.pc = "purge" /\ disk' = disk
  BY NameAt DEF PurgeTask, Steps
<1>2. Sane' /\ Grows
  BY <1>1 DEF Ready, Sane, Closed, Exists, Grows
<1>3. after \in Places /\ after \in {"done", "next"} /\ (after = "done" => r.todo = <<>>)
  BY DEF Places, Steps
<1>4. AchievedAt(p) /\ ~r.cmd.dry => r.cmd.on \cap disk'.tree \subseteq ToSet(r.todo)
  BY <1>1 DEF AchievedAt, Past
<1>5. CASE End(p, "missing")
  BY <1>1, <1>2, <1>5, EndsBadly DEF Outcomes
<1>6. CASE Goto(p, after)
  <2> HIDE DEF after
  <2>1. Moves(p, after, r.todo, r.log, r.outcome)
    BY <1>3, <1>6, GotoMoves DEF Ready, Kinds
  <2> QED BY <1>1, <1>2, <1>3, <1>4, <2>1, PurgeFits
<1>7. CASE proc' = [proc EXCEPT ![p].pc = after, ![p].outcome = "failed"]
  <2> HIDE DEF after
  <2>1. Moves(p, after, r.todo, r.log, "failed")
    BY <1>3, <1>7, OutcomeMoves DEF Ready, Kinds, Outcomes
  <2> QED BY <1>1, <1>2, <1>3, <1>4, <2>1, PurgeFits
<1> QED BY <1>2, <1>5, <1>6, <1>7 DEF PurgeTask

(* The next target is looked for.                                          *)
LEMMA PurgeNextFits ==
  ASSUME NEW p \in Procs, Ready(p), PurgeNext(p)
  PROVE  Fits(p) /\ Grows
<1> DEFINE r == proc[p]
<1>1. Running(p) /\ r.cmd.name = "purge" /\ r.pc = "next" /\ disk' = disk
  BY NameAt DEF PurgeNext, Steps
<1>2. Sane' /\ Grows
  BY <1>1 DEF Ready, Sane, Closed, Exists, Grows
<1>3. AchievedAt(p) /\ ~r.cmd.dry => r.cmd.on \cap disk'.tree \subseteq ToSet(r.todo)
  BY <1>1 DEF AchievedAt, Past
<1>4. /\ r.cmd.dry \in BOOLEAN /\ r.todo \in Seq(Three) /\ r.outcome \in Outcomes
      /\ r.pc \in Places /\ proc \in [Procs -> Processes]
  BY ProcessShape, CommandShape DEF Ready, Kinds
<1>5. CASE build = "misplaced" /\ End(p, "failed")
  BY <1>1, <1>2, <1>5, EndsBadly DEF Outcomes
<1>6. CASE r.todo = <<>> /\ r.cmd.dry /\ End(p, r.outcome)
  <2>1. Moves(p, "done", r.todo, r.log, r.outcome)
    BY <1>4, <1>6, EndMoves
  <2> QED BY <1>1, <1>2, <1>6, <2>1, PurgeFits
<1>7. CASE r.todo = <<>> /\ ~r.cmd.dry /\ Goto(p, "rmdir")
  <2>1. Moves(p, "rmdir", r.todo, r.log, r.outcome)
    BY <1>4, <1>7, GotoMoves DEF Places, Steps
  <2> QED BY <1>1, <1>2, <1>3, <1>7, <2>1, PurgeFits
<1>8. CASE /\ r.todo # <<>> /\ (r.cmd.dry \/ Head(r.todo) \notin disk.tree)
           /\ proc' = [proc EXCEPT ![p].todo = Tail(@)]
  <2>1. Moves(p, "next", Tail(r.todo), r.log, r.outcome)
    BY <1>1, <1>4, <1>8, TailMoves
  <2>2. /\ ToSet(Tail(r.todo)) \subseteq ToSet(r.todo)
        /\ ToSet(r.todo) \subseteq ToSet(Tail(r.todo)) \cup {Head(r.todo)}
    BY <1>4, <1>8, TailShape
  <2>3. AchievedAt(p) /\ ~r.cmd.dry => r.cmd.on \cap disk'.tree \subseteq ToSet(Tail(r.todo))
    BY <1>1, <1>3, <1>8, <2>2
  <2> QED BY <1>1, <1>2, <2>1, <2>2, <2>3, PurgeFits
<1>9. CASE r.todo # <<>> /\ ~r.cmd.dry /\ build # "misplaced" /\ Goto(p, "rmtree")
  <2>1. Moves(p, "rmtree", r.todo, r.log, r.outcome)
    BY <1>4, <1>9, GotoMoves DEF Places, Steps
  <2> QED BY <1>1, <1>2, <1>3, <1>9, <2>1, PurgeFits
<1> QED BY <1>2, <1>5, <1>6, <1>7, <1>8, <1>9 DEF PurgeNext

\* Only what no process holds open is lost.
Spares == /\ \A f \in Files : Exists(f) => Exists(f)' \/ Free(f)
          /\ \A l \in disk.logs : l \in disk'.logs \/ LogFree(l)

(* What grows loses nothing.                                               *)
LEMMA GrowthSpares ==
  ASSUME Grows
  PROVE  Spares /\ LosesNothingElse /\ KeepsRecentLogs
BY DEF Grows, Spares, LosesNothingElse, KeepsRecentLogs, Exists, In, Files

(* What a purge is about to remove, it was asked to.                       *)
LEMMA PurgeAsked ==
  ASSUME NEW p \in Procs, Ready(p), proc[p].pc = "rmtree"
  PROVE  /\ Head(proc[p].todo) \in Three /\ Asked(Head(proc[p].todo))
         /\ build # "misplaced" /\ proc[p].todo # <<>>
<1>1. /\ Running(p) /\ proc[p].cmd.name = "purge" /\ ~proc[p].cmd.dry /\ proc[p].todo # <<>>
      /\ build # "misplaced" /\ ToSet(proc[p].todo) \subseteq Three \cap proc[p].cmd.on
  BY NameAt DEF Steps, Ready, PlacedAt
<1>2. Head(proc[p].todo) \in ToSet(proc[p].todo)
  BY <1>1, ProcessShape, TailShape DEF Ready, Kinds
<1> QED BY <1>1, <1>2 DEF Asked
(* shutil.rmtree takes one entry away, then the directory, or it raises.   *)
LEMMA RmTreeFits ==
  ASSUME NEW p \in Procs, Ready(p), RmTree(p)
  PROVE  Fits(p) /\ Spares /\ LosesNothingElse /\ KeepsRecentLogs
<1> DEFINE r == proc[p]
           d == Head(r.todo)
           subdirs == IF d = "data" THEN disk.tree \cap {"backups"} ELSE {}
           logs == IF d = "logs" THEN disk.logs ELSE {}
<1>1. Running(p) /\ r.cmd.name = "purge" /\ r.pc = "rmtree" /\ ~r.cmd.dry
  BY NameAt DEF RmTree, Steps, Ready, PlacedAt
<1>2. d \in Three /\ Asked(d) /\ build # "misplaced" /\ r.todo # <<>>
  BY <1>1, PurgeAsked
<1>3. AchievedAt(p) => r.cmd.on \cap disk.tree \subseteq ToSet(r.todo)
  BY <1>1 DEF AchievedAt, Past
<1>4. /\ r.todo \in Seq(Three) /\ ToSet(Tail(r.todo)) \subseteq ToSet(r.todo)
      /\ ToSet(r.todo) \subseteq ToSet(Tail(r.todo)) \cup {d}
  BY <1>2, ProcessShape, TailShape DEF Ready, Kinds
<1>5. ASSUME UNCHANGED proc, Sane', disk'.tree \subseteq disk.tree  PROVE Fits(p)
  <2>1. Moves(p, "rmtree", r.todo, r.log, r.outcome)
    BY <1>1, <1>5 DEF Moves, Ready, Kinds
  <2> HIDE DEF d
  <2> QED BY <1>1, <1>2, <1>3, <1>5, <2>1, PurgeFits
<1>6. CASE \E f \in {f \in In(d) : Exists(f)} :
             Free(f) /\ disk' = [disk EXCEPT !.file[f] = "absent"] /\ UNCHANGED proc
  <2>1. PICK f \in In(d) : /\ Free(f) /\ disk' = [disk EXCEPT !.file[f] = "absent"]
                           /\ UNCHANGED proc
    BY <1>6
  <2>2. f \in Files /\ d \in {"config", "data"}
    BY <1>2, <2>1 DEF In, Three, Files
  <2>3. /\ disk' \in Disks /\ disk'.tree = disk.tree /\ disk'.logs = disk.logs
        /\ disk'.extra = disk.extra /\ disk'.file = [disk.file EXCEPT ![f] = "absent"]
    BY <2>1, <2>2 DEF Ready, Sane, Disks, Contents
  <2>4. disk'.file[f] = "absent" /\ \A g \in Files \ {f} : disk'.file[g] = disk.file[g]
    BY <2>2, <2>3 DEF Ready, Sane, Disks
  <2>5. \A g \in Files : g # f => (Exists(g)' <=> Exists(g))
    BY <2>4 DEF Exists
  <2>6. Sane'
    BY <2>3, <2>4, <2>5 DEF Ready, Sane, Closed, Exists, Files
  <2>7. Spares /\ KeepsRecentLogs
    BY <2>1, <2>3, <2>5 DEF Spares, KeepsRecentLogs
  <2>8. LosesNothingElse
    <3>1. ASSUME NEW e \in {"config", "data"}, NEW g \in Files, g \in In(e), Exists(g),
                 disk'.file[g] = "absent"
          PROVE  e = d
      <4>1. g = f
        BY <2>4, <3>1 DEF Exists
      <4> QED BY <2>1, <2>2, <3>1, <4>1 DEF In
    <3> QED BY <1>2, <2>3, <3>1 DEF LosesNothingElse
  <2> QED BY <1>5, <2>1, <2>3, <2>6, <2>7, <2>8
<1>7. CASE \E l \in logs :
             LogFree(l) /\ disk' = [disk EXCEPT !.logs = @ \ {l}] /\ UNCHANGED proc
  <2>1. PICK l \in logs : /\ LogFree(l) /\ disk' = [disk EXCEPT !.logs = @ \ {l}]
                          /\ UNCHANGED proc
    BY <1>7
  <2>2. d = "logs" /\ l \in disk.logs
    BY <2>1
  <2>3. /\ disk' \in Disks /\ disk'.tree = disk.tree /\ disk'.logs = disk.logs \ {l}
        /\ disk'.extra = disk.extra /\ disk'.file = disk.file
    BY <2>1 DEF Ready, Sane, Disks
  <2>4. Sane'
    BY <2>3 DEF Ready, Sane, Closed, Exists
  <2>5. Spares /\ KeepsRecentLogs /\ LosesNothingElse
    <3>1. Asked("logs")
      BY <1>2, <2>2
    <3> QED BY <2>1, <2>3, <3>1 DEF Spares, KeepsRecentLogs, LosesNothingElse, Exists
  <2> QED BY <1>5, <2>1, <2>3, <2>4, <2>5
<1>8. CASE subdirs # {} /\ disk' = [disk EXCEPT !.tree = @ \ subdirs] /\ UNCHANGED proc
  <2>1. d = "data" /\ subdirs = {"backups"}
    BY <1>8
  <2>2. /\ disk' \in Disks /\ disk'.tree = disk.tree \ {"backups"} /\ disk'.logs = disk.logs
        /\ disk'.extra = disk.extra /\ disk'.file = disk.file
    BY <1>8, <2>1 DEF Ready, Sane, Disks
  <2>3. Sane'
    BY <2>2 DEF Ready, Sane, Closed, Exists
  <2>4. Spares /\ KeepsRecentLogs /\ LosesNothingElse
    <3>1. Asked("data")
      BY <1>2, <2>1
    <3> QED BY <1>2, <2>2, <3>1 DEF Spares, KeepsRecentLogs, LosesNothingElse, Exists
  <2> QED BY <1>5, <1>8, <2>2, <2>3, <2>4
<1>9. CASE /\ {f \in In(d) : Exists(f)} = {} /\ logs = {} /\ subdirs = {} /\ d \in disk.tree
           /\ disk' = [disk EXCEPT !.tree = @ \ {d}]
           /\ proc' = [proc EXCEPT ![p].pc = "next", ![p].todo = Tail(@)]
  <2>1. /\ disk' \in Disks /\ disk'.tree = disk.tree \ {d} /\ disk'.logs = disk.logs
        /\ disk'.extra = disk.extra /\ disk'.file = disk.file
    BY <1>9 DEF Ready, Sane, Disks
  <2>2. /\ d = "config" => ~Exists("config") /\ ~Exists("example") /\ ~Exists("schema")
        /\ d = "data" => ~Exists("db") /\ "backups" \notin disk.tree
        /\ d = "logs" => disk.logs = {}
    BY <1>9 DEF In
  <2>3. Sane'
    BY <1>2, <2>1, <2>2 DEF Ready, Sane, Closed, Exists, Three
  <2>4. Spares /\ KeepsRecentLogs
    BY <2>1 DEF Spares, KeepsRecentLogs, Exists
  <2>5. LosesNothingElse
    BY <1>2, <2>1 DEF LosesNothingElse, Exists, Three
  <2>6. Moves(p, "next", Tail(r.todo), r.log, r.outcome)
    BY <1>2, <1>9, TailMoves DEF Ready, Kinds
  <2>7. AchievedAt(p) => r.cmd.on \cap disk'.tree \subseteq ToSet(Tail(r.todo))
    BY <1>3, <1>4, <2>1
  <2>8. Fits(p)
    BY <1>1, <1>4, <2>3, <2>6, <2>7, PurgeFits
  <2> QED BY <2>4, <2>5, <2>8
<1>10. CASE Raise(p)
  BY <1>1, <1>10, RaiseFits, GrowthSpares
<1> QED BY <1>6, <1>7, <1>8, <1>9, <1>10 DEF RmTree

(* The root goes when it is empty.                                         *)
LEMMA RmRootFits ==
  ASSUME NEW p \in Procs, Ready(p), RmRoot(p)
  PROVE  Fits(p) /\ Spares /\ LosesNothingElse /\ KeepsRecentLogs
<1> DEFINE r == proc[p]
<1>1. /\ Running(p) /\ r.cmd.name = "purge" /\ r.pc = "rmdir" /\ ~r.cmd.dry
      /\ r.todo = <<>> /\ r.outcome \in Outcomes
  BY NameAt, ProcessShape DEF RmRoot, Steps, Ready, PlacedAt, Kinds
<1>2. /\ Sane' /\ disk'.tree \subseteq disk.tree /\ Spares /\ LosesNothingElse
      /\ KeepsRecentLogs
  <2>1. CASE disk' = disk
    <3>1. Grows /\ Sane'
      BY <2>1 DEF Grows, Ready, Sane, Closed, Exists
    <3> QED BY <2>1, <3>1, GrowthSpares
  <2>2. CASE /\ disk.tree = {"root"} /\ ~disk.extra
             /\ disk' = [disk EXCEPT !.tree = {}]
    <3>1. /\ disk' \in Disks /\ disk'.tree = {} /\ disk'.logs = disk.logs
          /\ disk'.extra = disk.extra /\ disk'.file = disk.file
      BY <2>2 DEF Ready, Sane, Disks
    <3>2. disk.logs = {} /\ Sane'
      BY <2>2, <3>1 DEF Ready, Sane, Closed, Exists
    <3> QED BY <2>2, <3>1, <3>2 DEF Spares, LosesNothingElse, KeepsRecentLogs, Exists
  <2> QED BY <2>1, <2>2 DEF RmRoot
<1>3. Moves(p, "done", r.todo, r.log, r.outcome)
  BY <1>1, EndMoves DEF RmRoot, Ready, Kinds
<1>4. AchievedAt(p) => r.cmd.on \cap disk'.tree \subseteq ToSet(r.todo)
  BY <1>1, <1>2 DEF AchievedAt, Past
<1> QED BY <1>1, <1>2, <1>3, <1>4, PurgeFits

(* The commands of DataRoot.                                               *)
LEMMA RootStepFits ==
  ASSUME NEW p \in Procs, Ready(p), RootStep(p)
  PROVE  Fits(p) /\ Spares /\ LosesNothingElse /\ KeepsRecentLogs
<1>1. ASSUME Fits(p) /\ Grows
      PROVE  Fits(p) /\ Spares /\ LosesNothingElse /\ KeepsRecentLogs
  BY <1>1, GrowthSpares
<1> QED BY <1>1, InitChecksFits, CopyExampleFits, RefreshSchemaFits, CopyConfigFits,
           MakeDirsFits, ValidateConfigFits, ValidateDbFits, LoadConfigFits, BackUpFits,
           ReportFits, PurgeTaskFits, PurgeNextFits, RmTreeFits, RmRootFits DEF RootStep
-----------------------------------------------------------------------------
(* The steps of the shell and of the logs.                                 *)

\* A process has taken a step of any kind.
Acts(p) ==
  /\ proc' \in [Procs -> Processes] /\ \A q \in Procs \ {p} : proc'[q] = proc[q]
  /\ Sane' /\ PlacedAt(p)' /\ HeldAt(p)'
  /\ ToSet(proc'[p].handlers) \subseteq disk'.logs
  /\ Spares /\ LosesNothingElse /\ KeepsRecentLogs
  /\ (Running(p) => AchievedAt(p)) /\ proc'[p].pc \in Steps \cup {"done"} => AchievedAt(p)'

\* The logs that a process holds open are there.
Holds(p) == ToSet(proc[p].handlers) \subseteq disk.logs

(* A log that is held open stays.                                          *)
LEMMA HandlersStay ==
  ASSUME NEW p \in Procs, proc \in [Procs -> Processes], Holds(p), Spares
  PROVE  ToSet(proc[p].handlers) \subseteq disk'.logs
<1> DEFINE s == proc[p].handlers
<1>1. s \in Seq(0..MaxNow)
  BY ProcessShape
<1>2. \A l \in ToSet(s) : ~LogFree(l)
  BY <1>1 DEF ToSet, LogFree, Contains
<1> QED BY <1>2 DEF Spares, Holds

(* A step of a command that keeps the handlers.                            *)
LEMMA FitsActs ==
  ASSUME NEW p \in Procs, Ready(p), Holds(p), Running(p), Fits(p), Spares,
         LosesNothingElse, KeepsRecentLogs
  PROVE  Acts(p)
<1>1. ToSet(proc'[p].handlers) \subseteq disk'.logs
  BY HandlersStay DEF Ready, Kinds, Fits
<1> QED BY <1>1 DEF Acts, Fits

(* setup_logging adds a handler and its log.                               *)
LEMMA SetUpLoggingActs ==
  ASSUME NEW p \in Procs, Ready(p), Holds(p), SetUpLogging(p)
  PROVE  Acts(p)
<1> DEFINE hs == Append(proc[p].handlers, now)
           r == [proc[p] EXCEPT !.pc = "prune", !.handlers = hs]
<1>1. Running(p) /\ proc[p].cmd.name = "collect"
  BY NameAt DEF SetUpLogging, Steps
<1>2. /\ proc[p] \in Processes /\ proc[p].handlers \in Seq(0..MaxNow) /\ now \in 0..MaxNow
  BY ProcessShape DEF Ready, Kinds
<1>3. hs \in Seq(0..MaxNow) /\ ToSet(hs) = ToSet(proc[p].handlers) \cup {now}
  <2> DEFINE s == proc[p].handlers
  <2>1. /\ hs \in Seq(0..MaxNow) /\ Len(hs) = Len(s) + 1 /\ Len(s) \in Nat
        /\ hs[Len(s) + 1] = now /\ \A i \in 1..Len(s) : hs[i] = s[i]
    BY <1>2
  <2>2. DOMAIN s = 1..Len(s) /\ DOMAIN hs = 1..Len(s) + 1
    BY <1>2, <2>1
  <2> HIDE DEF hs
  <2> QED BY <2>1, <2>2 DEF ToSet
<1>4. proc' = [proc EXCEPT ![p] = r]
  BY DEF SetUpLogging
<1> HIDE DEF hs
<1>5. /\ r \in Processes /\ r.pc = "prune" /\ r.cmd = proc[p].cmd /\ r.todo = proc[p].todo
      /\ r.log = proc[p].log /\ r.depth = proc[p].depth /\ r.outcome = proc[p].outcome
      /\ r.handlers = hs /\ r.fresh = proc[p].fresh
  BY <1>2, <1>3 DEF Processes, Places, Steps
<1> HIDE DEF r
<1>6. proc' \in [Procs -> Processes] /\ proc'[p] = r /\ \A q \in Procs \ {p} : proc'[q] = proc[q]
  BY <1>4, <1>5, Replaced DEF Ready, Kinds
<1>7. /\ disk' \in Disks /\ disk'.tree = WithDirs({"logs"}) /\ disk'.logs = disk.logs \cup {now}
      /\ disk'.file = disk.file /\ disk'.extra = disk.extra
  BY <1>2 DEF SetUpLogging, Ready, Sane, Disks, WithDirs, Dirs
<1>8. /\ disk.tree \subseteq disk'.tree /\ "logs" \in disk'.tree /\ "root" \in disk'.tree
      /\ ("backups" \in disk'.tree => "backups" \in disk.tree)
  BY <1>7 DEF WithDirs
<1>9. Sane' /\ Grows
  BY <1>7, <1>8 DEF Ready, Sane, Closed, Exists, Grows
<1>10. PlacedAt(p)'
  <2>1. proc[p].depth = 0 => ToSet(hs) \subseteq {now}
    BY <1>3 DEF Ready, PlacedAt
  <2>2. "prune" \in Stages("collect")
    BY DEF Stages
  <2> QED BY <1>1, <1>5, <1>6, <2>1, <2>2 DEF PlacedAt, Ready, Running, Early
<1>11. HeldAt(p)'
  BY <1>5, <1>6 DEF HeldAt, Held
<1>12. AchievedAt(p)'
  BY <1>1, <1>5, <1>6 DEF AchievedAt, Past, Steps
<1>13. ToSet(proc'[p].handlers) \subseteq disk'.logs
  BY <1>3, <1>5, <1>6, <1>7 DEF Holds
<1> QED BY <1>6, <1>9, <1>10, <1>11, <1>12, <1>13, GrowthSpares DEF Acts

(* scandir lists an expired log, or there is none.                         *)
LEMMA PruneLogsActs ==
  ASSUME NEW p \in Procs, Ready(p), Holds(p), PruneLogs(p)
  PROVE  Acts(p)
<1> DEFINE r == proc[p]
<1>1. Running(p) /\ r.cmd.name = "collect" /\ r.pc = "prune" /\ disk' = disk
  BY NameAt DEF PruneLogs, Steps
<1>2. Sane' /\ Grows
  BY <1>1 DEF Ready, Sane, Closed, Exists, Grows
<1>3. proc \in [Procs -> Processes] /\ r.todo \in Seq(Three)
  BY ProcessShape DEF Ready, Kinds
<1>4. CASE End(p, "ok")
  <2> DEFINE step == "done"
  <2>1. Moves(p, step, r.todo, r.log, "ok")
    BY <1>3, <1>4, EndMoves DEF Outcomes
  <2>2. step \notin {"unlink", "saving"} /\ step \in Stages(r.cmd.name) \cup {"done"}
    OBVIOUS
  <2> HIDE DEF step
  <2>3. Fits(p)
    BY <1>1, <1>2, <2>1, <2>2, OtherFits
  <2> QED BY <1>1, <1>2, <2>3, GrowthSpares, FitsActs
<1>5. CASE Goto(p, "run")
  <2> DEFINE step == "run"
  <2>1. Moves(p, step, r.todo, r.log, r.outcome)
    BY <1>3, <1>5, GotoMoves DEF Places, Steps
  <2>2. step \notin {"unlink", "saving"} /\ step \in Stages(r.cmd.name) \cup {"done"}
    BY <1>1 DEF Stages
  <2> HIDE DEF step
  <2>3. Fits(p)
    BY <1>1, <1>2, <2>1, <2>2, OtherFits
  <2> QED BY <1>1, <1>2, <2>3, GrowthSpares, FitsActs
<1>6. CASE \E l \in disk.logs :
             /\ Expired(l)
             /\ proc' = [proc EXCEPT ![p].pc = "unlink", ![p].log = l]
  <2>1. PICK l \in disk.logs : /\ Expired(l)
                               /\ proc' = [proc EXCEPT ![p].pc = "unlink", ![p].log = l]
    BY <1>6
  <2>2. l \in 0..MaxNow /\ l < now
    BY <2>1 DEF Ready, Sane, Disks, Expired
  <2>3. Moves(p, "unlink", r.todo, l, r.outcome)
    BY <1>3, <2>1, <2>2, LogMoves DEF Places, Steps
  <2>4. Fits(p)
    BY <1>1, <1>2, <2>1, <2>2, <2>3, OtherFits DEF Stages
  <2> QED BY <1>1, <1>2, <2>4, GrowthSpares, FitsActs
<1> QED BY <1>4, <1>5, <1>6 DEF PruneLogs

(* os.remove takes the log away, or raises.                                *)
LEMMA UnlinkActs ==
  ASSUME NEW p \in Procs, Ready(p), Holds(p), Unlink(p)
  PROVE  Acts(p)
<1> DEFINE r == proc[p]
           l == r.log
<1>1. Running(p) /\ r.cmd.name = "collect" /\ r.pc = "unlink" /\ l < now
  BY NameAt DEF Unlink, Steps, Ready, PlacedAt
<1>2. proc \in [Procs -> Processes] /\ l \in 0..MaxNow /\ now \in 0..MaxNow
  BY ProcessShape DEF Ready, Kinds
<1>3. CASE /\ l \in disk.logs /\ LogFree(l)
           /\ disk' = [disk EXCEPT !.logs = @ \ {l}]
           /\ proc' = [proc EXCEPT ![p].pc = "prune", ![p].log = 0]
  <2>1. /\ disk' \in Disks /\ disk'.tree = disk.tree /\ disk'.logs = disk.logs \ {l}
        /\ disk'.extra = disk.extra /\ disk'.file = disk.file
    BY <1>3 DEF Ready, Sane, Disks
  <2>2. Sane'
    BY <2>1 DEF Ready, Sane, Closed, Exists
  <2>3. Spares /\ LosesNothingElse /\ KeepsRecentLogs
    BY <1>1, <1>3, <2>1 DEF Spares, KeepsRecentLogs, LosesNothingElse, Exists, Expired
  <2> DEFINE step == "prune"
  <2>4. Moves(p, step, r.todo, 0, r.outcome)
    <3>1. 0 \in 0..MaxNow /\ step \in Places
      BY ShellAssumption DEF Places, Steps
    <3> QED BY <1>2, <1>3, <3>1, LogMoves
  <2>5. step \notin {"unlink", "saving"} /\ step \in Stages(r.cmd.name) \cup {"done"}
    BY <1>1 DEF Stages
  <2> HIDE DEF step
  <2>6. Fits(p)
    BY <1>1, <2>2, <2>4, <2>5, OtherFits
  <2> QED BY <1>1, <2>3, <2>6, FitsActs
<1>4. CASE UNCHANGED disk /\ End(p, "blocked")
  <2>1. Sane' /\ Grows
    BY <1>4 DEF Ready, Sane, Closed, Exists, Grows
  <2>2. Fits(p)
    BY <1>1, <1>4, <2>1, EndsBadly DEF Outcomes
  <2> QED BY <1>1, <2>1, <2>2, GrowthSpares, FitsActs
<1> QED BY <1>3, <1>4 DEF Unlink

(* run_collection opens the database and saves, or raises.                 *)
LEMMA CollectActs ==
  ASSUME NEW p \in Procs, Ready(p), Holds(p), Collect(p)
  PROVE  Acts(p)
<1> DEFINE r == proc[p]
<1>1. Running(p) /\ r.cmd.name = "collect" /\ r.pc \in {"run", "saving"}
  BY NameAt DEF Collect, Steps
<1>2. proc \in [Procs -> Processes]
  BY DEF Ready, Kinds
<1>3. CASE r.pc = "run" /\ "data" \in disk.tree /\ disk' = DbOpened /\ Goto(p, "saving")
  <2>1. Sane' /\ Grows /\ Exists("db")'
    BY <1>3, DbIsOpened DEF Ready, Whole, Exists
  <2> DEFINE step == "saving"
  <2>2. Moves(p, step, r.todo, r.log, r.outcome)
    BY <1>2, <1>3, GotoMoves DEF Places, Steps
  <2>3. step # "unlink" /\ step \in Stages(r.cmd.name) \cup {"done"}
    BY <1>1 DEF Stages
  <2> HIDE DEF step
  <2>4. Fits(p)
    BY <1>1, <2>1, <2>2, <2>3, OtherFits
  <2> QED BY <1>1, <2>1, <2>4, GrowthSpares, FitsActs
<1>4. CASE Raise(p)
  BY <1>1, <1>4, RaiseFits, GrowthSpares, FitsActs
<1>5. CASE /\ r.pc = "saving"
           /\ \E any \in BOOLEAN :
                disk' = [disk EXCEPT !.file["db"] = IF any THEN "mine" ELSE @]
           /\ End(p, "ok")
  <2>1. PICK any \in BOOLEAN :
          disk' = [disk EXCEPT !.file["db"] = IF any THEN "mine" ELSE @]
    BY <1>5
  <2> DEFINE c == IF any THEN "mine" ELSE disk.file["db"]
  <2>2. Exists("db") /\ "data" \in disk.tree
    BY <1>5 DEF Ready, HeldAt, Held, Sane, Closed
  <2>3. c \in Contents \ {"absent", "torn"}
    BY <2>2 DEF Ready, Sane, Disks, Contents, Exists, Files
  <2>4. disk' = [disk EXCEPT !.file["db"] = c]
    BY <2>1
  <2> HIDE DEF c
  <2>5. /\ disk' \in Disks /\ disk'.tree = disk.tree /\ disk'.logs = disk.logs
        /\ disk'.extra = disk.extra /\ disk'.file = [disk.file EXCEPT !["db"] = c]
    BY <2>3, <2>4 DEF Ready, Sane, Disks
  <2>6. Sane' /\ Grows
    BY <2>2, <2>3, <2>5, FileWritten DEF Ready, Files
  <2> DEFINE step == "done"
  <2>7. Moves(p, step, r.todo, r.log, "ok")
    BY <1>2, <1>5, EndMoves DEF Outcomes
  <2>8. step \notin {"unlink", "saving"} /\ step \in Stages(r.cmd.name) \cup {"done"}
    OBVIOUS
  <2> HIDE DEF step
  <2>9. Fits(p)
    BY <1>1, <2>6, <2>7, <2>8, OtherFits
  <2> QED BY <1>1, <2>6, <2>9, GrowthSpares, FitsActs
<1> QED BY <1>3, <1>4, <1>5 DEF Collect
(* A command begins with nothing achieved and all it was asked for to do.  *)
LEMMA BeginActs ==
  ASSUME NEW p \in Procs, Ready(p), Holds(p), NEW c \in Commands, Begin(p, c),
         proc[p].pc \in {"off", "prompt"}, Sane', Grows
  PROVE  Acts(p)
<1> DEFINE r == proc[p]
           step == IF c.name = "validate" THEN "schema" ELSE c.name
           todo == Chosen(c.on)
           s == [r EXCEPT !.cmd = c, !.outcome = "ok", !.fresh = FALSE, !.pc = step,
                       !.todo = todo]
<1>1. /\ c.name \in {"init", "validate", "report", "collect", "purge"}
      /\ c.on \subseteq {"tasks", "config", "data", "logs"}
  BY CommandShape
<1>2. /\ step \in {"init", "schema", "report", "collect", "purge"} /\ step \in Stages(c.name)
      /\ (step = "schema" => c.name = "validate")
      /\ (c.name = "init" => step = "init")
      /\ step \in Places /\ step \in Steps
  BY <1>1 DEF Stages, Places, Steps
<1>3. todo \in Seq(Three) /\ ToSet(todo) = c.on \cap Three
  BY ChosenShape
<1>4. proc' = [proc EXCEPT ![p] = s]
  BY DEF Begin
<1> HIDE DEF step, todo
<1>5. /\ s \in Processes /\ s.pc = step /\ s.cmd = c /\ s.todo = todo /\ s.log = r.log
      /\ s.depth = r.depth /\ s.outcome = "ok" /\ s.handlers = r.handlers
      /\ s.fresh = FALSE
  BY <1>2, <1>3, ProcessShape DEF Processes, Outcomes, Ready, Kinds
<1> HIDE DEF s
<1>6. proc' \in [Procs -> Processes] /\ proc'[p] = s /\ \A q \in Procs \ {p} : proc'[q] = proc[q]
  BY <1>4, <1>5, Replaced DEF Ready, Kinds
<1>7. r.depth = 0 => r.handlers = <<>>
  BY DEF Ready, PlacedAt
<1>8. PlacedAt(p)'
  BY <1>2, <1>3, <1>5, <1>6 DEF PlacedAt, Running, Ready
<1>9. HeldAt(p)'
  BY <1>2, <1>5, <1>6 DEF HeldAt, Held
<1>10. AchievedAt(p)'
  <2>1. c.on \cap disk'.tree \subseteq ToSet(todo)
    BY <1>1, <1>3 DEF Sane, Disks, Dirs, Three
  <2> QED BY <1>2, <1>5, <1>6, <2>1 DEF AchievedAt, Past
<1>11. ToSet(proc'[p].handlers) \subseteq disk'.logs
  BY <1>5, <1>6 DEF Holds, Grows
<1> QED BY <1>6, <1>8, <1>9, <1>10, <1>11, GrowthSpares DEF Acts

(* A process is at the prompt, or gone: it has nothing to keep.            *)
LEMMA RestActs ==
  ASSUME NEW p \in Procs, Ready(p), NEW r \in Processes, proc' = [proc EXCEPT ![p] = r],
         \/ r.pc = "prompt" /\ r.depth > 0 /\ ToSet(r.handlers) \subseteq disk'.logs
         \/ r.pc = "off" /\ r.depth = 0 /\ r.handlers = <<>>,
         r.cmd.name = "purge" => ToSet(r.todo) \subseteq Three \cap r.cmd.on,
         Sane', Grows
  PROVE  Acts(p)
<1>1. proc' \in [Procs -> Processes] /\ proc'[p] = r /\ \A q \in Procs \ {p} : proc'[q] = proc[q]
  BY Replaced DEF Ready, Kinds
<1>2. r.pc \in {"prompt", "off"} /\ r.pc \notin Steps \cup {"done"}
  BY DEF Steps
<1>3. r.depth = 0 => r.handlers = <<>>
  BY DEF Processes
<1>4. ToSet(<<>>) = {}
  BY DEF ToSet
<1>5. ToSet(r.handlers) \subseteq disk'.logs
  BY <1>4
<1>6. PlacedAt(p)'
  BY <1>1, <1>2, <1>3, <1>4 DEF PlacedAt, Running, Early, Stages
<1>7. HeldAt(p)'
  BY <1>1, <1>2 DEF HeldAt, Held
<1> QED BY <1>1, <1>2, <1>5, <1>6, <1>7, GrowthSpares DEF Acts

(* The record of no process.                                               *)
LEMMA NoProcessShape ==
  /\ NoProcess \in Processes /\ NoProcess.pc = "off" /\ NoProcess.handlers = <<>>
  /\ NoProcess.cmd.name = "init" /\ NoProcess.depth = 0 /\ ~NoProcess.fresh
<1>1. 0 \in 0..MaxNow /\ 0 \in 0..MaxDepth
  BY ShellAssumption
<1>2. Plain("init") \in Commands /\ Plain("init").name = "init"
  BY DEF Commands, Plain
<1> HIDE DEF Plain
<1> QED BY <1>1, <1>2 DEF NoProcess, Processes, Places, Outcomes

(* A process that is gone.                                                 *)
LEMMA GoneActs ==
  ASSUME NEW p \in Procs, Ready(p), Gone(p), UNCHANGED disk
  PROVE  Acts(p)
<1>1. Sane' /\ Grows
  BY DEF Ready, Sane, Closed, Exists, Grows
<1> QED BY <1>1, RestActs, NoProcessShape DEF Gone

(* The shell that a process is in, or was started in.                      *)
LEMMA ShellActs ==
  ASSUME NEW p \in Procs, Ready(p), Holds(p), NEW depth \in 1..MaxDepth, Sane', Grows,
         \/ /\ proc[p].pc = "prompt"
            /\ proc' = [proc EXCEPT ![p].depth = depth]
         \/ /\ proc[p].pc = "off"
            /\ proc' = [proc EXCEPT ![p].pc = "prompt", ![p].depth = depth]
  PROVE  Acts(p)
<1> DEFINE r == [proc[p] EXCEPT !.pc = "prompt", !.depth = depth]
<1>1. proc[p] \in Processes /\ depth \in 0..MaxDepth /\ depth > 0
  BY DEF Ready, Kinds
<1>2. proc' = [proc EXCEPT ![p] = r]
  <2>1. CASE proc[p].pc = "prompt" /\ proc' = [proc EXCEPT ![p].depth = depth]
    <3>1. r = [proc[p] EXCEPT !.depth = depth]
      BY <1>1, <2>1 DEF Processes
    <3> QED BY <2>1, <3>1
  <2>2. CASE proc' = [proc EXCEPT ![p].pc = "prompt", ![p].depth = depth]
    BY <2>2
  <2> QED BY <2>1, <2>2
<1>3. /\ r \in Processes /\ r.pc = "prompt" /\ r.depth = depth /\ r.cmd = proc[p].cmd
      /\ r.todo = proc[p].todo /\ r.handlers = proc[p].handlers
  BY <1>1 DEF Processes, Places
<1> HIDE DEF r
<1>4. r.cmd.name = "purge" => ToSet(r.todo) \subseteq Three \cap r.cmd.on
  BY <1>3 DEF Ready, PlacedAt
<1>5. ToSet(r.handlers) \subseteq disk'.logs
  BY <1>3 DEF Holds, Grows
<1> QED BY <1>1, <1>2, <1>3, <1>4, <1>5, RestActs

(* main starts a command or a shell.                                       *)
LEMMA StartActs ==
  ASSUME NEW p \in Procs, Ready(p), Holds(p), Start(p)
  PROVE  Acts(p) /\ begun' \in 0..MaxCommands
<1>1. Sane' /\ Grows
  BY RootIsMade DEF Start, Ready
<1>2. begun' \in 0..MaxCommands
  BY ShellAssumption DEF Start, Ready, Kinds
<1>3. ASSUME NEW c \in Commands, Begin(p, c)  PROVE Acts(p)
  BY <1>1, <1>3, BeginActs DEF Start
<1>4. CASE proc' = [proc EXCEPT ![p].pc = "prompt", ![p].depth = 1]
  <2> DEFINE d == 1
  <2>1. d \in 1..MaxDepth
    BY ShellAssumption
  <2>2. proc[p].pc = "off" /\ proc' = [proc EXCEPT ![p].pc = "prompt", ![p].depth = d]
    BY <1>4 DEF Start
  <2> HIDE DEF d
  <2> QED BY <1>1, <1>2, <2>1, <2>2, ShellActs
<1> QED BY <1>2, <1>3, <1>4 DEF Start

(* A line at the prompt.                                                   *)
LEMMA SubmitActs ==
  ASSUME NEW p \in Procs, Ready(p), Holds(p), Submit(p)
  PROVE  Acts(p) /\ begun' \in 0..MaxCommands
<1>1. Sane' /\ Grows
  BY DEF Submit, Ready, Sane, Closed, Exists, Grows
<1>2. begun' \in 0..MaxCommands
  BY ShellAssumption DEF Submit, Ready, Kinds
<1>3. ASSUME NEW c \in Commands, Begin(p, c)  PROVE Acts(p)
  BY <1>1, <1>3, BeginActs DEF Submit
<1>4. CASE proc[p].depth < MaxDepth /\ proc' = [proc EXCEPT ![p].depth = @ + 1]
  <2> DEFINE d == proc[p].depth + 1
  <2>1. d \in 1..MaxDepth
    BY <1>4, ShellAssumption, ProcessShape DEF Ready, Kinds
  <2>2. proc[p].pc = "prompt" /\ proc' = [proc EXCEPT ![p].depth = d]
    BY <1>4 DEF Submit
  <2> HIDE DEF d
  <2> QED BY <1>1, <1>2, <2>1, <2>2, ShellActs
<1> QED BY <1>2, <1>3, <1>4 DEF Submit

(* A command is over.                                                      *)
LEMMA OverActs ==
  ASSUME NEW p \in Procs, Ready(p), Holds(p), Over(p)
  PROVE  Acts(p)
<1>1. Sane' /\ Grows
  BY DEF Over, Ready, Sane, Closed, Exists, Grows
<1>2. CASE Gone(p)
  BY <1>2, GoneActs DEF Over
<1>3. CASE /\ proc[p].depth > 0
           /\ proc' = [proc EXCEPT ![p] = [@ EXCEPT !.pc = "prompt",
                !.cmd = Plain("init"), !.todo = <<>>, !.log = 0, !.outcome = "ok",
                !.fresh = FALSE]]
  <2> DEFINE c == Plain("init")
             r == [proc[p] EXCEPT !.pc = "prompt", !.cmd = c, !.todo = <<>>, !.log = 0,
                     !.outcome = "ok", !.fresh = FALSE]
  <2>1. proc' = [proc EXCEPT ![p] = r]
    BY <1>3
  <2>2. c \in Commands /\ c.name = "init" /\ 0 \in 0..MaxNow
    BY ShellAssumption DEF Commands, Plain
  <2> HIDE DEF c
  <2>3. proc[p] \in Processes /\ <<>> \in Seq(Three) /\ "prompt" \in Places /\ "ok" \in Outcomes
    BY DEF Ready, Kinds, Places, Outcomes
  <2>4. /\ r \in Processes /\ r.pc = "prompt" /\ r.depth = proc[p].depth /\ r.cmd = c
        /\ r.handlers = proc[p].handlers
    BY <2>2, <2>3 DEF Processes
  <2> HIDE DEF r
  <2>5. ToSet(r.handlers) \subseteq disk'.logs
    BY <2>4 DEF Holds, Over
  <2> QED BY <1>1, <1>3, <2>1, <2>2, <2>4, <2>5, RestActs
<1> QED BY <1>2, <1>3 DEF Over

(* The shell is left.                                                      *)
LEMMA LeaveActs ==
  ASSUME NEW p \in Procs, Ready(p), Holds(p), Leave(p)
  PROVE  Acts(p)
<1>1. Sane' /\ Grows
  BY DEF Leave, Ready, Sane, Closed, Exists, Grows
<1>2. CASE Gone(p)
  BY <1>2, GoneActs DEF Leave
<1>3. CASE proc[p].depth > 1 /\ proc' = [proc EXCEPT ![p].depth = @ - 1]
  <2> DEFINE d == proc[p].depth - 1
  <2>1. d \in 1..MaxDepth
    BY <1>3, ShellAssumption, ProcessShape DEF Ready, Kinds
  <2>2. proc' = [proc EXCEPT ![p].depth = d]
    BY <1>3
  <2> HIDE DEF d
  <2> QED BY <1>1, <2>1, <2>2, ShellActs DEF Leave
<1> QED BY <1>2, <1>3 DEF Leave

(* Every step of a process.                                                *)
LEMMA ActActs ==
  ASSUME NEW p \in Procs, Ready(p), Holds(p), Act(p)
  PROVE  Acts(p) /\ begun' \in 0..MaxCommands
<1>1. begun \in 0..MaxCommands
  BY DEF Ready, Kinds
<1>2. CASE Start(p) \/ Submit(p)
  BY <1>2, StartActs, SubmitActs
<1>3. CASE Over(p) \/ Leave(p)
  BY <1>1, <1>3, OverActs, LeaveActs DEF Over, Leave
<1>4. CASE Command(p)
  <2>1. begun' = begun
    BY <1>4 DEF Command
  <2>2. CASE RootStep(p)
    <3>1. Running(p)
      BY <2>2, NameAt DEF RootStep, InitChecks, CopyExample, RefreshSchema, CopyConfig,
         MakeDirs, ValidateConfig, ValidateDb, LoadConfig, BackUp, Report, PurgeTask,
         PurgeNext, RmTree, RmRoot, Steps
    <3> QED BY <1>1, <2>1, <2>2, <3>1, RootStepFits, FitsActs
  <2> QED BY <1>1, <1>4, <2>1, <2>2, SetUpLoggingActs, PruneLogsActs, UnlinkActs, CollectActs
          DEF Command
<1>5. CASE Fault(p)
  BY <1>1, <1>5, RaiseFits, GrowthSpares, FitsActs DEF Fault
<1>6. CASE Kill(p)
  BY <1>1, <1>6, GoneActs DEF Kill
<1> QED BY <1>2, <1>3, <1>4, <1>5, <1>6 DEF Act
-----------------------------------------------------------------------------
(* The invariant.                                                          *)

(* A step of one process, seen by all of them.                             *)
LEMMA StepInv ==
  ASSUME IInv, NEW p \in Procs, Step(p, Act(p))
  PROVE  IInv' /\ Acts(p)
<1>1. /\ Kinds /\ Sane
      /\ \A q \in Procs : /\ PlacedAt(q) /\ HeldAt(q) /\ (alone[q] => AchievedAt(q))
                          /\ Holds(q)
  BY Processwise DEF Good, Holds
<1>2. UNCHANGED <<build, now>> /\ Act(p)
  BY DEF Step
<1>3. Acts(p) /\ begun' \in 0..MaxCommands
  BY <1>1, <1>2, ActActs DEF Ready
<1>4. /\ alone' \in [Procs -> BOOLEAN]
      /\ alone'[p] => (Running(p) => alone[p]) /\ proc'[p].pc \in Steps \cup {"done"}
      /\ \A q \in Procs \ {p} : alone'[q] => alone[q] /\ disk' = disk
  BY <1>1 DEF Step, Kinds
<1>5. Kinds'
  BY <1>1, <1>2, <1>3, <1>4 DEF Kinds, Acts, Sane
<1>6. ASSUME NEW q \in Procs, q # p
      PROVE  (PlacedAt(q) /\ HeldAt(q) /\ (alone[q] => AchievedAt(q)))'
             /\ ToSet(proc'[q].handlers) \subseteq disk'.logs
  <2>1. proc'[q] = proc[q] /\ PlacedAt(q) /\ HeldAt(q) /\ Holds(q)
    BY <1>1, <1>3, <1>6 DEF Acts
  <2>2. PlacedAt(q)'
    BY <1>2, <2>1 DEF PlacedAt, Running
  <2>3. HeldAt(q)'
    <3>1. \A f \in Held(q) : f \in Files /\ Exists(f) /\ ~Free(f)
      BY <2>1 DEF HeldAt, Held, Files, Free
    <3>2. \A f \in Held(q) : Exists(f)'
      BY <1>3, <3>1 DEF Acts, Spares
    <3> QED BY <2>1, <3>2 DEF HeldAt, Held
  <2>4. alone'[q] => AchievedAt(q)'
    BY <1>1, <1>2, <1>4, <1>6, <2>1 DEF AchievedAt, Past, Whole, Exists
  <2>5. ToSet(proc'[q].handlers) \subseteq disk'.logs
    BY <1>1, <1>3, <2>1, HandlersStay DEF Acts, Kinds
  <2> QED BY <2>2, <2>3, <2>4, <2>5
<1>7. (PlacedAt(p) /\ HeldAt(p) /\ (alone[p] => AchievedAt(p)))'
      /\ ToSet(proc'[p].handlers) \subseteq disk'.logs
  BY <1>1, <1>3, <1>4 DEF Acts
<1>8. Good'
  BY <1>3, <1>5, <1>6, <1>7 DEF Good, Acts
<1>9. IInv'
  BY <1>8, GoodNext
<1> QED BY <1>3, <1>9

(* The operator and the clock act while no command runs.                   *)
LEMMA QuietInv ==
  ASSUME IInv, Edit \/ Tick
  PROVE  IInv' /\ Grows
<1>1. /\ Kinds /\ Sane
      /\ \A q \in Procs : /\ PlacedAt(q) /\ HeldAt(q) /\ (alone[q] => AchievedAt(q))
                          /\ Holds(q)
  BY Processwise DEF Good, Holds
<1>2. \A q \in Procs : /\ proc[q].pc \in {"off", "prompt"} /\ ~Running(q) /\ Held(q) = {}
                       /\ ~alone[q]
  <2>1. \A q \in Procs : proc[q].pc \in {"off", "prompt"}
    BY DEF Edit, Tick, Quiet
  <2> QED BY <1>1, <2>1 DEF Running, Held, AchievedAt, Steps
<1>3. /\ UNCHANGED <<build, proc, alone, begun>> /\ now' \in 0..MaxNow
      /\ disk' = disk \/ Edit
  <2>1. CASE Edit
    BY <1>1, <2>1 DEF Edit, Kinds
  <2>2. CASE Tick
    <3>1. now \in 0..MaxNow /\ now < MaxNow /\ now' = now + 1
      BY <1>1, <2>2 DEF Tick, Kinds
    <3>2. now' \in 0..MaxNow
      BY <3>1, ShellAssumption
    <3> QED BY <2>2, <3>2 DEF Tick
  <2> QED BY <2>1, <2>2
<1>4. Sane' /\ Grows
  <2>1. CASE disk' = disk
    BY <1>1, <1>3, <2>1 DEF Sane, Closed, Exists, Grows
  <2>2. CASE Edit
    <3>1. /\ disk' \in Disks /\ disk'.tree = disk.tree /\ disk'.logs = disk.logs
          /\ disk'.extra = disk.extra /\ disk'.file = [disk.file EXCEPT !["config"] = "mine"]
      BY <1>1, <2>2 DEF Edit, Sane, Disks, Contents
    <3>2. "config" \in disk.tree
      BY <1>1, <2>2 DEF Edit, Sane, Closed
    <3> QED BY <1>1, <1>3, <3>1, <3>2, FileWritten DEF Files, Contents
  <2> QED BY <1>3, <2>1, <2>2
<1>5. Kinds'
  BY <1>1, <1>3, <1>4 DEF Kinds, Sane
<1>6. ASSUME NEW q \in Procs
      PROVE  (PlacedAt(q) /\ HeldAt(q) /\ (alone[q] => AchievedAt(q)))'
             /\ ToSet(proc'[q].handlers) \subseteq disk'.logs
  <2>1. PlacedAt(q)'
    <3>1. proc[q].depth = 0 => proc[q].handlers = <<>>
      BY <1>1, <1>2 DEF PlacedAt
    <3>2. ToSet(<<>>) = {}
      BY DEF ToSet
    <3>3. PlacedAt(q) /\ proc[q].pc \in {"off", "prompt"} /\ proc'[q] = proc[q]
      BY <1>1, <1>2, <1>3
    <3> QED BY <1>2, <1>3, <3>1, <3>2, <3>3 DEF PlacedAt, Running
  <2>2. HeldAt(q)'
    BY <1>2, <1>3 DEF HeldAt, Held
  <2>3. ~alone'[q]
    BY <1>2, <1>3
  <2>4. ToSet(proc'[q].handlers) \subseteq disk'.logs
    BY <1>1, <1>3, <1>4 DEF Holds, Grows
  <2> QED BY <2>1, <2>2, <2>3, <2>4
<1>7. Good'
  BY <1>4, <1>5, <1>6 DEF Good
<1>8. IInv'
  BY <1>7, GoodNext
<1> QED BY <1>4, <1>8

(* No process runs, and the root is as an installer, a clone or a killed   *)
(* command left it.                                                        *)
LEMMA InitHolds == Init => IInv
<1> SUFFICES ASSUME Init  PROVE IInv
  OBVIOUS
<1>1. 0 \in 0..MaxNow /\ 0 \in 0..MaxCommands
  BY ShellAssumption
<1>2. disk \in {Blank, Used, CutShort, Cloned}
      /\ build \in {"dev", "installed", "incomplete", "misplaced"}
      /\ (build = "dev" => disk = Cloned)
  BY DEF Init
<1>3. Sane
  <2>1. Blank \in Disks /\ Used \in Disks /\ CutShort \in Disks /\ Cloned \in Disks
    BY <1>1 DEF Blank, Used, CutShort, Cloned, Disks, Contents, Dirs
  <2>2. disk \in Disks
    BY <1>2, <2>1
  <2>3. CASE disk = Blank
    <3>1. /\ disk.tree = {} /\ disk.logs = {} /\ build # "dev"
          /\ \A f \in Files : disk.file[f] = "absent"
      BY <1>2, <2>3 DEF Blank, Init, Cloned
    <3> QED BY <2>2, <3>1 DEF Sane, Closed, Exists, Files
  <2>4. CASE disk = Used
    <3>1. /\ disk.tree = Dirs
          /\ disk.file["example"] = "mine" /\ disk.file["db"] = "mine"
      BY <2>4 DEF Used, Dirs, Files
    <3> QED BY <2>2, <3>1 DEF Sane, Closed, Dirs
  <2>5. CASE disk = CutShort
    <3>1. /\ disk.tree = Dirs
          /\ disk.file["example"] = "new" /\ disk.file["db"] = "mine"
      BY <2>5 DEF CutShort, Used, Dirs, Files
    <3> QED BY <2>2, <3>1 DEF Sane, Closed, Dirs
  <2>6. CASE disk = Cloned
    <3>1. /\ disk.tree = {"root", "config"} /\ disk.logs = {}
          /\ disk.file["example"] = "new" /\ disk.file["db"] = "absent"
      BY <2>6 DEF Cloned, Blank, Files
    <3> QED BY <2>2, <3>1 DEF Sane, Closed, Exists
  <2> QED BY <1>2, <2>3, <2>4, <2>5, <2>6
<1>4. /\ proc \in [Procs -> Processes] /\ alone \in [Procs -> BOOLEAN]
      /\ \A p \in Procs : proc[p] = NoProcess /\ ~alone[p]
  BY NoProcessShape DEF Init
<1>5. Kinds
  BY <1>1, <1>2, <1>3, <1>4 DEF Init, Kinds, Sane
<1>6. ASSUME NEW p \in Procs
      PROVE  /\ PlacedAt(p) /\ HeldAt(p) /\ ~alone[p]
             /\ ToSet(proc[p].handlers) \subseteq disk.logs
  <2>1. /\ proc[p].pc = "off" /\ proc[p].handlers = <<>> /\ proc[p].cmd.name = "init"
        /\ proc[p].depth = 0 /\ ~proc[p].fresh /\ ~alone[p]
    BY <1>4, NoProcessShape
  <2>2. ToSet(<<>>) = {} /\ "off" \notin Steps /\ "off" \notin Stages("init")
    BY DEF ToSet, Steps, Stages
  <2> QED BY <2>1, <2>2 DEF PlacedAt, HeldAt, Held, Running
<1> QED BY <1>3, <1>5, <1>6, Processwise DEF Good

(* Nothing changes.                                                        *)
LEMMA Unmoved == IInv /\ UNCHANGED vars => IInv'
<1> SUFFICES ASSUME IInv, UNCHANGED vars  PROVE Good'
  BY GoodNext
<1>1. Good /\ UNCHANGED <<build, disk, proc, alone, now, begun>>
  BY Processwise DEF vars
<1>2. (Kinds /\ Sane)'
  BY <1>1 DEF Good, Kinds, Sane, Closed, Exists
<1>3. ASSUME NEW p \in Procs  PROVE (PlacedAt(p) /\ HeldAt(p))'
  BY <1>1 DEF Good, PlacedAt, HeldAt, Held, Exists, Running
<1>4. ASSUME NEW p \in Procs  PROVE (alone[p] => AchievedAt(p))'
  BY <1>1 DEF Good, AchievedAt, Past, Whole
<1> QED BY <1>1, <1>2, <1>3, <1>4 DEF Good

(* A collect is blocked by a log that is held open.                        *)
LEMMA Blocker ==
  ASSUME NEW p \in Procs, proc \in [Procs -> Processes], Unlink(p),
         proc[p].log \in disk.logs, proc'[p].pc = "done"
  PROVE  ~LogFree(proc[p].log)
<1>1. CASE proc' = [proc EXCEPT ![p].pc = "prune", ![p].log = 0]
  <2>1. proc'[p].pc = "prune"
    BY <1>1 DEF Processes
  <2> QED BY <2>1
<1> QED BY <1>1 DEF Unlink

(* Neither an exception nor a kill is such a block.                        *)
LEMMA NotBlocked ==
  ASSUME NEW p \in Procs, proc \in [Procs -> Processes], Fault(p) \/ Gone(p)
  PROVE  proc'[p].outcome # "blocked"
<1>1. CASE Fault(p)
  <2>1. End(p, "failed")
    BY <1>1 DEF Fault, Raise
  <2>2. proc'[p].outcome = "failed"
    BY <2>1 DEF End, Processes
  <2> QED BY <2>2
<1>2. CASE Gone(p)
  BY <1>2 DEF Gone, NoProcess
<1> QED BY <1>1, <1>2

(* A shell less: it was left at its prompt, or the process was killed.     *)
LEMMA ShellLess ==
  ASSUME NEW p \in Procs, Ready(p), Act(p), proc'[p].depth < proc[p].depth
  PROVE  \/ /\ proc[p].pc = "prompt" /\ proc'[p].depth = proc[p].depth - 1
            /\ proc'[p].pc = IF proc[p].depth > 1 THEN "prompt" ELSE "off"
         \/ Running(p) /\ proc'[p].pc = "off"
<1>1. /\ proc \in [Procs -> Processes] /\ proc[p].depth \in 0..MaxDepth /\ MaxDepth \in Nat
      /\ (proc[p].pc = "off" => proc[p].depth = 0)
  BY ProcessShape, ShellAssumption DEF Ready, Kinds, PlacedAt
<1>2. ASSUME NEW c \in Commands, Begin(p, c)  PROVE FALSE
  <2>1. proc'[p].depth = proc[p].depth
    BY <1>1, <1>2 DEF Begin, Processes
  <2> QED BY <1>1, <2>1
<1>3. ~Start(p)
  <2>1. proc[p].pc # "off"
    <3>1. SUFFICES ASSUME proc[p].pc = "off"  PROVE FALSE
      OBVIOUS
    <3>2. CASE Start(p)
      <4>1. proc' = [proc EXCEPT ![p].pc = "prompt", ![p].depth = 1]
        BY <1>2, <3>2 DEF Start
      <4>2. proc'[p].depth = 1
        BY <1>1, <4>1 DEF Processes
      <4> QED BY <1>1, <3>1, <4>2
    <3> QED BY <3>1, <3>2, NameAt DEF Act, Submit, Over, Leave, Command, RootStep, InitChecks,
       CopyExample, RefreshSchema, CopyConfig, MakeDirs, ValidateConfig, ValidateDb,
       LoadConfig, BackUp, Report, PurgeTask, PurgeNext, RmTree, RmRoot, SetUpLogging,
       PruneLogs, Unlink, Collect, Fault, Kill, Running, Steps
  <2> QED BY <2>1 DEF Start
<1>4. ~Submit(p)
  <2>1. ASSUME Submit(p)  PROVE FALSE
    <3>1. proc' = [proc EXCEPT ![p].depth = @ + 1]
      BY <1>2, <2>1 DEF Submit
    <3>2. proc'[p].depth = proc[p].depth + 1
      BY <1>1, <3>1 DEF Processes
    <3> QED BY <1>1, <3>2
  <2> QED BY <2>1
<1>5. ~Over(p)
  <2>1. ASSUME Over(p)  PROVE FALSE
    <3>1. CASE proc[p].depth = 0
      <4>1. proc'[p] = NoProcess
        BY <1>1, <2>1, <3>1 DEF Over, Gone
      <4> QED BY <1>1, <3>1, <4>1, NoProcessShape
    <3>2. CASE proc[p].depth # 0
      <4>1. proc'[p].depth = proc[p].depth
        BY <1>1, <2>1, <3>2 DEF Over, Processes
      <4> QED BY <1>1, <4>1
    <3> QED BY <3>1, <3>2
  <2> QED BY <2>1
<1>6. CASE Leave(p)
  <2>1. CASE proc[p].depth = 1 /\ Gone(p)
    <3>1. proc'[p] = NoProcess
      BY <1>1, <2>1 DEF Gone
    <3> QED BY <1>6, <2>1, <3>1, NoProcessShape DEF Leave
  <2>2. CASE proc[p].depth > 1 /\ proc' = [proc EXCEPT ![p].depth = @ - 1]
    <3>1. proc'[p].depth = proc[p].depth - 1 /\ proc'[p].pc = proc[p].pc
      BY <1>1, <2>2 DEF Processes
    <3> QED BY <1>6, <2>2, <3>1 DEF Leave
  <2> QED BY <1>6, <2>1, <2>2 DEF Leave
<1>7. CASE Kill(p)
  <2>1. proc'[p] = NoProcess
    BY <1>1, <1>7 DEF Kill, Gone
  <2> QED BY <1>7, <2>1, NoProcessShape DEF Kill
<1>8. ~Command(p) /\ ~Fault(p)
  <2>1. ASSUME RootStep(p) \/ Fault(p)  PROVE FALSE
    <3>1. proc'[p].depth = proc[p].depth
      BY <2>1, RootStepFits, RaiseFits DEF Fault, Fits
    <3> QED BY <1>1, <3>1
  <2>2. ASSUME SetUpLogging(p) \/ PruneLogs(p) \/ Unlink(p) \/ Collect(p)  PROVE FALSE
    <3>1. proc'[p].depth = proc[p].depth
      BY <1>1, <2>2 DEF SetUpLogging, PruneLogs, Unlink, Collect, Goto, End, Raise, Processes
    <3> QED BY <1>1, <3>1
  <2> QED BY <2>1, <2>2 DEF Command
<1> QED BY <1>3, <1>4, <1>5, <1>6, <1>7, <1>8 DEF Act

(* The invariant, of every state; the rest of Spec is fairness.            *)
THEOREM Invariance == Spec => []IInv
<1>1. ASSUME IInv, [Next]_vars  PROVE IInv'
  <2>1. CASE Edit \/ Tick
    BY <1>1, <2>1, QuietInv
  <2>2. ASSUME NEW p \in Procs, Step(p, Act(p))  PROVE IInv'
    BY <1>1, <2>2, StepInv
  <2>3. CASE UNCHANGED vars
    BY <1>1, <2>3, Unmoved
  <2> QED BY <1>1, <2>1, <2>2, <2>3 DEF Next
<1> QED BY <1>1, InitHolds, PTL DEF Spec

(* Type correctness, and with it that the tree is closed: no file and no   *)
(* run log is anywhere but in its directory, and no directory without the  *)
(* one above it, however the commands interleave, raise or are killed.     *)
THEOREM TypeCorrect == Spec => []TypeOK
<1>1. IInv => TypeOK
  BY DEF IInv
<1> QED BY <1>1, Invariance, PTL

(* What the exit code 0 of a command that ran alone says: a purge removed  *)
(* all it was asked to, after an init and after a validate everything is   *)
(* in place and whole.                                                     *)
THEOREM SuccessIsMeant == Spec => []SuccessMeans
<1>1. ASSUME IInv  PROVE SuccessMeans
  <2>1. Kinds /\ Sane /\ \A p \in Procs : alone[p] => AchievedAt(p)
    BY <1>1, Processwise DEF Good
  <2>2. \A p \in Procs : proc[p].cmd \in Commands
    BY <2>1, ProcessShape DEF Kinds
  <2>3. ASSUME NEW p \in Procs, Ended(p, "purge", "ok"), ~proc[p].cmd.dry
        PROVE  /\ disk.tree \cap proc[p].cmd.on = {}
               /\ \A d \in ToSet(Targets) \cap proc[p].cmd.on : \A f \in In(d) : ~Exists(f)
               /\ "logs" \in proc[p].cmd.on => disk.logs = {}
    <3>1. /\ proc[p].cmd.on \cap disk.tree \subseteq ToSet(proc[p].todo)
          /\ proc[p].todo = <<>>
      BY <2>1, <2>3 DEF AchievedAt, Past, Ended
    <3>2. disk.tree \cap proc[p].cmd.on = {}
      <4>1. ToSet(<<>>) = {}
        BY DEF ToSet
      <4> QED BY <3>1, <4>1
    <3>3. \A d \in Three : d \notin disk.tree =>
            (\A f \in In(d) : ~Exists(f)) /\ (d = "logs" => disk.logs = {})
      BY <2>1 DEF Sane, Closed, In, Three
    <3> QED BY <3>2, <3>3, TargetSet DEF Three
  <2>4. ASSUME NEW p \in Procs, Ended(p, "init", "ok")
        PROVE  /\ Whole("config") /\ disk.file["config"] = disk.file["example"]
               /\ build # "dev" => disk.file["example"] = "new"
               /\ build # "dev" /\ proc[p].fresh => disk.file["schema"] = "new"
               /\ build # "incomplete"
               /\ {"config", "data", "logs", "backups"} \subseteq disk.tree
    BY <2>1, <2>4 DEF AchievedAt, Past, Ended
  <2>5. ASSUME NEW p \in Procs, Ended(p, "validate", "ok")
        PROVE  /\ Whole("config") /\ Whole("schema") /\ Whole("db") /\ "data" \in disk.tree
               /\ build # "dev" /\ proc[p].fresh => disk.file["schema"] = "new"
    BY <2>1, <2>5 DEF AchievedAt, Past, Ended
  <2> QED BY <2>3, <2>4, <2>5 DEF SuccessMeans, PurgeComplete, InitComplete, ValidateMeans
<1> QED BY <1>1, Invariance, PTL

(* Nothing is lost unasked: a config, a database, a directory goes only by *)
(* a purge of its target, a recent run log never by the pruning of logs,   *)
(* whatever the processes do at the same time and wherever one is killed.  *)
THEOREM NothingIsLost == Spec => NothingLostUnasked
<1>1. ASSUME IInv, Next  PROVE LosesNothingElse /\ KeepsRecentLogs
  <2>1. CASE Edit \/ Tick
    BY <1>1, <2>1, QuietInv, GrowthSpares
  <2>2. ASSUME NEW p \in Procs, Step(p, Act(p))
        PROVE  LosesNothingElse /\ KeepsRecentLogs
    BY <1>1, <2>2, StepInv DEF Acts
  <2> QED BY <1>1, <2>1, <2>2 DEF Next
<1> QED BY <1>1, Invariance, PTL DEF Spec, NothingLostUnasked

(* An expired log that cannot be removed is held by a shell: a collect     *)
(* that runs alone is never blocked by what an exited command left.        *)
THEOREM ShellsBlock == Spec => BlockedByShell
<1> DEFINE Blocked(p) == alone[p] /\ proc[p].pc = "unlink" /\ proc'[p].pc = "done"
                           /\ proc'[p].outcome = "blocked"
           Shelled == \E q \in Procs : /\ proc[q].depth > 0
                                       /\ \E l \in ToSet(proc[q].handlers) : Expired(l)
<1>1. ASSUME IInv, Next, NEW p \in Procs, Blocked(p)  PROVE Shelled
  <2>1. /\ Kinds /\ Sane
        /\ \A q \in Procs : PlacedAt(q) /\ HeldAt(q) /\ (alone[q] => AchievedAt(q)) /\ Holds(q)
    BY <1>1, Processwise DEF Good, Holds
  <2> DEFINE l == proc[p].log
  <2>2. l \in disk.logs /\ l < now /\ Running(p)
    BY <1>1, <2>1 DEF AchievedAt, PlacedAt, Running, Steps
  <2>3. ~(Edit \/ Tick)
    BY <1>1, <2>2 DEF Edit, Tick, Quiet
  <2>4. PICK q \in Procs : Step(q, Act(q))
    BY <1>1, <2>3 DEF Next
  <2>5. q = p
    BY <1>1, <2>4, StepInv DEF Acts
  <2>6. Act(p) /\ UNCHANGED <<build, now>>
    BY <2>4, <2>5 DEF Step
  <2>7. CASE Unlink(p)
    <3>1. ~LogFree(l)
      BY <1>1, <2>1, <2>2, <2>7, Blocker DEF Kinds
    <3>2. PICK r \in Procs : Contains(proc[r].handlers, l)
      BY <3>1 DEF LogFree
    <3>3. l \in ToSet(proc[r].handlers)
      <4>1. proc[r].handlers \in Seq(0..MaxNow)
        BY <2>1, ProcessShape DEF Kinds
      <4> QED BY <3>2, <4>1 DEF Contains, ToSet
    <3>4. proc[r].depth \in 0..MaxDepth /\ now \in Int /\ l \in Int
      BY <2>1, <2>2, ProcessShape DEF Kinds, Sane, Disks
    <3>5. proc[r].depth # 0
      <4>1. l # now
        BY <2>2, <3>4
      <4>2. proc[r].depth = 0 => ToSet(proc[r].handlers) \subseteq {now}
        BY <2>1 DEF PlacedAt
      <4> QED BY <3>3, <4>1, <4>2
    <3>6. proc[r].depth > 0 /\ Expired(l)
      BY <2>2, <3>4, <3>5, ShellAssumption DEF Expired
    <3> QED BY <3>3, <3>6
  <2>8. CASE ~Unlink(p)
    <3>1. Fault(p) \/ Gone(p)
      BY <1>1, <2>6, <2>8 DEF Act, Start, Submit, Over, Leave, Command, RootStep, InitChecks,
         CopyExample, RefreshSchema, CopyConfig, MakeDirs, ValidateConfig, ValidateDb,
         LoadConfig, BackUp, Report, PurgeTask, PurgeNext, RmTree, RmRoot, SetUpLogging,
         PruneLogs, Collect, Kill
    <3>2. proc'[p].outcome # "blocked"
      BY <1>1, <2>1, <3>1, NotBlocked DEF Kinds
    <3> QED BY <1>1, <3>2
  <2> QED BY <2>7, <2>8
<1>2. ASSUME IInv, Next
      PROVE  \A p \in Procs : alone[p] /\ proc[p].pc = "unlink" /\ proc'[p].pc = "done"
                                /\ proc'[p].outcome = "blocked" =>
               \E q \in Procs : /\ proc[q].depth > 0
                                /\ \E l \in ToSet(proc[q].handlers) : Expired(l)
  BY <1>1, <1>2
<1> QED BY <1>2, Invariance, PTL DEF Spec, BlockedByShell

(* No command ends a shell, its own or one around it: a shell is left at   *)
(* its prompt, one at a time, or all of them end with a process killed.    *)
THEOREM ShellsSurvive == Spec => ShellSurvives
<1> DEFINE Ends(p) == \/ /\ proc[p].pc = "prompt" /\ proc'[p].depth = proc[p].depth - 1
                         /\ proc'[p].pc = IF proc[p].depth > 1 THEN "prompt" ELSE "off"
                      \/ Running(p) /\ proc'[p].pc = "off"
<1>1. ASSUME IInv, Next, NEW p \in Procs, proc'[p].depth < proc[p].depth
      PROVE  Ends(p)
  <2>1. /\ Kinds /\ Sane
        /\ \A q \in Procs : PlacedAt(q) /\ HeldAt(q)
    BY <1>1, Processwise DEF Good
  <2>2. proc[p].depth \in 0..MaxDepth
    BY <2>1, ProcessShape DEF Kinds
  <2>3. proc' # proc /\ proc'[p] # proc[p]
    BY <1>1, <2>2, ShellAssumption
  <2>4. ~(Edit \/ Tick)
    BY <2>3 DEF Edit, Tick
  <2>5. PICK q \in Procs : Step(q, Act(q))
    BY <1>1, <2>4 DEF Next
  <2>6. q = p
    BY <1>1, <2>3, <2>5, StepInv DEF Acts
  <2>7. Act(p) /\ Ready(p)
    BY <2>1, <2>5, <2>6 DEF Step, Ready
  <2> QED BY <1>1, <2>7, ShellLess
<1>2. ASSUME IInv, Next
      PROVE  \A p \in Procs : proc'[p].depth < proc[p].depth => Ends(p)
  BY <1>1, <1>2
<1> QED BY <1>2, Invariance, PTL DEF Spec, ShellSurvives
=============================================================================
