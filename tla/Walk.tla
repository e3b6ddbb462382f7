-------------------------------- MODULE Walk --------------------------------
(***************************************************************************)
(* tools/linkos_walk.py: one walk of a plan of OID subtrees over a list of *)
(* hosts.  The plan (select_roots) and the list of hosts (expand_targets)  *)
(* are computed once; every host is then a task that waits for a permit of *)
(* the semaphore, probes the printer (again with SNMPv1 when v2c is not    *)
(* answered), walks the subtrees one after the other and gives the permit  *)
(* back.  What a printer answers to any request is arbitrary.  An OID is   *)
(* the sequence of its numbers.                                            *)
(***************************************************************************)
EXTENDS Integers, Sequences, FiniteSets, SequencesExt, FiniteSetsExt

CONSTANTS
  Runs,         \* the command lines: records, see RunSet
  GroupRoots,   \* MIB_GROUPS: the roots of each key of --mib
  Branches,     \* BRANCH_TABLES: the registered suffixes below some roots
  Expand,       \* the hosts each target (address, wildcard, CIDR) stands for
  Oids,         \* the OIDs a printer may answer with
  Types,        \* the pysnmp types a printer may answer with
  MaxHosts,     \* --max-hosts
  MaxOids,      \* --max-oids
  Concurrency   \* --concurrency

Groups == DOMAIN GroupRoots
Hosts == UNION {ToSet(Expand[t]) : t \in DOMAIN Expand}

RunSet == [targets : Seq(DOMAIN Expand),
           mib : {"absent", "all", "none", "some"}, keys : SUBSET Groups,
           custom : SUBSET Seq(Nat), perBranch : BOOLEAN,
           version : {"v1", "v2c"}, fallback : BOOLEAN, probe : BOOLEAN]

ASSUME WalkAssumption ==
  /\ Runs \subseteq RunSet /\ \A r \in Runs : IsFiniteSet(r.custom)
  /\ IsFiniteSet(Groups)
  /\ \A k \in Groups : IsFiniteSet(GroupRoots[k]) /\ GroupRoots[k] \subseteq Seq(Nat)
  /\ \A root \in DOMAIN Branches :
       IsFiniteSet(Branches[root]) /\ Branches[root] \subseteq Nat
  /\ Oids \subseteq Seq(Nat)
  /\ MaxOids \in Nat \ {0} /\ MaxHosts \in Nat /\ Concurrency \in Int
-----------------------------------------------------------------------------
(* The plan: which subtrees.                                               *)

\* oid_tuple(a) < oid_tuple(b), the order of Python tuples.
Before(a, b) ==
  \/ IsStrictPrefix(a, b)
  \/ \E i \in DOMAIN a \cap DOMAIN b :
       a[i] < b[i] /\ SubSeq(a, 1, i - 1) = SubSeq(b, 1, i - 1)

IsWithin(oid, root) == IsPrefix(root, oid)

\* sorted(): the i-th is the one that i - 1 others come before.
Sorted(S) ==
  [i \in 1..Cardinality(S) |->
     CHOOSE x \in S : Cardinality({y \in S : Before(y, x)}) = i - 1]

\* --mib defaults to all, but to none beside an explicit --root.
Keys(r) == CASE r.mib = "all" -> Groups
             [] r.mib = "none" -> {}
             [] r.mib = "some" -> r.keys
             [] r.mib = "absent" -> IF r.custom = {} THEN Groups ELSE {}

Specs(r) == (UNION {GroupRoots[k] : k \in Keys(r)}) \cup r.custom

\* The loop over the sorted specs that drops what an earlier one covers.
KeepBroadest(kept, spec) ==
  IF \E ancestor \in ToSet(kept) : IsWithin(spec, ancestor) THEN kept
  ELSE Append(kept, spec)

Broadest(specs) == FoldLeft(KeepBroadest, <<>>, specs)

\* A plausible bug: the narrowest roots are considered first.
Bug_NarrowestFirst(r) == Broadest(Reverse(Sorted(Specs(r))))

Kept(r) == Broadest(Sorted(Specs(r)))

\* --per-branch: the registered branches, by number, in place of their root.
Expanded(root) ==
  IF root \in DOMAIN Branches
  THEN Sorted({Append(root, n) : n \in Branches[root]}) ELSE <<root>>

SelectRoots(r) ==
  IF r.perBranch
  THEN FlattenSeq([i \in DOMAIN Kept(r) |-> Expanded(Kept(r)[i])])
  ELSE Kept(r)

(* Which hosts, each once, in the order they are first named.              *)
ExpandTargets(r) ==
  FoldLeft(LAMBDA out, h : IF Contains(out, h) THEN out ELSE Append(out, h),
           <<>>, FlattenSeq([i \in DOMAIN r.targets |-> Expand[r.targets[i]]]))

\* The command lines that main() does not refuse.
Accepted(r) == /\ Specs(r) # {}
               /\ Len(ExpandTargets(r)) \in 1..MaxHosts

\* What run() is given for each command line.
Plan == [r \in Runs |-> SelectRoots(r)]
Targets == [r \in Runs |-> ToSet(ExpandTargets(r))]

(* How a value type is rendered, and the types that end a subtree: they    *)
(* are compared with the rendered name.                                    *)
TypeName(t) == CASE t = "Integer32" -> "INTEGER"
                 [] t = "OctetString" -> "OCTET_STRING"
                 [] t = "Null" -> "NULL"
                 [] t = "NoSuchInstance" -> "NO_SUCH_INSTANCE"
                 [] t = "NoSuchObject" -> "NO_SUCH_OBJECT"
                 [] t = "EndOfMibView" -> "END_OF_MIB_VIEW"
                 [] t = "Unspecified" -> "UNSPECIFIED"
                 [] OTHER -> t

TerminalTypes ==
  {"Null", "NoSuchInstance", "NoSuchObject", "EndOfMibView", "Unspecified"}

\* A plausible bug: OIDs are compared with the ones seen, not with the last.
Bug_OrderUnchecked(root, binds, oid, type) ==
  CASE ~IsWithin(oid, root) -> "past"
    [] IsWithin(oid, root) /\ TypeName(type) \in TerminalTypes -> "past"
    [] OTHER -> IF Contains(binds, oid) THEN "repeated" ELSE "take"

\* What walk_subtree makes of one binding after those in binds.
Judge(root, binds, oid, type) ==
  CASE ~IsWithin(oid, root) -> "past"
    [] IsWithin(oid, root) /\ TypeName(type) \in TerminalTypes -> "past"
    [] OTHER -> IF Contains(binds, oid) THEN "repeated"
                ELSE IF ~Before(IF binds = <<>> THEN root ELSE Last(binds), oid)
                THEN "backwards" ELSE "take"
-----------------------------------------------------------------------------
VARIABLES
  run,        \* the command line
  permits,    \* the semaphore
  pc,         \* where the task of each host is
  session,    \* the version its session speaks
  report,     \* its HostReport: version, reachable, error, subtrees
  binds,      \* the bindings of the subtree being walked
  timeouts,   \* the subtrees that just timed out in a row
  exit,       \* the exit code, or -1 while main() runs
  answered    \* history: the versions the host answered a probe with

vars == <<run, permits, pc, session, report, binds, timeouts, exit, answered>>

Roots == Plan[run]
Tasks == Targets[run]
Inside == {h \in Hosts : pc[h] \notin {"idle", "waiting", "done"}}
Errors == {"none", "timeout", "other", "skipped"}

Init ==
  /\ run \in {r \in Runs : Accepted(r)}
  /\ permits = Max({1, Concurrency})
  /\ pc = [h \in Hosts |-> IF h \in Tasks THEN "waiting" ELSE "idle"]
  /\ session = [h \in Hosts |-> run.version]
  /\ report = [h \in Hosts |-> [version |-> run.version, reachable |-> FALSE,
                               error |-> "none", subtrees |-> <<>>]]
  /\ binds = [h \in Hosts |-> <<>>]
  /\ timeouts = [h \in Hosts |-> 0]
  /\ exit = -1
  /\ answered = [h \in Hosts |-> {}]

\* A plausible bug: the permit is not given back.
Bug_PermitLost(h, rep) == /\ pc' = [pc EXCEPT ![h] = "done"]
                          /\ report' = [report EXCEPT ![h] = rep]
                          /\ UNCHANGED permits

Finish(h, rep) == /\ pc' = [pc EXCEPT ![h] = "done"]
                  /\ report' = [report EXCEPT ![h] = rep]
                  /\ permits' = permits + 1

\* async with semaphore: open_session, which may raise.
Enter(h) ==
  /\ pc[h] = "waiting" /\ permits > 0
  /\ \/ /\ permits' = permits - 1
        /\ \/ /\ run.probe
              /\ pc' = [pc EXCEPT ![h] = "probe"]
              /\ UNCHANGED report
           \/ /\ ~run.probe
              /\ pc' = [pc EXCEPT ![h] = "root"]
              /\ report' = [report EXCEPT ![h].reachable = TRUE]
     \/ /\ pc' = [pc EXCEPT ![h] = "done"]
        /\ report' = [report EXCEPT ![h].error = "other"]
        /\ UNCHANGED permits
  /\ UNCHANGED <<session, binds, timeouts, answered, run, exit>>

\* A plausible bug: the header keeps the version that was asked for.
Bug_HeaderKept(h) ==
  /\ pc[h] \in {"probe", "reprobe"}
  /\ pc' = [pc EXCEPT ![h] = "root"]
  /\ report' = [report EXCEPT ![h].reachable = TRUE]
  /\ answered' = [answered EXCEPT ![h] = @ \cup {session[h]}]
  /\ UNCHANGED <<permits, session, binds, timeouts, run, exit>>

\* A probe is answered, in the version the session speaks.
Answered(h) ==
  /\ pc[h] \in {"probe", "reprobe"}
  /\ pc' = [pc EXCEPT ![h] = "root"]
  /\ report' = [report EXCEPT ![h].reachable = TRUE,
                  ![h].version = IF pc[h] = "reprobe" THEN "v1" ELSE @]
  /\ answered' = [answered EXCEPT ![h] = @ \cup {session[h]}]
  /\ UNCHANGED <<permits, session, binds, timeouts, run, exit>>

\* It is not: one more try with v1, then the host is given up.
Unanswered(h) ==
  /\ \/ /\ pc[h] = "probe" /\ run.fallback /\ run.version = "v2c"
        /\ session' = [session EXCEPT ![h] = "v1"]
        /\ pc' = [pc EXCEPT ![h] = "reprobe"]
        /\ UNCHANGED <<report, permits>>
     \/ /\ \/ pc[h] = "probe" /\ ~(run.fallback /\ run.version = "v2c")
           \/ pc[h] = "reprobe"
        /\ session' = [session EXCEPT ![h] = run.version]
        /\ Finish(h, [report[h] EXCEPT !.error = "timeout"])
  /\ UNCHANGED <<binds, timeouts, answered, run, exit>>

\* A plausible bug: an exception leaves without the permit.
Bug_RaisesWithPermit(h) ==
  /\ pc[h] \in {"probe", "reprobe"}
  /\ pc' = [pc EXCEPT ![h] = "done"]
  /\ report' = [report EXCEPT ![h].error = "other"]
  /\ UNCHANGED <<permits, session, binds, timeouts, answered, run, exit>>

\* Anything else in walk_host raises: the report so far is returned.
Raises(h) ==
  /\ pc[h] \in {"probe", "reprobe"}
  /\ Finish(h, [report[h] EXCEPT !.error = "other"])
  /\ UNCHANGED <<session, binds, timeouts, answered, run, exit>>

Subtree(h, error, found, cut) ==
  [root |-> Roots[Len(report[h].subtrees) + 1], error |-> error,
   binds |-> found, truncated |-> cut]

\* The loop over the roots: done, skip, or begin a subtree.
NextRoot(h) ==
  /\ pc[h] = "root"
  /\ \/ /\ Len(report[h].subtrees) = Len(Roots)
        /\ Finish(h, report[h])
     \/ /\ Len(report[h].subtrees) < Len(Roots) /\ timeouts[h] >= 2
        /\ report' = [report EXCEPT ![h].subtrees =
             Append(@, Subtree(h, "skipped", <<>>, FALSE))]
        /\ UNCHANGED <<pc, permits>>
     \/ /\ Len(report[h].subtrees) < Len(Roots) /\ timeouts[h] < 2
        /\ pc' = [pc EXCEPT ![h] = "rows"]
        /\ UNCHANGED <<report, permits>>
  /\ binds' = [binds EXCEPT ![h] = <<>>]
  /\ UNCHANGED <<session, timeouts, answered, run, exit>>

\* A plausible bug: the timeouts are counted, but not in a row.
Bug_NotInARow(h, error, found, cut) ==
  /\ report' = [report EXCEPT ![h].subtrees =
       Append(@, Subtree(h, error, found, cut))]
  /\ timeouts' = [timeouts EXCEPT ![h] = IF error = "timeout" THEN @ + 1 ELSE @]
  /\ pc' = [pc EXCEPT ![h] = "root"]
  /\ binds' = [binds EXCEPT ![h] = <<>>]

\* The subtree ends, in order or with an error.
EndSubtree(h, error, found, cut) ==
  /\ report' = [report EXCEPT ![h].subtrees =
       Append(@, Subtree(h, error, found, cut))]
  /\ timeouts' = [timeouts EXCEPT ![h] = IF error = "timeout" THEN @ + 1 ELSE 0]
  /\ pc' = [pc EXCEPT ![h] = "root"]
  /\ binds' = [binds EXCEPT ![h] = <<>>]

\* One binding of the rows that the printer sends.
Row(h, oid, type) ==
  /\ pc[h] = "rows"
  /\ LET root == Roots[Len(report[h].subtrees) + 1]
         verdict == Judge(root, binds[h], oid, type)
         found == Append(binds[h], oid)
     IN  \/ /\ verdict = "take" /\ Len(found) < MaxOids
            /\ binds' = [binds EXCEPT ![h] = found]
            /\ UNCHANGED <<pc, report, timeouts>>
         \/ /\ verdict = "take" /\ Len(found) >= MaxOids
            /\ EndSubtree(h, "none", found, TRUE)
         \/ /\ verdict = "past"
            /\ EndSubtree(h, "none", binds[h], FALSE)
         \/ /\ verdict \in {"repeated", "backwards"}
            /\ EndSubtree(h, "other", binds[h], FALSE)
  /\ UNCHANGED <<permits, session, answered, run, exit>>

\* The rows end, with an error indication, an error status, an exception, or
\* because there are no more.
RowsEnd(h, error) ==
  /\ pc[h] = "rows"
  /\ EndSubtree(h, error, binds[h], FALSE)
  /\ UNCHANGED <<permits, session, answered, run, exit>>

\* run() has every report; main() ends with 1 when no host was reachable.
Exit ==
  /\ exit = -1
  /\ \A h \in Tasks : pc[h] = "done"
  /\ exit' = IF \E h \in Tasks : report[h].reachable THEN 0 ELSE 1
  /\ UNCHANGED <<run, permits, pc, session, report, binds, timeouts, answered>>

Step(h) ==
  \/ Enter(h) \/ Answered(h) \/ Unanswered(h) \/ Raises(h) \/ NextRoot(h)
  \/ \E oid \in Oids, type \in Types : Row(h, oid, type)
  \/ \E error \in {"none", "timeout", "other"} : RowsEnd(h, error)

Next == Exit \/ \E h \in Hosts : Step(h)

\* Every request is answered or times out, and the event loop runs every task.
Spec == Init /\ [][Next]_vars /\ WF_vars(Exit)
        /\ \A h \in Hosts : WF_vars(Step(h))
-----------------------------------------------------------------------------
(* Correctness.                                                            *)

Typed ==
  /\ run \in Runs
  /\ permits \in Nat
  /\ pc \in [Hosts -> {"idle", "waiting", "probe", "reprobe", "root", "rows", "done"}]
  /\ session \in [Hosts -> {"v1", "v2c"}]
  /\ report \in [Hosts -> [version : {"v1", "v2c"}, reachable : BOOLEAN,
       error : Errors, subtrees : Seq([root : Seq(Nat), error : Errors,
                                       binds : Seq(Oids), truncated : BOOLEAN])]]
  /\ binds \in [Hosts -> Seq(Oids)]
  /\ answered \in [Hosts -> SUBSET {"v1", "v2c"}]
  /\ timeouts \in [Hosts -> 0..2]
  /\ exit \in {-1, 0, 1}

Increasing(s) == \A i \in 1..Len(s) - 1 : Before(s[i], s[i + 1])

\* Whatever a printer sends (OIDs repeated, out of order, of other subtrees),
\* the bindings kept of a subtree lie in it, in strictly increasing order, at
\* most --max-oids of them, and "truncated" says whether the limit ended it.
SubtreesInOrder ==
  \A h \in Hosts :
    /\ Increasing(binds[h]) /\ Len(binds[h]) < MaxOids
    /\ \A i \in DOMAIN report[h].subtrees :
         LET s == report[h].subtrees[i]
         IN  /\ Increasing(s.binds)
             /\ \A j \in DOMAIN s.binds : IsWithin(s.binds[j], s.root)
             /\ s.truncated <=> Len(s.binds) = MaxOids

\* Overlapping selections are walked once: no OID is reported twice for a
\* host, whatever groups and roots overlap (docstring of select_roots).
NoOidTwice ==
  \A h \in Hosts : \A i, j \in DOMAIN report[h].subtrees :
    i # j => ToSet(report[h].subtrees[i].binds)
               \cap ToSet(report[h].subtrees[j].binds) = {}

\* What is reported of a host: no OID twice, and each where it belongs.
OidsOnceInOrder == SubtreesInOrder /\ NoOidTwice

\* A host that was reached is reported with every subtree of the plan, in its
\* order, and one is skipped only after two walks in a row that timed out (or
\* one skipped): after those no further request is sent.
RootsReported ==
  \A h \in Hosts :
    LET subs == report[h].subtrees
        Dead(i) == subs[i].error \in {"timeout", "skipped"}
    IN  /\ \A i \in DOMAIN subs : subs[i].root = Roots[i]
        /\ pc[h] = "done" /\ report[h].reachable => Len(subs) = Len(Roots)
        /\ \A i \in DOMAIN subs :
             subs[i].error = "skipped" <=> i > 2 /\ Dead(i - 1) /\ Dead(i - 2)

\* The header of a host names the version its subtrees are walked with, which
\* is one it answered, and a host called reachable answered, or was not asked.
HeaderHonest ==
  \A h \in Hosts :
    /\ pc[h] \in {"root", "rows"} => session[h] = report[h].version
    /\ report[h].reachable /\ run.probe => report[h].version \in answered[h]
    /\ ~report[h].reachable => report[h].version = run.version

\* At most --concurrency hosts are walked at a time, and a host that fails at
\* any point gives its permit back.
PermitsKept == permits + Cardinality(Inside) = Max({1, Concurrency})

TypeOK == Typed /\ PermitsKept

\* The plan against its definition: without --per-branch it is exactly the
\* selected roots that no other selected one covers, in order, so that every
\* selected subtree is in it.  With --per-branch a selected subtree is lost
\* where, and only where, a selected root around it gave way to its registered
\* branches and none of these covers it: even when it was asked for by itself.
PlanIsBroadest ==
  LET specs == Specs(run)
      covers(S, s) == \E root \in S : IsWithin(s, root)
  IN  /\ ToSet(Kept(run)) =
           {s \in specs : \A t \in specs : IsWithin(s, t) => s = t}
      /\ Increasing(Roots)
      /\ \A s \in specs :
           ~covers(ToSet(Roots), s) <=>
             /\ run.perBranch
             /\ \E k \in ToSet(Kept(run)) \cap DOMAIN Branches :
                  IsWithin(s, k) /\ ~covers({Append(k, n) : n \in Branches[k]}, s)

(* What makes these inductive.                                             *)

\* Where a task is, and what its session and its report show until it is there.
HeaderInv ==
  \A h \in Hosts :
    /\ pc[h] \in {"idle", "waiting", "probe"} => session[h] = run.version
    /\ pc[h] = "reprobe" => session[h] = "v1"
    /\ pc[h] \in {"idle", "waiting", "probe", "reprobe"} =>
         ~report[h].reachable /\ report[h].subtrees = <<>>
    /\ pc[h] \in {"root", "rows"} => report[h].reachable

\* The count of timeouts is that of the last subtrees reported, up to 2.
TimeoutsInv ==
  \A h \in Hosts :
    LET subs == report[h].subtrees
        n == Len(subs)
        Dead(i) == subs[i].error \in {"timeout", "skipped"}
    IN  /\ n <= Len(Roots)
        /\ pc[h] = "rows" => n < Len(Roots) /\ timeouts[h] < 2
        /\ timeouts[h] >= 1 <=> n >= 1 /\ Dead(n)
        /\ timeouts[h] >= 2 <=> n >= 2 /\ Dead(n) /\ Dead(n - 1)

\* What was kept of the subtree being walked lies in it.
RowsInv ==
  \A h \in Hosts : pc[h] = "rows" =>
    \A j \in DOMAIN binds[h] :
      IsWithin(binds[h][j], Roots[Len(report[h].subtrees) + 1])

IInv == /\ Typed /\ IsFiniteSet(Inside) /\ PermitsKept
        /\ HeaderInv /\ HeaderHonest
        /\ TimeoutsInv /\ RootsReported
        /\ RowsInv /\ SubtreesInOrder

\* Every walk ends with an exit code, whatever hosts answer or do not.
WalkEnds == <>(exit # -1)
=============================================================================
