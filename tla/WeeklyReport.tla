---------------------------- MODULE WeeklyReport ----------------------------
(***************************************************************************)
(* src/report.py: the weekly report, read from the snapshots table while   *)
(* runs of collect may still insert into it.  A run reads the odometer of  *)
(* a printer, and db.save_snapshot stamps what it read only as it saves it *)
(* (Collection has the runs).  compute_weekly asks first for the printers  *)
(* of the range and then for the rows of one printer after the other, each *)
(* in a query of its own.  Labels and meters are treated alike and are one *)
(* counter here.  Time is counted in hours of UTC, from a Monday, and a    *)
(* snapshot has the hour for its slot; a local day begins at its midnight  *)
(* and may be an hour longer or shorter than DayHours, when the clocks     *)
(* change.                                                                 *)
(***************************************************************************)
EXTENDS Integers, Sequences, FiniteSets, SequencesExt, FiniteSetsExt, TLC

CONSTANTS
  Ips,         \* the printers
  None,        \* a counter that was not read
  DayHours,    \* the hours of a day: 86400 seconds
  WeekDays,    \* the days of a week
  Midnights,   \* the local midnights of the days 1, 2, ...
  MaxNow,      \* bound of the clock
  MaxWait,     \* bound of the hours that begin while an answer is saved
  MaxCount,    \* bound of the odometers
  MaxRows      \* bound of the rows, saved or not

\* A zone is less than a day from UTC.
ASSUME ReportAssumption ==
  /\ IsFiniteSet(Ips) /\ DayHours \in Nat \ {0} /\ WeekDays \in Nat \ {0}
  /\ MaxNow \in Nat /\ MaxWait \in Nat /\ MaxCount \in Nat
  /\ Midnights \in Seq(Int)
  /\ \A d \in DOMAIN Midnights :
       Midnights[d] - (d - 1) * DayHours \in 1 - DayHours..DayHours - 1
  /\ \A d \in 1..Len(Midnights) - 1 :
       Midnights[d + 1] - Midnights[d] \in {DayHours - 1, DayHours, DayHours + 1}

VARIABLES
  now,        \* the hour
  odometer,   \* the counter of each printer when it was last asked
  answers,    \* what runs have read and not yet saved, [ip, at, val]
  disturbed,  \* history: an odometer went back, or a printer was polled by
              \*  two runs at the same time
  table,      \* the rows [ip, ts, val]
  pc,         \* "idle", "reading" or "done"
  range,      \* the days asked for, [from, to]
  todo,       \* the printers whose rows are to be read
  weeks,      \* the rows of the report, [week, ip, delta]
  before,     \* history: the table when the report began
  seen        \* history: the rows it was computed from

vars == <<now, odometer, answers, disturbed, table, pc, range, todo, weeks, before, seen>>

Days == 1..Len(Midnights) - 1
Local(d) == Midnights[d]..Midnights[d + 1] - 1

\* A plausible bug: the range ends with the midnight of its last day.
Bug_LastDayLost(rows) ==
  {r \in rows : Midnights[range.from] <= r.ts /\ r.ts <= Midnights[range.to]}

\* _to_epoch(from) and _to_epoch(to) + 86399.
InRange(rows) ==
  {r \in rows : Midnights[range.from] <= r.ts
                /\ r.ts <= Midnights[range.to] + DayHours - 1}

\* A plausible bug: the week begins with its Sunday.
Bug_SundayFirst(ts) == (ts \div DayHours + 1) \div WeekDays

\* _week_label takes the date in UTC; _week_dates gives back the days of it.
Week(ts) == (ts \div DayHours) \div WeekDays

\* A plausible bug: the readings of a week are added up.
Bug_Summed(weekly, r) ==
  IF Week(r.ts) \in DOMAIN weekly
  THEN [weekly EXCEPT ![Week(r.ts)].last =
          IF None \in {@, r.val} THEN None ELSE @ + r.val]
  ELSE weekly @@ (Week(r.ts) :> [first |-> r.val, last |-> r.val])

\* A plausible bug: every row of the week begins it anew.
Bug_FirstReplaced(weekly, r) ==
  (Week(r.ts) :> [first |-> r.val, last |-> r.val]) @@ weekly

\* The loop that groups the rows, which come in the order of their timestamps.
AddRow(weekly, r) ==
  [w \in DOMAIN weekly \cup {Week(r.ts)} |->
     IF w # Week(r.ts) THEN weekly[w]
     ELSE [first |-> IF w \in DOMAIN weekly THEN weekly[w].first ELSE r.val,
           last |-> r.val]]

\* ORDER BY timestamp, of which the rows of a printer have each their own.
Sorted(rows) ==
  [i \in 1..Cardinality(rows) |->
     CHOOSE r \in rows : Cardinality({q \in rows : q.ts < r.ts}) = i - 1]

ByWeek(rows) == FoldLeft(AddRow, <<>>, Sorted(rows))

\* A plausible bug: a count that was not read is taken for 0.
Bug_NoneIsZero(data) == (IF data.last = None THEN 0 ELSE data.last)
                        - (IF data.first = None THEN 0 ELSE data.first)

Delta(data) == IF data.first # None /\ data.last # None
               THEN data.last - data.first ELSE None

Init ==
  /\ now = 0 /\ odometer = [ip \in Ips |-> 0] /\ answers = {}
  /\ disturbed = FALSE /\ table = {}
  /\ pc = "idle" /\ range \in {r \in [from : Days, to : Days] : r.from <= r.to}
  /\ todo = {} /\ weeks = {} /\ before = {} /\ seen = {}

collect == <<odometer, answers, disturbed, table>>
report == <<pc, range, todo, weeks, before, seen>>

Tick == /\ now < MaxNow /\ now' = now + 1
        /\ \A a \in answers : now < a.at + MaxWait
        /\ UNCHANGED <<collect, report>>

\* A worker of a run reads the odometer: since it was read last the printer
\* printed, was reset, or was replaced by another; or the meters or the labels
\* of the answer cannot be read.
Answer(ip) ==
  /\ Cardinality(table) + Cardinality(answers) < MaxRows
  /\ \E count \in 0..MaxCount :
       /\ odometer' = [odometer EXCEPT ![ip] = count]
       /\ disturbed' = (disturbed \/ count < odometer[ip] \/ \E a \in answers : a.ip = ip)
       /\ \E val \in {count, None} :
            answers' = answers \cup {[ip |-> ip, at |-> now, val |-> val]}
  /\ UNCHANGED <<now, table, report>>

\* save_snapshot: the stamp is the time at which the run's main thread comes to
\* the answer, the commit may wait for the lock of another run, and INSERT OR
\* IGNORE leaves a row of that slot as it is.  When it raises, or the run is
\* killed, nothing is saved.
Save(a) ==
  /\ answers' = answers \ {a}
  /\ \/ \E ts \in a.at..now :
          /\ \A r \in table : ~(r.ip = a.ip /\ r.ts = ts)
          /\ table' = table \cup {[ip |-> a.ip, ts |-> ts, val |-> a.val]}
     \/ UNCHANGED table
  /\ UNCHANGED <<now, odometer, disturbed, report>>

\* SELECT DISTINCT printer_ip.
Begin ==
  /\ pc = "idle" /\ pc' = "reading"
  /\ todo' = {r.ip : r \in InRange(table)}
  /\ before' = table
  /\ UNCHANGED <<now, collect, range, weeks, seen>>

\* The rows of one printer, and its line in each week.
ReadPrinter(ip) ==
  /\ pc = "reading" /\ ip \in todo
  /\ LET rows == {r \in InRange(table) : r.ip = ip}
         weekly == ByWeek(rows)
     IN  /\ weeks' = weeks \cup
              {[week |-> w, ip |-> ip, delta |-> Delta(weekly[w])] : w \in DOMAIN weekly}
         /\ seen' = seen \cup rows
  /\ todo' = todo \ {ip}
  /\ UNCHANGED <<now, collect, pc, range, before>>

Finish ==
  /\ pc = "reading" /\ todo = {} /\ pc' = "done"
  /\ UNCHANGED <<now, collect, range, todo, weeks, before, seen>>

Report == Begin \/ Finish \/ \E ip \in Ips : ReadPrinter(ip)

\* What happens once the report is over is of no interest.
Next == /\ pc # "done"
        /\ \/ Tick \/ Report
           \/ \E ip \in Ips : Answer(ip)
           \/ \E a \in answers : Save(a)

Spec == Init /\ [][Next]_vars
-----------------------------------------------------------------------------
(* The totals that print_report adds up; a missing delta counts nothing.   *)

Amount(row) == IF row.delta = None THEN 0 ELSE row.delta
GrandTotal == MapThenSumSet(Amount, weeks)

(* Correctness.                                                            *)

TypeOK ==
  /\ now \in 0..MaxNow /\ odometer \in [Ips -> 0..MaxCount]
  /\ answers \subseteq [ip : Ips, at : 0..MaxNow, val : 0..MaxCount \cup {None}]
  /\ disturbed \in BOOLEAN
  /\ table \subseteq [ip : Ips, ts : 0..MaxNow, val : 0..MaxCount \cup {None}]
  /\ pc \in {"idle", "reading", "done"}
  /\ range \in [from : Days, to : Days]
  /\ todo \subseteq Ips
  /\ weeks \subseteq [week : Nat, ip : Ips, delta : -MaxCount..MaxCount \cup {None}]
  /\ before \subseteq table /\ seen \subseteq table

\* The report against its definition: a printer has one line for each week in
\* which the report found a row of it, and it says by how much the last of
\* these differs from the first.
LinesExact ==
  LET found(w, ip) == {r \in seen : r.ip = ip /\ Week(r.ts) = w}
      lines(w, ip) == {row \in weeks : row.week = w /\ row.ip = ip}
  IN  \A ip \in Ips, w \in {Week(r.ts) : r \in seen} :
        IF found(w, ip) = {} THEN lines(w, ip) = {}
        ELSE \E f, l \in found(w, ip) :
               /\ \A r \in found(w, ip) : f.ts <= r.ts /\ r.ts <= l.ts
               /\ lines(w, ip) =
                    {[week |-> w, ip |-> ip,
                      delta |-> IF f.val = None \/ l.val = None THEN None
                                ELSE l.val - f.val]}

\* While no odometer goes back, and no printer is polled by one run before the
\* answer it gave another one is saved, no line is negative and no printer is
\* reported to have printed more than it did: at most what its odometer shows,
\* and what it printed between two weeks, or beside a count that was not read,
\* is left out.  Two runs at the same time can save the older count under the
\* later stamp, and the line is negative although no odometer went back.
NothingOvercounted ==
  ~disturbed =>
    /\ \A row \in weeks : Amount(row) >= 0
    /\ GrandTotal <= MapThenSumSet(LAMBDA ip : odometer[ip], Ips)
    /\ \A ip \in Ips :
         MapThenSumSet(Amount, {row \in weeks : row.ip = ip}) <= odometer[ip]

\* Everything that the table held of the local days asked for when the report
\* began is in it, but for the last hour of a last day of one hour more than
\* DayHours; and nothing of another day is, but for the first hour after a
\* last day of one hour less.
RangeCovered ==
  pc = "done" =>
    LET asked == UNION {Local(d) : d \in range.from..range.to}
        end == Midnights[range.to + 1]
        long == end - Midnights[range.to] > DayHours
        short == end - Midnights[range.to] < DayHours
    IN  /\ \A r \in before : r.ts \in asked =>
             r \in seen \/ (long /\ r.ts = end - 1)
        /\ \A r \in seen : r.ts \in asked \/ (short /\ r.ts = end)

\* The dates printed with a week are those of the local days of its snapshots,
\* but for snapshots between the beginning of a week in UTC and its beginning
\* in local time: these are a week off.
WeekDated ==
  \A r \in seen, d \in Days : r.ts \in Local(d) =>
    \/ Week(r.ts) = (d - 1) \div WeekDays
    \/ \E monday \in {k \in DOMAIN Midnights : (k - 1) % WeekDays = 0} :
         LET utc == (monday - 1) * DayHours
         IN  \/ utc <= r.ts /\ r.ts < Midnights[monday]
             \/ Midnights[monday] <= r.ts /\ r.ts < utc

\* A printer is in the report exactly when it had a row in the range as the
\* report began: what another command inserts meanwhile shows up only for the
\* printers that were there.
PrintersKept ==
  pc = "done" => {r.ip : r \in seen} = {r.ip : r \in InRange(before)}

\* Which rows a report is computed from.
RowsOfTheRange == RangeCovered /\ PrintersKept

(* What makes these inductive.                                             *)

\* The table: its primary key, and, of a printer of which there is at most one
\* answer in flight, that stamps and counts go on together.
TableInv ==
  /\ IsFiniteSet(table) /\ \A r \in table : r.ts <= now
  /\ \A r, q \in table : r.ip = q.ip /\ r.ts = q.ts => r = q
  /\ ~disturbed => \A r \in table : r.val # None =>
       /\ r.val <= odometer[r.ip]
       /\ \A q \in table : q.ip = r.ip /\ q.ts <= r.ts /\ q.val # None => q.val <= r.val

AnswersInv ==
  /\ IsFiniteSet(answers) /\ \A a \in answers : a.at <= now
  /\ ~disturbed => \A a \in answers :
       /\ a.val # None => a.val <= odometer[a.ip]
       /\ \A b \in answers : a.ip = b.ip => a = b
       /\ \A r \in table : r.ip = a.ip =>
            r.ts <= a.at /\ (r.val # None /\ a.val # None => r.val <= a.val)

\* What has been read: all that the table held when the report began of the
\* printers that are done with, and of no other printer anything.
ReadInv ==
  /\ range.from <= range.to /\ seen \subseteq InRange(table)
  /\ pc = "idle" => before = {} /\ todo = {}
  /\ pc = "done" => todo = {}
  /\ todo \subseteq {r.ip : r \in InRange(before)}
  /\ {r.ip : r \in seen} = {r.ip : r \in InRange(before)} \ todo
  /\ {r \in InRange(before) : r.ip \notin todo} \subseteq seen

\* A line is there for a week and a printer of which a row was read.
LineInv ==
  /\ IsFiniteSet(weeks) /\ LinesExact
  /\ \A row \in weeks : \E r \in seen : r.ip = row.ip /\ Week(r.ts) = row.week

IInv == TypeOK /\ TableInv /\ AnswersInv /\ ReadInv /\ LineInv
=============================================================================
