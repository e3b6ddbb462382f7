---------------------------- MODULE SnapshotLog ----------------------------
(***************************************************************************)
(* What the collected data promises, with no thread, lock or retry: the    *)
(* snapshots table is a log of counters that the printers really showed.   *)
(* A row is added once, under a fresh (printer, time slot) key, by a run   *)
(* that is open; it is never changed or removed; and the counter in it is  *)
(* one the printer showed between the opening of that run and now.         *)
(***************************************************************************)
EXTENDS Integers

CONSTANTS
  Runs,         (* invocations of "lpm collect"                              *)
  Ips,          (* printer addresses                                         *)
  Interval,     (* length of a time slot                                     *)
  Null          (* a counter that could not be read                          *)

VARIABLES
  now,          (* the wall clock                                            *)
  counter,      (* what each printer's odometer shows                        *)
  rows,         (* the snapshots table                                       *)
  life,         (* of each run: "new", "open" or "closed"                    *)
  began,        (* when each open run began                                  *)
  floor         (* what each printer showed at that time                     *)

logVars == <<now, counter, rows, life, began, floor>>

(* _round_timestamp: the start of the slot that t falls in.                *)
Slot(t) == t - (t % Interval)

Init ==
  /\ now \in Nat
  /\ counter \in [Ips -> Nat]
  /\ rows = {}
  /\ life = [r \in Runs |-> "new"]
  /\ began = [r \in Runs |-> now]
  /\ floor = [r \in Runs |-> counter]

(* The world: time passes, printers print.                                 *)
Tick ==
  /\ now' \in Nat /\ now' > now
  /\ UNCHANGED <<counter, rows, life, began, floor>>

PrintLabel(ip) ==
  /\ counter' = [counter EXCEPT ![ip] = @ + 1]
  /\ UNCHANGED <<now, rows, life, began, floor>>

Open(r) ==
  /\ life[r] = "new"
  /\ life' = [life EXCEPT ![r] = "open"]
  /\ began' = [began EXCEPT ![r] = now]
  /\ floor' = [floor EXCEPT ![r] = counter]
  /\ UNCHANGED <<now, counter, rows>>

FreshKey(row) == \A other \in rows : ~(other.ip = row.ip /\ other.ts = row.ts)

Record(r, row) ==
  /\ life[r] = "open"
  /\ row.by = r /\ row.ip \in Ips /\ row.val \in Nat \union {Null}
  /\ FreshKey(row)
  /\ Slot(began[r]) <= row.ts /\ row.ts <= now
  /\ row.val # Null => floor[r][row.ip] <= row.val /\ row.val <= counter[row.ip]
  /\ rows' = rows \union {row}
  /\ UNCHANGED <<now, counter, life, began, floor>>

(* A run ends well, fails or is killed; it may fail before it opens.       *)
Close(r) ==
  /\ life[r] # "closed"
  /\ life' = [life EXCEPT ![r] = "closed"]
  /\ UNCHANGED <<now, counter, rows, began, floor>>

Next ==
  \/ Tick
  \/ \E ip \in Ips : PrintLabel(ip)
  \/ \E r \in Runs :
       \/ Open(r) \/ Close(r)
       \/ \E row \in rows' : Record(r, row)

Spec == Init /\ [][Next]_logVars
=============================================================================
