------------------------------ MODULE SnmpPoll ------------------------------
(***************************************************************************)
(* One poll of one printer: PrinterAdapter.get_counters() of               *)
(* src/adapters/base.py, the per-model adapter it runs, and the blocking   *)
(* SNMP GET of src/snmp_client.py with its two nested retry loops.         *)
(*                                                                         *)
(* Data is abstracted to what the properties tell apart.  A counter value  *)
(* is the physical unit its number is expressed in, so that a conversion   *)
(* by the wrong unit is visible; a reply is "good" (it converts) or "bad"  *)
(* (it does not).  Time is counted in half seconds.                        *)
(***************************************************************************)
EXTENDS Integers, Sequences

CONSTANTS
  Retries,        (* snmp.retries of config.json: extra tries of one GET     *)
  TimeoutTicks,   (* snmp.timeout_sec, in half seconds                       *)
  Null            (* Python's None                                           *)

ASSUME RetriesAssumption == Retries \in Nat
ASSUME TimeoutAssumption == TimeoutTicks \in Nat
ASSUME NullAssumption == Null # "m"         \* Null names no unit

VARIABLES
  model,          (* which adapter class serves the printer                  *)
  unit,           (* unit the firmware counts length in (Sato), as UNIT_MAP names it *)
  pc,             (* "send" | "await" a GET, or the outcome "counters" | "none" *)
  read,           (* index of the metric being read; 0 is the poke           *)
  attempt,        (* outer loop of _snmp_get_retry                           *)
  try,            (* inner loop of snmp_client.get                           *)
  result,         (* the dict get_counters() fills in                        *)
  sent,           (* history: requests put on the wire, per key              *)
  heard,          (* history: what each read came to, per key                *)
  waited          (* history: half seconds spent waiting, sleeps included    *)

vars == <<model, unit, pc, read, attempt, try, result, sent, heard, waited>>
-----------------------------------------------------------------------------
(* The declarative adapters.  Every metric of every adapter keeps the      *)
(* default retry=True, so _fetch always takes the retrying branch.         *)
Metric(key, convert, fixed) == [key |-> key, convert |-> convert, unit |-> fixed]

LinkOs == << Metric("labels_total", "int", Null), Metric("meters_total", "regex", "m") >>
Gx430t == << Metric("meters_total", "regex", "m") >>
Sato   == << Metric("meters_total", "float", Null), Metric("meter_unit", "map", Null) >>

Models  == {"linkos", "gx430t", "sato"}     \* linkos: ZT411, ZD621 and ZT230
Metrics == [linkos |-> LinkOs, gx430t |-> Gx430t, sato |-> Sato]
Keys    == {"poke", "labels_total", "meters_total", "meter_unit"}
KeyAt(m, i) == IF i = 0 THEN "poke" ELSE Metrics[m][i].key
KeyOf(i) == KeyAt(model, i)
Key      == KeyOf(read)

(* Units the Sato firmware may report; "unit_code" is any unmapped code.   *)
FirmwareUnit == [m            |-> "metres", linearMeters |-> "metres",
                 linearFeet   |-> "feet",   sheets       |-> "sheets",
                 unit_code    |-> "other"]

(* _UNIT_TO_M: the unit each converter of src/converters.py expects.       *)
UnitTable == [m  |-> "metres",      linearMeters |-> "metres",
              cm |-> "centimetres", centimeters  |-> "centimetres",
              mm |-> "millimetres", millimeters  |-> "millimetres",
              in |-> "inches",      inches       |-> "inches",
              linearFeet |-> "feet"]

(* to_meters: None and unknown units pass through unchanged.               *)
ToMeters(value, claimed) ==
  IF value = Null \/ claimed \notin DOMAIN UnitTable \/ UnitTable[claimed] = "metres"
  THEN value
  ELSE IF UnitTable[claimed] = value THEN "metres" ELSE "wrong"

(* convert_value on a good reply, and the base engine's fixed-unit step.   *)
Converted(spec) ==
  LET value == [int   |-> "count", float |-> FirmwareUnit[unit],
                regex |-> "metres", map  |-> unit][spec.convert]
  IN  IF spec.key = "meters_total" /\ spec.unit # Null
      THEN ToMeters(value, spec.unit) ELSE value

\* Bug: the raw firmware unit is overwritten before it is used.
Bug_UnitIgnored(res) == [res EXCEPT !.meter_unit = "m"]

(* The hook at the end of get_counters(): only Sato overrides it.          *)
CollectExtra(res) ==
  IF model # "sato" THEN res
  ELSE [res EXCEPT !.meters_total = IF res.meter_unit = "m" THEN @
                                    ELSE ToMeters(@, res.meter_unit),
                   !.meter_unit   = "m"]
-----------------------------------------------------------------------------
LastAttempt == 2                            \* attempts=3 of _snmp_get_retry

(* 0.5 * (2**attempt) seconds, slept between tries and between attempts.   *)
Backoff[n \in Nat] == IF n = 0 THEN 1 ELSE 2 * Backoff[n - 1]

Init ==
  /\ model \in Models
  /\ unit \in DOMAIN FirmwareUnit
  /\ pc = "send"
  /\ read = 0 /\ attempt = 0 /\ try = 0
  /\ result = [labels_total |-> Null, meters_total |-> Null,
               meter_unit |-> "m", reachable |-> FALSE]
  /\ sent = [k \in Keys |-> 0]
  /\ heard = [k \in Keys |-> "nothing"]
  /\ waited = 0

(* A new dispatcher, and so a new socket, per try: an answer to an earlier *)
(* try is never taken for this one.                                        *)
Send ==
  /\ pc = "send"
  /\ pc' = "await"
  /\ sent' = [sent EXCEPT ![Key] = @ + 1]
  /\ UNCHANGED <<model, unit, read, attempt, try, result, heard, waited>>

(* The loop over self.metrics goes on with res, or ends in the hook.       *)
NextRead(res) ==
  IF read = Len(Metrics[model])
  THEN /\ pc' = "counters"
       /\ result' = CollectExtra(res)
       /\ UNCHANGED <<read, attempt, try>>
  ELSE /\ pc' = "send"
       /\ result' = res
       /\ read' = read + 1 /\ attempt' = 0 /\ try' = 0

\* Bugs: a metric is read once, as with retry=False; the backoff doubles one
\* step too early.
Bug_NoRetry(delay) ==
  /\ IF read = 0
     THEN pc' = "none" /\ UNCHANGED <<read, attempt, try, result>>
     ELSE NextRead(result)
  /\ waited' = waited + delay
  /\ UNCHANGED <<model, unit, sent, heard>>
Bug_BackoffTooLong(delay) ==
  /\ pc' = IF read > 0 /\ attempt < LastAttempt THEN "send" ELSE "none"
  /\ attempt' = attempt + 1 /\ try' = 0
  /\ waited' = waited + delay + Backoff[attempt + 1]
  /\ UNCHANGED <<model, unit, read, result, sent, heard>>

(* _snmp_get returned (None, None) after delay: the poke is not repeated,  *)
(* a metric is, with exponential backoff, and is then skipped.             *)
GetFailed(delay) ==
  /\ IF read = 0
     THEN /\ pc' = "none"
          /\ waited' = waited + delay
          /\ UNCHANGED <<read, attempt, try, result>>
     ELSE IF attempt < LastAttempt
     THEN /\ pc' = "send"
          /\ attempt' = attempt + 1 /\ try' = 0
          /\ waited' = waited + delay + Backoff[attempt]
          /\ UNCHANGED <<read, result>>
     ELSE /\ NextRead(result)
          /\ waited' = waited + delay
  /\ UNCHANGED <<model, unit, sent, heard>>

\* Bugs: one try too many; the last timeout is swallowed and waited for again.
Bug_OneTryTooMany ==
  /\ pc = "await"
  /\ IF try <= Retries
     THEN /\ pc' = "send"
          /\ try' = try + 1
          /\ waited' = waited + TimeoutTicks + Backoff[try]
          /\ UNCHANGED <<model, unit, read, attempt, result, sent, heard>>
     ELSE GetFailed(TimeoutTicks)
Bug_TimeoutSwallowed ==
  /\ pc = "await" /\ try < Retries
  /\ pc' = "send"
  /\ try' = try + 1
  /\ waited' = waited + TimeoutTicks + Backoff[try]
  /\ UNCHANGED <<model, unit, read, attempt, result, sent, heard>>

(* No answer in time: snmp_client.get alone retries this, then gives up.   *)
Timeout ==
  /\ pc = "await"
  /\ IF try < Retries
     THEN /\ pc' = "send"
          /\ try' = try + 1
          /\ waited' = waited + TimeoutTicks + Backoff[try]
          /\ UNCHANGED <<model, unit, read, attempt, result, sent, heard>>
     ELSE GetFailed(TimeoutTicks)

(* noSuchName, another error status or an empty response: get() raises at  *)
(* once, whatever tries are left.                                          *)
SnmpError ==
  /\ pc = "await"
  /\ \E d \in 0..TimeoutTicks : GetFailed(d)

Poked ==
  /\ pc = "await" /\ read = 0
  /\ heard' = [heard EXCEPT !["poke"] = "value"]
  /\ NextRead([result EXCEPT !.reachable = TRUE])
  /\ \E d \in 0..TimeoutTicks : waited' = waited + d
  /\ UNCHANGED <<model, unit, sent>>

GoodReply ==
  /\ pc = "await" /\ read > 0
  /\ heard' = [heard EXCEPT ![Key] = "value"]
  /\ NextRead([result EXCEPT ![Key] = Converted(Metrics[model][read])])
  /\ \E d \in 0..TimeoutTicks : waited' = waited + d
  /\ UNCHANGED <<model, unit, sent>>

(* A reply that does not convert: the usage pattern yields None and the    *)
(* metric is skipped; int(), float() and the unit map raise, and           *)
(* collect_printer drops the whole printer.                                *)
BadReply ==
  /\ pc = "await" /\ read > 0
  /\ heard' = [heard EXCEPT ![Key] = "garbage"]
  /\ IF Metrics[model][read].convert = "regex"
     THEN NextRead(result)
     ELSE pc' = "none" /\ UNCHANGED <<read, attempt, try, result>>
  /\ \E d \in 0..TimeoutTicks : waited' = waited + d
  /\ UNCHANGED <<model, unit, sent>>

(* Any exception of the SNMP stack other than SnmpError is not caught by   *)
(* _snmp_get: it ends the poll in collect_printer.                         *)
Raise ==
  /\ pc = "await"
  /\ pc' = "none"
  /\ UNCHANGED <<model, unit, read, attempt, try, result, sent, heard, waited>>

Next == Send \/ Timeout \/ SnmpError \/ Poked \/ GoodReply \/ BadReply \/ Raise

(* The worker thread keeps running and pysnmp's timer fires; no printer    *)
(* owes an answer.                                                         *)
Fairness == WF_vars(Send) /\ WF_vars(Timeout)

Spec == Init /\ [][Next]_vars /\ Fairness
-----------------------------------------------------------------------------
Ended == pc \in {"counters", "none"}
Reads == 0..Len(Metrics[model])
Budget(k) == (Retries + 1) * (IF k = "poke" THEN 1 ELSE LastAttempt + 1)
Lengths == {"metres", "feet", "sheets", "other", "wrong"}
Result == [labels_total : {Null, "count"}, meters_total : Lengths \union {Null},
           meter_unit : DOMAIN FirmwareUnit, reachable : BOOLEAN]

TypeOK ==
  /\ model \in Models
  /\ unit \in DOMAIN FirmwareUnit
  /\ pc \in {"send", "await", "counters", "none"}
  /\ read \in 0..Len(Metrics[model])
  /\ attempt \in 0..LastAttempt
  /\ try \in 0..Retries
  /\ result \in Result
  /\ sent \in [Keys -> Nat]
  /\ heard \in [Keys -> {"nothing", "value", "garbage"}]

(* The two nested retry loops never send more than 3 x (retries + 1)       *)
(* requests for a metric, nor more than retries + 1 for the poke           *)
(* (_snmp_get_retry around snmp_client.get).                               *)
RequestBudget == \A k \in Keys : sent[k] <= Budget(k)

(* "metrics are only polled once the printer responds", and each only      *)
(* after the one before it was answered or given up after three attempts.  *)
MetricsInOrder ==
  \A i \in 1..Len(Metrics[model]) : sent[KeyOf(i)] > 0 =>
    /\ heard["poke"] = "value" /\ result.reachable
    /\ \A j \in 1..(i - 1) : heard[KeyOf(j)] # "nothing" \/ sent[KeyOf(j)] > LastAttempt

(* A printer reported with a counter missing was either asked for it at    *)
(* least three times or answered what does not parse: a single lost or     *)
(* refused request never costs a counter.                                  *)
MissingMeansExhausted ==
  pc = "counters" => \A i \in 1..Len(Metrics[model]) :
    heard[KeyOf(i)] = "nothing" => sent[KeyOf(i)] > LastAttempt

(* What the conversion to metres guarantees: the length handed to the      *)
(* database is in metres unless a Sato's unit read failed or named no      *)
(* unit of length.                                                         *)
MetersWhenUnitKnown ==
  /\ pc = "counters" /\ result.meters_total # Null
  /\ model = "sato" => heard["meter_unit"] = "value" /\ FirmwareUnit[unit] \in {"metres", "feet"}
  => result.meters_total = "metres" /\ result.meter_unit = "m"

(* How long one printer may occupy a worker thread: every try of every     *)
(* attempt times out and every backoff is slept.                           *)
GetTime == (Retries + 1) * TimeoutTicks + Backoff[Retries] - 1
ReadTime == 3 * GetTime + 3
WaitBound == waited \in 0..(GetTime + Len(Metrics[model]) * ReadTime)

(* What makes these inductive: the reads before the current one are over   *)
(* within their budget, the current one has used the tries its two loop    *)
(* counters stand for, and the later ones have not begun.                  *)
Running == pc \in {"send", "await"}
Sending == IF pc = "await" THEN 1 ELSE 0

ReadInv(i) ==
  /\ i < read \/ ~Running => sent[KeyOf(i)] <= Budget(KeyOf(i))
  /\ i > 0 /\ (i < read \/ pc = "counters") =>
       heard[KeyOf(i)] # "nothing" \/ sent[KeyOf(i)] > LastAttempt
  /\ i = read /\ Running =>
       /\ heard[KeyOf(i)] = "nothing"
       /\ attempt + Sending <= sent[KeyOf(i)]
       /\ sent[KeyOf(i)] <= attempt * (Retries + 1) + try + Sending
  /\ i > read => sent[KeyOf(i)] = 0 /\ heard[KeyOf(i)] = "nothing"

PollInv ==
  /\ \A i \in Reads : ReadInv(i)
  /\ \A k \in Keys : sent[k] > 0 \/ heard[k] # "nothing" => \E i \in Reads : k = KeyOf(i)
  /\ IF read = 0 THEN attempt = 0 ELSE heard["poke"] = "value" /\ result.reachable
  /\ pc = "counters" => read = Len(Metrics[model])

MetersInv ==
  IF pc = "counters" THEN MetersWhenUnitKnown
  ELSE /\ result.meter_unit = IF heard["meter_unit"] = "value" THEN unit ELSE "m"
       /\ result.meters_total \in {Null, IF model = "sato" THEN FirmwareUnit[unit] ELSE "metres"}

(* The time of the reads that are over, and of the attempts and tries of   *)
(* the current one that are, each with the sleep after it.                 *)
ReadStart == IF read = 0 THEN 0 ELSE GetTime + (read - 1) * ReadTime
TryTime(k) == k * TimeoutTicks + Backoff[k] - 1
AttemptTime(k) == k * GetTime + Backoff[k] - 1

WaitInv ==
  waited \in 0..(IF Running THEN ReadStart + AttemptTime(attempt) + TryTime(try)
                 ELSE GetTime + Len(Metrics[model]) * ReadTime)

IInv == TypeOK /\ PollInv /\ MetersInv /\ WaitInv

(* Every poll ends, whatever the printer and the network do.               *)
Terminates == <>Ended

(* What get_counters() says of its result: "All length values are          *)
(* standardized to meters at collection time ... so that the database      *)
(* stores a consistent unit regardless of what the printer firmware        *)
(* reports."  Asked here of units that do measure length.                  *)
MetersStandardized ==
  pc = "counters" /\ FirmwareUnit[unit] \in {"metres", "feet"}
  => result.meters_total \in {Null, "metres"}

=============================================================================
