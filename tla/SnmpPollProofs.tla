--------------------------- MODULE SnmpPollProofs ---------------------------
(* Proofs about SnmpPoll, for every number of retries and every timeout.   *)
EXTENDS SnmpPoll, Facts

(* The declarative adapters: one or two metrics each, with keys of their   *)
(* own, and no two reads of a poll under one key.                          *)
LEMMA AdapterShape ==
  ASSUME NEW m \in Models
  PROVE  /\ Len(Metrics[m]) \in {1, 2}
         /\ KeyAt(m, 0) = "poke"
         /\ \A i \in 0..Len(Metrics[m]) : KeyAt(m, i) \in Keys
         /\ \A i, j \in 0..Len(Metrics[m]) : i # j => KeyAt(m, i) # KeyAt(m, j)
         /\ \A i \in 0..Len(Metrics[m]) : KeyAt(m, i) = "meter_unit" => m = "sato"
<1> USE DEF Metrics, LinkOs, Gx430t, Sato, Metric, KeyAt, Keys
<1>1. CASE m = "linkos"
  BY <1>1
<1>2. CASE m = "gx430t"
  BY <1>2
<1>3. CASE m = "sato"
  BY <1>3
<1>4. QED BY <1>1, <1>2, <1>3 DEF Models

(* The requests of attempts 0 to a, as a linear bound.                     *)
LEMMA Attempts ==
  ASSUME NEW a \in 0..LastAttempt
  PROVE  /\ a * (Retries + 1) \in Nat
         /\ (a + 1) * (Retries + 1) = a * (Retries + 1) + Retries + 1
         /\ (a + 1) * (Retries + 1) <= (LastAttempt + 1) * (Retries + 1)
         /\ a = 0 => a * (Retries + 1) = 0
<1>1. a \in {0, 1, 2} /\ Retries \in Nat
  BY RetriesAssumption DEF RetriesAssumption, LastAttempt
<1>2. CASE a = 0 BY <1>1, <1>2 DEF LastAttempt
<1>3. CASE a = 1 BY <1>1, <1>3 DEF LastAttempt
<1>4. CASE a = 2 BY <1>1, <1>4 DEF LastAttempt
<1>5. QED BY <1>1, <1>2, <1>3, <1>4

(* What a good reply puts into the result.                                 *)
Filled(res) ==
  /\ res \in Result
  /\ res.reachable = result.reachable
  /\ res.meter_unit = IF Key = "meter_unit" THEN unit ELSE result.meter_unit
  /\ res.meters_total = IF Key # "meters_total" THEN result.meters_total
                        ELSE IF model = "sato" THEN FirmwareUnit[unit] ELSE "metres"
  /\ Key = "meter_unit" => model = "sato"

(* The converters of the five adapters give a result of the right type and *)
(* unit (convert_value, to_meters).                                        *)
LEMMA GoodResult ==
  ASSUME TypeOK, read > 0
  PROVE  Filled([result EXCEPT ![Key] = Converted(Metrics[model][read])])
<1>1. model \in Models /\ unit \in DOMAIN FirmwareUnit /\ result \in Result
      /\ read \in 1..Len(Metrics[model])
  BY AdapterShape DEF TypeOK
<1>2. FirmwareUnit[unit] \in Lengths
  BY <1>1 DEF FirmwareUnit, Lengths
<1>3. CASE model = "linkos" /\ read = 1
  BY <1>1, <1>2, <1>3 DEF Key, KeyOf, KeyAt, Metrics, Metric, LinkOs, Converted, Filled, Result, Lengths
<1>4. CASE (model = "linkos" /\ read = 2) \/ (model = "gx430t" /\ read = 1)
  <2>1. Key = "meters_total"
    BY <1>4 DEF Key, KeyOf, KeyAt, Metrics, Metric, LinkOs, Gx430t
  <2>2. Converted(Metrics[model][read]) = "metres"
    BY <1>4, NullAssumption
       DEF Metrics, Metric, LinkOs, Gx430t, Converted, ToMeters, UnitTable, NullAssumption
  <2>3. QED BY <1>1, <1>4, <2>1, <2>2 DEF Filled, Result, Lengths
<1>5. CASE model = "sato" /\ read = 1
  BY <1>1, <1>2, <1>5 DEF Key, KeyOf, KeyAt, Metrics, Metric, Sato, Converted, Filled, Result, Lengths
<1>6. CASE model = "sato" /\ read = 2
  BY <1>1, <1>2, <1>6 DEF Key, KeyOf, KeyAt, Metrics, Metric, Sato, Converted, Filled, Result, Lengths
<1>7. read \in 1..2 /\ (model = "gx430t" => read = 1)
  <2>1. CASE model = "gx430t"
    BY <1>1, <2>1 DEF Metrics, Gx430t
  <2>2. CASE model = "linkos"
    BY <1>1, <2>2 DEF Metrics, LinkOs
  <2>3. CASE model = "sato"
    BY <1>1, <2>3 DEF Metrics, Sato
  <2>4. QED BY <1>1, <2>1, <2>2, <2>3 DEF Models
<1>8. \/ model = "linkos" /\ read = 1
      \/ (model = "linkos" /\ read = 2) \/ (model = "gx430t" /\ read = 1)
      \/ model = "sato" /\ read = 1
      \/ model = "sato" /\ read = 2
  BY <1>1, <1>7 DEF Models
<1>9. QED BY <1>3, <1>4, <1>5, <1>6, <1>8

(* The read under way: what its requests and answers came to so far.       *)
LEMMA Current ==
  ASSUME IInv, Running
  PROVE  /\ read \in Reads /\ Key \in Keys /\ sent[Key] \in Nat
         /\ heard[Key] = "nothing"
         /\ attempt + Sending <= sent[Key]
         /\ sent[Key] <= attempt * (Retries + 1) + try + Sending
         /\ sent[Key] <= Budget(Key)
         /\ pc = "await" /\ attempt = LastAttempt => sent[Key] > LastAttempt
<1>1. TypeOK /\ model \in Models /\ ReadInv(read) /\ Retries \in Nat
      /\ read \in 0..Len(Metrics[model])
  BY RetriesAssumption DEF IInv, TypeOK, PollInv, RetriesAssumption, Reads
<1>2. Key \in Keys /\ sent[Key] \in Nat /\ (Key = "poke" => read = 0)
  <2>1. Len(Metrics[model]) \in Nat
    BY <1>1, AdapterShape
  <2>2. QED BY <1>1, <2>1, AdapterShape DEF Key, KeyOf, TypeOK
<1>3. heard[Key] = "nothing" /\ attempt + Sending <= sent[Key]
      /\ sent[Key] <= attempt * (Retries + 1) + try + Sending
  BY <1>1 DEF ReadInv, Key
<1>4. /\ attempt * (Retries + 1) \in Nat
      /\ attempt * (Retries + 1) + Retries + 1 <= (LastAttempt + 1) * (Retries + 1)
      /\ attempt = 0 => attempt * (Retries + 1) = 0
  BY <1>1, Attempts DEF TypeOK
<1>5. try <= Retries /\ try \in Nat /\ Sending \in {0, 1}
  BY <1>1 DEF TypeOK, Sending
<1>6. CASE Key = "poke"
  <2>1. attempt = 0
    BY <1>2, <1>6 DEF IInv, PollInv
  <2>2. QED BY <1>1, <1>2, <1>3, <1>4, <1>5, <1>6, <2>1 DEF Budget, Sending, LastAttempt, Reads
<1>7. CASE Key # "poke"
  BY <1>1, <1>2, <1>3, <1>4, <1>5, <1>7 DEF Budget, Sending, LastAttempt, Reads
<1>8. QED BY <1>6, <1>7

(* No bound is negative.                                                   *)
LEMMA BudgetType == \A k \in Keys : Budget(k) \in Nat
  BY RetriesAssumption DEF Budget, RetriesAssumption, LastAttempt
-----------------------------------------------------------------------------
(* When the read under way is over, the loop over the metrics goes on or   *)
(* ends with every read accounted for.                                     *)
LEMMA NextReadPoll ==
  ASSUME IInv, pc = "await", NEW res, NextRead(res),
         model' = model, sent' = sent, heard' \in [Keys -> {"nothing", "value", "garbage"}],
         \A k \in Keys : k # Key => heard'[k] = heard[k],
         read > 0 => heard'[Key] # "nothing" \/ sent[Key] > LastAttempt,
         heard'["poke"] = "value", result'.reachable
  PROVE  PollInv'
<1>1. TypeOK /\ PollInv /\ model \in Models /\ Len(Metrics[model]) \in {1, 2}
  BY AdapterShape DEF IInv, TypeOK
<1>2. /\ read \in Reads /\ Key \in Keys /\ sent[Key] \in Nat
      /\ sent[Key] <= Budget(Key) /\ sent[Key] > 0
      /\ \A i \in Reads : KeyOf(i) \in Keys /\ (i # read => KeyOf(i) # Key)
  <2>1. Running /\ Sending = 1
    BY DEF Running, Sending
  <2>2. attempt \in Nat
    BY <1>1 DEF TypeOK, LastAttempt
  <2>3. read \in Reads /\ Key \in Keys /\ sent[Key] \in Nat
        /\ attempt + Sending <= sent[Key] /\ sent[Key] <= Budget(Key)
    BY <2>1, Current
  <2>4. \A i \in Reads : KeyOf(i) \in Keys /\ (i # read => KeyOf(i) # Key)
    BY <1>1, <2>3, AdapterShape DEF KeyOf, Key, Reads
  <2>5. QED BY <2>1, <2>2, <2>3, <2>4
<1>3. \A i \in Reads : i # read => heard'[KeyOf(i)] = heard[KeyOf(i)]
  BY <1>2
<1>4. \A i \in Reads : sent[KeyOf(i)] \in Nat /\ Budget(KeyOf(i)) \in Nat
  BY <1>1, <1>2, BudgetType DEF TypeOK
<1>5. \A i \in Reads :
        /\ i < read => /\ sent[KeyOf(i)] <= Budget(KeyOf(i))
                       /\ i > 0 => heard'[KeyOf(i)] # "nothing" \/ sent[KeyOf(i)] > LastAttempt
        /\ i > read => sent[KeyOf(i)] = 0 /\ heard'[KeyOf(i)] = "nothing"
  BY <1>1, <1>2, <1>3 DEF PollInv, ReadInv, Reads
<1>6. ASSUME NEW i \in Reads PROVE ReadInv(i)'
  <2>1. Reads \subseteq Nat
    BY DEF Reads
  <2>2. CASE read = Len(Metrics[model])
    <3>1. pc' = "counters" /\ read' = read
      BY <2>2 DEF NextRead
    <3>2. i < read \/ i = read
      BY <1>1, <2>2 DEF Reads
    <3>3. CASE i < read
      BY <1>4, <1>5, <2>1, <3>1, <3>3 DEF ReadInv, KeyOf, Running, Budget
    <3>4. CASE i = read
      BY <1>2, <1>4, <2>1, <3>1, <3>4 DEF ReadInv, KeyOf, Key, Running, Budget
    <3>5. QED BY <3>2, <3>3, <3>4
  <2>3. CASE read # Len(Metrics[model])
    <3>1. pc' = "send" /\ read' = read + 1 /\ attempt' = 0 /\ try' = 0
      BY <2>3 DEF NextRead
    <3>2. read \in Nat /\ i \in Nat
      BY <1>2, <2>1
    <3>3. CASE i < read
      BY <1>4, <1>5, <3>1, <3>2, <3>3 DEF ReadInv, KeyOf, Running, Sending, Budget
    <3>4. CASE i = read
      BY <1>2, <1>4, <3>1, <3>2, <3>4 DEF ReadInv, KeyOf, Key, Running, Sending, Budget
    <3>5. CASE i > read
      BY <1>5, <3>1, <3>2, <3>5, RetriesAssumption
         DEF ReadInv, KeyOf, Running, Sending, Budget, RetriesAssumption
    <3>6. QED BY <3>2, <3>3, <3>4, <3>5
  <2>4. QED BY <2>2, <2>3
<1>7. \A k \in Keys : sent'[k] > 0 \/ heard'[k] # "nothing" => \E i \in Reads : k = KeyOf(i)
  <2>1. \A k \in Keys : k # Key /\ (sent[k] > 0 \/ heard[k] # "nothing") => \E i \in Reads : k = KeyOf(i)
    BY <1>1 DEF PollInv
  <2>2. QED BY <1>2, <2>1 DEF Key
<1>8. /\ IF read' = 0 THEN attempt' = 0 ELSE heard'["poke"] = "value" /\ result'.reachable
      /\ pc' = "counters" => read' = Len(Metrics[model'])
  BY <1>1, <1>2 DEF NextRead, PollInv, Reads
<1>9. QED BY <1>6, <1>7, <1>8 DEF PollInv, Reads, KeyOf

(* A poll that stops leaves the read under way within its budget.          *)
LEMMA StopPoll ==
  ASSUME IInv, pc = "await", pc' = "none",
         UNCHANGED <<model, read, attempt, result, sent>>,
         heard' \in [Keys -> {"nothing", "value", "garbage"}],
         \A k \in Keys : k # Key => heard'[k] = heard[k],
         read = 0 => heard' = heard
  PROVE  PollInv'
<1>1. TypeOK /\ PollInv /\ model \in Models /\ Len(Metrics[model]) \in {1, 2}
  BY AdapterShape DEF IInv, TypeOK
<1>2. /\ read \in Reads /\ Key \in Keys /\ sent[Key] <= Budget(Key)
  BY Current DEF Running
<1>3. \A i \in Reads : KeyOf(i) \in Keys /\ (i # read => KeyOf(i) # Key)
  BY <1>1, <1>2, AdapterShape DEF KeyOf, Key, Reads
<1>4. Reads \subseteq Nat /\ \A i \in Reads : Budget(KeyOf(i)) \in Nat
  BY <1>3, BudgetType DEF Reads
<1>5. ASSUME NEW i \in Reads PROVE ReadInv(i)'
  <2>1. ReadInv(i) /\ i \in Nat /\ read \in Nat /\ Budget(KeyOf(i)) \in Nat
    BY <1>1, <1>2, <1>4 DEF PollInv
  <2>2. CASE i = read
    BY <1>2, <2>1, <2>2 DEF ReadInv, KeyOf, Key, Running, Budget
  <2>3. CASE i # read
    <3>1. heard'[KeyOf(i)] = heard[KeyOf(i)]
      BY <1>3, <2>3
    <3>2. QED BY <2>1, <2>3, <3>1 DEF ReadInv, KeyOf, Running, Budget
  <2>4. QED BY <2>2, <2>3
<1>6. \A k \in Keys : sent'[k] > 0 \/ heard'[k] # "nothing" => \E i \in Reads : k = KeyOf(i)
  <2>1. \A k \in Keys : k # Key /\ (sent[k] > 0 \/ heard[k] # "nothing") => \E i \in Reads : k = KeyOf(i)
    BY <1>1 DEF PollInv
  <2>2. QED BY <1>2, <2>1 DEF Key
<1>7. IF read' = 0 THEN attempt' = 0 ELSE heard'["poke"] = "value" /\ result'.reachable
  <2>1. read # 0 => Key # "poke"
    BY <1>1, <1>2, AdapterShape DEF Key, KeyOf, Reads
  <2>2. QED BY <1>1, <2>1 DEF PollInv, Keys
<1>8. QED BY <1>5, <1>6, <1>7 DEF PollInv, Reads, KeyOf

(* A retry of either loop keeps what was sent within what its counters     *)
(* stand for.                                                              *)
LEMMA RetryPoll ==
  ASSUME IInv, pc = "await", pc' = "send", attempt \in Nat, attempt' \in Nat, try' \in Nat,
         UNCHANGED <<model, read, result, sent, heard>>,
         attempt' <= attempt + 1, read = 0 => attempt' = attempt,
         attempt * (Retries + 1) + try + 1 <= attempt' * (Retries + 1) + try',
         attempt * (Retries + 1) \in Nat, attempt' * (Retries + 1) \in Nat
  PROVE  PollInv'
<1>1. TypeOK /\ PollInv
  BY DEF IInv
<1>2. /\ read \in Reads /\ Key \in Keys /\ sent[Key] \in Nat /\ heard[Key] = "nothing"
      /\ attempt + 1 <= sent[Key] /\ sent[Key] <= attempt * (Retries + 1) + try + 1
  BY Current DEF Running, Sending
<1>3. ASSUME NEW i \in Reads PROVE ReadInv(i)'
  <2>1. ReadInv(i) /\ i \in Nat /\ read \in Nat /\ try \in Nat
    BY <1>1, <1>2 DEF PollInv, Reads, TypeOK
  <2>2. CASE i = read
    BY <1>2, <2>1, <2>2 DEF ReadInv, KeyOf, Key, Running, Sending, Budget
  <2>3. CASE i # read
    BY <2>1, <2>3 DEF ReadInv, KeyOf, Running, Sending, Budget
  <2>4. QED BY <2>2, <2>3
<1>4. QED BY <1>1, <1>3 DEF PollInv, Reads, KeyOf

(* One more request of the read under way.                                 *)
LEMMA SendPoll == IInv /\ Send => PollInv'
<1> SUFFICES ASSUME IInv, Send PROVE PollInv'
  OBVIOUS
<1>1. TypeOK /\ PollInv /\ model \in Models /\ Len(Metrics[model]) \in {1, 2}
  BY AdapterShape DEF IInv, TypeOK
<1>2. /\ read \in Reads /\ Key \in Keys /\ sent[Key] \in Nat /\ heard[Key] = "nothing"
      /\ attempt <= sent[Key] /\ sent[Key] <= attempt * (Retries + 1) + try
  <2>1. Running /\ Sending = 0 /\ attempt \in Nat /\ try \in Nat /\ attempt * (Retries + 1) \in Nat
    BY <1>1, Attempts DEF Send, Running, Sending, TypeOK, LastAttempt
  <2>2. QED BY <2>1, Current
<1>3. \A i \in Reads : KeyOf(i) \in Keys /\ (i # read => KeyOf(i) # Key)
  BY <1>1, <1>2, AdapterShape DEF KeyOf, Key, Reads
<1>4. sent'[Key] = sent[Key] + 1 /\ \A k \in Keys : k # Key => sent'[k] = sent[k]
  BY <1>1, <1>2 DEF Send, TypeOK
<1>5. ASSUME NEW i \in Reads PROVE ReadInv(i)'
  <2>1. ReadInv(i) /\ i \in Nat /\ read \in Nat
    BY <1>1, <1>2 DEF PollInv, Reads
  <2>2. CASE i = read
    <3>1. attempt \in Nat /\ try \in Nat /\ attempt * (Retries + 1) \in Nat
      BY <1>1, Attempts DEF TypeOK, LastAttempt
    <3>2. QED BY <1>2, <1>4, <2>1, <2>2, <3>1 DEF Send, ReadInv, KeyOf, Key, Running, Sending, Budget
  <2>3. CASE i # read
    <3>1. sent'[KeyOf(i)] = sent[KeyOf(i)]
      BY <1>3, <1>4, <2>3
    <3>2. QED BY <2>1, <2>3, <3>1 DEF Send, ReadInv, KeyOf, Running, Sending, Budget
  <2>4. QED BY <2>2, <2>3
<1>6. \A k \in Keys : sent'[k] > 0 \/ heard[k] # "nothing" => \E i \in Reads : k = KeyOf(i)
  BY <1>1, <1>2, <1>4 DEF PollInv, Key
<1>7. QED BY <1>1, <1>5, <1>6 DEF Send, PollInv, Reads, KeyOf

(* The hook changes the length and the unit, nothing else.                 *)
LEMMA HookShape ==
  ASSUME NEW res \in Result
  PROVE  /\ CollectExtra(res).reachable = res.reachable
         /\ CollectExtra(res).labels_total = res.labels_total
         /\ model # "sato" => CollectExtra(res) = res
         /\ model = "sato" =>
              /\ CollectExtra(res).meter_unit = "m"
              /\ CollectExtra(res).meters_total =
                   IF res.meter_unit = "m" THEN res.meters_total
                   ELSE ToMeters(res.meters_total, res.meter_unit)
  BY DEF CollectExtra, Result

(* A GET that failed: the poke ends the poll, a metric is retried or, after *)
(* the last attempt, skipped.                                              *)
LEMMA FailedPoll ==
  ASSUME IInv, pc = "await", NEW d, GetFailed(d)
  PROVE  PollInv'
<1>1. TypeOK /\ PollInv /\ UNCHANGED <<model, sent, heard>>
  BY DEF IInv, GetFailed
<1>2. CASE read = 0
  BY <1>1, <1>2, StopPoll DEF GetFailed, TypeOK
<1>3. CASE read # 0 /\ attempt < LastAttempt
  <2>1. pc' = "send" /\ attempt' = attempt + 1 /\ try' = 0 /\ UNCHANGED <<read, result>>
    BY <1>3 DEF GetFailed
  <2>2. /\ attempt \in Nat /\ attempt' \in Nat /\ try' \in Nat
        /\ attempt * (Retries + 1) \in Nat /\ attempt' * (Retries + 1) \in Nat
        /\ attempt * (Retries + 1) + try + 1 <= attempt' * (Retries + 1) + try'
    <3>1. attempt \in 0..LastAttempt /\ attempt + 1 \in 0..LastAttempt
          /\ try \in 0..Retries /\ Retries \in Nat
      BY <1>1, <1>3, RetriesAssumption DEF TypeOK, RetriesAssumption, LastAttempt
    <3>2. attempt * (Retries + 1) \in Nat /\ (attempt + 1) * (Retries + 1) \in Nat
          /\ (attempt + 1) * (Retries + 1) = attempt * (Retries + 1) + Retries + 1
      BY <3>1, Attempts
    <3>3. QED BY <2>1, <3>1, <3>2 DEF LastAttempt
  <2>3. QED BY <1>1, <1>3, <2>1, <2>2, RetryPoll
<1>4. CASE read # 0 /\ ~(attempt < LastAttempt)
  <2>1. NextRead(result)
    BY <1>4 DEF GetFailed
  <2>2. sent[Key] > LastAttempt
    BY <1>1, <1>4, Current DEF TypeOK, LastAttempt, Running
  <2>3. heard'["poke"] = "value" /\ result.reachable /\ heard' \in [Keys -> {"nothing", "value", "garbage"}]
    BY <1>1, <1>4 DEF PollInv, TypeOK
  <2>4. result'.reachable
    BY <1>1, <2>1, <2>3, HookShape DEF NextRead, TypeOK
  <2>5. QED BY <1>1, <2>1, <2>2, <2>3, <2>4, NextReadPoll
<1>5. QED BY <1>2, <1>3, <1>4

(* Every step keeps the accounts of the reads.                             *)
LEMMA PollStep == IInv /\ [Next]_vars => PollInv'
<1> SUFFICES ASSUME IInv, [Next]_vars PROVE PollInv'
  OBVIOUS
<1>1. TypeOK /\ PollInv /\ result \in Result /\ heard \in [Keys -> {"nothing", "value", "garbage"}]
  BY DEF IInv, TypeOK
<1>2. CASE Send
  BY <1>2, SendPoll
<1>3. CASE Timeout
  <2>1. CASE try < Retries
    <3>1. pc = "await" /\ pc' = "send" /\ try' = try + 1
          /\ UNCHANGED <<model, read, attempt, result, sent, heard>>
      BY <1>3, <2>1 DEF Timeout
    <3>2. attempt \in Nat /\ try \in Nat /\ attempt * (Retries + 1) \in Nat
      BY <1>1, Attempts DEF TypeOK, LastAttempt
    <3>3. QED BY <3>1, <3>2, RetryPoll
  <2>2. CASE ~(try < Retries)
    BY <1>3, <2>2, FailedPoll DEF Timeout
  <2>3. QED BY <2>1, <2>2
<1>4. CASE SnmpError
  BY <1>4, FailedPoll DEF SnmpError
<1>5. CASE Poked
  <2> DEFINE res == [result EXCEPT !.reachable = TRUE]
  <2>1. pc = "await" /\ read = 0 /\ UNCHANGED <<model, sent>> /\ NextRead(res)
        /\ heard' = [heard EXCEPT !["poke"] = "value"]
    BY <1>5 DEF Poked
  <2>2. Key = "poke"
    BY <2>1 DEF Key, KeyOf, KeyAt
  <2>3. heard' \in [Keys -> {"nothing", "value", "garbage"}] /\ heard'["poke"] = "value"
        /\ \A k \in Keys : k # Key => heard'[k] = heard[k]
    BY <1>1, <2>1, <2>2 DEF Keys
  <2>4. res \in Result /\ res.reachable
    BY <1>1 DEF Result
  <2>5. result'.reachable
    BY <2>1, <2>4, HookShape DEF NextRead
  <2> HIDE DEF res
  <2>6. QED BY <2>1, <2>3, <2>5, NextReadPoll
<1>6. ASSUME pc = "await", read > 0, UNCHANGED <<model, sent>>,
             NEW res \in Result, res.reachable = result.reachable, NextRead(res),
             NEW v \in {"value", "garbage"}, heard' = [heard EXCEPT ![Key] = v]
      PROVE  PollInv'
  <2>1. Key \in Keys /\ Key # "poke" /\ heard["poke"] = "value" /\ result.reachable
    <3>1. model \in Models /\ read \in 0..Len(Metrics[model]) /\ read # 0
      BY <1>1, <1>6 DEF TypeOK
    <3>2. Len(Metrics[model]) \in Nat
      BY <3>1, AdapterShape
    <3>3. QED BY <1>1, <1>6, <3>1, <3>2, AdapterShape DEF Key, KeyOf, PollInv
  <2>2. heard' \in [Keys -> {"nothing", "value", "garbage"}] /\ heard'["poke"] = "value"
        /\ heard'[Key] # "nothing" /\ \A k \in Keys : k # Key => heard'[k] = heard[k]
    BY <1>1, <1>6, <2>1 DEF Keys
  <2>3. result'.reachable
    BY <1>6, <2>1, HookShape DEF NextRead
  <2>4. QED BY <1>6, <2>2, <2>3, NextReadPoll
<1>7. CASE GoodReply
  <2>1. Filled([result EXCEPT ![Key] = Converted(Metrics[model][read])])
    BY <1>1, <1>7, GoodResult DEF GoodReply
  <2>2. QED BY <1>6, <1>7, <2>1 DEF GoodReply, Filled
<1>8. CASE BadReply
  <2>1. CASE Metrics[model][read].convert = "regex"
    BY <1>1, <1>6, <1>8, <2>1 DEF BadReply
  <2>2. CASE Metrics[model][read].convert # "regex"
    <3>1. pc = "await" /\ pc' = "none" /\ read > 0 /\ UNCHANGED <<model, read, attempt, result, sent>>
          /\ heard' = [heard EXCEPT ![Key] = "garbage"]
      BY <1>8, <2>2 DEF BadReply
    <3>2. heard' \in [Keys -> {"nothing", "value", "garbage"}]
          /\ \A k \in Keys : k # Key => heard'[k] = heard[k]
      BY <1>1, <3>1
    <3>3. read # 0
      BY <1>1, <3>1
    <3>4. QED BY <3>1, <3>2, <3>3, StopPoll
  <2>3. QED BY <2>1, <2>2
<1>9. CASE Raise
  BY <1>1, <1>9, StopPoll DEF Raise
<1>10. CASE UNCHANGED vars
  BY <1>1, <1>10 DEF vars, PollInv, ReadInv, Reads, KeyOf, Running, Sending, Budget
<1>11. QED BY <1>2, <1>3, <1>4, <1>5, <1>7, <1>8, <1>9, <1>10 DEF Next
-----------------------------------------------------------------------------
(* The lengths read so far: in the printer's own unit, which a Sato whose  *)
(* unit was read has told.                                                 *)
Raw(res, told) ==
  /\ res.meter_unit = IF told["meter_unit"] = "value" THEN unit ELSE "m"
  /\ res.meters_total \in {Null, IF model = "sato" THEN FirmwareUnit[unit] ELSE "metres"}

(* The hook of a Sato turns every unit of length into metres.              *)
LEMMA HookConverts ==
  ASSUME NEW res \in Result, NEW told, Raw(res, told), unit \in DOMAIN FirmwareUnit,
         model = "sato", told["meter_unit"] = "value", res.meters_total # Null,
         FirmwareUnit[unit] \in {"metres", "feet"}
  PROVE  CollectExtra(res).meters_total = "metres" /\ CollectExtra(res).meter_unit = "m"
<1>1. res.meter_unit = unit /\ res.meters_total = FirmwareUnit[unit]
  BY DEF Raw
<1>2. unit \in {"m", "linearMeters", "linearFeet"}
  BY DEF FirmwareUnit
<1>3. CASE unit = "m"
  BY <1>1, <1>3, HookShape DEF FirmwareUnit
<1>4. CASE unit = "linearMeters"
  BY <1>1, <1>4, HookShape DEF FirmwareUnit, ToMeters, UnitTable
<1>5. CASE unit = "linearFeet"
  BY <1>1, <1>5, HookShape DEF FirmwareUnit, ToMeters, UnitTable
<1>6. QED BY <1>2, <1>3, <1>4, <1>5

(* The loop goes on with raw lengths, or ends in the hook.                 *)
LEMMA NextReadMeters ==
  ASSUME TypeOK, NEW res \in Result, NextRead(res), UNCHANGED <<model, unit>>, Raw(res, heard'),
         model # "sato" => heard'["meter_unit"] # "value"
  PROVE  MetersInv'
<1>1. CASE read = Len(Metrics[model])
  <2>1. pc' = "counters" /\ result' = CollectExtra(res)
    BY <1>1 DEF NextRead
  <2>2. CASE model = "sato"
    <3>1. ASSUME result'.meters_total # Null, heard'["meter_unit"] = "value",
                 FirmwareUnit[unit] \in {"metres", "feet"}
          PROVE  result'.meters_total = "metres" /\ result'.meter_unit = "m"
      <4>1. res.meters_total # Null
        BY <2>1, <2>2, <3>1, HookShape DEF ToMeters
      <4>2. QED BY <2>1, <2>2, <3>1, <4>1, HookConverts DEF TypeOK
    <3>2. QED BY <2>1, <2>2, <3>1 DEF MetersInv, MetersWhenUnitKnown
  <2>3. CASE model # "sato"
    BY <2>1, <2>3, HookShape DEF Raw, MetersInv, MetersWhenUnitKnown
  <2>4. QED BY <2>2, <2>3
<1>2. CASE read # Len(Metrics[model])
  BY <1>2 DEF NextRead, Raw, MetersInv
<1>3. QED BY <1>1, <1>2

(* Every step keeps the units straight.                                    *)
LEMMA MetersStep == IInv /\ [Next]_vars => MetersInv'
<1> SUFFICES ASSUME IInv, [Next]_vars PROVE MetersInv'
  OBVIOUS
<1>1. TypeOK /\ result \in Result /\ heard \in [Keys -> {"nothing", "value", "garbage"}]
      /\ (pc # "counters" => Raw(result, heard))
  BY DEF IInv, TypeOK, MetersInv, Raw
<1>2. model # "sato" => heard["meter_unit"] # "value"
  <2>1. model \in Models /\ "meter_unit" \in Keys
    BY <1>1 DEF TypeOK, Keys
  <2>2. heard["meter_unit"] # "nothing" => \E i \in Reads : "meter_unit" = KeyOf(i)
    BY <2>1 DEF IInv, PollInv
  <2>3. QED BY <2>1, <2>2, AdapterShape DEF Reads, KeyOf
<1>3. ASSUME pc' \in {"send", "await", "none"}, pc # "counters", UNCHANGED <<model, unit, result>>,
             heard'["meter_unit"] = "value" <=> heard["meter_unit"] = "value"
      PROVE  MetersInv'
  BY <1>1, <1>3 DEF MetersInv, Raw
<1>4. ASSUME NEW d, pc = "await", GetFailed(d)
      PROVE  MetersInv'
  <2>1. UNCHANGED <<model, unit, heard>>
    BY <1>4 DEF GetFailed
  <2>2. CASE read = 0 \/ attempt < LastAttempt
    BY <1>3, <1>4, <2>1, <2>2 DEF GetFailed
  <2>3. CASE ~(read = 0 \/ attempt < LastAttempt)
    BY <1>1, <1>2, <1>4, <2>1, <2>3, NextReadMeters DEF GetFailed
  <2>4. QED BY <2>2, <2>3
<1>5. pc = "await" => Key \in Keys /\ heard[Key] = "nothing"
  BY Current DEF Running
<1>6. CASE Send
  BY <1>3, <1>6 DEF Send
<1>7. CASE Timeout
  <2>1. CASE try < Retries
    BY <1>3, <1>7, <2>1 DEF Timeout
  <2>2. CASE ~(try < Retries)
    BY <1>4, <1>7, <2>2 DEF Timeout
  <2>3. QED BY <2>1, <2>2
<1>8. CASE SnmpError
  BY <1>4, <1>8 DEF SnmpError
<1>9. CASE Poked
  <2> DEFINE res == [result EXCEPT !.reachable = TRUE]
  <2>1. pc = "await" /\ NextRead(res) /\ UNCHANGED <<model, unit>>
        /\ heard'["meter_unit"] = heard["meter_unit"]
    BY <1>1, <1>9 DEF Poked, Keys
  <2>2. res \in Result /\ res.meter_unit = result.meter_unit /\ res.meters_total = result.meters_total
    BY <1>1 DEF Result
  <2>3. Raw(res, heard')
    BY <1>1, <2>1, <2>2 DEF Raw
  <2> HIDE DEF res
  <2>4. QED BY <1>1, <1>2, <2>1, <2>2, <2>3, NextReadMeters
<1>10. CASE GoodReply
  <2> DEFINE res == [result EXCEPT ![Key] = Converted(Metrics[model][read])]
  <2>1. pc = "await" /\ read > 0 /\ NextRead(res) /\ UNCHANGED <<model, unit>>
        /\ heard' = [heard EXCEPT ![Key] = "value"]
    BY <1>10 DEF GoodReply
  <2>2. Filled(res)
    BY <1>1, <2>1, GoodResult
  <2> HIDE DEF res
  <2>3. heard'["meter_unit"] = IF Key = "meter_unit" THEN "value" ELSE heard["meter_unit"]
    BY <1>1, <1>5, <2>1 DEF Keys
  <2>4. Raw(res, heard')
    BY <1>1, <2>1, <2>2, <2>3 DEF Raw, Filled
  <2>5. QED BY <1>1, <1>2, <2>1, <2>2, <2>3, <2>4, NextReadMeters DEF Filled
<1>11. CASE BadReply
  <2>1. pc = "await" /\ read > 0 /\ UNCHANGED <<model, unit>>
        /\ heard' = [heard EXCEPT ![Key] = "garbage"]
    BY <1>11 DEF BadReply
  <2>2. heard'["meter_unit"] = "value" <=> heard["meter_unit"] = "value"
    BY <1>1, <1>5, <2>1 DEF Keys
  <2>3. CASE Metrics[model][read].convert = "regex"
    <3>1. NextRead(result) /\ Raw(result, heard')
      BY <1>1, <1>11, <2>1, <2>2, <2>3 DEF BadReply, Raw
    <3>2. QED BY <1>1, <1>2, <2>1, <2>2, <3>1, NextReadMeters
  <2>4. CASE Metrics[model][read].convert # "regex"
    BY <1>3, <1>11, <2>1, <2>2, <2>4 DEF BadReply
  <2>5. QED BY <2>3, <2>4
<1>12. CASE Raise
  BY <1>3, <1>12 DEF Raise
<1>13. CASE UNCHANGED vars
  BY <1>13 DEF IInv, vars, MetersInv, MetersWhenUnitKnown
<1>14. QED
  BY <1>6, <1>7, <1>8, <1>9, <1>10, <1>11, <1>12, <1>13 DEF Next
-----------------------------------------------------------------------------
(* What the hook hands out has the type of a result.                       *)
LEMMA HookType ==
  ASSUME NEW res \in Result
  PROVE  CollectExtra(res) \in Result
<1>1. ASSUME NEW len \in Lengths \union {Null}, NEW claimed
      PROVE  ToMeters(len, claimed) \in Lengths \union {Null}
  BY DEF ToMeters, Lengths
<1>2. /\ res.meters_total \in Lengths \union {Null}
      /\ ToMeters(res.meters_total, res.meter_unit) \in Lengths \union {Null}
  BY <1>1 DEF Result
<1>3. QED BY <1>2 DEF CollectExtra, Result, FirmwareUnit

(* The loop over the metrics keeps its index within them.                  *)
LEMMA NextReadType ==
  ASSUME TypeOK, NEW res \in Result, NextRead(res), model' = model
  PROVE  /\ pc' \in {"send", "counters"} /\ result' \in Result
         /\ read' \in 0..Len(Metrics[model']) /\ attempt' \in 0..LastAttempt /\ try' \in 0..Retries
<1>1. Len(Metrics[model]) \in {1, 2} /\ Retries \in Nat
  BY AdapterShape, RetriesAssumption DEF TypeOK, RetriesAssumption
<1>2. CASE read = Len(Metrics[model])
  BY <1>2, HookType DEF NextRead, TypeOK
<1>3. CASE read # Len(Metrics[model])
  BY <1>1, <1>3 DEF NextRead, TypeOK, LastAttempt
<1>4. QED BY <1>2, <1>3

(* Every step keeps the types.                                             *)
LEMMA TypeStep == IInv /\ [Next]_vars => TypeOK'
<1> SUFFICES ASSUME IInv, [Next]_vars PROVE TypeOK'
  OBVIOUS
<1>1. TypeOK /\ Len(Metrics[model]) \in {1, 2} /\ Retries \in Nat /\ model \in Models /\ result \in Result
  BY AdapterShape, RetriesAssumption DEF IInv, TypeOK, RetriesAssumption
<1>2. pc = "await" => Key \in Keys
  BY Current DEF Running
<1>3. ASSUME NEW d, pc = "await", GetFailed(d)
      PROVE  TypeOK'
  <2>1. CASE read = 0 \/ attempt < LastAttempt
    BY <1>1, <1>3, <2>1 DEF GetFailed, TypeOK, LastAttempt
  <2>2. CASE ~(read = 0 \/ attempt < LastAttempt)
    <3>1. NextRead(result) /\ UNCHANGED <<model, unit, sent, heard>>
      BY <1>3, <2>2 DEF GetFailed
    <3>2. QED BY <1>1, <3>1, NextReadType DEF TypeOK
  <2>3. QED BY <2>1, <2>2
<1>4. CASE Send
  <2>1. Key \in Keys
    BY <1>4, Current DEF Send, Running
  <2>2. sent' \in [Keys -> Nat]
    BY <1>1, <1>4, <2>1 DEF Send, TypeOK
  <2>3. QED BY <1>1, <1>4, <2>2 DEF Send, TypeOK
<1>5. CASE Timeout
  <2>1. CASE try < Retries
    BY <1>1, <1>5, <2>1 DEF Timeout, TypeOK
  <2>2. CASE ~(try < Retries)
    BY <1>3, <1>5, <2>2 DEF Timeout
  <2>3. QED BY <2>1, <2>2
<1>6. CASE SnmpError
  BY <1>3, <1>6 DEF SnmpError
<1>7. ASSUME NEW res \in Result, NextRead(res), UNCHANGED <<model, unit, sent>>,
             heard' \in [Keys -> {"nothing", "value", "garbage"}]
      PROVE  TypeOK'
  BY <1>1, <1>7, NextReadType DEF TypeOK
<1>8. CASE Poked
  <2>1. [result EXCEPT !.reachable = TRUE] \in Result
    BY <1>1 DEF Result
  <2>2. heard' \in [Keys -> {"nothing", "value", "garbage"}]
    BY <1>1, <1>8 DEF Poked, TypeOK
  <2>3. QED BY <1>7, <1>8, <2>1, <2>2 DEF Poked
<1>9. CASE GoodReply
  <2>1. [result EXCEPT ![Key] = Converted(Metrics[model][read])] \in Result
    BY <1>1, <1>9, GoodResult DEF GoodReply, Filled
  <2>2. heard' \in [Keys -> {"nothing", "value", "garbage"}]
    BY <1>1, <1>9 DEF GoodReply, TypeOK
  <2>3. QED BY <1>7, <1>9, <2>1, <2>2 DEF GoodReply
<1>10. CASE BadReply
  <2>1. heard' \in [Keys -> {"nothing", "value", "garbage"}]
    BY <1>1, <1>10 DEF BadReply, TypeOK
  <2>2. CASE Metrics[model][read].convert = "regex"
    BY <1>1, <1>7, <1>10, <2>1, <2>2 DEF BadReply
  <2>3. CASE Metrics[model][read].convert # "regex"
    BY <1>1, <1>10, <2>1, <2>3 DEF BadReply, TypeOK
  <2>4. QED BY <2>2, <2>3
<1>11. CASE Raise
  BY <1>1, <1>11 DEF Raise, TypeOK
<1>12. CASE UNCHANGED vars
  BY <1>1, <1>12 DEF vars, TypeOK
<1>13. QED
  BY <1>4, <1>5, <1>6, <1>8, <1>9, <1>10, <1>11, <1>12 DEF Next
-----------------------------------------------------------------------------
(* The backoff is what its recursion says: a half second, then doubled.    *)
LEMMA BackoffValue ==
  /\ Backoff \in [Nat -> Nat \ {0}]
  /\ Backoff[0] = 1
  /\ \A n \in Nat : Backoff[n + 1] = 2 * Backoff[n]
<1> DEFINE S == Nat \ {0}
           H == [n \in Nat |-> [x \in S |-> 2 * x]]
<1>0. 1 \in S
  OBVIOUS
<1>1. H \in [Nat -> [S -> S]]
  OBVIOUS
<1>2. PICK f : Recurs(f, S, 1, H)
  <2> HIDE DEF H, S
  <2> QED BY <1>0, <1>1, Recursion
<1>3. f \in [Nat -> S] /\ f[0] = 1 /\ \A n \in Nat : f[n + 1] = 2 * f[n]
  BY <1>2 DEF Recurs
<1>4. \A n \in Nat : n # 0 => n - 1 \in Nat /\ n = (n - 1) + 1
  OBVIOUS
<1>5. \A n \in Nat : f[n] = IF n = 0 THEN 1 ELSE 2 * f[n - 1]
  BY <1>3, <1>4
<1>6. f = [n \in Nat |-> IF n = 0 THEN 1 ELSE 2 * f[n - 1]]
  BY <1>3, <1>5
<1> HIDE DEF S
<1>7. Backoff = [n \in Nat |-> IF n = 0 THEN 1 ELSE 2 * Backoff[n - 1]]
  BY <1>6 DEF Backoff
<1>8. Backoff[0] = 1 /\ \A n \in Nat : Backoff[n + 1] = 2 * Backoff[n]
  BY <1>7
<1>9. \A n \in Nat : Backoff[n] \in S
  <2> DEFINE T == {n \in Nat : Backoff[n] \in S}
  <2>1. 0 \in T /\ \A n \in T : n + 1 \in T
    BY <1>0, <1>8 DEF S
  <2> HIDE DEF T
  <2>2. T = Nat
    <3>1. T \subseteq Nat
      BY DEF T
    <3> QED BY <2>1, <3>1, FromZeroOn
  <2> QED BY <2>2 DEF T
<1>10. Backoff \in [Nat -> S]
  BY <1>7, <1>9
<1> QED BY <1>8, <1>10 DEF S

(* A try that times out uses up one timeout and one sleep; all tries of a  *)
(* GET take at most GetTime.                                               *)
LEMMA TryTimes ==
  ASSUME NEW k \in 0..Retries
  PROVE  /\ TryTime(k) \in Nat /\ GetTime \in Nat
         /\ k < Retries => TryTime(k + 1) = TryTime(k) + TimeoutTicks + Backoff[k]
         /\ TryTime(k) + TimeoutTicks <= GetTime
         /\ TryTime(0) = 0
<1>0. Retries \in Nat /\ TimeoutTicks \in Nat /\ k \in Nat /\ k <= Retries
  BY RetriesAssumption, TimeoutAssumption
<1>1. ASSUME NEW n \in Nat
      PROVE  /\ n * TimeoutTicks \in Nat /\ (n + 1) * TimeoutTicks = n * TimeoutTicks + TimeoutTicks
             /\ Backoff[n] \in Nat \ {0} /\ Backoff[n + 1] = 2 * Backoff[n]
  BY <1>0, BackoffValue, SMT
<1>2. \A n \in Nat : TryTime(n) \in Nat /\ TryTime(n + 1) = TryTime(n) + TimeoutTicks + Backoff[n]
  <2> SUFFICES ASSUME NEW n \in Nat
               PROVE  TryTime(n) \in Nat /\ TryTime(n + 1) = TryTime(n) + TimeoutTicks + Backoff[n]
    OBVIOUS
  <2>1. n + 1 \in Nat
    OBVIOUS
  <2> QED BY <1>0, <1>1, <2>1 DEF TryTime
<1>3. GetTime = TryTime(Retries) + TimeoutTicks
  BY <1>0, <1>1 DEF GetTime, TryTime
<1>4. \A n \in Nat : k <= n => TryTime(k) <= TryTime(n)
  <2> DEFINE T == {n \in Nat : k <= n => TryTime(k) <= TryTime(n)}
  <2>1. 0 \in T
    BY <1>0, <1>2
  <2>2. ASSUME NEW n \in T  PROVE n + 1 \in T
    <3>1. n \in Nat /\ n + 1 \in Nat /\ Backoff[n] \in Nat
      BY <1>1
    <3>2. TryTime(k) \in Nat /\ TryTime(n) \in Nat
          /\ TryTime(n + 1) = TryTime(n) + TimeoutTicks + Backoff[n]
      BY <1>0, <1>2, <3>1
    <3>3. CASE k <= n
      BY <1>0, <3>1, <3>2, <3>3
    <3>4. CASE k = n + 1
      BY <3>1, <3>2, <3>4, <1>0
    <3>5. CASE ~ (k <= n + 1)
      BY <3>1, <3>5
    <3> QED BY <1>0, <3>1, <3>3, <3>4, <3>5
  <2> HIDE DEF T
  <2>3. T = Nat
    <3>1. T \subseteq Nat
      BY DEF T
    <3> QED BY <2>1, <2>2, <3>1, FromZeroOn
  <2> QED BY <2>3 DEF T
<1>5. TryTime(k) \in Nat /\ TryTime(Retries) \in Nat /\ TryTime(k) <= TryTime(Retries)
  BY <1>0, <1>2, <1>4
<1>6. TryTime(0) = 0
  BY <1>0, BackoffValue DEF TryTime
<1> QED BY <1>0, <1>2, <1>3, <1>5, <1>6

(* The same of the three attempts of a metric, and of the reads.           *)
LEMMA AttemptTimes ==
  /\ AttemptTime(0) = 0
  /\ Backoff[0] = 1 /\ Backoff[1] = 2
  /\ AttemptTime(1) = GetTime + 1
  /\ AttemptTime(2) = GetTime + GetTime + 3
  /\ ReadTime = GetTime + GetTime + GetTime + 3
  /\ GetTime \in Nat
<1>1. GetTime \in Nat
  BY TryTimes, RetriesAssumption
<1>2. Backoff[0] = 1 /\ Backoff[1] = 2 /\ Backoff[2] = 4
  <2>1. Backoff[0 + 1] = 2 * Backoff[0] /\ Backoff[1 + 1] = 2 * Backoff[1] /\ Backoff[0] = 1
    BY BackoffValue
  <2> QED BY <2>1
<1> QED BY <1>1, <1>2 DEF AttemptTime, ReadTime

(* Every step is paid for: by a timeout and a sleep, or by a read.         *)
LEMMA WaitStep == IInv /\ [Next]_vars => WaitInv'
<1> SUFFICES ASSUME IInv, [Next]_vars  PROVE WaitInv'
  OBVIOUS
<1>0. /\ TypeOK /\ WaitInv /\ model \in Models /\ Len(Metrics[model]) \in {1, 2}
      /\ Retries \in Nat /\ TimeoutTicks \in Nat /\ GetTime \in Nat /\ ReadTime \in Nat
      /\ read \in 0..Len(Metrics[model]) /\ read \in Nat /\ read <= Len(Metrics[model])
      /\ attempt \in {0, 1, 2} /\ try \in 0..Retries
      /\ (read = 0 => attempt = 0)
  BY AdapterShape, RetriesAssumption, TimeoutAssumption, AttemptTimes
     DEF IInv, TypeOK, PollInv, LastAttempt
<1> DEFINE m == Len(Metrics[model])
<1>00. /\ m \in {1, 2} /\ read \in 0..m /\ attempt \in {0, 1, 2} /\ try \in 0..Retries
      /\ (read = 0 => attempt = 0) /\ GetTime \in Nat /\ ReadTime \in Nat
      /\ TimeoutTicks \in Nat
  BY <1>0
<1> HIDE DEF m
<1> DEFINE Most == IF m = 1 THEN GetTime + ReadTime ELSE GetTime + ReadTime + ReadTime
           Start == IF read = 0 THEN 0 ELSE IF read = 1 THEN GetTime ELSE GetTime + ReadTime
           Used == Start + AttemptTime(attempt) + TryTime(try)
<1>1. GetTime + m * ReadTime = Most /\ Most \in Nat
  <2>1. CASE m = 1
    BY <1>00, <2>1
  <2>2. CASE m = 2
    BY <1>00, <2>2
  <2> QED BY <1>00, <2>1, <2>2
<1>2. ReadStart = Start
  <2>1. read \in {0, 1, 2}
    BY <1>00
  <2>2. CASE read = 0
    BY <2>2 DEF ReadStart
  <2>3. CASE read = 1
    BY <1>00, <2>3 DEF ReadStart
  <2>4. CASE read = 2
    BY <1>00, <2>4 DEF ReadStart
  <2> QED BY <2>1, <2>2, <2>3, <2>4
<1>3. waited \in Nat /\ waited <= IF Running THEN Used ELSE Most
  <2>1. Start \in Nat /\ AttemptTime(attempt) \in Nat /\ TryTime(try) \in Nat
    BY <1>00, AttemptTimes, TryTimes
  <2>2. waited \in 0..(IF Running THEN Used ELSE Most)
    <3>1. GetTime + Len(Metrics[model]) * ReadTime = Most
      BY <1>1 DEF m
    <3> QED BY <1>0, <1>2, <3>1 DEF WaitInv
  <2> HIDE DEF Start, Most
  <2> QED BY <1>1, <2>1, <2>2
<1>4. /\ Start \in Nat /\ AttemptTime(attempt) \in Nat /\ TryTime(try) \in Nat
      /\ TryTime(try) + TimeoutTicks <= GetTime
      /\ TryTime(0) = 0
  BY <1>00, AttemptTimes, TryTimes

(* The read under way ends within a GET's time, or the poll does.          *)
<1>5. ASSUME Running, NEW d \in 0..TimeoutTicks, waited' = waited + d, UNCHANGED model,
             \/ pc' \in {"counters", "none"}
             \/ read # m /\ pc' = "send" /\ read' = read + 1 /\ attempt' = 0 /\ try' = 0
      PROVE  WaitInv'
  <2>1. waited + d \in Nat /\ waited + d <= Start + AttemptTime(attempt) + GetTime
    <3> HIDE DEF Start
    <3> QED BY <1>00, <1>3, <1>4, <1>5
  <2>2. AttemptTime(attempt) + GetTime <= IF read = 0 THEN GetTime ELSE ReadTime
    BY <1>00, AttemptTimes
  <2>3. CASE pc' \in {"counters", "none"}
    <3>1. waited + d <= Most
      <4>1. Most \in Nat /\ Start + (IF read = 0 THEN GetTime ELSE ReadTime) <= Most
        BY <1>00, <1>1
      <4>2. AttemptTime(attempt) \in Nat
        BY <1>4
      <4> HIDE DEF Start, Most
      <4> QED BY <1>00, <1>4, <1>5, <2>1, <2>2, <4>1, <4>2
    <3>2. (GetTime + Len(Metrics[model]) * ReadTime)' = Most
      BY <1>1, <1>5 DEF m, GetTime, ReadTime
    <3> HIDE DEF Most
    <3> QED BY <1>1, <1>5, <2>1, <2>3, <3>1, <3>2 DEF WaitInv, Running
  <2>4. CASE read # m /\ pc' = "send" /\ read' = read + 1 /\ attempt' = 0 /\ try' = 0
    <3>1. waited + d <= IF read = 0 THEN GetTime ELSE GetTime + ReadTime
      <4>1. read = 0 \/ read = 1
        BY <1>00, <2>4
      <4>2. Start = IF read = 0 THEN 0 ELSE GetTime
        BY <4>1
      <4> HIDE DEF Start
      <4> QED BY <1>00, <1>4, <1>5, <2>1, <2>2, <4>2
    <3>2. ReadStart' = IF read = 0 THEN GetTime ELSE GetTime + ReadTime
      <4>1. read = 0 \/ read = 1
        BY <1>00, <2>4
      <4>2. CASE read = 0
        BY <1>00, <2>4, <4>2, AttemptTimes DEF ReadStart, GetTime, ReadTime
      <4>3. CASE read = 1
        BY <1>00, <2>4, <4>3, AttemptTimes DEF ReadStart, GetTime, ReadTime
      <4> QED BY <4>1, <4>2, <4>3
    <3>3. AttemptTime(0) = 0 /\ TryTime(0) = 0
      BY <1>4, AttemptTimes
    <3>4. AttemptTime(attempt)' = 0 /\ TryTime(try)' = 0 /\ Running'
      BY <2>4, <3>3 DEF Running, AttemptTime, TryTime
    <3> QED BY <1>00, <1>5, <2>1, <3>1, <3>2, <3>4 DEF WaitInv
  <2> QED BY <1>5, <2>3, <2>4
<1>6. ASSUME NEW res, NextRead(res)
      PROVE  \/ pc' \in {"counters", "none"}
             \/ read # m /\ pc' = "send" /\ read' = read + 1 /\ attempt' = 0 /\ try' = 0
  BY <1>6 DEF NextRead, m
<1>7. ASSUME pc = "await", NEW d \in 0..TimeoutTicks, GetFailed(d)  PROVE WaitInv'
  <2>1. UNCHANGED model /\ Running
    BY <1>7 DEF GetFailed, Running
  <2>2. CASE read = 0 \/ ~(attempt < LastAttempt)
    BY <1>5, <1>6, <1>7, <2>1, <2>2 DEF GetFailed
  <2>3. CASE read # 0 /\ attempt < LastAttempt
    <3>1. /\ pc' = "send" /\ attempt' = attempt + 1 /\ try' = 0
          /\ waited' = waited + d + Backoff[attempt] /\ read' = read
      BY <1>7, <2>3 DEF GetFailed
    <3>2. Running' /\ ReadStart' = Start
      BY <1>2, <2>1, <3>1 DEF Running, ReadStart
    <3>3. attempt \in {0, 1} /\ AttemptTime(attempt') = AttemptTime(attempt) + GetTime + Backoff[attempt]
          /\ Backoff[attempt] \in Nat /\ AttemptTime(attempt') \in Nat
      BY <1>00, <2>3, <3>1, AttemptTimes DEF LastAttempt
    <3>4. AttemptTime(attempt)' = AttemptTime(attempt') /\ TryTime(try)' = 0
      BY <1>4, <3>1 DEF AttemptTime, TryTime
    <3>5. waited' \in Nat /\ waited' <= Start + AttemptTime(attempt')
      <4> HIDE DEF Start
      <4> QED BY <1>00, <1>3, <1>4, <1>7, <2>1, <3>1, <3>3
    <3> HIDE DEF Start
    <3> QED BY <1>4, <3>2, <3>3, <3>4, <3>5 DEF WaitInv
  <2> QED BY <2>2, <2>3
<1>8. CASE Send
  <2>1. UNCHANGED <<model, read, attempt, try, waited>> /\ Running /\ Running'
    BY <1>8 DEF Send, Running
  <2>2. ReadStart' = ReadStart /\ AttemptTime(attempt)' = AttemptTime(attempt)
        /\ TryTime(try)' = TryTime(try)
    BY <2>1 DEF ReadStart, AttemptTime, TryTime
  <2> QED BY <1>0, <2>1, <2>2 DEF WaitInv, GetTime, ReadTime
<1>9. CASE Timeout
  <2>1. CASE try < Retries
    <3>1. /\ pc' = "send" /\ try' = try + 1 /\ waited' = waited + TimeoutTicks + Backoff[try]
          /\ UNCHANGED <<model, read, attempt>> /\ Running /\ Running'
      BY <1>9, <2>1 DEF Timeout, Running
    <3>2. ReadStart' = Start /\ AttemptTime(attempt)' = AttemptTime(attempt)
          /\ TryTime(try)' = TryTime(try + 1)
      BY <1>2, <3>1 DEF ReadStart, AttemptTime, TryTime
    <3>3. TryTime(try + 1) = TryTime(try) + TimeoutTicks + Backoff[try] /\ Backoff[try] \in Nat
      <4>1. TryTime(try + 1) = TryTime(try) + TimeoutTicks + Backoff[try]
        BY <1>00, <2>1, TryTimes, Zenon
      <4>2. try \in Nat
        BY <1>00
      <4> QED BY <4>1, <4>2, BackoffValue
    <3> HIDE DEF Start
    <3>4. waited' \in 0..(Start + AttemptTime(attempt) + TryTime(try + 1))
      BY <1>00, <1>3, <1>4, <3>1, <3>3
    <3> QED BY <3>1, <3>2, <3>4 DEF WaitInv
  <2>2. CASE ~(try < Retries)
    BY <1>00, <1>7, <1>9, <2>2 DEF Timeout
  <2> QED BY <2>1, <2>2
<1>10. CASE SnmpError
  BY <1>7, <1>10 DEF SnmpError
<1>11. CASE Poked
  BY <1>5, <1>6, <1>11 DEF Poked, Running
<1>12. CASE GoodReply
  BY <1>5, <1>6, <1>12 DEF GoodReply, Running
<1>13. CASE BadReply
  <2>1. pc' = "none" \/ NextRead(result)
    BY <1>13 DEF BadReply
  <2> QED BY <1>5, <1>6, <1>13, <2>1 DEF BadReply, Running
<1>14. CASE Raise
  <2>1. waited + 0 = waited /\ 0 \in 0..TimeoutTicks
    BY <1>00, <1>3
  <2> QED BY <1>5, <1>14, <2>1 DEF Raise, Running
<1>15. CASE UNCHANGED vars
  <2>1. UNCHANGED <<model, pc, read, attempt, try, waited>>
    BY <1>15 DEF vars
  <2> QED BY <1>0, <2>1 DEF WaitInv, GetTime, ReadTime, Running, ReadStart, AttemptTime, TryTime
<1> QED
  BY <1>8, <1>9, <1>10, <1>11, <1>12, <1>13, <1>14, <1>15 DEF Next
-----------------------------------------------------------------------------
(* The initial state satisfies the inductive invariant.                    *)
LEMMA InitInv == Init => IInv
<1> SUFFICES ASSUME Init PROVE IInv
  OBVIOUS
<1>1. model \in Models /\ Len(Metrics[model]) \in {1, 2}
  BY AdapterShape DEF Init
<1>2. TypeOK
  <2>1. result \in Result
    BY DEF Init, Result, Lengths, FirmwareUnit
  <2>2. read \in 0..Len(Metrics[model]) /\ attempt \in 0..LastAttempt /\ try \in 0..Retries
    BY <1>1, RetriesAssumption DEF Init, RetriesAssumption, LastAttempt
  <2>3. QED BY <2>1, <2>2 DEF Init, TypeOK
<1>3. PollInv
  BY <1>1, AdapterShape, RetriesAssumption
     DEF Init, PollInv, ReadInv, KeyOf, Running, Sending, RetriesAssumption, Reads, Keys
<1>4. MetersInv
  BY DEF Init, MetersInv, Keys
<1>5. WaitInv
  <2>1. read = 0 /\ attempt = 0 /\ try = 0 /\ waited = 0 /\ Running
    BY DEF Init, Running
  <2>2. AttemptTime(0) = 0 /\ TryTime(0) = 0
    BY AttemptTimes, TryTimes, RetriesAssumption
  <2>3. QED BY <2>1, <2>2 DEF WaitInv, ReadStart
<1>6. QED BY <1>2, <1>3, <1>4, <1>5 DEF IInv

(* The invariant holds in every state a poll reaches.                      *)
THEOREM Invariance == Spec => []IInv
<1>1. IInv /\ [Next]_vars => IInv'
  BY TypeStep, PollStep, MetersStep, WaitStep DEF IInv
<1>2. QED BY InitInv, <1>1, PTL DEF Spec

(* Every variable keeps its type.                                          *)
THEOREM TypeCorrect == Spec => []TypeOK
  BY Invariance, PTL DEF IInv

(* The nested retry loops stay within 3 x (retries + 1) requests a metric, *)
(* whatever is lost (_snmp_get_retry around snmp_client.get).              *)
THEOREM RequestsAreBounded == Spec => []RequestBudget
<1>1. IInv => RequestBudget
  <2> SUFFICES ASSUME IInv, NEW k \in Keys PROVE sent[k] <= Budget(k)
    BY DEF RequestBudget
  <2>1. TypeOK /\ PollInv /\ Budget(k) \in Nat /\ sent[k] \in Nat
    BY BudgetType DEF IInv, TypeOK
  <2>2. CASE sent[k] = 0
    BY <2>1, <2>2
  <2>3. CASE sent[k] > 0
    <3>1. PICK i \in Reads : k = KeyOf(i)
      BY <2>1, <2>3 DEF PollInv
    <3>2. ReadInv(i) /\ i \in Nat /\ read \in Nat
      BY <2>1, <3>1 DEF PollInv, Reads, TypeOK
    <3>3. CASE i < read \/ ~Running
      BY <3>1, <3>2, <3>3 DEF ReadInv
    <3>4. CASE i = read /\ Running
      BY <3>1, <3>4, Current DEF Key
    <3>5. CASE i > read
      BY <2>3, <3>1, <3>2, <3>5 DEF ReadInv
    <3>6. QED BY <3>2, <3>3, <3>4, <3>5
  <2>4. QED BY <2>1, <2>2, <2>3
<1>2. QED BY Invariance, <1>1, PTL

(* A metric is asked for only when the poke was answered and the metrics   *)
(* before it were answered or given up (get_counters).                     *)
THEOREM MetricsAreInOrder == Spec => []MetricsInOrder
<1>1. IInv => MetricsInOrder
  <2> SUFFICES ASSUME IInv, NEW i \in 1..Len(Metrics[model]), sent[KeyOf(i)] > 0
               PROVE  /\ heard["poke"] = "value" /\ result.reachable
                      /\ \A j \in 1..(i - 1) : heard[KeyOf(j)] # "nothing" \/ sent[KeyOf(j)] > LastAttempt
    BY DEF MetricsInOrder
  <2>1. TypeOK /\ PollInv /\ Len(Metrics[model]) \in {1, 2} /\ read \in Nat
    BY AdapterShape DEF IInv, TypeOK
  <2>2. i \in Reads /\ i \in Nat /\ i > 0 /\ \A j \in 1..(i - 1) : j \in Reads /\ j \in Nat /\ 0 < j /\ j < i
    BY <2>1 DEF Reads
  <2>3. i <= read
    BY <2>1, <2>2 DEF PollInv, ReadInv
  <2>4. heard["poke"] = "value" /\ result.reachable
    BY <2>1, <2>2, <2>3 DEF PollInv
  <2>5. ASSUME NEW j \in 1..(i - 1)
        PROVE  heard[KeyOf(j)] # "nothing" \/ sent[KeyOf(j)] > LastAttempt
    BY <2>1, <2>2, <2>3 DEF PollInv, ReadInv
  <2>6. QED BY <2>4, <2>5
<1>2. QED BY Invariance, <1>1, PTL

(* A counter is missing only after three attempts or an answer that does   *)
(* not parse: no single lost request costs one (_snmp_get_retry).          *)
THEOREM MissingIsExhausted == Spec => []MissingMeansExhausted
<1>1. IInv => MissingMeansExhausted
  <2> SUFFICES ASSUME IInv, pc = "counters", NEW i \in 1..Len(Metrics[model]), heard[KeyOf(i)] = "nothing"
               PROVE  sent[KeyOf(i)] > LastAttempt
    BY DEF MissingMeansExhausted
  <2>1. i \in Reads /\ i > 0
    <3>1. Len(Metrics[model]) \in {1, 2}
      BY AdapterShape DEF IInv, TypeOK
    <3>2. QED BY <3>1 DEF Reads
  <2>2. QED BY <2>1 DEF IInv, PollInv, ReadInv
<1>2. QED BY Invariance, <1>1, PTL

(* The length handed to the database is in metres whenever the unit it was *)
(* counted in is known (to_meters, _collect_extra).                        *)
THEOREM LengthsAreMeters == Spec => []MetersWhenUnitKnown
<1>1. IInv => MetersWhenUnitKnown
  BY DEF IInv, MetersInv, MetersWhenUnitKnown
<1>2. QED BY Invariance, <1>1, PTL

(* A printer that answers late, seldom or never holds its worker thread no *)
(* longer than the time of its GETs: the poke once, each metric three      *)
(* times, every try with its timeout and its backoff.                      *)
THEOREM WaitIsBounded == Spec => []WaitBound
<1>1. IInv => WaitBound
  <2> SUFFICES ASSUME IInv  PROVE WaitBound
    OBVIOUS
  <2>1. /\ Len(Metrics[model]) \in {1, 2} /\ GetTime \in Nat /\ ReadTime \in Nat
        /\ read \in 0..Len(Metrics[model]) /\ attempt \in {0, 1, 2} /\ try \in 0..Retries
        /\ TimeoutTicks \in Nat /\ (read = 0 => attempt = 0)
    BY AdapterShape, AttemptTimes, TimeoutAssumption DEF IInv, TypeOK, PollInv, LastAttempt
  <2>2. AttemptTime(attempt) \in Nat /\ TryTime(try) \in Nat /\ TryTime(try) <= GetTime
        /\ AttemptTime(attempt) + GetTime <= IF read = 0 THEN GetTime ELSE ReadTime
    BY <2>1, AttemptTimes, TryTimes
  <2>3. /\ ReadStart \in Nat
        /\ ReadStart + (IF read = 0 THEN GetTime ELSE ReadTime) <= GetTime + Len(Metrics[model]) * ReadTime
    BY <2>1 DEF ReadStart
  <2>4. waited \in 0..(IF Running THEN ReadStart + AttemptTime(attempt) + TryTime(try)
                       ELSE GetTime + Len(Metrics[model]) * ReadTime)
    BY DEF IInv, WaitInv
  <2> QED BY <2>1, <2>2, <2>3, <2>4 DEF WaitBound
<1>2. QED BY Invariance, <1>1, PTL
=============================================================================
