-------------------------- MODULE CollectionProofs --------------------------
(* Proofs about Collection, for every configuration and any number of runs. *)
EXTENDS Collection, FiniteSetTheorems, TLAPS

(* An address list gives every entry an address (config["printers"]).      *)
LEMMA EntriesType ==
  /\ Entries \subseteq Nat \ {0}
  /\ \A e \in Entries : Ip(e) \in Ips /\ Printers[e].known \in BOOLEAN
<1> DEFINE Printer == [ip : Ips, known : BOOLEAN]
<1>1. Printers \in Seq(Printer)
  BY PrintersAssumption DEF PrintersAssumption
<1>2. Len(Printers) \in Nat /\ \A e \in 1..Len(Printers) : Printers[e] \in Printer
  <2> HIDE DEF Printer
  <2>1. QED BY <1>1
<1>3. QED BY <1>2 DEF Entries, Ip

(* _round_timestamp stamps the start of a slot: a multiple of Interval at  *)
(* most Interval - 1 before the time it is given.                          *)
LEMMA SlotIsFloor ==
  ASSUME NEW t \in Nat
  PROVE  /\ Slot(t) \in Nat /\ Slot(t) <= t /\ t < Slot(t) + Interval
         /\ t \div Interval \in Nat
         /\ Slot(t) = Interval * (t \div Interval)
  BY NumbersAssumption DEF Slot, NumbersAssumption

(* It never reorders two times.                                            *)
LEMMA SlotMonotone ==
  ASSUME NEW s \in Nat, NEW t \in Nat, s <= t PROVE Slot(s) <= Slot(t)
<1> DEFINE p == s \div Interval
           q == t \div Interval
<1>1. p \in Nat /\ q \in Nat /\ Interval \in Nat \ {0}
  BY SlotIsFloor, NumbersAssumption DEF NumbersAssumption
<1>2. Interval * p <= s /\ t < Interval * q + Interval
  BY SlotIsFloor
<1>3. CASE p <= q
  <2>1. Interval * p <= Interval * q
    BY <1>1, <1>3
  <2>2. QED BY <2>1, SlotIsFloor
<1>4. CASE p >= q + 1
  <2>1. Interval * p >= Interval * (q + 1)
    BY <1>1, <1>4
  <2>2. Interval * (q + 1) = Interval * q + Interval
    BY <1>1
  <2>3. QED BY <1>1, <1>2, <2>1, <2>2
<1>5. QED BY <1>1, <1>3, <1>4
-----------------------------------------------------------------------------
(* The initial state satisfies the inductive invariant.                    *)
LEMMA InitInv == Init => IInv
<1>1. Init => \A r \in Runs : With(r, "counted") = {} /\ With(r, "missed") = {}
  BY DEF Init, With
<1>2. Init => Tally
  BY <1>1, FS_EmptySet DEF Init, Tally
<1>3. QED
  BY <1>2, RunsAssumption, NumbersAssumption, SlotIsFloor
     DEF Init, IInv, TypeOK, Row, Reading, SaveInv, ReadingInv, LockInv, RowInv, EarlierInv,
         SerialInv, OneRowPerSlot, SuccessHasRow, RunsAssumption, Over, Pooled

(* Types: what Commit adds is a row because an answer is being saved.      *)
LEMMA TypeStep ==
  ASSUME IInv, [Next]_vars PROVE TypeOK'
<1> USE EntriesType, SlotIsFloor, RunsAssumption
        DEF RunsAssumption, vars, world, pool, book, past, Over, Pooled,
            IInv, TypeOK, Row, Reading, Ended, KeyFree
<1>1. ASSUME Tick
      PROVE TypeOK'
  BY <1>1 DEF Tick
<1>2. ASSUME NEW ip \in Ips, PrintLabel(ip)
      PROVE TypeOK'
  BY <1>2 DEF PrintLabel
<1>3. ASSUME NEW r \in Runs, Begin(r)
      PROVE TypeOK'
  BY <1>3 DEF Begin
<1>4. ASSUME NEW r \in Runs, Submit(r)
      PROVE TypeOK'
  BY <1>4 DEF Submit
<1>5. ASSUME NEW r \in Runs, OpenFails(r)
      PROVE TypeOK'
  BY <1>5 DEF OpenFails
<1>6. ASSUME NEW r \in Runs, NEW e \in Entries, StartPoll(r, e)
      PROVE TypeOK'
  BY <1>6 DEF StartPoll
<1>7. ASSUME NEW r \in Runs, NEW e \in Entries, Answer(r, e)
      PROVE TypeOK'
  BY <1>7 DEF Answer
<1>8. ASSUME NEW r \in Runs, NEW e \in Entries, NoAnswer(r, e)
      PROVE TypeOK'
  BY <1>8 DEF NoAnswer
<1>9. ASSUME NEW r \in Runs, NEW e \in Entries, TakeFailure(r, e)
      PROVE TypeOK'
  BY <1>9 DEF TakeFailure
<1>10. ASSUME NEW r \in Runs, NEW e \in Entries, TakeDry(r, e)
      PROVE TypeOK'
  BY <1>10 DEF TakeDry
<1>11. ASSUME NEW r \in Runs, NEW e \in Entries, TakeAnswer(r, e)
      PROVE TypeOK'
  BY <1>11 DEF TakeAnswer
<1>12. ASSUME NEW r \in Runs, Insert(r)
      PROVE TypeOK'
  BY <1>12 DEF Insert
<1>13. ASSUME NEW r \in Runs, Locked(r)
      PROVE TypeOK'
  BY <1>13 DEF Locked
<1>14. ASSUME NEW r \in Runs, Commit(r)
      PROVE TypeOK'
  <2>1. NewRow(r) \in Row
    BY <1>14 DEF Commit, SaveInv, NewRow
  <2>2. table' \in SUBSET Row
    <3>1. table \in SUBSET Row
      OBVIOUS
    <3> HIDE DEF Row
    <3>2. table' = table \/ table' = table \union {NewRow(r)}
      BY <1>14 DEF Commit
    <3>3. QED BY <2>1, <3>1, <3>2
  <2>3. writer' = NoOne /\ success'[r] \in Nat
    BY <1>14 DEF Commit
  <2>4. task' \in [Runs -> [Entries -> {"queued", "polling", "answered", "failed", "counted", "missed"}]]
    BY <1>14 DEF Commit
  <2> HIDE DEF Row
  <2>5. QED BY <1>14, <2>2, <2>3, <2>4 DEF Commit
<1>15. ASSUME NEW r \in Runs, SaveFails(r)
      PROVE TypeOK'
  BY <1>15 DEF SaveFails
<1>16. ASSUME NEW r \in Runs, Finish(r)
      PROVE TypeOK'
  BY <1>16 DEF Finish
<1>17. ASSUME NEW r \in Runs, AbortEnds(r)
      PROVE TypeOK'
  BY <1>17 DEF AbortEnds
<1>18. ASSUME NEW r \in Runs, Kill(r)
      PROVE TypeOK'
  BY <1>18 DEF Kill
<1>19. CASE UNCHANGED vars
  BY <1>19
<1>20. QED
  BY <1>1, <1>2, <1>3, <1>4, <1>5, <1>6, <1>7, <1>8, <1>9, <1>10,
     <1>11, <1>12, <1>13, <1>14, <1>15, <1>16, <1>17, <1>18, <1>19
     DEF Next, Worker, Main

(* What the main thread is saving is an answer of this run.                *)
LEMMA SaveStep ==
  ASSUME IInv, [Next]_vars PROVE SaveInv'
<1> USE EntriesType, SlotIsFloor, SlotMonotone
        DEF vars, world, pool, book, past, Over, Pooled, IInv, TypeOK, SaveInv, EarlierInv
<1>1. ASSUME Tick
      PROVE SaveInv'
  BY <1>1 DEF Tick
<1>2. ASSUME NEW ip \in Ips, PrintLabel(ip)
      PROVE SaveInv'
  BY <1>2 DEF PrintLabel
<1>3. ASSUME NEW r \in Runs, Begin(r)
      PROVE SaveInv'
  BY <1>3 DEF Begin
<1>4. ASSUME NEW r \in Runs, Submit(r)
      PROVE SaveInv'
  BY <1>4 DEF Submit
<1>5. ASSUME NEW r \in Runs, OpenFails(r)
      PROVE SaveInv'
  BY <1>5 DEF OpenFails
<1>6. ASSUME NEW r \in Runs, NEW e \in Entries, StartPoll(r, e)
      PROVE SaveInv'
  BY <1>6 DEF StartPoll
<1>7. ASSUME NEW r \in Runs, NEW e \in Entries, Answer(r, e)
      PROVE SaveInv'
  BY <1>7 DEF Answer
<1>8. ASSUME NEW r \in Runs, NEW e \in Entries, NoAnswer(r, e)
      PROVE SaveInv'
  BY <1>8 DEF NoAnswer
<1>9. ASSUME NEW r \in Runs, NEW e \in Entries, TakeFailure(r, e)
      PROVE SaveInv'
  BY <1>9 DEF TakeFailure
<1>10. ASSUME NEW r \in Runs, NEW e \in Entries, TakeDry(r, e)
      PROVE SaveInv'
  BY <1>10 DEF TakeDry
<1>11. ASSUME NEW r \in Runs, NEW e \in Entries, TakeAnswer(r, e)
      PROVE SaveInv'
  BY <1>11 DEF TakeAnswer
<1>12. ASSUME NEW r \in Runs, Insert(r)
      PROVE SaveInv'
  BY <1>12 DEF Insert
<1>13. ASSUME NEW r \in Runs, Locked(r)
      PROVE SaveInv'
  BY <1>13 DEF Locked
<1>14. ASSUME NEW r \in Runs, Commit(r)
      PROVE SaveInv'
  BY <1>14 DEF Commit
<1>15. ASSUME NEW r \in Runs, SaveFails(r)
      PROVE SaveInv'
  BY <1>15 DEF SaveFails
<1>16. ASSUME NEW r \in Runs, Finish(r)
      PROVE SaveInv'
  BY <1>16 DEF Finish
<1>17. ASSUME NEW r \in Runs, AbortEnds(r)
      PROVE SaveInv'
  BY <1>17 DEF AbortEnds
<1>18. ASSUME NEW r \in Runs, Kill(r)
      PROVE SaveInv'
  BY <1>18 DEF Kill
<1>19. CASE UNCHANGED vars
  BY <1>19
<1>20. QED
  BY <1>1, <1>2, <1>3, <1>4, <1>5, <1>6, <1>7, <1>8, <1>9, <1>10,
     <1>11, <1>12, <1>13, <1>14, <1>15, <1>16, <1>17, <1>18, <1>19
     DEF Next, Worker, Main

(* A polled counter lies between two readings of the odometer.             *)
LEMMA ReadingStep ==
  ASSUME IInv, [Next]_vars PROVE ReadingInv'
<1> USE EntriesType
        DEF vars, world, pool, book, past, Over, Pooled, IInv, TypeOK, Reading, ReadingInv, Since
<1>1. ASSUME Tick
      PROVE ReadingInv'
  BY <1>1 DEF Tick
<1>2. ASSUME NEW ip \in Ips, PrintLabel(ip)
      PROVE ReadingInv'
  BY <1>2 DEF PrintLabel
<1>3. ASSUME NEW r \in Runs, Begin(r)
      PROVE ReadingInv'
  BY <1>3 DEF Begin
<1>4. ASSUME NEW r \in Runs, Submit(r)
      PROVE ReadingInv'
  BY <1>4 DEF Submit
<1>5. ASSUME NEW r \in Runs, OpenFails(r)
      PROVE ReadingInv'
  BY <1>5 DEF OpenFails
<1>6. ASSUME NEW r \in Runs, NEW e \in Entries, StartPoll(r, e)
      PROVE ReadingInv'
  BY <1>6 DEF StartPoll
<1>7. ASSUME NEW r \in Runs, NEW e \in Entries, Answer(r, e)
      PROVE ReadingInv'
  <2> SUFFICES ASSUME NEW x \in Runs, NEW d \in Entries
               PROVE  /\ main'[x] = "idle" => task'[x][d] = "queued"
                      /\ main'[x] = "done" => task'[x][d] \in {"counted", "missed"}
                      /\ task'[x][d] = "answered" => Since(x, Ip(d), reading[x][d])'
    BY DEF ReadingInv
  <2>1. CASE x = r /\ d = e
    <3>1. PICK v \in {counter[Ip(e)], Null} : reading' = [reading EXCEPT ![r][e] = v]
      BY <1>7 DEF Answer
    <3>2. reading'[r][e] = v /\ main[r] # "idle" /\ main' = main
      BY <1>7, <3>1 DEF Answer
    <3>3. floor[r][Ip(e)] <= counter[Ip(e)]
      BY DEF EarlierInv
    <3>4. QED BY <1>7, <2>1, <3>2, <3>3 DEF Answer
  <2>2. CASE ~(x = r /\ d = e)
    BY <1>7, <2>2 DEF Answer
  <2>3. QED BY <2>1, <2>2
<1>8. ASSUME NEW r \in Runs, NEW e \in Entries, NoAnswer(r, e)
      PROVE ReadingInv'
  BY <1>8 DEF NoAnswer
<1>9. ASSUME NEW r \in Runs, NEW e \in Entries, TakeFailure(r, e)
      PROVE ReadingInv'
  BY <1>9 DEF TakeFailure
<1>10. ASSUME NEW r \in Runs, NEW e \in Entries, TakeDry(r, e)
      PROVE ReadingInv'
  BY <1>10 DEF TakeDry
<1>11. ASSUME NEW r \in Runs, NEW e \in Entries, TakeAnswer(r, e)
      PROVE ReadingInv'
  BY <1>11 DEF TakeAnswer
<1>12. ASSUME NEW r \in Runs, Insert(r)
      PROVE ReadingInv'
  BY <1>12 DEF Insert
<1>13. ASSUME NEW r \in Runs, Locked(r)
      PROVE ReadingInv'
  BY <1>13 DEF Locked
<1>14. ASSUME NEW r \in Runs, Commit(r)
      PROVE ReadingInv'
  BY <1>14 DEF Commit
<1>15. ASSUME NEW r \in Runs, SaveFails(r)
      PROVE ReadingInv'
  BY <1>15 DEF SaveFails
<1>16. ASSUME NEW r \in Runs, Finish(r)
      PROVE ReadingInv'
  BY <1>16 DEF Finish
<1>17. ASSUME NEW r \in Runs, AbortEnds(r)
      PROVE ReadingInv'
  BY <1>17 DEF AbortEnds
<1>18. ASSUME NEW r \in Runs, Kill(r)
      PROVE ReadingInv'
  BY <1>18 DEF Kill
<1>19. CASE UNCHANGED vars
  BY <1>19
<1>20. QED
  BY <1>1, <1>2, <1>3, <1>4, <1>5, <1>6, <1>7, <1>8, <1>9, <1>10,
     <1>11, <1>12, <1>13, <1>14, <1>15, <1>16, <1>17, <1>18, <1>19
     DEF Next, Worker, Main

(* A transaction holds the lock, so the table it looked at cannot change.  *)
LEMMA LockingStep ==
  ASSUME IInv, [Next]_vars PROVE LockInv'
<1> USE RunsAssumption
        DEF RunsAssumption, vars, world, pool, book, past, Over, Pooled,
            IInv, TypeOK, SaveInv, LockInv, KeyFree, NewRow
<1>1. ASSUME Tick
      PROVE LockInv'
  BY <1>1 DEF Tick
<1>2. ASSUME NEW ip \in Ips, PrintLabel(ip)
      PROVE LockInv'
  BY <1>2 DEF PrintLabel
<1>3. ASSUME NEW r \in Runs, Begin(r)
      PROVE LockInv'
  BY <1>3 DEF Begin
<1>4. ASSUME NEW r \in Runs, Submit(r)
      PROVE LockInv'
  BY <1>4 DEF Submit
<1>5. ASSUME NEW r \in Runs, OpenFails(r)
      PROVE LockInv'
  BY <1>5 DEF OpenFails
<1>6. ASSUME NEW r \in Runs, NEW e \in Entries, StartPoll(r, e)
      PROVE LockInv'
  BY <1>6 DEF StartPoll
<1>7. ASSUME NEW r \in Runs, NEW e \in Entries, Answer(r, e)
      PROVE LockInv'
  BY <1>7 DEF Answer
<1>8. ASSUME NEW r \in Runs, NEW e \in Entries, NoAnswer(r, e)
      PROVE LockInv'
  BY <1>8 DEF NoAnswer
<1>9. ASSUME NEW r \in Runs, NEW e \in Entries, TakeFailure(r, e)
      PROVE LockInv'
  BY <1>9 DEF TakeFailure
<1>10. ASSUME NEW r \in Runs, NEW e \in Entries, TakeDry(r, e)
      PROVE LockInv'
  BY <1>10 DEF TakeDry
<1>11. ASSUME NEW r \in Runs, NEW e \in Entries, TakeAnswer(r, e)
      PROVE LockInv'
  <2> SUFFICES ASSUME NEW x \in Runs, main'[x] = "inserted"
               PROVE  /\ writer' = x
                      /\ IF fresh'[x] THEN KeyFree(NewRow(x))' ELSE
                           \E old \in table' : /\ old.ip = Ip(current'[x])
                                              /\ old.ts = stamp'[x][current'[x]]
    BY DEF LockInv
  <2>1. x # r /\ main[x] = "inserted"
    BY <1>11 DEF TakeAnswer
  <2>2. NewRow(x)' = NewRow(x) /\ current'[x] = current[x] /\ stamp'[x] = stamp[x]
    BY <1>11, <2>1 DEF TakeAnswer
  <2>3. QED BY <1>11, <2>1, <2>2 DEF TakeAnswer
<1>12. ASSUME NEW r \in Runs, Insert(r)
      PROVE LockInv'
  BY <1>12 DEF Insert
<1>13. ASSUME NEW r \in Runs, Locked(r)
      PROVE LockInv'
  <2> SUFFICES ASSUME NEW x \in Runs, main'[x] = "inserted"
               PROVE  /\ writer' = x
                      /\ IF fresh'[x] THEN KeyFree(NewRow(x))' ELSE
                           \E old \in table' : /\ old.ip = Ip(current'[x])
                                              /\ old.ts = stamp'[x][current'[x]]
    BY DEF LockInv
  <2>1. x # r /\ main[x] = "inserted"
    BY <1>13 DEF Locked
  <2>2. NewRow(x)' = NewRow(x) /\ current'[x] = current[x] /\ stamp'[x] = stamp[x]
    BY <1>13, <2>1 DEF Locked
  <2>3. QED BY <1>13, <2>1, <2>2 DEF Locked
<1>14. ASSUME NEW r \in Runs, Commit(r)
      PROVE LockInv'
  BY <1>14 DEF Commit
<1>15. ASSUME NEW r \in Runs, SaveFails(r)
      PROVE LockInv'
  BY <1>15 DEF SaveFails
<1>16. ASSUME NEW r \in Runs, Finish(r)
      PROVE LockInv'
  BY <1>16 DEF Finish
<1>17. ASSUME NEW r \in Runs, AbortEnds(r)
      PROVE LockInv'
  BY <1>17 DEF AbortEnds
<1>18. ASSUME NEW r \in Runs, Kill(r)
      PROVE LockInv'
  BY <1>18 DEF Kill
<1>19. CASE UNCHANGED vars
  BY <1>19
<1>20. QED
  BY <1>1, <1>2, <1>3, <1>4, <1>5, <1>6, <1>7, <1>8, <1>9, <1>10,
     <1>11, <1>12, <1>13, <1>14, <1>15, <1>16, <1>17, <1>18, <1>19
     DEF Next, Worker, Main

(* Where rows lie in time, and between which odometer readings.            *)
LEMMA HistoryStep ==
  ASSUME IInv, [Next]_vars PROVE RowInv' /\ EarlierInv' /\ SerialInv'
<1> USE EntriesType, SlotIsFloor, SlotMonotone, RunsAssumption
        DEF RunsAssumption, vars, world, pool, book, past, Over, Pooled, Ended,
            IInv, TypeOK, Row, Reading, SaveInv, ReadingInv, RowInv, EarlierInv, SerialInv,
            Since, NewRow
<1>1. ASSUME Tick
      PROVE RowInv' /\ EarlierInv' /\ SerialInv'
  BY <1>1 DEF Tick
<1>2. ASSUME NEW ip \in Ips, PrintLabel(ip)
      PROVE RowInv' /\ EarlierInv' /\ SerialInv'
  BY <1>2 DEF PrintLabel
<1>3. ASSUME NEW r \in Runs, Begin(r)
      PROVE RowInv' /\ EarlierInv' /\ SerialInv'
  BY <1>3 DEF Begin
<1>4. ASSUME NEW r \in Runs, Submit(r)
      PROVE RowInv' /\ EarlierInv' /\ SerialInv'
  BY <1>4 DEF Submit
<1>5. ASSUME NEW r \in Runs, OpenFails(r)
      PROVE RowInv' /\ EarlierInv' /\ SerialInv'
  BY <1>5 DEF OpenFails
<1>6. ASSUME NEW r \in Runs, NEW e \in Entries, StartPoll(r, e)
      PROVE RowInv' /\ EarlierInv' /\ SerialInv'
  BY <1>6 DEF StartPoll
<1>7. ASSUME NEW r \in Runs, NEW e \in Entries, Answer(r, e)
      PROVE RowInv' /\ EarlierInv' /\ SerialInv'
  BY <1>7 DEF Answer
<1>8. ASSUME NEW r \in Runs, NEW e \in Entries, NoAnswer(r, e)
      PROVE RowInv' /\ EarlierInv' /\ SerialInv'
  BY <1>8 DEF NoAnswer
<1>9. ASSUME NEW r \in Runs, NEW e \in Entries, TakeFailure(r, e)
      PROVE RowInv' /\ EarlierInv' /\ SerialInv'
  BY <1>9 DEF TakeFailure
<1>10. ASSUME NEW r \in Runs, NEW e \in Entries, TakeDry(r, e)
      PROVE RowInv' /\ EarlierInv' /\ SerialInv'
  BY <1>10 DEF TakeDry
<1>11. ASSUME NEW r \in Runs, NEW e \in Entries, TakeAnswer(r, e)
      PROVE RowInv' /\ EarlierInv' /\ SerialInv'
  BY <1>11 DEF TakeAnswer
<1>12. ASSUME NEW r \in Runs, Insert(r)
      PROVE RowInv' /\ EarlierInv' /\ SerialInv'
  BY <1>12 DEF Insert
<1>13. ASSUME NEW r \in Runs, Locked(r)
      PROVE RowInv' /\ EarlierInv' /\ SerialInv'
  BY <1>13 DEF Locked
<1>14. ASSUME NEW r \in Runs, Commit(r)
      PROVE RowInv' /\ EarlierInv' /\ SerialInv'
  BY <1>14 DEF Commit
<1>15. ASSUME NEW r \in Runs, SaveFails(r)
      PROVE RowInv' /\ EarlierInv' /\ SerialInv'
  BY <1>15 DEF SaveFails
<1>16. ASSUME NEW r \in Runs, Finish(r)
      PROVE RowInv' /\ EarlierInv' /\ SerialInv'
  BY <1>16 DEF Finish
<1>17. ASSUME NEW r \in Runs, AbortEnds(r)
      PROVE RowInv' /\ EarlierInv' /\ SerialInv'
  BY <1>17 DEF AbortEnds
<1>18. ASSUME NEW r \in Runs, Kill(r)
      PROVE RowInv' /\ EarlierInv' /\ SerialInv'
  BY <1>18 DEF Kill
<1>19. CASE UNCHANGED vars
  BY <1>19
<1>20. QED
  BY <1>1, <1>2, <1>3, <1>4, <1>5, <1>6, <1>7, <1>8, <1>9, <1>10,
     <1>11, <1>12, <1>13, <1>14, <1>15, <1>16, <1>17, <1>18, <1>19
     DEF Next, Worker, Main

(* The key of the table, and the row behind every success.                 *)
LEMMA KeyStep ==
  ASSUME IInv, [Next]_vars PROVE OneRowPerSlot' /\ SuccessHasRow'
<1> USE DEF vars, world, pool, book, past, Over, Pooled,
            IInv, TypeOK, SaveInv, LockInv, OneRowPerSlot, SuccessHasRow, KeyFree, NewRow
<1>1. ASSUME Tick
      PROVE OneRowPerSlot' /\ SuccessHasRow'
  BY <1>1 DEF Tick
<1>2. ASSUME NEW ip \in Ips, PrintLabel(ip)
      PROVE OneRowPerSlot' /\ SuccessHasRow'
  BY <1>2 DEF PrintLabel
<1>3. ASSUME NEW r \in Runs, Begin(r)
      PROVE OneRowPerSlot' /\ SuccessHasRow'
  BY <1>3 DEF Begin
<1>4. ASSUME NEW r \in Runs, Submit(r)
      PROVE OneRowPerSlot' /\ SuccessHasRow'
  BY <1>4 DEF Submit
<1>5. ASSUME NEW r \in Runs, OpenFails(r)
      PROVE OneRowPerSlot' /\ SuccessHasRow'
  BY <1>5 DEF OpenFails
<1>6. ASSUME NEW r \in Runs, NEW e \in Entries, StartPoll(r, e)
      PROVE OneRowPerSlot' /\ SuccessHasRow'
  BY <1>6 DEF StartPoll
<1>7. ASSUME NEW r \in Runs, NEW e \in Entries, Answer(r, e)
      PROVE OneRowPerSlot' /\ SuccessHasRow'
  BY <1>7 DEF Answer
<1>8. ASSUME NEW r \in Runs, NEW e \in Entries, NoAnswer(r, e)
      PROVE OneRowPerSlot' /\ SuccessHasRow'
  BY <1>8 DEF NoAnswer
<1>9. ASSUME NEW r \in Runs, NEW e \in Entries, TakeFailure(r, e)
      PROVE OneRowPerSlot' /\ SuccessHasRow'
  BY <1>9 DEF TakeFailure
<1>10. ASSUME NEW r \in Runs, NEW e \in Entries, TakeDry(r, e)
      PROVE OneRowPerSlot' /\ SuccessHasRow'
  BY <1>10 DEF TakeDry
<1>11. ASSUME NEW r \in Runs, NEW e \in Entries, TakeAnswer(r, e)
      PROVE OneRowPerSlot' /\ SuccessHasRow'
  BY <1>11 DEF TakeAnswer
<1>12. ASSUME NEW r \in Runs, Insert(r)
      PROVE OneRowPerSlot' /\ SuccessHasRow'
  BY <1>12 DEF Insert
<1>13. ASSUME NEW r \in Runs, Locked(r)
      PROVE OneRowPerSlot' /\ SuccessHasRow'
  BY <1>13 DEF Locked
<1>14. ASSUME NEW r \in Runs, Commit(r)
      PROVE OneRowPerSlot' /\ SuccessHasRow'
  <2>1. CASE fresh[r]
    <3>1. KeyFree(NewRow(r)) /\ table' = table \union {NewRow(r)}
      BY <1>14, <2>1 DEF Commit
    <3>2. OneRowPerSlot'
      BY <3>1
    <3>3. SuccessHasRow'
      <4> SUFFICES ASSUME NEW x \in Runs \ Dry, NEW e \in Entries, task'[x][e] = "counted"
                   PROVE  \E row \in table' : row.ip = Ip(e) /\ row.ts = stamp'[x][e]
        OBVIOUS
      <4>1. CASE x = r /\ e = current[r]
        <5>1. NewRow(r) \in table' /\ stamp' = stamp
          BY <1>14, <3>1 DEF Commit
        <5>2. NewRow(r).ip = Ip(e) /\ NewRow(r).ts = stamp[x][e]
          BY <4>1
        <5>3. QED BY <5>1, <5>2
      <4>2. CASE task[x][e] = "counted"
        BY <1>14, <3>1, <4>2 DEF Commit
      <4>3. QED BY <1>14, <4>1, <4>2 DEF Commit
    <3>4. QED BY <3>2, <3>3
  <2>2. CASE ~fresh[r]
    <3>1. table' = table
      BY <1>14, <2>2 DEF Commit
    <3>2. \E old \in table : old.ip = Ip(current[r]) /\ old.ts = stamp[r][current[r]]
      BY <1>14, <2>2 DEF Commit
    <3>3. QED BY <1>14, <3>1, <3>2 DEF Commit
  <2>3. QED BY <2>1, <2>2
<1>15. ASSUME NEW r \in Runs, SaveFails(r)
      PROVE OneRowPerSlot' /\ SuccessHasRow'
  BY <1>15 DEF SaveFails
<1>16. ASSUME NEW r \in Runs, Finish(r)
      PROVE OneRowPerSlot' /\ SuccessHasRow'
  BY <1>16 DEF Finish
<1>17. ASSUME NEW r \in Runs, AbortEnds(r)
      PROVE OneRowPerSlot' /\ SuccessHasRow'
  BY <1>17 DEF AbortEnds
<1>18. ASSUME NEW r \in Runs, Kill(r)
      PROVE OneRowPerSlot' /\ SuccessHasRow'
  BY <1>18 DEF Kill
<1>19. CASE UNCHANGED vars
  BY <1>19
<1>20. QED
  BY <1>1, <1>2, <1>3, <1>4, <1>5, <1>6, <1>7, <1>8, <1>9, <1>10,
     <1>11, <1>12, <1>13, <1>14, <1>15, <1>16, <1>17, <1>18, <1>19
     DEF Next, Worker, Main

(* There is one entry per configured printer (config["printers"]).         *)
LEMMA EntriesFinite == IsFiniteSet(Entries) /\ Cardinality(Entries) = Len(Printers)
<1>1. Len(Printers) \in Nat
  BY PrintersAssumption DEF PrintersAssumption
<1> DEFINE n == Len(Printers)
<1>2. 1 \in Int /\ n \in Int /\ n \in Nat
  BY <1>1
<1> HIDE DEF n
<1>3. /\ IsFiniteSet(1..n)
      /\ Cardinality(1..n) = IF 1 > n THEN 0 ELSE n - 1 + 1
  BY <1>2, FS_Interval
<1>4. (IF 1 > n THEN 0 ELSE n - 1 + 1) = n
  BY <1>2
<1> QED BY <1>3, <1>4 DEF Entries, n

(* The entries of a run in one status can be counted.                      *)
LEMMA WithFinite ==
  ASSUME NEW r \in Runs, NEW status
  PROVE  IsFiniteSet(With(r, status)) /\ Cardinality(With(r, status)) \in Nat
  BY EntriesFinite, FS_Subset, FS_CardinalityType DEF With

(* Taking a future moves its entry to one of the two tallies of            *)
(* run_collection; nothing else changes what was taken.                    *)
LEMMA TallyStep ==
  ASSUME IInv, [Next]_vars PROVE Tally'
<1> USE DEF IInv
<1> DEFINE Same == /\ success' = success /\ fail' = fail
                   /\ \A x \in Runs : /\ With(x, "counted")' = With(x, "counted")
                                      /\ With(x, "missed")' = With(x, "missed")
<1>1. ASSUME Same PROVE Tally'
  BY <1>1 DEF Tally
<1>2. ASSUME UNCHANGED <<task, success, fail>> PROVE Tally'
  BY <1>1, <1>2 DEF With
<1>3. ASSUME NEW r \in Runs, NEW e \in Entries, NEW status \in {"polling", "answered", "failed"},
             task[r][e] \in {"queued", "polling"}, task' = [task EXCEPT ![r][e] = status],
             UNCHANGED <<success, fail>>
      PROVE Tally'
  BY <1>1, <1>3 DEF With, TypeOK
<1>4. ASSUME NEW r \in Runs, NEW e \in Entries, TakeFailure(r, e) PROVE Tally'
  <2>1. With(r, "missed")' = With(r, "missed") \union {e} /\ e \notin With(r, "missed")
    BY <1>4 DEF With, TypeOK, TakeFailure
  <2>2. Cardinality(With(r, "missed")') = Cardinality(With(r, "missed")) + 1
    BY <2>1, WithFinite, FS_AddElement
  <2>3. /\ With(r, "counted")' = With(r, "counted")
        /\ \A x \in Runs \ {r} : /\ With(x, "counted")' = With(x, "counted")
                                 /\ With(x, "missed")' = With(x, "missed")
    BY <1>4 DEF With, TypeOK, TakeFailure
  <2>4. fail' = [fail EXCEPT ![r] = @ + 1] /\ success' = success
    BY <1>4 DEF TakeFailure
  <2>5. QED BY <2>2, <2>3, <2>4 DEF Tally, TypeOK
<1>5. ASSUME NEW r \in Runs, NEW e \in Entries, task[r][e] = "answered",
             task' = [task EXCEPT ![r][e] = "counted"],
             success' = [success EXCEPT ![r] = @ + 1], fail' = fail
      PROVE Tally'
  <2>1. With(r, "counted")' = With(r, "counted") \union {e} /\ e \notin With(r, "counted")
    BY <1>5 DEF With, TypeOK
  <2>2. Cardinality(With(r, "counted")') = Cardinality(With(r, "counted")) + 1
    BY <2>1, WithFinite, FS_AddElement
  <2>3. /\ With(r, "missed")' = With(r, "missed")
        /\ \A x \in Runs \ {r} : /\ With(x, "counted")' = With(x, "counted")
                                 /\ With(x, "missed")' = With(x, "missed")
    BY <1>5 DEF With, TypeOK
  <2>4. success' = [success EXCEPT ![r] = @ + 1] /\ fail' = fail
    BY <1>5
  <2>5. QED BY <2>2, <2>3, <2>4 DEF Tally, TypeOK
<1>6. ASSUME NEW r \in Runs, Worker(r) PROVE Tally'
  BY <1>3, <1>6 DEF Worker, StartPoll, Answer, NoAnswer, book
<1>7. ASSUME NEW r \in Runs, Commit(r) PROVE Tally'
  <2>1. current[r] \in Entries /\ task[r][current[r]] = "answered"
    BY <1>7 DEF Commit, SaveInv
  <2>2. QED BY <1>5, <1>7, <2>1 DEF Commit
<1>8. ASSUME NEW r \in Runs, NEW e \in Entries, TakeDry(r, e) PROVE Tally'
  BY <1>5, <1>8 DEF TakeDry
<1>9. QED
  BY <1>2, <1>4, <1>6, <1>7, <1>8
     DEF Next, Main, vars, pool, book, Tick, PrintLabel, Begin, Submit, OpenFails, TakeAnswer,
         Insert, Locked, SaveFails, Finish, AbortEnds, Kill
-----------------------------------------------------------------------------
(* The invariant holds in every state Collection reaches.                  *)
THEOREM Invariance == Spec => []IInv
<1>1. IInv /\ [Next]_vars => IInv'
  BY TypeStep, SaveStep, ReadingStep, LockingStep, HistoryStep, KeyStep, TallyStep DEF IInv
<1>2. QED BY InitInv, <1>1, PTL DEF Spec

(* Every variable keeps its type.                                          *)
THEOREM TypeCorrect == Spec => []TypeOK
  BY Invariance, PTL DEF IInv

(* The table never holds two rows of one printer and time slot, however    *)
(* the transactions of any number of runs interleave (save_snapshot).      *)
THEOREM UniqueSnapshots == Spec => []OneRowPerSlot
  BY Invariance, PTL DEF IInv

(* A printer counted as a success has a row for the slot it was saved in,  *)
(* its own or the one that was there first (run_collection).               *)
THEOREM SuccessIsBacked == Spec => []SuccessHasRow
  BY Invariance, PTL DEF IInv

(* The summary of a finished run adds up to the configured printers.       *)
THEOREM SummaryIsComplete == Spec => []SummaryAddsUp
<1>1. IInv => SummaryAddsUp
  <2> SUFFICES ASSUME IInv, NEW r \in Runs, main[r] = "done"
               PROVE  success[r] + fail[r] = Len(Printers)
    BY DEF SummaryAddsUp
  <2>1. With(r, "counted") \union With(r, "missed") = Entries
    BY DEF With, IInv, ReadingInv
  <2>2. With(r, "counted") \intersect With(r, "missed") = {}
    BY DEF With
  <2>3. Cardinality(Entries) = Cardinality(With(r, "counted")) + Cardinality(With(r, "missed")) - Cardinality({})
    BY <2>1, <2>2, WithFinite, FS_Union
  <2>4. Cardinality({}) = 0
    BY FS_EmptySet
  <2>5. QED BY <2>3, <2>4, WithFinite, EntriesFinite DEF IInv, Tally
<1>2. QED BY Invariance, <1>1, PTL

(* Counters never go back from a run to a later one (save_snapshot stamps  *)
(* with the time of the save, and a poll reads after its run began).       *)
THEOREM HistoryIsOrdered == Spec => []HistoryOrdered
<1>1. IInv => HistoryOrdered
  <2> SUFFICES ASSUME IInv, NEW a \in table, NEW b \in table,
                      a.ip = b.ip, a.by \in earlier[b.by]
               PROVE  a.ts <= b.ts /\ (a.val # Null /\ b.val # Null => a.val <= b.val)
    BY DEF HistoryOrdered
  <2> USE DEF IInv, TypeOK, Row, Reading
  <2>1. b.by \in Runs /\ a.by \in Runs /\ a.ts \in Nat /\ b.ts \in Nat
    OBVIOUS
  <2>2. a.ts <= Slot(began[b.by]) /\ (a.val # Null => a.val <= floor[b.by][a.ip])
    BY <2>1 DEF EarlierInv
  <2>3. Slot(began[b.by]) <= b.ts /\ (b.val # Null => floor[b.by][b.ip] <= b.val)
    BY <2>1 DEF RowInv, Since
  <2>4. Slot(began[b.by]) \in Nat
    BY <2>1, SlotIsFloor
  <2>5. QED BY <2>1, <2>2, <2>3, <2>4
<1>2. QED BY Invariance, <1>1, PTL

(* A history written by the scheduled task alone only grows: IgnoreNew of  *)
(* build_task_xml makes any two of its runs one after the other.           *)
THEOREM ScheduledHistoryIsMonotone == Spec => []ScheduledHistoryGrows
<1>1. IInv /\ HistoryOrdered => ScheduledHistoryGrows
  <2> SUFFICES ASSUME IInv, HistoryOrdered, NEW a \in table, NEW b \in table,
                      a.by \in Scheduled, b.by \in Scheduled, a.by # b.by,
                      a.ip = b.ip, a.ts < b.ts, a.val # Null, b.val # Null
               PROVE  a.val <= b.val
    BY DEF ScheduledHistoryGrows
  <2>1. a.by \in earlier[b.by] \/ b.by \in earlier[a.by]
    BY DEF IInv, SerialInv, RowInv
  <2>2. ~(b.by \in earlier[a.by])
    BY DEF HistoryOrdered, IInv, TypeOK, Row
  <2>3. QED BY <2>1, <2>2 DEF HistoryOrdered
<1>2. QED BY Invariance, HistoryIsOrdered, <1>1, PTL
-----------------------------------------------------------------------------
(* The threads, the lock and the failures of any number of runs implement  *)
(* the log of SnapshotLog.                                                 *)
LEMMA LogInit == Init => Log!Init
  BY DEF Init, Log!Init, Life

(* Every step of a run is a step of the log or invisible in it.            *)
LEMMA LogStep ==
  ASSUME IInv, [Next]_vars PROVE [Log!Next]_Log!logVars
<1> USE DEF IInv, TypeOK, vars, world, pool, book, past, Over, Pooled, Log!logVars, Life
<1> DEFINE life == [r \in Runs |-> Life(r)]
<1>1. ASSUME UNCHANGED <<now, counter, table, began, floor>>,
             \A x \in Runs : Life(x)' = Life(x)
      PROVE  UNCHANGED Log!logVars
  BY <1>1
<1>2. ASSUME NEW r \in Runs, UNCHANGED <<now, counter, table, began, floor>>,
             Life(r) # "closed", Life(r)' = "closed",
             \A x \in Runs \ {r} : Life(x)' = Life(x)
      PROVE  Log!Next
  <2>1. Log!Close(r)
    BY <1>2 DEF Log!Close
  <2>2. QED BY <2>1 DEF Log!Next
<1>3. CASE Tick
  BY <1>3 DEF Tick, Log!Tick, Log!Next
<1>4. ASSUME NEW ip \in Ips, PrintLabel(ip) PROVE Log!Next
  BY <1>4 DEF PrintLabel, Log!PrintLabel, Log!Next
<1>5. ASSUME NEW r \in Runs, Begin(r) PROVE Log!Next
  BY <1>5 DEF Begin, Log!Open, Log!Next
<1>6. ASSUME NEW r \in Runs, Commit(r) PROVE [Log!Next]_Log!logVars
  <2>1. \A x \in Runs : Life(x)' = Life(x)
    BY <1>6 DEF Commit
  <2>2. CASE fresh[r]
    <3>1. Log!Record(r, NewRow(r))
      <4> DEFINE e == current[r]
                 row == NewRow(r)
      <4>1. /\ main[r] = "inserted" /\ Life(r) = "open" /\ e \in Entries
            /\ task[r][e] = "answered" /\ KeyFree(row)
        BY <1>6, <2>2 DEF Commit, SaveInv, LockInv
      <4>2. /\ row.by = r /\ row.ip \in Ips /\ row.val \in Nat \union {Null}
            /\ row.ts = stamp[r][e] /\ row.ip = Ip(e) /\ row.val = reading[r][e]
        BY <4>1, EntriesType DEF NewRow, Reading
      <4>3. Log!FreshKey(row)
        BY <4>1 DEF KeyFree, Log!FreshKey
      <4>4. Slot(began[r]) <= row.ts /\ row.ts <= now
        BY <4>1, <4>2, EntriesType, SlotIsFloor DEF SaveInv
      <4>5. row.val # Null => floor[r][row.ip] <= row.val /\ row.val <= counter[row.ip]
        BY <4>1, <4>2 DEF ReadingInv, Since
      <4>6. /\ table' = table \union {row}
            /\ UNCHANGED <<now, counter, life, began, floor>>
        BY <1>6, <2>1, <2>2 DEF Commit
      <4> HIDE DEF IInv, TypeOK, Life
      <4>7. QED
        BY <4>1, <4>2, <4>3, <4>4, <4>5, <4>6 DEF Log!Record, Log!Slot, Slot
    <3>2. NewRow(r) \in table'
      BY <1>6, <2>2 DEF Commit
    <3>3. QED BY <3>1, <3>2 DEF Log!Next
  <2>3. CASE ~fresh[r]
    BY <1>1, <1>6, <2>1, <2>3 DEF Commit
  <2>4. QED BY <2>2, <2>3
<1>7. ASSUME NEW r \in Runs, OpenFails(r) \/ Finish(r) \/ AbortEnds(r) \/ Kill(r)
      PROVE  Log!Next
  BY <1>2, <1>7 DEF OpenFails, Finish, AbortEnds, Kill
<1>8. ASSUME NEW r \in Runs, Worker(r) PROVE UNCHANGED Log!logVars
  BY <1>1, <1>8 DEF Worker, StartPoll, Answer, NoAnswer
<1>9. ASSUME NEW r \in Runs,
             \/ Submit(r) \/ Insert(r) \/ Locked(r) \/ SaveFails(r)
             \/ \E e \in Entries : TakeFailure(r, e) \/ TakeDry(r, e) \/ TakeAnswer(r, e)
      PROVE  UNCHANGED Log!logVars
  BY <1>1, <1>9 DEF Submit, Insert, Locked, SaveFails, TakeFailure, TakeDry, TakeAnswer
<1>10. CASE UNCHANGED vars
  BY <1>1, <1>10
<1>11. QED
  BY <1>3, <1>4, <1>5, <1>6, <1>7, <1>8, <1>9, <1>10 DEF Next, Main

(* The committed table of any number of runs is the log of SnapshotLog:    *)
(* rows are added once, under a fresh key, by open runs, and true to what  *)
(* the printers showed (save_snapshot, run_collection).                    *)
THEOREM Refinement == Spec => LogSpec
  BY Invariance, LogInit, LogStep, PTL DEF Spec, LogSpec, Log!Spec
=============================================================================
