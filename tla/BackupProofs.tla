---------------------------- MODULE BackupProofs ----------------------------
(***************************************************************************)
(* Proofs about Backup, for any commands, any number of backups to keep,   *)
(* any faults and any bounds: the invariant IInv, and from it what pruning *)
(* may remove and how many it leaves, what a command has in its backup,    *)
(* and the order of removal while the clock only goes forward.             *)
(***************************************************************************)
EXTENDS Backup, Facts

Places == {"idle"} \union Copying \union Pruning \union Backed \union Over
-----------------------------------------------------------------------------
(* Counting: names are finitely many, and adding names only raises counts. *)
LEMMA CountGrows ==
  ASSUME NEW S, NEW T, T \in SUBSET Names, S \subseteq T
  PROVE  /\ IsFiniteSet(S) /\ IsFiniteSet(T)
         /\ Cardinality(S) \in Nat /\ Cardinality(T) \in Nat
         /\ Cardinality(S) <= Cardinality(T)
<1>1. IsFiniteSet(Names)
  BY BoundsAssumption, FS_Interval DEF Names
<1>2. IsFiniteSet(T) /\ IsFiniteSet(S)
  BY <1>1, FS_Subset
<1> QED BY <1>2, FS_Subset, FS_CardinalityType

LEMMA NewerCounts ==
  ASSUME TypeOK, TypeOK', made \subseteq made', NEW n
  PROVE  /\ Cardinality(Newer(n)) \in Nat /\ Cardinality(Newer(n)') \in Nat
         /\ Cardinality(Newer(n)) <= Cardinality(Newer(n)')
<1>1. Newer(n) \subseteq Newer(n)' /\ Newer(n)' \in SUBSET Names
  BY DEF Newer, TypeOK
<1> QED BY <1>1, CountGrows

(* What Excess lists really is in excess of the last Keep, and with every  *)
(* name it lists all earlier ones.                                         *)
LEMMA ExcessFacts ==
  ASSUME TypeOK, dirs \subseteq made, NEW n \in Excess(dirs)
  PROVE  /\ n \in dirs
         /\ Cardinality(Newer(n)) >= Keep
         /\ \A m \in dirs : m < n => m \in Excess(dirs)
<1> DEFINE Above(k) == {m \in dirs : m > k}
<1>1. n \in dirs /\ Cardinality(Above(n)) >= Keep /\ n \in Nat
  BY BoundsAssumption DEF Excess, TypeOK, Names
<1>2. Above(n) \subseteq Newer(n) /\ Newer(n) \in SUBSET Names
  BY DEF Newer, TypeOK
<1>3. Cardinality(Newer(n)) >= Keep
  BY <1>1, <1>2, CountGrows, KeepAssumption
<1>4. ASSUME NEW m \in dirs, m < n  PROVE m \in Excess(dirs)
  <2>0. \A k \in dirs : k \in Int
    BY BoundsAssumption DEF TypeOK, Names
  <2>1. \A k \in dirs : k > n => k > m
    BY <1>1, <1>4, <2>0
  <2>2. Above(n) \subseteq Above(m) /\ Above(m) \in SUBSET Names
    BY <2>1 DEF TypeOK
  <2>3. Cardinality(Above(m)) >= Keep
    BY <1>1, <2>2, CountGrows, KeepAssumption
  <2> QED BY <2>3 DEF Excess
<1> QED BY <1>1, <1>3, <1>4
-----------------------------------------------------------------------------
(* The steps that only take a command from one place to the next.          *)
Moves(p) ==
  \/ Verify(p) \/ VerifyFails(p) \/ CopyFails(p)
  \/ RemoveMissing(p) \/ Pruned(p) \/ Kill(p)

Looking == {"named", "verifying"}

Moved(p, b) ==
  /\ b \in Places \ {"idle", "open", "closing"}
  /\ pc' = [pc EXCEPT ![p] = b]
  /\ pc[p] # "idle"
  /\ b \in Looking => pc[p] \in Looking
  /\ b \in Pruning \union Backed => pc[p] \in Pruning

LEMMA MovesMove ==
  ASSUME NEW p \in Procs, Moves(p)
  PROVE  UNCHANGED <<clock, store, database, command>> /\ \E b : Moved(p, b)
<1> USE DEF Places, Copying, Pruning, Backed, Over, Looking, Go, Moved
<1>1. ASSUME Verify(p)        PROVE Moved(p, "verifying")  BY <1>1 DEF Verify
<1>2. ASSUME VerifyFails(p)   PROVE Moved(p, "failed")     BY <1>2 DEF VerifyFails
<1>3. ASSUME CopyFails(p)     PROVE Moved(p, "failed")     BY <1>3 DEF CopyFails
<1>4. ASSUME RemoveMissing(p) PROVE Moved(p, "failed")     BY <1>4 DEF RemoveMissing
<1>5. ASSUME Pruned(p)        PROVE Moved(p, "ready")      BY <1>5 DEF Pruned
<1>6. ASSUME Kill(p)          PROVE Moved(p, "failed")     BY <1>6 DEF Kill, Live
<1>7. \E b : Moved(p, b)
  <2> HIDE DEF Moved
  <2> QED BY <1>1, <1>2, <1>3, <1>4, <1>5, <1>6 DEF Moves
<1>8. UNCHANGED <<clock, store, database, command>>
  BY DEF Moves, Verify, VerifyFails, CopyFails, RemoveMissing, Pruned, Kill
<1> QED BY <1>7, <1>8

LEMMA NextCases ==
  ASSUME Next
  PROVE  \/ Tick \/ SetBack
         \/ \E p \in Procs :
              \/ Stamp(p) \/ NoDatabase(p) \/ CopyBegins(p) \/ CopyEnds(p)
              \/ ListBackups(p) \/ Remove(p) \/ RemoveFails(p)
              \/ Open(p) \/ Commit(p) \/ Close(p) \/ Checkpointed(p)
              \/ Moves(p)
BY DEF Next, BackupStep, DatabaseStep, Moves
-----------------------------------------------------------------------------
LEMMA TypeInit == Init => TypeOK
BY BoundsAssumption, SMTT(30)
DEF Init, TypeOK, Names, Copy, Copying, Pruning, Backed, Over

LEMMA TypeStep == TypeOK /\ [Next]_vars => TypeOK'
<1> SUFFICES ASSUME TypeOK, [Next]_vars  PROVE TypeOK'
  OBVIOUS
<1> USE BoundsAssumption DEF TypeOK, clock, store, database, command, Go
<1> DEFINE Where == {"idle"} \union Copying \union Pruning \union Backed \union Over
<1>0. CASE UNCHANGED vars
  BY <1>0 DEF vars
<1>1. CASE Tick
  BY <1>1 DEF Tick, Names
<1>2. CASE SetBack
  BY <1>2 DEF SetBack, Names
<1>3. ASSUME NEW p \in Procs, Stamp(p)  PROVE TypeOK'
  <2>1. "named" \in Where  BY DEF Copying
  <2>2. pc' \in [Procs -> Where] /\ name' \in [Procs -> Names]
    BY <1>3, <2>1 DEF Stamp
  <2>3. dirs' \in SUBSET Names /\ made' \in SUBSET Names /\ born' \in [Names -> Nat]
    BY <1>3 DEF Stamp
  <2>4. copy' \in [Names -> [state : {"none", "partial", "whole", "torn"}, rows : Nat]]
    BY <1>3 DEF Stamp, Copy
  <2>5. base' \in [Procs -> Nat] /\ rows + wal \in Nat
    BY <1>3 DEF Stamp
  <2>6. alone' \in [Procs -> BOOLEAN]
    BY <1>3 DEF Stamp
  <2> QED BY <1>3, <2>2, <2>3, <2>4, <2>5, <2>6 DEF Stamp
<1>4. ASSUME NEW p \in Procs, NoDatabase(p)  PROVE TypeOK'
  <2> "copied" \in Where  BY DEF Pruning
  <2> QED BY <1>4 DEF NoDatabase
<1>5. ASSUME NEW p \in Procs, CopyBegins(p)  PROVE TypeOK'
  <2> "copying" \in Where  BY DEF Copying
  <2> QED BY <1>5 DEF CopyBegins, Copy
<1>6. ASSUME NEW p \in Procs, CopyEnds(p)  PROVE TypeOK'
  <2> "copied" \in Where  BY DEF Pruning
  <2> QED BY <1>6 DEF CopyEnds, Copy
<1>7. ASSUME NEW p \in Procs, ListBackups(p)  PROVE TypeOK'
  <2> "pruning" \in Where /\ Excess(dirs) \subseteq dirs  BY DEF Pruning, Excess
  <2> QED BY <1>7 DEF ListBackups
<1>8. ASSUME NEW p \in Procs, Remove(p)  PROVE TypeOK'
  BY <1>8 DEF Remove
<1>9. ASSUME NEW p \in Procs, RemoveFails(p)  PROVE TypeOK'
  <2> "failed" \in Where  BY DEF Over
  <2> QED BY <1>9 DEF RemoveFails, Copy
<1>10. ASSUME NEW p \in Procs, Open(p)  PROVE TypeOK'
  <2> "open" \in Where  BY DEF Backed
  <2> QED BY <1>10 DEF Open
<1>11. ASSUME NEW p \in Procs, Commit(p)  PROVE TypeOK'
  BY <1>11 DEF Commit
<1>12. ASSUME NEW p \in Procs, Close(p)  PROVE TypeOK'
  <2> "closing" \in Where /\ "done" \in Where  BY DEF Backed
  <2> QED BY <1>12 DEF Close
<1>13. ASSUME NEW p \in Procs, Checkpointed(p)  PROVE TypeOK'
  <2> "done" \in Where  BY DEF Over
  <2> QED BY <1>13 DEF Checkpointed
<1>14. ASSUME NEW p \in Procs, Moves(p)  PROVE TypeOK'
  <2> PICK b : Moved(p, b)  BY <1>14, MovesMove
  <2> b \in Where  BY DEF Moved, Places
  <2> QED BY <1>14, MovesMove DEF Moved
<1> QED BY <1>0, <1>1, <1>2, <1>3, <1>4, <1>5, <1>6, <1>7, <1>8, <1>9,
           <1>10, <1>11, <1>12, <1>13, <1>14, NextCases
-----------------------------------------------------------------------------
(* Names once made stay made, so the counts of MadeInv never fall.         *)
LEMMA MadeGrows == ASSUME [Next]_vars  PROVE made \subseteq made'
<1>1. CASE UNCHANGED vars
  BY <1>1 DEF vars, store
<1>2. CASE Tick \/ SetBack
  BY <1>2 DEF Tick, SetBack, store
<1>3. ASSUME NEW p \in Procs, Moves(p)  PROVE made \subseteq made'
  BY <1>3, MovesMove DEF store
<1> QED
  BY <1>1, <1>2, <1>3, NextCases
  DEF Stamp, NoDatabase, CopyBegins, CopyEnds, ListBackups, Remove, RemoveFails,
      Open, Commit, Close, Checkpointed, store

LEMMA MadeStep ==
  ASSUME TypeOK, TypeOK', MadeInv, [Next]_vars
  PROVE  MadeInv'
<1>0. ASSUME NEW n
      PROVE  /\ Cardinality(Newer(n)) \in Nat /\ Cardinality(Newer(n)') \in Nat
             /\ Cardinality(Newer(n)) <= Cardinality(Newer(n)')
  BY MadeGrows, NewerCounts
<1> DEFINE Named == \A p \in Procs : pc[p] # "idle" => name[p] \in made
           Behind == \A p \in Procs : \A n \in todo[p] : Cardinality(Newer(n)) >= Keep
<1>1. Named /\ Behind /\ NewestSurvive /\ dirs \subseteq made
  BY DEF MadeInv
<1>2. ASSUME UNCHANGED <<store, todo>>,
             \/ UNCHANGED <<pc, name>>
             \/ \E p \in Procs : \E b : pc' = [pc EXCEPT ![p] = b] /\ pc[p] # "idle" /\ name' = name
      PROVE  MadeInv'
  <2>1. Named'
    BY <1>1, <1>2 DEF TypeOK, store
  <2>2. Behind' /\ NewestSurvive' /\ dirs' \subseteq made'
    BY <1>1, <1>2 DEF store, NewestSurvive, Newer
  <2> QED BY <2>1, <2>2 DEF MadeInv
<1>3. ASSUME NEW p \in Procs, Stamp(p)  PROVE MadeInv'
  <2>1. Named' /\ dirs' \subseteq made'
    BY <1>1, <1>3 DEF Stamp, Go, TypeOK
  <2>2. Behind'
    <3> SUFFICES ASSUME NEW q \in Procs, NEW n \in todo[q]
                 PROVE  Cardinality(Newer(n)') >= Keep
      BY <1>3 DEF Stamp
    <3> QED BY <1>0, <1>1, KeepAssumption
  <2>3. NewestSurvive'
    <3> SUFFICES ASSUME NEW n \in made \ dirs
                 PROVE  Cardinality(Newer(n)') >= Keep
      BY <1>3 DEF Stamp, NewestSurvive
    <3> QED BY <1>0, <1>1, KeepAssumption DEF NewestSurvive
  <2> QED BY <2>1, <2>2, <2>3 DEF MadeInv
<1>4. ASSUME NEW p \in Procs, ListBackups(p)  PROVE MadeInv'
  <2>1. Behind'
    BY <1>1, <1>4, ExcessFacts DEF ListBackups, store, Newer, TypeOK
  <2>2. Named' /\ NewestSurvive' /\ dirs' \subseteq made'
    BY <1>1, <1>4 DEF ListBackups, Go, TypeOK, store, NewestSurvive, Newer
  <2> QED BY <2>1, <2>2 DEF MadeInv
<1>5. ASSUME NEW p \in Procs, Remove(p)  PROVE MadeInv'
  <2>1. PICK n \in Oldest(p) : dirs' = dirs \ {n} /\ todo' = [todo EXCEPT ![p] = @ \ {n}]
    BY <1>5 DEF Remove
  <2>2. n \in todo[p] /\ Cardinality(Newer(n)) >= Keep
    BY <1>1 DEF Oldest
  <2>3. Behind'
    BY <1>1, <1>5, <2>1 DEF Remove, Newer, TypeOK
  <2>4. NewestSurvive'
    BY <1>1, <1>5, <2>1, <2>2 DEF Remove, NewestSurvive, Newer
  <2>5. Named' /\ dirs' \subseteq made'
    BY <1>1, <1>5, <2>1 DEF Remove
  <2> QED BY <2>3, <2>4, <2>5 DEF MadeInv
<1>6. ASSUME NEW p \in Procs, CopyBegins(p) \/ CopyEnds(p) \/ RemoveFails(p)  PROVE MadeInv'
  <2>1. Named'
    BY <1>1, <1>6 DEF CopyBegins, CopyEnds, RemoveFails, Go, TypeOK, command
  <2>2. Behind' /\ NewestSurvive' /\ dirs' \subseteq made'
    BY <1>1, <1>6 DEF CopyBegins, CopyEnds, RemoveFails, command, NewestSurvive, Newer
  <2> QED BY <2>1, <2>2 DEF MadeInv
<1>7. CASE UNCHANGED vars
  BY <1>2, <1>7 DEF vars, command
<1>8. CASE Tick \/ SetBack
  BY <1>2, <1>8 DEF Tick, SetBack, command
<1>9. ASSUME NEW p \in Procs, Moves(p)  PROVE MadeInv'
  BY <1>2, <1>9, MovesMove DEF Moved, command
<1>10. ASSUME NEW p \in Procs,
              NoDatabase(p) \/ Open(p) \/ Commit(p) \/ Close(p) \/ Checkpointed(p)
       PROVE  MadeInv'
  BY <1>2, <1>10 DEF NoDatabase, Open, Commit, Close, Checkpointed, Go, command
<1> QED BY <1>3, <1>4, <1>5, <1>6, <1>7, <1>8, <1>9, <1>10, NextCases
-----------------------------------------------------------------------------
LEMMA RowsStep == ASSUME TypeOK, RowsInv, [Next]_vars  PROVE RowsInv'
<1> USE DEF RowsInv, TypeOK, database, command, Connected, Go
<1>1. CASE UNCHANGED vars
  BY <1>1 DEF vars
<1>2. CASE Tick \/ SetBack
  BY <1>2 DEF Tick, SetBack
<1>3. ASSUME NEW p \in Procs, Stamp(p)  PROVE RowsInv'
  BY <1>3 DEF Stamp
<1>4. ASSUME NEW p \in Procs, NoDatabase(p) \/ CopyBegins(p) \/ CopyEnds(p)
      PROVE  RowsInv'
  BY <1>4 DEF NoDatabase, CopyBegins, CopyEnds
<1>5. ASSUME NEW p \in Procs, ListBackups(p) \/ Remove(p) \/ RemoveFails(p)
      PROVE  RowsInv'
  BY <1>5 DEF ListBackups, Remove, RemoveFails
<1>6. ASSUME NEW p \in Procs, Open(p)  PROVE RowsInv'
  BY <1>6 DEF Open
<1>7. ASSUME NEW p \in Procs, Commit(p)  PROVE RowsInv'
  BY <1>7 DEF Commit
<1>8. ASSUME NEW p \in Procs, Close(p)  PROVE RowsInv'
  BY <1>8 DEF Close
<1>9. ASSUME NEW p \in Procs, Checkpointed(p)  PROVE RowsInv'
  BY <1>9 DEF Checkpointed
<1>10. ASSUME NEW p \in Procs, Moves(p)  PROVE RowsInv'
  <2>1. PICK b : Moved(p, b)
    BY <1>10, MovesMove
  <2>2. UNCHANGED <<file, rows, wal, base>> /\ Connected' \subseteq Connected
    BY <1>10, <2>1, MovesMove DEF Moved, Pruning, Backed
  <2> QED BY <2>2
<1> QED BY <1>1, <1>2, <1>3, <1>4, <1>5, <1>6, <1>7, <1>8, <1>9, <1>10, NextCases
-----------------------------------------------------------------------------
LEMMA QuietStep ==
  ASSUME TypeOK, QuietInv, [Next]_vars
  PROVE  QuietInv'
<1> DEFINE Busy == \E p \in Procs : pc[p] \notin {"idle", "done"}
           Torn == \E p \in Procs : pc[p] \in {"closing", "failed"}
           Still(p) == alone[p] /\ pc[p] \in Copying =>
                         /\ \A q \in Procs \ {p} : pc[q] \in {"idle", "done"}
                         /\ wal = 0 /\ rows = base[p]
                         /\ pc[p] = "copying" => ~taint[p]
<1>1. /\ wal > 0 => Busy
      /\ file = "torn" => Torn
      /\ \A p \in Procs : Still(p)
  BY DEF QuietInv
<1>2. ASSUME wal' > 0 => Busy', file' = "torn" => Torn', \A p \in Procs : Still(p)'
      PROVE  QuietInv'
  BY <1>2 DEF QuietInv
<1> USE DEF TypeOK, database, command, Go

(* A command p that is not through and moves on to b without touching the  *)
(* database: only if it copies at b does anything depend on it.            *)
<1>3. ASSUME NEW p \in Procs, NEW b, pc[p] \notin {"idle", "done"},
             pc[p] \in {"closing", "failed"} => b = "failed",
             b \notin {"idle", "done"}, pc' = [pc EXCEPT ![p] = b],
             UNCHANGED <<file, rows, wal, base, alone>>,
             \A q \in Procs \ {p} : taint'[q] = taint[q],
             b \in Copying => pc[p] \in Copying,
             b = "copying" => (Still(p) => Still(p)')
      PROVE  QuietInv'
  <2>1. pc'[p] = b /\ \A q \in Procs \ {p} : pc'[q] = pc[q]
    BY <1>3
  <2>2. Busy'
    BY <1>3, <2>1
  <2>3. file' = "torn" => Torn'
    BY <1>1, <1>3, <2>1
  <2>4. ASSUME NEW q \in Procs, alone'[q], pc'[q] \in Copying  PROVE Still(q)'
    <3>1. CASE q = p
      BY <1>1, <1>3, <2>1, <2>4, <3>1
    <3>2. CASE q # p
      BY <1>1, <1>3, <2>1, <2>4, <3>2
    <3> QED BY <3>1, <3>2
  <2> QED BY <1>2, <2>2, <2>3, <2>4

<1>4. ASSUME UNCHANGED <<database, pc, taint, base, alone>>  PROVE QuietInv'
  BY <1>4 DEF QuietInv
<1>5. ASSUME NEW p \in Procs, Stamp(p)  PROVE QuietInv'
  <2>1. pc'[p] = "named" /\ (\A q \in Procs \ {p} : pc'[q] = pc[q]) /\ pc[p] = "idle"
    BY <1>5 DEF Stamp
  <2>2. Busy' /\ (file' = "torn" => Torn')
    BY <1>1, <1>5, <2>1 DEF Stamp
  <2>3. ASSUME NEW q \in Procs, alone'[q], pc'[q] \in Copying  PROVE Still(q)'
    <3>1. q = p /\ \A r \in Procs \ {p} : pc[r] \in {"idle", "done"}
      BY <1>5, <2>1, <2>3 DEF Stamp
    <3>2. wal = 0
      BY <1>1, <2>1, <3>1
    <3> QED BY <1>5, <2>1, <3>1, <3>2 DEF Stamp
  <2> QED BY <1>2, <2>2, <2>3
<1>6. ASSUME NEW p \in Procs, NoDatabase(p) \/ CopyEnds(p) \/ ListBackups(p) \/ RemoveFails(p)
      PROVE  QuietInv'
  <2>1. PICK b \in {"copied", "pruning", "failed"} : pc' = [pc EXCEPT ![p] = b]
    BY <1>6 DEF NoDatabase, CopyEnds, ListBackups, RemoveFails
  <2>2. pc[p] \in {"named", "copying", "copied", "pruning"}
        /\ UNCHANGED <<file, rows, wal, base, alone, taint>>
    BY <1>6 DEF NoDatabase, CopyEnds, ListBackups, RemoveFails
  <2> QED BY <1>3, <2>1, <2>2 DEF Copying
<1>7. ASSUME NEW p \in Procs, CopyBegins(p)  PROVE QuietInv'
  <2>1. /\ pc[p] = "verifying" /\ pc' = [pc EXCEPT ![p] = "copying"]
        /\ UNCHANGED <<file, rows, wal, base, alone>>
        /\ taint'[p] = (file = "torn") /\ \A q \in Procs \ {p} : taint'[q] = taint[q]
    BY <1>7 DEF CopyBegins
  <2>2. pc'[p] = "copying" /\ \A q \in Procs \ {p} : pc'[q] = pc[q]
    BY <2>1
  <2>3. Still(p) => Still(p)'
    <3> SUFFICES ASSUME Still(p), alone[p]  PROVE Still(p)'
      BY <2>1
    <3>1. /\ \A q \in Procs \ {p} : pc[q] \in {"idle", "done"}
          /\ wal = 0 /\ rows = base[p]
      BY <2>1 DEF Copying
    <3>2. file # "torn"
      BY <1>1, <2>1, <3>1
    <3> QED BY <2>1, <2>2, <3>1, <3>2
  <2> QED BY <1>3, <2>1, <2>3 DEF Copying
<1>8. ASSUME NEW p \in Procs, Remove(p)  PROVE QuietInv'
  BY <1>4, <1>8 DEF Remove
<1>9. ASSUME NEW p \in Procs, Open(p)  PROVE QuietInv'
  <2>1. pc'[p] = "open" /\ (\A q \in Procs \ {p} : pc'[q] = pc[q]) /\ pc[p] = "ready"
    BY <1>9 DEF Open
  <2>2. Busy' /\ (file' = "torn" => Torn')
    BY <1>1, <1>9, <2>1 DEF Open
  <2>3. ASSUME NEW q \in Procs, alone'[q], pc'[q] \in Copying  PROVE Still(q)'
    BY <1>1, <1>9, <2>1, <2>3 DEF Open, Copying
  <2> QED BY <1>2, <2>2, <2>3
<1>10. ASSUME NEW p \in Procs, Commit(p)  PROVE QuietInv'
  <2>1. pc[p] = "open" /\ UNCHANGED <<pc, file, rows, taint, base, alone>>
    BY <1>10 DEF Commit
  <2>2. Busy' /\ (file' = "torn" => Torn')
    BY <1>1, <2>1
  <2>3. ASSUME NEW q \in Procs, alone'[q], pc'[q] \in Copying  PROVE Still(q)'
    BY <1>1, <2>1, <2>3 DEF Copying
  <2> QED BY <1>2, <2>2, <2>3
<1>11. ASSUME NEW p \in Procs, Close(p)  PROVE QuietInv'
  <2>0. pc[p] = "open" /\ UNCHANGED <<rows, wal, base, alone>>
    BY <1>11 DEF Close
  <2>1. ASSUME NEW q \in Procs, alone[q]  PROVE pc[q] \notin Copying
    BY <1>1, <2>0, <2>1 DEF Copying
  <2>2. CASE pc' = [pc EXCEPT ![p] = "closing"]
    <3>1. pc'[p] = "closing" /\ \A q \in Procs \ {p} : pc'[q] = pc[q]
      BY <2>2
    <3>2. ASSUME NEW q \in Procs, alone'[q]  PROVE pc'[q] \notin Copying
      BY <2>0, <2>1, <3>1, <3>2 DEF Copying
    <3> QED BY <1>2, <3>1, <3>2
  <2>3. CASE /\ ~(wal > 0 /\ Connected = {p} /\ Readers = {})
             /\ pc' = [pc EXCEPT ![p] = "done"] /\ UNCHANGED <<file, taint>>
    <3>1. pc'[p] = "done" /\ \A q \in Procs \ {p} : pc'[q] = pc[q]
      BY <2>3
    <3>2. ASSUME NEW q \in Procs, alone'[q]  PROVE pc'[q] \notin Copying
      BY <2>0, <2>1, <3>1, <3>2 DEF Copying
    <3>3. wal' > 0 => Busy'
      <4> SUFFICES ASSUME wal > 0  PROVE Busy'
        BY <2>0
      <4>1. p \in Connected
        BY <2>0 DEF Connected
      <4>2. \E q \in Procs \ {p} : pc[q] \in {"open", "closing", "verifying"}
        BY <2>3, <4>1 DEF Connected, Readers
      <4> QED BY <3>1, <4>2
    <3>4. file' = "torn" => Torn'
      BY <1>1, <2>0, <2>3, <3>1
    <3> QED BY <1>2, <3>2, <3>3, <3>4
  <2> QED BY <1>11, <2>2, <2>3 DEF Close
<1>12. ASSUME NEW p \in Procs, Checkpointed(p)  PROVE QuietInv'
  <2>0. pc[p] = "closing" /\ file' = "whole" /\ wal' = 0 /\ UNCHANGED <<taint, base, alone>>
    BY <1>12 DEF Checkpointed
  <2>1. ASSUME NEW q \in Procs, alone[q]  PROVE pc[q] \notin Copying
    BY <1>1, <2>0, <2>1 DEF Copying
  <2>2. pc'[p] = "done" /\ \A q \in Procs \ {p} : pc'[q] = pc[q]
    BY <1>12 DEF Checkpointed
  <2>3. ASSUME NEW q \in Procs, alone'[q]  PROVE pc'[q] \notin Copying
    BY <2>0, <2>1, <2>2, <2>3 DEF Copying
  <2> QED BY <1>2, <2>0, <2>3
<1>13. ASSUME NEW p \in Procs, Moves(p)  PROVE QuietInv'
  <2>1. PICK b : Moved(p, b)
    BY <1>13, MovesMove
  <2>2. b \in {"verifying", "failed", "ready"}
    BY <1>13, <2>1 DEF Moves, Moved, Verify, VerifyFails, CopyFails, RemoveMissing, Pruned, Kill
  <2>3. pc[p] \notin {"idle", "done", "failed"} /\ (pc[p] = "closing" => b = "failed")
    BY <1>13, <2>1, <2>2
    DEF Moves, Moved, Verify, VerifyFails, CopyFails, RemoveMissing, Pruned, Kill,
        Live, Copying, Pruning, Backed, Over
  <2>4. b \in Copying => pc[p] \in Copying
    BY <2>1, <2>2 DEF Moved, Looking, Copying
  <2> QED BY <1>3, <1>13, <2>1, <2>2, <2>3, <2>4, MovesMove DEF Moved
<1>14. CASE UNCHANGED vars
  BY <1>4, <1>14 DEF vars
<1>15. CASE Tick \/ SetBack
  BY <1>4, <1>15 DEF Tick, SetBack
<1> QED
  BY <1>5, <1>6, <1>7, <1>8, <1>9, <1>10, <1>11, <1>12, <1>13, <1>14, <1>15, NextCases
-----------------------------------------------------------------------------
(* A directory that is this command's own and not yet to be pruned was so  *)
(* before, when the command only moved on.                                 *)
LEMMA KeptBefore ==
  ASSUME TypeOK, TypeOK', [Next]_vars, NEW p \in Procs, pc[p] # "idle", Kept(p)',
         \A q \in Procs : pc[q] # "idle" => pc'[q] # "idle" /\ name'[q] = name[q]
  PROVE  Kept(p) /\ name'[p] = name[p]
<1>1. Own(p)
  BY DEF Kept, Own
<1>2. Cardinality(Newer(name[p])) \in Nat /\ Cardinality(Newer(name[p])') \in Nat
      /\ Cardinality(Newer(name[p])) <= Cardinality(Newer(name[p])')
  BY MadeGrows, NewerCounts
<1>3. Cardinality(Newer(name[p])') < Keep
  BY DEF Kept, Newer
<1> QED BY <1>1, <1>2, <1>3, KeepAssumption DEF Kept

LEMMA CopyStep ==
  ASSUME TypeOK, TypeOK', MadeInv, RowsInv, QuietInv, CopyInv, [Next]_vars
  PROVE  CopyInv'
<1> DEFINE Old(n) == Foreign(n) /\ Cardinality(Newer(n)) < Keep => copy[n] = Copy("whole", 0)
           Fine(p) ==
             /\ pc[p] \in Looking => Shown(p) \in {Copy("none", 0), Copy("whole", 0)}
             /\ pc[p] \in Pruning \union Backed =>
                  Shown(p).state \in {"whole", "torn"} \/ (Shown(p).state = "none" /\ base[p] = 0)
             /\ alone[p] /\ pc[p] \in Pruning \union {"ready"} =>
                  Shown(p) = Copy("whole", base[p]) \/ Shown(p) = Copy("none", base[p])
<1>1. (\A n \in dirs : Old(n)) /\ \A p \in Procs : Kept(p) => Fine(p)
  BY DEF CopyInv, AloneBackupWhole, Looking
<1>2. ASSUME \A n \in dirs' : Old(n)', \A p \in Procs : Kept(p)' => Fine(p)'
      PROVE  CopyInv'
  BY <1>2 DEF CopyInv, AloneBackupWhole, Looking
<1>3. ASSUME NEW n
      PROVE  /\ Cardinality(Newer(n)) \in Nat /\ Cardinality(Newer(n)') \in Nat
             /\ Cardinality(Newer(n)') < Keep => Cardinality(Newer(n)) < Keep
  BY MadeGrows, NewerCounts, KeepAssumption
<1>4. "idle" \notin Looking \union Pruning \union Backed
  BY DEF Looking, Pruning, Backed
<1>0. \A st, n : Copy(st, n).state = st /\ Copy(st, n).rows = n
  BY DEF Copy

(* A command p that moves on to b, whatever it then wrote: it is enough to *)
(* look at its own directory and at the old ones.                          *)
<1>5. ASSUME NEW p \in Procs, NEW b, pc[p] # "idle", b # "idle",
             pc' = [pc EXCEPT ![p] = b], UNCHANGED <<name, base, alone>>, dirs' \subseteq dirs,
             \A n \in dirs' : n = name[p] \/ Cardinality(Newer(n)) >= Keep \/ copy'[n] = copy[n],
             \A q \in Procs \ {p} : Kept(q) /\ name[q] # name[p] => copy'[name[q]] = copy[name[q]],
             Kept(p) /\ Fine(p) => Fine(p)'
      PROVE  CopyInv'
  <2>1. \A q \in Procs : pc[q] # "idle" => pc'[q] # "idle" /\ name'[q] = name[q]
    BY <1>5 DEF TypeOK
  <2>2. ASSUME NEW n \in dirs'  PROVE Old(n)'
    <3> SUFFICES ASSUME Foreign(n)', Cardinality(Newer(n)') < Keep
                 PROVE  copy'[n] = Copy("whole", 0)
      BY DEF Copy
    <3>1. n # name[p] /\ Foreign(n)
      BY <1>5, <2>1 DEF Foreign
    <3>2. Cardinality(Newer(n)) < Keep /\ ~(Cardinality(Newer(n)) >= Keep)
      BY <1>3, KeepAssumption
    <3> QED BY <1>1, <1>5, <3>1, <3>2
  <2>3. ASSUME NEW q \in Procs, Kept(q)'  PROVE Fine(q)'
    <3>1. CASE pc[q] = "idle"
      BY <1>4, <1>5, <3>1 DEF TypeOK
    <3>2. CASE pc[q] # "idle"
      <4>1. Kept(q) /\ Fine(q)
        BY <1>1, <2>1, <2>3, <3>2, KeptBefore
      <4>2. CASE q = p
        BY <1>5, <4>1, <4>2
      <4>3. CASE q # p
        <5>1. name[q] # name[p]
          BY <1>5, <4>1, <4>3 DEF Kept, Own
        <5>2. copy'[name[q]] = copy[name[q]] /\ pc'[q] = pc[q]
          BY <1>5, <4>1, <4>3, <5>1 DEF TypeOK
        <5>3. Shown(q)' = Shown(q) /\ base'[q] = base[q] /\ alone'[q] = alone[q]
          BY <1>5, <5>2 DEF Shown
        <5> HIDE DEF Copy
        <5> QED BY <4>1, <5>2, <5>3 DEF Copy
      <4> QED BY <4>2, <4>3
    <3> QED BY <3>1, <3>2
  <2> QED BY <1>2, <2>2, <2>3

<1>6. ASSUME UNCHANGED <<dirs, copy, made, name, base, alone, pc>>  PROVE CopyInv'
  BY <1>6 DEF CopyInv, AloneBackupWhole, Kept, Own, Shown, Foreign, Newer, Copy
<1>7. ASSUME NEW p \in Procs, Stamp(p)  PROVE CopyInv'
  <2>1. /\ pc[p] = "idle" /\ pc' = [pc EXCEPT ![p] = "named"]
        /\ name' = [name EXCEPT ![p] = now] /\ base' = [base EXCEPT ![p] = rows + wal]
        /\ dirs' = dirs \union {now}
        /\ copy' = IF now \in dirs THEN copy ELSE [copy EXCEPT ![now] = Copy("none", 0)]
        /\ \A q \in Procs \ {p} : alone'[q] => alone[q]
    BY <1>7 DEF Stamp, Go
  <2>2. pc'[p] = "named" /\ name'[p] = now
    BY <2>1 DEF TypeOK
  <2>3. \A n \in Names : n # now => copy'[n] = copy[n]
    BY <2>1 DEF TypeOK
  <2>4. ASSUME NEW n \in dirs'  PROVE Old(n)'
    <3> SUFFICES ASSUME Foreign(n)', Cardinality(Newer(n)') < Keep
                 PROVE  copy'[n] = Copy("whole", 0)
      BY DEF Copy
    <3>1. n # now /\ n \in dirs /\ Foreign(n)
      BY <2>1, <2>2 DEF Foreign, TypeOK
    <3> QED BY <1>1, <1>3, <2>3, <3>1 DEF TypeOK
  <2>5. ASSUME NEW q \in Procs, Kept(q)', q # p  PROVE Fine(q)'
    <3>1. CASE pc[q] = "idle"
      BY <1>4, <2>1, <2>5, <3>1 DEF TypeOK
    <3>2. CASE pc[q] # "idle"
      <4>1. Kept(q) /\ Fine(q)
        BY <1>1, <2>1, <2>5, <3>2, KeptBefore DEF TypeOK
      <4>2. name'[q] = name[q] /\ pc'[q] = pc[q] /\ base'[q] = base[q] /\ name[q] \in Names
        BY <2>1, <2>5 DEF TypeOK
      <4>3. name[q] # now
        BY <2>2, <2>5, <4>2 DEF Kept, Own
      <4>4. Shown(q)' = Shown(q) /\ (alone'[q] => alone[q])
        BY <2>1, <2>3, <2>5, <4>2, <4>3 DEF Shown
      <4> QED BY <4>1, <4>2, <4>4 DEF Copy
    <3> QED BY <3>1, <3>2
  <2>6. ASSUME Kept(p)'  PROVE Fine(p)'
    <3>0. PICK t \in Names : t = now
      BY DEF TypeOK
    <3>1. Cardinality(Newer(t)') < Keep
      BY <2>2, <2>6, <3>0 DEF Kept, Newer
    <3>2. Foreign(t)
      BY <2>1, <2>6, <3>0 DEF Kept, Own, Foreign, TypeOK
    <3>3. t \in dirs => copy[t] = Copy("whole", 0)
      BY <1>1, <1>3, <3>1, <3>2
    <3>4. copy'[t] \in {Copy("none", 0), Copy("whole", 0)}
      BY <2>1, <3>0, <3>3 DEF TypeOK
    <3> QED BY <2>2, <3>0, <3>4 DEF Shown, Looking, Pruning, Backed, Copy
  <2> QED BY <1>2, <2>4, <2>5, <2>6
<1>8. ASSUME NEW p \in Procs, NoDatabase(p)  PROVE CopyInv'
  <2>1. /\ pc[p] = "named" /\ pc' = [pc EXCEPT ![p] = "copied"] /\ base[p] = 0
        /\ UNCHANGED <<dirs, copy, name, base, alone>>
    BY <1>8 DEF NoDatabase, Go, RowsInv, TypeOK, store, command
  <2>2. Fine(p) => Fine(p)'
    <3> SUFFICES ASSUME Fine(p)  PROVE Fine(p)'
      OBVIOUS
    <3>1. Shown(p)' \in {Copy("none", 0), Copy("whole", 0)}
      BY <2>1 DEF Shown, Looking
    <3>2. pc'[p] = "copied" /\ base'[p] = 0
      BY <2>1 DEF TypeOK
    <3>3. Shown(p)'.state \in {"whole", "none"}
      BY <1>0, <3>1
    <3> QED BY <3>1, <3>2, <3>3 DEF Looking, Copy
  <2> QED BY <1>5, <2>1, <2>2
<1>9. ASSUME NEW p \in Procs, CopyBegins(p)  PROVE CopyInv'
  <2>1. /\ pc[p] = "verifying" /\ pc' = [pc EXCEPT ![p] = "copying"]
        /\ \A n \in Names : n # name[p] => copy'[n] = copy[n]
        /\ UNCHANGED <<dirs, name, base, alone>>
    BY <1>9 DEF CopyBegins, Go, TypeOK
  <2>2. Fine(p)'
    BY <2>1 DEF Looking, Pruning, Backed, TypeOK
  <2> QED BY <1>5, <2>1, <2>2 DEF TypeOK
<1>10. ASSUME NEW p \in Procs, CopyEnds(p)  PROVE CopyInv'
  <2>1. /\ pc[p] = "copying" /\ pc' = [pc EXCEPT ![p] = "copied"]
        /\ \A n \in Names : n # name[p] => copy'[n] = copy[n]
        /\ copy'[name[p]] = Copy(IF taint[p] THEN "torn" ELSE "whole", rows)
        /\ UNCHANGED <<dirs, name, base, alone>>
    BY <1>10 DEF CopyEnds, Go, TypeOK, Copy, command
  <2>2. copy'[name[p]].state \in {"whole", "torn"}
    BY <1>0, <2>1
  <2>3. alone[p] => copy'[name[p]] = Copy("whole", base[p])
    BY <2>1 DEF QuietInv, Copying
  <2>4. Fine(p)'
    BY <2>1, <2>2, <2>3 DEF Looking, Pruning, Backed, TypeOK, Shown, Copy
  <2> QED BY <1>5, <2>1, <2>4 DEF TypeOK
<1>11. ASSUME NEW p \in Procs, ListBackups(p)  PROVE CopyInv'
  <2>1. /\ pc[p] = "copied" /\ pc' = [pc EXCEPT ![p] = "pruning"]
        /\ UNCHANGED <<dirs, copy, name, base, alone>>
    BY <1>11 DEF ListBackups, Go, store
  <2>2. Fine(p) => Fine(p)'
    BY <2>1 DEF Shown, Looking, Pruning, TypeOK, Copy
  <2> QED BY <1>5, <2>1, <2>2
<1>12. ASSUME NEW p \in Procs, Remove(p)  PROVE CopyInv'
  <2>1. /\ pc[p] = "pruning" /\ pc' = [pc EXCEPT ![p] = "pruning"] /\ dirs' \subseteq dirs
        /\ UNCHANGED <<pc, copy, name, base, alone>>
    BY <1>12 DEF Remove, TypeOK
  <2>2. Fine(p) => Fine(p)'
    BY <2>1 DEF Shown, Copy
  <2> QED BY <1>5, <2>1, <2>2
<1>13. ASSUME NEW p \in Procs, RemoveFails(p)  PROVE CopyInv'
  <2>1. PICK n \in Oldest(p) : copy' = [copy EXCEPT ![n] = Copy("partial", 0)]
    BY <1>13 DEF RemoveFails
  <2>2. /\ pc[p] = "pruning" /\ pc' = [pc EXCEPT ![p] = "failed"]
        /\ UNCHANGED <<dirs, name, base, alone>>
    BY <1>13 DEF RemoveFails, Go, command
  <2>3. Cardinality(Newer(n)) >= Keep
    BY DEF MadeInv, Oldest
  <2>4. \A m \in Names : m # n => copy'[m] = copy[m]
    BY <2>1 DEF TypeOK
  <2>5. \A q \in Procs : Kept(q) => copy'[name[q]] = copy[name[q]]
    <3> SUFFICES ASSUME NEW q \in Procs, Kept(q)  PROVE name[q] # n
      BY <2>4 DEF TypeOK
    <3> QED BY <1>3, <2>3, KeepAssumption DEF Kept
  <2>6. Fine(p)'
    BY <2>2 DEF Looking, Pruning, Backed, TypeOK
  <2> QED BY <1>5, <2>2, <2>3, <2>4, <2>5, <2>6 DEF TypeOK
<1>14. ASSUME NEW p \in Procs, Open(p) \/ Close(p) \/ Checkpointed(p)  PROVE CopyInv'
  <2>1. PICK b \in {"open", "closing", "done"} : pc' = [pc EXCEPT ![p] = b]
    BY <1>14 DEF Open, Close, Checkpointed, Go
  <2>2. pc[p] \in Backed /\ UNCHANGED <<dirs, copy, name, base, alone>>
    BY <1>14 DEF Open, Close, Checkpointed, Backed, store, command
  <2>3. Fine(p) => Fine(p)'
    BY <2>1, <2>2 DEF Shown, Looking, Backed, Pruning, TypeOK
  <2>4. b # "idle" /\ pc[p] # "idle"
    BY <2>1, <2>2 DEF Backed
  <2> QED BY <1>5, <2>1, <2>2, <2>3, <2>4
<1>15. ASSUME NEW p \in Procs, Commit(p)  PROVE CopyInv'
  BY <1>6, <1>15 DEF Commit, store, command
<1>16. ASSUME NEW p \in Procs, Moves(p)  PROVE CopyInv'
  <2>1. PICK b : Moved(p, b)
    BY <1>16, MovesMove
  <2>2. UNCHANGED <<dirs, copy, name, base, alone>>
    BY <1>16, MovesMove DEF store, command
  <2>3. Fine(p) => Fine(p)'
    <3>1. pc'[p] = b /\ Shown(p)' = Shown(p)
      BY <2>1, <2>2 DEF Moved, Shown, TypeOK
    <3>2. base'[p] = base[p] /\ alone'[p] = alone[p]
      BY <2>2
    <3>3. /\ b \in Looking => pc[p] \in Looking
          /\ b \in Pruning \union Backed => pc[p] \in Pruning
          /\ "ready" \in Backed
      BY <2>1 DEF Moved, Backed
    <3> QED BY <3>1, <3>2, <3>3, Zenon DEF Copy
  <2> QED BY <1>5, <2>1, <2>2, <2>3 DEF Moved
<1>17. CASE UNCHANGED vars
  BY <1>6, <1>17 DEF vars, store, command
<1>18. CASE Tick \/ SetBack
  BY <1>6, <1>18 DEF Tick, SetBack, store, command
<1> QED
  BY <1>7, <1>8, <1>9, <1>10, <1>11, <1>12, <1>13, <1>14, <1>15, <1>16, <1>17, <1>18, NextCases
-----------------------------------------------------------------------------
(* Of any directory listing, what is not in excess is at most Keep.        *)
LEMMA RestOfExcess ==
  ASSUME TypeOK
  PROVE  Cardinality(dirs \ Excess(dirs)) <= Keep
<1> DEFINE Above(k) == {m \in dirs : m > k}
           Rest == dirs \ Excess(dirs)
<1>1. dirs \in SUBSET Names /\ Names \subseteq Nat /\ Rest \subseteq dirs
  BY BoundsAssumption DEF TypeOK, Names
<1>2. CASE Rest = {}
  BY <1>2, FS_EmptySet, KeepAssumption
<1>3. CASE Rest # {}
  <2>1. PICK n \in Rest : \A m \in Rest : n <= m
    <3> HIDE DEF Rest
    <3> QED BY <1>1, <1>3, LeastOf
  <2>0. ASSUME NEW m \in Rest, m # n  PROVE m \in dirs /\ m > n
    <3>1. n \in Nat /\ m \in Nat /\ m \in dirs /\ n <= m
      BY <1>1, <2>1
    <3> QED BY <2>0, <3>1
  <2>2. Rest \ {n} \subseteq Above(n) /\ Above(n) \in SUBSET Names
    <3> HIDE DEF Rest
    <3> QED BY <1>1, <2>0
  <2>3. /\ Cardinality(Above(n)) \in Nat /\ Cardinality(Rest \ {n}) \in Nat
        /\ Cardinality(Rest \ {n}) <= Cardinality(Above(n))
    BY <2>2, CountGrows
  <2>4. Cardinality(Above(n)) < Keep
    <3>1. ~ (Cardinality(Above(n)) >= Keep)
      BY <2>1 DEF Excess
    <3> HIDE DEF Above
    <3> QED BY <2>3, <3>1, KeepAssumption
  <2>5. IsFiniteSet(Rest)
    BY <1>1, CountGrows
  <2> HIDE DEF Rest, Above
  <2>6. Cardinality(Rest \ {n}) = Cardinality(Rest) - 1 /\ Cardinality(Rest) \in Nat
    BY <2>1, <2>5, FS_RemoveElement, FS_CardinalityType
  <2>7. Cardinality(Rest) <= Keep
    BY <2>3, <2>4, <2>6, KeepAssumption
  <2> QED BY <2>7 DEF Rest
<1> QED BY <1>2, <1>3

(* A bound on one set of pruners gives the bound on another, when no more  *)
(* directories are unlisted and no fewer commands hold one.                *)
LEMMA LimitCarries ==
  ASSUME TypeOK, LimitInv, NEW T \in SUBSET Pruners, NEW D, D \subseteq dirs \ Listed(T),
         NEW H, Holding \ T \subseteq H, H \subseteq Procs
  PROVE  Cardinality(D) <= Keep + Cardinality(H)
<1>1. Cardinality(dirs \ Listed(T)) <= Keep + Cardinality(Holding \ T)
  BY DEF LimitInv
<1>2. /\ Cardinality(D) \in Nat /\ Cardinality(dirs \ Listed(T)) \in Nat
      /\ Cardinality(D) <= Cardinality(dirs \ Listed(T))
  <2>1. dirs \ Listed(T) \in SUBSET Names
    BY DEF TypeOK
  <2> QED BY <2>1, CountGrows
<1>3. /\ Cardinality(H) \in Nat /\ Cardinality(Holding \ T) \in Nat
      /\ Cardinality(Holding \ T) <= Cardinality(H)
  <2>1. IsFiniteSet(H)
    BY ProcsAssumption, FS_Subset
  <2> QED BY <2>1, FS_Subset, FS_CardinalityType
<1> QED BY <1>1, <1>2, <1>3, KeepAssumption

LEMMA LimitStep ==
  ASSUME TypeOK, TypeOK', LimitInv, [Next]_vars
  PROVE  LimitInv'
<1> DEFINE Bounded(S) == Cardinality(dirs \ Listed(S)) <= Keep + Cardinality(Holding \ S)
<1>1. ASSUME \A S \in SUBSET Pruners' : Bounded(S)'  PROVE LimitInv'
  BY <1>1 DEF LimitInv
<1>2. ASSUME NEW S \in SUBSET Pruners', NEW T \in SUBSET Pruners,
             (dirs \ Listed(S))' \subseteq dirs \ Listed(T), Holding \ T \subseteq Holding' \ S
      PROVE  Bounded(S)'
  <2> DEFINE D == (dirs \ Listed(S))'
             H == Holding' \ S
  <2>1. D \subseteq dirs \ Listed(T) /\ Holding \ T \subseteq H /\ H \subseteq Procs
    BY <1>2 DEF Holding
  <2>2. Cardinality(D) <= Keep + Cardinality(H)
    <3> HIDE DEF D, H
    <3> QED BY <2>1, LimitCarries
  <2> QED BY <2>2
<1> USE DEF TypeOK, Go

(* A command that moves without touching directories or listings.          *)
<1>3. ASSUME NEW p \in Procs, NEW b, pc' = [pc EXCEPT ![p] = b], UNCHANGED <<dirs, todo>>,
             b # "pruning",
             \/ p \notin Holding
             \/ b \in Copying \union Pruning \union {"failed"}
             \/ p \in Pruners /\ todo[p] = {}
      PROVE  LimitInv'
  <2>1. Pruners' = Pruners \ {p} /\ (Holding \ {p}) \subseteq Holding'
    BY <1>3 DEF Pruners, Holding
  <2>2. ASSUME NEW S \in SUBSET Pruners'  PROVE Bounded(S)'
    <3>1. Listed(S)' = Listed(S) /\ S \in SUBSET Pruners /\ p \notin S
      BY <1>3, <2>1 DEF Listed
    <3>2. CASE p \notin Holding \/ b \in Copying \union Pruning \union {"failed"}
      <4>1. Holding \subseteq Holding'
        BY <1>3, <3>2 DEF Holding
      <4> QED BY <1>2, <1>3, <3>1, <4>1
    <3>3. CASE p \in Pruners /\ todo[p] = {}
      <4>1. Listed(S \union {p}) = Listed(S)
        BY <3>3 DEF Listed
      <4>2. S \union {p} \in SUBSET Pruners /\ Holding \ (S \union {p}) \subseteq Holding' \ S
        BY <2>1, <3>1, <3>3
      <4> QED BY <1>2, <1>3, <3>1, <4>1, <4>2
    <3> QED BY <1>3, <3>2, <3>3
  <2> QED BY <1>1, <2>2

<1>4. ASSUME UNCHANGED <<dirs, todo, pc>>  PROVE LimitInv'
  <2>1. Pruners' = Pruners /\ Holding' = Holding /\ \A S : Listed(S)' = Listed(S)
    BY <1>4 DEF Pruners, Holding, Listed
  <2> QED BY <1>1, <1>2, <1>4, <2>1
<1>5. ASSUME NEW p \in Procs, Stamp(p)  PROVE LimitInv'
  <2>1. /\ pc[p] = "idle" /\ pc' = [pc EXCEPT ![p] = "named"]
        /\ dirs' = dirs \union {now} /\ todo' = todo
    BY <1>5 DEF Stamp
  <2>2. Pruners' = Pruners /\ Holding' = Holding \union {p} /\ p \notin Holding
    BY <2>1 DEF Pruners, Holding, Copying, Pruning
  <2>3. ASSUME NEW S \in SUBSET Pruners'  PROVE Bounded(S)'
    <3> DEFINE D == dirs \ Listed(S)
               H == Holding \ S
    <3>1. Listed(S)' = Listed(S) /\ S \in SUBSET Pruners /\ p \notin S
      BY <2>1, <2>2 DEF Listed, Pruners
    <3>2. (dirs \ Listed(S))' \subseteq D \union {now} /\ (Holding \ S)' = H \union {p} /\ p \notin H
      BY <2>1, <2>2, <3>1
    <3>3. Cardinality(D) <= Keep + Cardinality(H)
      BY <3>1 DEF LimitInv
    <3>4. IsFiniteSet(D) /\ IsFiniteSet(H)
      <4>1. D \in SUBSET Names /\ H \subseteq Procs
        BY DEF Holding
      <4> QED BY <4>1, CountGrows, ProcsAssumption, FS_Subset
    <3>5. Cardinality(H \union {p}) = Cardinality(H) + 1 /\ Cardinality(H) \in Nat
      <4> HIDE DEF H
      <4> QED BY <3>2, <3>4, FS_AddElement, FS_CardinalityType
    <3>6. /\ Cardinality(D \union {now}) <= Cardinality(D) + 1
          /\ Cardinality(D) \in Nat /\ Cardinality(D \union {now}) \in Nat
          /\ IsFiniteSet(D \union {now})
      <4> HIDE DEF D
      <4>1. IsFiniteSet(D \union {now}) /\ Cardinality(D) \in Nat
            /\ Cardinality(D \union {now}) = IF now \in D THEN Cardinality(D) ELSE Cardinality(D) + 1
        BY <3>4, FS_AddElement, FS_CardinalityType
      <4> QED BY <4>1
    <3>7. Cardinality((dirs \ Listed(S))') \in Nat
          /\ Cardinality((dirs \ Listed(S))') <= Cardinality(D \union {now})
      <4> DEFINE E == (dirs \ Listed(S))'
      <4>1. E \subseteq D \union {now}
        BY <3>2
      <4> HIDE DEF E, D
      <4>2. IsFiniteSet(E) /\ Cardinality(E) <= Cardinality(D \union {now})
        BY <3>6, <4>1, FS_Subset
      <4>3. Cardinality(E) \in Nat
        BY <4>2, FS_CardinalityType
      <4> QED BY <4>2, <4>3 DEF E
    <3> HIDE DEF D, H
    <3>8. Cardinality((dirs \ Listed(S))') <= Keep + Cardinality(H \union {p})
      BY <3>3, <3>5, <3>6, <3>7, KeepAssumption
    <3> QED BY <3>2, <3>8
  <2> QED BY <1>1, <2>3
<1>6. ASSUME NEW p \in Procs, ListBackups(p)  PROVE LimitInv'
  <2>1. /\ pc[p] = "copied" /\ pc' = [pc EXCEPT ![p] = "pruning"]
        /\ todo' = [todo EXCEPT ![p] = Excess(dirs)] /\ dirs' = dirs
    BY <1>6 DEF ListBackups, store
  <2>2. Holding' = Holding /\ Pruners' = Pruners \union {p}
    BY <2>1 DEF Holding, Pruners, Pruning
  <2>3. ASSUME NEW S \in SUBSET Pruners'  PROVE Bounded(S)'
    <3>1. CASE p \notin S
      <4>1. S \in SUBSET Pruners /\ Listed(S)' = Listed(S)
        BY <2>1, <2>2, <3>1 DEF Listed, Pruners
      <4> QED BY <1>2, <2>1, <2>2, <4>1
    <3>2. CASE p \in S
      <4> DEFINE D == (dirs \ Listed(S))'
                 H == (Holding \ S)'
      <4>1. D \subseteq dirs \ Excess(dirs)
        BY <2>1, <3>2 DEF Listed
      <4>2. /\ Cardinality(D) \in Nat /\ Cardinality(dirs \ Excess(dirs)) \in Nat
            /\ Cardinality(D) <= Cardinality(dirs \ Excess(dirs))
        <5>1. dirs \ Excess(dirs) \in SUBSET Names
          OBVIOUS
        <5> HIDE DEF D
        <5> QED BY <4>1, <5>1, CountGrows
      <4>3. Cardinality(H) \in Nat
        <5>1. H \subseteq Procs
          BY DEF Holding
        <5> HIDE DEF H
        <5> QED BY <5>1, ProcsAssumption, FS_Subset, FS_CardinalityType
      <4>4. Cardinality(D) <= Keep + Cardinality(H)
        <5> HIDE DEF D, H
        <5> QED BY <4>2, <4>3, RestOfExcess, KeepAssumption
      <4> QED BY <4>4
    <3> QED BY <3>1, <3>2
  <2> QED BY <1>1, <2>3
<1>7. ASSUME NEW p \in Procs, Remove(p)  PROVE LimitInv'
  <2>1. PICK n : dirs' = dirs \ {n} /\ todo' = [todo EXCEPT ![p] = @ \ {n}]
    BY <1>7 DEF Remove
  <2>2. Holding' = Holding /\ Pruners' = Pruners /\ Pruners \subseteq Procs
    BY <1>7 DEF Remove, Holding, Pruners
  <2>3. ASSUME NEW S \in SUBSET Pruners'  PROVE Bounded(S)'
    <3>1. \A q \in S : todo[q] \subseteq todo'[q] \union {n}
      BY <2>1, <2>2
    <3>2. (dirs \ Listed(S))' \subseteq dirs \ Listed(S)
      BY <2>1, <3>1 DEF Listed
    <3> QED BY <1>2, <2>2, <3>2
  <2> QED BY <1>1, <2>3
<1>8. ASSUME NEW p \in Procs,
             NoDatabase(p) \/ CopyBegins(p) \/ CopyEnds(p) \/ RemoveFails(p)
      PROVE  LimitInv'
  <2>1. PICK b \in {"copied", "copying", "failed"} : pc' = [pc EXCEPT ![p] = b]
    BY <1>8 DEF NoDatabase, CopyBegins, CopyEnds, RemoveFails
  <2>2. UNCHANGED <<dirs, todo>>
    BY <1>8 DEF NoDatabase, CopyBegins, CopyEnds, RemoveFails, store, command
  <2> QED BY <1>3, <2>1, <2>2 DEF Copying, Pruning
<1>9. ASSUME NEW p \in Procs, Open(p) \/ Close(p) \/ Checkpointed(p)  PROVE LimitInv'
  <2>1. PICK b \in {"open", "closing", "done"} : pc' = [pc EXCEPT ![p] = b]
    BY <1>9 DEF Open, Close, Checkpointed
  <2>2. UNCHANGED <<dirs, todo>> /\ pc[p] \in {"ready", "open", "closing"}
    BY <1>9 DEF Open, Close, Checkpointed, store, command
  <2>3. p \notin Holding
    BY <2>2 DEF Holding, Copying, Pruning
  <2> QED BY <1>3, <2>1, <2>2, <2>3
<1>10. ASSUME NEW p \in Procs, Moves(p)  PROVE LimitInv'
  <2>1. PICK b : Moved(p, b)
    BY <1>10, MovesMove
  <2>2. UNCHANGED <<dirs, todo>>
    BY <1>10, MovesMove DEF store, command
  <2>3. b \in {"verifying", "failed"} \/ (b = "ready" /\ p \in Pruners /\ todo[p] = {})
    BY <1>10, <2>1
    DEF Moves, Moved, Verify, VerifyFails, CopyFails, RemoveMissing, Pruned, Kill, Pruners
  <2> QED BY <1>3, <2>1, <2>2, <2>3 DEF Moved, Copying
<1>11. CASE UNCHANGED vars
  BY <1>4, <1>11 DEF vars, store, command
<1>12. CASE Tick \/ SetBack
  BY <1>4, <1>12 DEF Tick, SetBack, store, command
<1>13. ASSUME NEW p \in Procs, Commit(p)  PROVE LimitInv'
  BY <1>4, <1>13 DEF Commit, store, command
<1> QED
  BY <1>5, <1>6, <1>7, <1>8, <1>9, <1>10, <1>11, <1>12, <1>13, NextCases
-----------------------------------------------------------------------------
LEMMA OrderStep ==
  ASSUME TypeOK, TypeOK', MadeInv, OrderInv, [Next]_vars
  PROVE  OrderInv'
<1> SUFFICES ASSUME Forward'  PROVE OrderInv'
  BY DEF OrderInv
<1> DEFINE Stamped == \A n \in made : n <= now /\ born[n] = n
           Older == \A p \in Procs : \A n \in todo[p] :
                      n <= now /\ \A m \in dirs : m < n => m \in todo[p]
<1>0. Forward
  <2>1. ASSUME NEW p \in Procs, Moves(p)  PROVE UNCHANGED clock
    BY <2>1, MovesMove
  <2>2. CASE Tick
    <3>1. now \in Int /\ truth \in Int
      BY BoundsAssumption DEF TypeOK, Names
    <3>2. now + 1 = truth + 1
      BY <2>2 DEF Tick, Forward
    <3> QED BY <3>1, <3>2 DEF Forward
  <2>4. CASE SetBack
    BY <2>4 DEF SetBack
  <2>3. CASE UNCHANGED clock
    BY <2>3 DEF clock, Forward
  <2> QED
    BY <2>1, <2>2, <2>3, <2>4, NextCases
    DEF vars, Stamp, NoDatabase, CopyBegins, CopyEnds, ListBackups, Remove, RemoveFails,
        Open, Commit, Close, Checkpointed
<1>1. now = truth /\ Stamped /\ Older
  BY <1>0 DEF OrderInv, Forward
<1>2. ASSUME Stamped', Older'  PROVE OrderInv'
  BY <1>2 DEF OrderInv
<1>3. now \in Nat /\ truth \in Nat /\ (\A n \in Names : n \in Nat)
  BY BoundsAssumption DEF TypeOK, Names
<1>4. ASSUME UNCHANGED <<now, truth, dirs, born, made, todo>>  PROVE OrderInv'
  BY <1>1, <1>4 DEF OrderInv, Forward
<1>5. CASE Tick
  <2>1. Stamped'
    BY <1>1, <1>3, <1>5 DEF Tick, store, TypeOK
  <2>2. Older'
    BY <1>1, <1>3, <1>5 DEF Tick, store, command, TypeOK
  <2> QED BY <1>2, <2>1, <2>2
<1>6. CASE SetBack
  BY <1>1, <1>3, <1>6 DEF SetBack, Forward, TypeOK, Names
<1>7. ASSUME NEW p \in Procs, Stamp(p)  PROVE OrderInv'
  <2>0. /\ made' = made \union {now} /\ born'[now] = truth /\ now \in Names
        /\ \A n \in Names : n # now => born'[n] = born[n]
        /\ UNCHANGED <<now, truth>>
    BY <1>7 DEF Stamp, clock, TypeOK
  <2>1. Stamped'
    <3> SUFFICES ASSUME NEW n \in made'
                 PROVE  n <= now /\ born'[n] = n
      BY <1>1, <2>0
    <3>1. CASE n = now
      BY <1>1, <1>3, <2>0, <3>1
    <3>2. CASE n # now
      BY <1>1, <2>0, <3>2 DEF TypeOK
    <3> QED BY <3>1, <3>2
  <2>2. Older'
    BY <1>1, <1>3, <1>7 DEF Stamp, clock, TypeOK
  <2> QED BY <1>2, <2>1, <2>2
<1>8. ASSUME NEW p \in Procs, ListBackups(p)  PROVE OrderInv'
  <2>1. UNCHANGED <<now, truth, dirs, born, made>> /\ todo' = [todo EXCEPT ![p] = Excess(dirs)]
    BY <1>8 DEF ListBackups, clock, store
  <2>2. Stamped'
    BY <1>1, <2>1
  <2>3. \A n \in Excess(dirs) : n <= now /\ \A m \in dirs : m < n => m \in Excess(dirs)
    BY <1>1, ExcessFacts DEF MadeInv
  <2>4. Older'
    BY <1>1, <2>1, <2>3 DEF TypeOK
  <2> QED BY <1>2, <2>2, <2>4
<1>9. ASSUME NEW p \in Procs, Remove(p)  PROVE OrderInv'
  <2>1. PICK n : dirs' = dirs \ {n} /\ todo' = [todo EXCEPT ![p] = @ \ {n}]
    BY <1>9 DEF Remove
  <2>2. UNCHANGED <<now, truth, born, made>>
    BY <1>9 DEF Remove, clock
  <2>3. Stamped' /\ Older'
    BY <1>1, <2>1, <2>2 DEF TypeOK
  <2> QED BY <1>2, <2>3
<1>10. ASSUME NEW p \in Procs, Moves(p)  PROVE OrderInv'
  BY <1>4, <1>10, MovesMove DEF clock, store, command
<1>11. CASE UNCHANGED vars
  BY <1>4, <1>11 DEF vars, clock, store, command
<1>12. ASSUME NEW p \in Procs,
              \/ NoDatabase(p) \/ CopyBegins(p) \/ CopyEnds(p) \/ RemoveFails(p)
              \/ Open(p) \/ Commit(p) \/ Close(p) \/ Checkpointed(p)
       PROVE  OrderInv'
  BY <1>4, <1>12 DEF NoDatabase, CopyBegins, CopyEnds, RemoveFails, Open, Commit, Close,
                     Checkpointed, clock, store, command
<1> QED BY <1>5, <1>6, <1>7, <1>8, <1>9, <1>10, <1>11, <1>12, NextCases
-----------------------------------------------------------------------------
LEMMA InitInvariant == Init => IInv
<1> SUFFICES ASSUME Init  PROVE IInv
  OBVIOUS
<1>1. TypeOK
  BY TypeInit
<1>2. MadeInv
  BY DEF Init, MadeInv, NewestSurvive
<1>3. RowsInv
  BY DEF Init, RowsInv, Connected
<1>4. QuietInv
  BY DEF Init, QuietInv
<1>5. CopyInv
  BY <1>1 DEF Init, CopyInv, AloneBackupWhole, Copy, Pruning, Backed, TypeOK
<1>6. LimitInv
  <2>1. Pruners = {} /\ Holding = {} /\ Cardinality(dirs) <= Keep
    BY DEF Init, Pruners, Holding, Copying, Pruning
  <2> SUFFICES ASSUME NEW S \in SUBSET Pruners
               PROVE  Cardinality(dirs \ Listed(S)) <= Keep + Cardinality(Holding \ S)
    BY DEF LimitInv
  <2>2. dirs \ Listed(S) = dirs /\ Holding \ S = {}
    BY <2>1 DEF Listed
  <2> QED BY <2>1, <2>2, FS_EmptySet, KeepAssumption
<1>7. OrderInv
  BY BoundsAssumption DEF Init, OrderInv, Names
<1> QED BY <1>1, <1>2, <1>3, <1>4, <1>5, <1>6, <1>7 DEF IInv

(* Every step of every command, every fault and every tick keeps IInv.     *)
THEOREM Invariance == Spec => []IInv
<1>1. IInv /\ [Next]_vars => IInv'
  <2> SUFFICES ASSUME IInv, [Next]_vars  PROVE IInv'
    OBVIOUS
  <2>1. TypeOK /\ MadeInv /\ RowsInv /\ QuietInv /\ CopyInv /\ LimitInv /\ OrderInv
    BY DEF IInv
  <2>2. TypeOK'
    BY <2>1, TypeStep
  <2>3. MadeInv' /\ RowsInv' /\ QuietInv' /\ CopyInv'
    BY <2>1, <2>2, MadeStep, RowsStep, QuietStep, CopyStep
  <2>4. LimitInv' /\ OrderInv'
    BY <2>1, <2>2, LimitStep, OrderStep
  <2> QED BY <2>2, <2>3, <2>4 DEF IInv
<1> QED BY <1>1, InitInvariant, PTL DEF Spec

(* All values stay in their sets, and no row is invented by a checkpoint.  *)
THEOREM TypeCorrect == Spec => []TypeOK
<1>1. IInv => TypeOK
  BY DEF IInv
<1> QED BY <1>1, Invariance, PTL

(* _prune_backups, run by any number of commands at a time from listings   *)
(* that may be stale, never removes one of the last backups.keep backups.  *)
THEOREM PruningSparesTheNewest == Spec => []NewestSurvive
<1>1. IInv => NewestSurvive
  BY DEF IInv, MadeInv
<1> QED BY <1>1, Invariance, PTL

(* A command that got past backup_data has what it promised: a directory   *)
(* of its own with a finished copy of the database file.                   *)
THEOREM CopyIsThere == Spec => []ReadyHasCopy
<1>1. IInv => ReadyHasCopy
  <2> SUFFICES ASSUME IInv, NEW p \in Procs, pc[p] \in Backed, Kept(p)
               PROVE  /\ name[p] \in dirs
                      /\ Shown(p).state \in {"whole", "torn"}
                         \/ (Shown(p).state = "none" /\ base[p] = 0)
    BY DEF ReadyHasCopy
  <2>1. name[p] \in made /\ name[p] \in Names
    BY DEF IInv, MadeInv, Backed, TypeOK
  <2>2. Cardinality(Newer(name[p])) \in Nat /\ Cardinality(Newer(name[p])) < Keep
    <3>1. Newer(name[p]) \in SUBSET Names
      BY DEF Newer, IInv, TypeOK
    <3> QED BY <3>1, CountGrows DEF Kept
  <2>3. name[p] \in dirs
    BY <2>1, <2>2, KeepAssumption DEF IInv, MadeInv, NewestSurvive
  <2> QED BY <2>3 DEF IInv, CopyInv
<1> QED BY <1>1, Invariance, PTL

(* However many commands list, remove and fail at a time: when none is in  *)
(* backup_data any more, data/backups holds at most backups.keep entries   *)
(* and one for each command that did not get through.                      *)
THEOREM LimitHolds == Spec => []LimitUpToFailures
<1>1. IInv => LimitUpToFailures
  <2> SUFFICES ASSUME IInv, \A p \in Procs : pc[p] \notin Copying \union Pruning
               PROVE  Cardinality(dirs) <= Keep + Cardinality({p \in Procs : pc[p] = "failed"})
    BY DEF LimitUpToFailures
  <2>1. dirs \ Listed({}) = dirs /\ Holding \ {} = {p \in Procs : pc[p] = "failed"}
    BY DEF Listed, Holding
  <2>2. Cardinality(dirs \ Listed({})) <= Keep + Cardinality(Holding \ {})
    BY DEF IInv, LimitInv
  <2> QED BY <2>1, <2>2
<1> QED BY <1>1, Invariance, PTL

(* A command that overlaps with no other until its copy is made, after     *)
(* commands that all ended well, backs up every row committed so far.      *)
THEOREM AloneIsWhole == Spec => []AloneBackupWhole
<1>1. IInv => AloneBackupWhole
  BY DEF IInv, CopyInv
<1> QED BY <1>1, Invariance, PTL

(* While the clock is not set back, what is removed is never younger than  *)
(* what stays, also when several commands prune at a time.                 *)
THEOREM RemovesOldestFirst == Spec => ForwardOldestFirst
<1>1. IInv /\ [Next]_vars =>
        [Forward => \A n \in dirs \ dirs', m \in dirs \intersect dirs' : born[n] <= born[m]]_vars
  <2> SUFFICES ASSUME IInv, Next, Forward, NEW n \in dirs \ dirs', NEW m \in dirs \intersect dirs'
               PROVE  born[n] <= born[m]
    OBVIOUS
  <2>1. PICK p \in Procs : Remove(p)
    <3>1. ASSUME NEW p \in Procs, Moves(p)  PROVE dirs' = dirs
      BY <3>1, MovesMove DEF store
    <3>2. ~(dirs \subseteq dirs')
      OBVIOUS
    <3> QED
      BY <3>1, <3>2, NextCases
      DEF Tick, SetBack, Stamp, NoDatabase, CopyBegins, CopyEnds, ListBackups,
          RemoveFails, Open, Commit, Close, Checkpointed, store
  <2>2. n \in Oldest(p)
    BY <2>1 DEF Remove
  <2>3. n \in Nat /\ m \in Nat /\ Start \in Nat
    BY BoundsAssumption DEF IInv, TypeOK, Names
  <2>4. n <= m
    BY <2>2, <2>3 DEF Oldest, IInv, OrderInv
  <2> QED BY <2>3, <2>4 DEF IInv, MadeInv, OrderInv
<1> QED BY <1>1, Invariance, PTL DEF Spec, ForwardOldestFirst
=============================================================================
