--------------------------- MODULE ScheduleProofs ---------------------------
(***************************************************************************)
(* Proofs about Schedule, for any processes, configs, tasks found, bounds  *)
(* and faults: the invariant IInv, and from it what a successful command   *)
(* promises, when a task may be lost, what a removal leaves behind, and    *)
(* that registering converges.                                             *)
(***************************************************************************)
EXTENDS Schedule, TLAPS

-----------------------------------------------------------------------------
(* The task a config asks for, and what the two comparisons say of it.     *)
LEMMA NullIsNone == Null \notin TaskSet /\ Null \notin Configs
BY ScheduleAssumption

LEMMA WantIsTask ==
  ASSUME NEW c \in Configs, Asked(c)
  PROVE  Want(c) \in TaskSet
<1>1. Range(c.times) \subseteq Times
  BY ScheduleAssumption DEF Asked, ValidConfig
<1>2. c.weekdays \in BOOLEAN /\ This \in Runnable
  BY ScheduleAssumption DEF ConfigSet
<1> QED BY <1>1, <1>2 DEF Want, TaskSet

LEMMA UpToDateIsWant ==
  ASSUME NEW t \in TaskSet, NEW c, UpToDate(t, c)
  PROVE  t = Want(c) /\ Distinct(c)
BY DEF UpToDate, SameTriggers, Want, TaskSet

LEMMA WantUpToDate ==
  ASSUME NEW c, Distinct(c)
  PROVE  UpToDate(Want(c), c)
BY DEF UpToDate, SameTriggers, Want

LEMMA WantChecksOk ==
  ASSUME NEW c \in Configs, Asked(c), Distinct(c)
  PROVE  Check(Want(c), c) = "ok"
<1>1. Want(c) # Null
  BY WantIsTask, NullIsNone
<1>2. SameTriggers(Want(c), c) /\ Want(c).system /\ Want(c).args
      /\ Want(c).exe = This
  BY DEF SameTriggers, Want
<1>3. This \in Runnable /\ This \notin {"none", "bare"}
  BY ScheduleAssumption
<1> QED BY <1>1, <1>2, <1>3 DEF Check, Asked, ValidConfig
-----------------------------------------------------------------------------
(* The processes that do not step: their own state stays, and what another *)
(* process writes to the service takes away their claims about it, unless  *)
(* it is the folder or the very task that they are to register.            *)
Bystander(q) ==
  /\ pc'[q] = pc[q] /\ cmd'[q] = cmd[q] /\ cfg'[q] = cfg[q]
  /\ seen'[q] = seen[q] /\ out'[q] = out[q] /\ failed'[q] = failed[q]
  /\ was'[q] = was[q]
  /\ \/ q \in disturbed'
     \/ /\ (q \in disturbed' <=> q \in disturbed)
        /\ task' = task /\ folder' = folder /\ (others => others')
     \/ /\ (q \in disturbed' <=> q \in disturbed)
        /\ cmd[q] = "schedule" /\ (folder => folder')
        /\ \/ task' = task
           \/ task' = Want(cfg[q]) /\ task' # Null

LEMMA BystanderKeeps ==
  ASSUME NEW q \in Proc, Claims(q), Bystander(q)
  PROVE  Claims(q)'
<1> USE DEF Bystander
<1>1. Placed(q)'
  BY DEF Claims, Placed, Again
<1>2. Known(q)'
  BY DEF Claims, Known, Placed
<1>3. Registered(q)'
  BY DEF Claims, Registered, Ended
<1>4. LossExplained(q)'
  BY DEF Claims, LossExplained, Ended
<1>5. Cleared(q)'
  BY DEF Claims, Cleared
<1> QED BY <1>1, <1>2, <1>3, <1>4, <1>5 DEF Claims
-----------------------------------------------------------------------------
(* One lemma per action: it keeps the types, what is settled, the claims   *)
(* of its own process, and leaves the others bystanders.                   *)
Keeps(p) ==
  /\ TypeOK' /\ SettledOK'
  /\ Claims(p)'
  /\ \A q \in Proc \ {p} : Bystander(q)

LEMMA ConnectKeeps ==
  ASSUME NEW p \in Proc, IInv, Connect(p)
  PROVE  Keeps(p)
<1> USE DEF Connect, Goto, End, Fails, Quiet, Deletes, Registers, Disturbs, Installers, Bystander
<1>0. TypeOK /\ SettledOK /\ Claims(p)
  BY DEF IInv
<1>a. pc' \in [Proc -> Places] /\ out' \in [Proc -> Outcomes]
  BY <1>0 DEF TypeOK, Places, Outcomes, Done, Gone
<1>b. failed' \in [Proc -> SUBSET Calls]
  BY <1>0 DEF TypeOK, Calls
<1>c. failed'[p] = failed[p] \/ failed'[p] # {}
  BY <1>0 DEF TypeOK
<1>1. TypeOK'
  BY <1>0, <1>a, <1>b, NullIsNone, ScheduleAssumption DEF TypeOK, Claims, Placed
<1>2. SettledOK'
  BY <1>0, NullIsNone, ScheduleAssumption DEF TypeOK, SettledOK, Claims, Placed
<1>3. Placed(p)'
  BY <1>0 DEF TypeOK, Claims, Placed, Again, Writing, Done, Gone
<1>4. Known(p)'
  BY <1>0, NullIsNone, <1>1 DEF TypeOK, Claims, Known, Placed, Writing
<1>5. Registered(p)'
  BY <1>0 DEF TypeOK, Claims, Known, Placed, Registered, Ended, Done, Gone
<1>6. LossExplained(p)'
  BY <1>0, NullIsNone, <1>1 DEF TypeOK, Claims, Known, Placed, LossExplained, Ended, Writing
<1>7. Cleared(p)'
  <2>1. CASE pc'[p] # "idle"
    BY <2>1 DEF Cleared
  <2>2. CASE Fails(p, "connect") /\ End(p, "error")
    <3>1. "connect" \in failed'[p] /\ out'[p] = "error"
      BY <1>0, <2>2 DEF TypeOK
    <3> QED BY <3>1 DEF Cleared
  <2> QED BY <1>0, <2>1, <2>2 DEF TypeOK
<1>8. \A q \in Proc \ {p} : Bystander(q)
  BY <1>0 DEF TypeOK
<1> QED BY <1>1, <1>2, <1>3, <1>4, <1>5, <1>6, <1>7, <1>8 DEF Keeps, Claims

LEMMA EnsureFolderKeeps ==
  ASSUME NEW p \in Proc, IInv, EnsureFolder(p)
  PROVE  Keeps(p)
<1> USE DEF EnsureFolder, Goto, End, Fails, Quiet, Deletes, Registers, Disturbs, Installers, Bystander
<1>0. TypeOK /\ SettledOK /\ Claims(p)
  BY DEF IInv
<1>a. pc' \in [Proc -> Places] /\ out' \in [Proc -> Outcomes]
  BY <1>0 DEF TypeOK, Places, Outcomes, Done, Gone
<1>b. failed' \in [Proc -> SUBSET Calls]
  BY <1>0 DEF TypeOK, Calls
<1>c. failed'[p] = failed[p] \/ failed'[p] # {}
  <2>1. \/ failed' = failed
        \/ \E call \in Calls : failed' = [failed EXCEPT ![p] = @ \cup {call}]
    BY DEF Calls
  <2>2. failed \in [Proc -> SUBSET Calls]
    BY <1>0 DEF TypeOK
  <2> HIDE DEF EnsureFolder, Fails
  <2> QED BY <2>1, <2>2
<1>1. TypeOK'
  <2>1. (/\ task \in TaskSet \cup {Null} /\ folder \in BOOLEAN /\ others \in BOOLEAN
         /\ settled \in Configs \cup {Null}
         /\ ((task # Null \/ others) => folder))'
    BY <1>0 DEF TypeOK
  <2>2. (/\ cmd \in [Proc -> Commands] /\ cfg \in [Proc -> Configs \cup {Null}]
         /\ seen \in [Proc -> TaskSet \cup {Null}] /\ was \in [Proc -> Configs \cup {Null}]
         /\ started \in 0..MaxCmds)'
    BY <1>0 DEF TypeOK
  <2>3. disturbed' \subseteq Proc
    BY <1>0 DEF TypeOK
  <2> QED BY <1>a, <1>b, <2>1, <2>2, <2>3 DEF TypeOK
<1>2. SettledOK'
  BY <1>0, NullIsNone, ScheduleAssumption DEF TypeOK, SettledOK, Claims, Placed
<1>3. Placed(p)'
  BY <1>0 DEF TypeOK, Claims, Placed, Again, Writing, Done, Gone
<1>4. Known(p)'
  BY <1>0, NullIsNone, <1>1 DEF TypeOK, Claims, Known, Placed, Writing
<1>5. Registered(p)'
  BY <1>0 DEF TypeOK, Claims, Known, Placed, Registered, Ended, Done, Gone
<1>6. LossExplained(p)'
  BY <1>0, NullIsNone, <1>1 DEF TypeOK, Claims, Known, Placed, LossExplained, Ended, Writing
<1>7. Cleared(p)'
  BY <1>0, NullIsNone, <1>1, <1>c DEF TypeOK, Claims, Known, Placed, Cleared, Gone, Writing
<1>8. \A q \in Proc \ {p} : Bystander(q)
  BY <1>0 DEF TypeOK
<1> QED BY <1>1, <1>2, <1>3, <1>4, <1>5, <1>6, <1>7, <1>8 DEF Keeps, Claims

LEMMA RegisterKeeps ==
  ASSUME NEW p \in Proc, IInv, Register(p)
  PROVE  Keeps(p)
<1> USE DEF Register, Goto, End, Fails, Quiet, Deletes, Registers, Disturbs, Installers, Bystander
<1>0. TypeOK /\ SettledOK /\ Claims(p)
  BY DEF IInv
<1>a. pc' \in [Proc -> Places] /\ out' \in [Proc -> Outcomes]
  BY <1>0 DEF TypeOK, Places, Outcomes, Done, Gone
<1>b. failed' \in [Proc -> SUBSET Calls]
  BY <1>0 DEF TypeOK, Calls
<1>c. failed'[p] = failed[p] \/ failed'[p] # {}
  BY <1>0 DEF TypeOK
<1>w. /\ cmd[p] = "schedule" /\ cfg[p] \in Configs /\ Asked(cfg[p])
      /\ Want(cfg[p]) \in TaskSet /\ Want(cfg[p]) # Null
  BY <1>0, WantIsTask, NullIsNone DEF TypeOK, Claims, Placed, Writing, Commands
<1>1. TypeOK'
  BY <1>0, <1>a, <1>b, <1>w, ScheduleAssumption DEF TypeOK, Claims, Placed
<1>2. SettledOK'
  BY <1>0, <1>w, ScheduleAssumption DEF TypeOK, SettledOK, Claims, Placed
<1>3. Placed(p)'
  BY <1>0 DEF TypeOK, Claims, Placed, Again, Writing, Done, Gone
<1>4. Known(p)'
  BY <1>0, <1>w, <1>1 DEF TypeOK, Claims, Known, Placed, Writing
<1>5. Registered(p)'
  BY <1>0 DEF TypeOK, Claims, Known, Placed, Registered, Ended, Done, Gone
<1>6. LossExplained(p)'
  BY <1>0, <1>w, <1>1 DEF TypeOK, Claims, Known, Placed, LossExplained, Ended, Writing
<1>7. Cleared(p)'
  BY <1>0, <1>w, <1>1, <1>c DEF TypeOK, Claims, Known, Placed, Cleared, Gone, Writing
<1>8. ASSUME NEW q \in Proc \ {p}  PROVE Bystander(q)
  <2>1. /\ pc'[q] = pc[q] /\ cmd'[q] = cmd[q] /\ cfg'[q] = cfg[q]
        /\ seen'[q] = seen[q] /\ out'[q] = out[q] /\ failed'[q] = failed[q]
        /\ was'[q] = was[q] /\ folder' = folder /\ others' = others
    BY <1>0 DEF TypeOK
  <2>2. CASE task' = task /\ disturbed' = disturbed
    BY <2>1, <2>2
  <2>3. CASE task' = Want(cfg[p]) /\ Registers(p)
    <3>0. cfg[p] \in Configs /\ Asked(cfg[p])
      <4>1. pc[p] = "register"
        OBVIOUS
      <4>2. cmd[p] = "schedule"
        BY <1>0, <4>1 DEF Claims, Placed, TypeOK, Commands, Writing
      <4> QED BY <1>0, <4>1, <4>2 DEF Claims, Placed
    <3>1. task' # Null
      BY <2>3, <3>0, WantIsTask, NullIsNone
    <3>2. CASE q \in Installers /\ cfg[q] = cfg[p]
      BY <2>1, <2>3, <3>1, <3>2
    <3>3. CASE ~(q \in Installers /\ cfg[q] = cfg[p])
      BY <2>1, <2>3, <3>3
    <3> QED BY <3>2, <3>3
  <2> QED BY <2>2, <2>3
<1> QED BY <1>1, <1>2, <1>3, <1>4, <1>5, <1>6, <1>7, <1>8 DEF Keeps, Claims

LEMMA FallbackDeleteKeeps ==
  ASSUME NEW p \in Proc, IInv, FallbackDelete(p)
  PROVE  Keeps(p)
<1> USE DEF FallbackDelete, Goto, End, Fails, Quiet, Deletes, Registers, Disturbs, Installers, Bystander
<1>0. TypeOK /\ SettledOK /\ Claims(p)
  BY DEF IInv
<1>a. pc' \in [Proc -> Places] /\ out' \in [Proc -> Outcomes]
  BY <1>0 DEF TypeOK, Places, Outcomes, Done, Gone
<1>b. failed' \in [Proc -> SUBSET Calls]
  BY <1>0 DEF TypeOK, Calls
<1>c. failed'[p] = failed[p] \/ failed'[p] # {}
  BY <1>0 DEF TypeOK
<1>1. TypeOK'
  BY <1>0, <1>a, <1>b, NullIsNone, ScheduleAssumption DEF TypeOK, Claims, Placed
<1>2. SettledOK'
  BY <1>0, NullIsNone, ScheduleAssumption DEF TypeOK, SettledOK, Claims, Placed
<1>3. Placed(p)'
  BY <1>0 DEF TypeOK, Claims, Placed, Again, Writing, Done, Gone
<1>4. Known(p)'
  BY <1>0, NullIsNone, <1>1 DEF TypeOK, Claims, Known, Placed, Writing
<1>5. Registered(p)'
  BY <1>0 DEF TypeOK, Claims, Known, Placed, Registered, Ended, Done, Gone
<1>6. LossExplained(p)'
  BY <1>0, NullIsNone, <1>1 DEF TypeOK, Claims, Known, Placed, LossExplained, Ended, Writing
<1>7. Cleared(p)'
  BY <1>0, NullIsNone, <1>1, <1>c DEF TypeOK, Claims, Known, Placed, Cleared, Gone, Writing
<1>8. \A q \in Proc \ {p} : Bystander(q)
  BY <1>0 DEF TypeOK
<1> QED BY <1>1, <1>2, <1>3, <1>4, <1>5, <1>6, <1>7, <1>8 DEF Keeps, Claims

LEMMA ReregisterKeeps ==
  ASSUME NEW p \in Proc, IInv, Reregister(p)
  PROVE  Keeps(p)
<1> USE DEF Reregister, Goto, End, Fails, Quiet, Deletes, Registers, Disturbs, Installers, Bystander
<1>0. TypeOK /\ SettledOK /\ Claims(p)
  BY DEF IInv
<1>a. pc' \in [Proc -> Places] /\ out' \in [Proc -> Outcomes]
  BY <1>0 DEF TypeOK, Places, Outcomes, Done, Gone
<1>b. failed' \in [Proc -> SUBSET Calls]
  BY <1>0 DEF TypeOK, Calls
<1>c. failed'[p] = failed[p] \/ failed'[p] # {}
  BY <1>0 DEF TypeOK
<1>w. /\ cmd[p] = "schedule" /\ cfg[p] \in Configs /\ Asked(cfg[p])
      /\ Want(cfg[p]) \in TaskSet /\ Want(cfg[p]) # Null
  BY <1>0, WantIsTask, NullIsNone DEF TypeOK, Claims, Placed, Writing, Commands
<1>1. TypeOK'
  BY <1>0, <1>a, <1>b, <1>w, ScheduleAssumption DEF TypeOK, Claims, Placed
<1>2. SettledOK'
  BY <1>0, <1>w, ScheduleAssumption DEF TypeOK, SettledOK, Claims, Placed
<1>3. Placed(p)'
  BY <1>0 DEF TypeOK, Claims, Placed, Again, Writing, Done, Gone
<1>4. Known(p)'
  BY <1>0, <1>w, <1>1 DEF TypeOK, Claims, Known, Placed, Writing
<1>5. Registered(p)'
  BY <1>0 DEF TypeOK, Claims, Known, Placed, Registered, Ended, Done, Gone
<1>6. LossExplained(p)'
  <2>1. CASE task' = Want(cfg[p])
    BY <1>w, <2>1 DEF LossExplained
  <2>2. CASE task' = task /\ Fails(p, "reregister") /\ disturbed' = disturbed
    <3>1. "reregister" \in failed'[p] /\ failed[p] \subseteq failed'[p]
      BY <1>0, <2>2 DEF TypeOK
    <3>2. p \notin disturbed' => "register" \in failed[p]
      BY <1>0, <1>w, <2>2 DEF Claims, Known
    <3> QED BY <3>1, <3>2 DEF LossExplained
  <2>3. CASE ~folder /\ disturbed' = disturbed
    BY <1>0, <1>w, <2>3 DEF Claims, Known, LossExplained
  <2> QED BY <2>1, <2>2, <2>3
<1>7. Cleared(p)'
  BY <1>0, <1>w, <1>1, <1>c DEF TypeOK, Claims, Known, Placed, Cleared, Gone, Writing
<1>8. ASSUME NEW q \in Proc \ {p}  PROVE Bystander(q)
  <2>1. /\ pc'[q] = pc[q] /\ cmd'[q] = cmd[q] /\ cfg'[q] = cfg[q]
        /\ seen'[q] = seen[q] /\ out'[q] = out[q] /\ failed'[q] = failed[q]
        /\ was'[q] = was[q] /\ folder' = folder /\ others' = others
    BY <1>0 DEF TypeOK
  <2>2. CASE task' = task /\ disturbed' = disturbed
    BY <2>1, <2>2
  <2>3. CASE task' = Want(cfg[p]) /\ Registers(p)
    <3>0. cfg[p] \in Configs /\ Asked(cfg[p])
      <4>1. pc[p] = "reregister"
        OBVIOUS
      <4>2. cmd[p] = "schedule"
        BY <1>0, <4>1 DEF Claims, Placed, TypeOK, Commands, Writing
      <4> QED BY <1>0, <4>1, <4>2 DEF Claims, Placed
    <3>1. task' # Null
      BY <2>3, <3>0, WantIsTask, NullIsNone
    <3>2. CASE q \in Installers /\ cfg[q] = cfg[p]
      BY <2>1, <2>3, <3>1, <3>2
    <3>3. CASE ~(q \in Installers /\ cfg[q] = cfg[p])
      BY <2>1, <2>3, <3>3
    <3> QED BY <3>2, <3>3
  <2> QED BY <2>2, <2>3
<1> QED BY <1>1, <1>2, <1>3, <1>4, <1>5, <1>6, <1>7, <1>8 DEF Keeps, Claims

LEMMA FindFolderKeeps ==
  ASSUME NEW p \in Proc, IInv, FindFolder(p)
  PROVE  Keeps(p)
<1> USE DEF FindFolder, Goto, End, Fails, Quiet, Deletes, Registers, Disturbs, Installers, Bystander
<1>0. TypeOK /\ SettledOK /\ Claims(p)
  BY DEF IInv
<1>a. pc' \in [Proc -> Places] /\ out' \in [Proc -> Outcomes]
  BY <1>0 DEF TypeOK, Places, Outcomes, Done, Gone
<1>b. failed' \in [Proc -> SUBSET Calls]
  BY <1>0 DEF TypeOK, Calls
<1>c. failed'[p] = failed[p] \/ failed'[p] # {}
  BY <1>0 DEF TypeOK
<1>1. TypeOK'
  BY <1>0, <1>a, <1>b, NullIsNone, ScheduleAssumption DEF TypeOK, Claims, Placed
<1>2. SettledOK'
  BY <1>0, NullIsNone, ScheduleAssumption DEF TypeOK, SettledOK, Claims, Placed
<1>3. Placed(p)'
  BY <1>0 DEF TypeOK, Claims, Placed, Again, Writing, Done, Gone
<1>4. Known(p)'
  BY <1>0, NullIsNone, <1>1 DEF TypeOK, Claims, Known, Placed, Writing
<1>5. Registered(p)'
  BY <1>0 DEF TypeOK, Claims, Known, Placed, Registered, Ended, Done, Gone
<1>6. LossExplained(p)'
  BY <1>0, NullIsNone, <1>1 DEF TypeOK, Claims, Known, Placed, LossExplained, Ended, Writing
<1>7. Cleared(p)'
  BY <1>0, NullIsNone, <1>1, <1>c DEF TypeOK, Claims, Known, Placed, Cleared, Gone, Writing
<1>8. \A q \in Proc \ {p} : Bystander(q)
  BY <1>0 DEF TypeOK
<1> QED BY <1>1, <1>2, <1>3, <1>4, <1>5, <1>6, <1>7, <1>8 DEF Keeps, Claims

LEMMA DeleteKeeps ==
  ASSUME NEW p \in Proc, IInv, Delete(p)
  PROVE  Keeps(p)
<1> USE DEF Delete, Goto, End, Fails, Quiet, Deletes, Registers, Disturbs, Installers, Bystander
<1>0. TypeOK /\ SettledOK /\ Claims(p)
  BY DEF IInv
<1>a. pc' \in [Proc -> Places] /\ out' \in [Proc -> Outcomes]
  BY <1>0 DEF TypeOK, Places, Outcomes, Done, Gone
<1>b. failed' \in [Proc -> SUBSET Calls]
  BY <1>0 DEF TypeOK, Calls
<1>c. failed'[p] = failed[p] \/ failed'[p] # {}
  <2>1. \/ failed' = failed
        \/ \E call \in Calls : failed' = [failed EXCEPT ![p] = @ \cup {call}]
    BY DEF Calls
  <2>2. failed \in [Proc -> SUBSET Calls]
    BY <1>0 DEF TypeOK
  <2> HIDE DEF Delete, Fails
  <2> QED BY <2>1, <2>2
<1>1. TypeOK'
  <2>1. (/\ task \in TaskSet \cup {Null} /\ folder \in BOOLEAN /\ others \in BOOLEAN
         /\ settled \in Configs \cup {Null}
         /\ ((task # Null \/ others) => folder))'
    BY <1>0 DEF TypeOK
  <2>2. (/\ cmd \in [Proc -> Commands] /\ cfg \in [Proc -> Configs \cup {Null}]
         /\ seen \in [Proc -> TaskSet \cup {Null}] /\ was \in [Proc -> Configs \cup {Null}]
         /\ started \in 0..MaxCmds)'
    BY <1>0 DEF TypeOK
  <2>3. disturbed' \subseteq Proc
    BY <1>0 DEF TypeOK
  <2> QED BY <1>a, <1>b, <2>1, <2>2, <2>3 DEF TypeOK
<1>2. SettledOK'
  BY <1>0, NullIsNone, ScheduleAssumption DEF TypeOK, SettledOK, Claims, Placed
<1>3. Placed(p)'
  BY <1>0 DEF TypeOK, Claims, Placed, Again, Writing, Done, Gone
<1>4. Known(p)'
  BY <1>0, NullIsNone, <1>1 DEF TypeOK, Claims, Known, Placed, Writing
<1>5. Registered(p)'
  BY <1>0 DEF TypeOK, Claims, Known, Placed, Registered, Ended, Done, Gone
<1>6. LossExplained(p)'
  BY <1>0, NullIsNone, <1>1 DEF TypeOK, Claims, Known, Placed, LossExplained, Ended, Writing
<1>7. Cleared(p)'
  <2>1. cmd'[p] = cmd[p] /\ folder' = folder
    OBVIOUS
  <2>2. CASE pc' = [pc EXCEPT ![p] = "sweep"]
    <3>1. pc'[p] = "sweep"
      BY <1>0, <2>2 DEF TypeOK
    <3> QED BY <3>1 DEF Cleared
  <2>3. CASE out' = [out EXCEPT ![p] = "error"] /\ task = Null /\ UNCHANGED <<task, disturbed>>
    <3>1. out'[p] = "error" /\ task' = Null
      BY <1>0, <2>3 DEF TypeOK
    <3>2. p \notin disturbed' => folder'
      BY <1>0, <2>1, <2>3 DEF Claims, Known
    <3> HIDE DEF Delete
    <3> QED BY <3>1, <3>2 DEF Cleared
  <2>4. CASE /\ out' = [out EXCEPT ![p] = "error"] /\ Fails(p, "delete")
             /\ UNCHANGED <<task, disturbed>>
    <3>1. out'[p] = "error" /\ "delete" \in failed'[p]
      BY <1>0, <2>4 DEF TypeOK
    <3> HIDE DEF Delete, Fails
    <3> QED BY <3>1 DEF Cleared
  <2> QED BY <2>2, <2>3, <2>4
<1>8. \A q \in Proc \ {p} : Bystander(q)
  BY <1>0 DEF TypeOK
<1> QED BY <1>1, <1>2, <1>3, <1>4, <1>5, <1>6, <1>7, <1>8 DEF Keeps, Claims

LEMMA SweepKeeps ==
  ASSUME NEW p \in Proc, IInv, Sweep(p)
  PROVE  Keeps(p)
<1> USE DEF Sweep, Goto, End, Fails, Quiet, Deletes, Registers, Disturbs, Installers, Bystander
<1>0. TypeOK /\ SettledOK /\ Claims(p)
  BY DEF IInv
<1>a. pc' \in [Proc -> Places] /\ out' \in [Proc -> Outcomes]
  BY <1>0 DEF TypeOK, Places, Outcomes, Done, Gone
<1>b. failed' \in [Proc -> SUBSET Calls]
  BY <1>0 DEF TypeOK, Calls
<1>c. failed'[p] = failed[p] \/ failed'[p] # {}
  BY <1>0 DEF TypeOK
<1>1. TypeOK'
  BY <1>0, <1>a, <1>b, NullIsNone, ScheduleAssumption DEF TypeOK, Claims, Placed
<1>2. SettledOK'
  BY <1>0, NullIsNone, ScheduleAssumption DEF TypeOK, SettledOK, Claims, Placed
<1>3. Placed(p)'
  BY <1>0 DEF TypeOK, Claims, Placed, Again, Writing, Done, Gone
<1>4. Known(p)'
  BY <1>0, NullIsNone, <1>1 DEF TypeOK, Claims, Known, Placed, Writing
<1>5. Registered(p)'
  BY <1>0 DEF TypeOK, Claims, Known, Placed, Registered, Ended, Done, Gone
<1>6. LossExplained(p)'
  BY <1>0, NullIsNone, <1>1 DEF TypeOK, Claims, Known, Placed, LossExplained, Ended, Writing
<1>7. Cleared(p)'
  <2>1. cmd'[p] = cmd[p] /\ (p \in disturbed' => p \in disturbed)
    OBVIOUS
  <2>2. CASE folder /\ task = Null /\ ~others /\ folder' = FALSE
    BY <1>0, <1>1, <2>2 DEF TypeOK, Cleared
  <2>3. CASE folder /\ (task # Null \/ others) /\ failed' = failed /\ folder' = folder
    BY <1>0, <1>1, <2>1, <2>3 DEF TypeOK, Claims, Known, Cleared
  <2>4. CASE out'[p] = "removed" /\ Fails(p, "sweep") /\ UNCHANGED <<task, disturbed>>
    <3>1. "sweep" \in failed'[p]
      BY <1>0, <2>4 DEF TypeOK
    <3>2. p \notin disturbed' => task' = Null
      BY <1>0, <2>4 DEF Claims, Known
    <3> QED BY <2>4, <3>1, <3>2 DEF Cleared
  <2>6. CASE out'[p] = "error" /\ Fails(p, "count") /\ UNCHANGED <<task, disturbed>>
    <3>1. failed'[p] # {}
      BY <1>0, <2>6 DEF TypeOK
    <3>2. p \notin disturbed' => task' = Null
      BY <1>0, <2>6 DEF Claims, Known
    <3> QED BY <2>6, <3>1, <3>2 DEF Cleared
  <2>5. CASE ~folder
    <3>1. p \in disturbed /\ disturbed \subseteq disturbed'
      BY <1>0, <2>5 DEF Claims, Known
    <3> QED BY <3>1 DEF Cleared
  <2> QED BY <1>0, <2>2, <2>3, <2>4, <2>5, <2>6 DEF TypeOK
<1>8. \A q \in Proc \ {p} : Bystander(q)
  BY <1>0 DEF TypeOK
<1> QED BY <1>1, <1>2, <1>3, <1>4, <1>5, <1>6, <1>7, <1>8 DEF Keeps, Claims

LEMMA KillKeeps ==
  ASSUME NEW p \in Proc, IInv, Kill(p)
  PROVE  Keeps(p)
<1> USE DEF Kill, Goto, End, Fails, Quiet, Deletes, Registers, Disturbs, Installers, Bystander
<1>0. TypeOK /\ SettledOK /\ Claims(p)
  BY DEF IInv
<1>a. pc' \in [Proc -> Places] /\ out' \in [Proc -> Outcomes]
  BY <1>0 DEF TypeOK, Places, Outcomes, Done, Gone
<1>b. failed' \in [Proc -> SUBSET Calls]
  BY <1>0 DEF TypeOK, Calls
<1>c. failed'[p] = failed[p] \/ failed'[p] # {}
  BY <1>0 DEF TypeOK
<1>1. TypeOK'
  BY <1>0, <1>a, <1>b, NullIsNone, ScheduleAssumption DEF TypeOK, Claims, Placed
<1>2. SettledOK'
  BY <1>0, NullIsNone, ScheduleAssumption DEF TypeOK, SettledOK, Claims, Placed
<1>3. Placed(p)'
  BY <1>0 DEF TypeOK, Claims, Placed, Again, Writing, Done, Gone
<1>4. Known(p)'
  BY <1>0, NullIsNone, <1>1 DEF TypeOK, Claims, Known, Placed, Writing
<1>5. Registered(p)'
  BY <1>0 DEF TypeOK, Claims, Known, Placed, Registered, Ended, Done, Gone
<1>6. LossExplained(p)'
  <2>1. "kill" \in failed'[p] /\ failed[p] \subseteq failed'[p]
    BY <1>0 DEF TypeOK
  <2>2. seen'[p] # Null /\ task' = Null /\ p \notin disturbed' /\ cmd'[p] = "schedule"
          => "register" \in failed[p]
    BY <1>0, NullIsNone DEF TypeOK, Claims, Known, Placed, Places, Writing
  <2> QED BY <2>1, <2>2 DEF LossExplained, Ended
<1>7. Cleared(p)'
  BY <1>0, NullIsNone, <1>1, <1>c DEF TypeOK, Claims, Known, Placed, Cleared, Gone, Writing
<1>8. \A q \in Proc \ {p} : Bystander(q)
  BY <1>0 DEF TypeOK
<1> QED BY <1>1, <1>2, <1>3, <1>4, <1>5, <1>6, <1>7, <1>8 DEF Keeps, Claims

(* Reading decides between a verdict, "up to date" and writing: here the   *)
(* comparison enters.                                                      *)
LEMMA ReadKeeps ==
  ASSUME NEW p \in Proc, IInv, Read(p)
  PROVE  Keeps(p)
<1> USE DEF Goto, End, Fails, Quiet, Bystander
<1>0. TypeOK /\ SettledOK /\ Claims(p)
  BY DEF IInv
<1>p. /\ pc[p] = "read" /\ cfg[p] \in Configs
      /\ cmd[p] \in {"schedule", "validate"}
      /\ cmd[p] = "schedule" => Asked(cfg[p])
      /\ cmd[p] = "schedule" /\ p \notin disturbed => seen[p] = Null
  BY <1>0 DEF Read, Claims, Placed, Known
<1>s. /\ UNCHANGED <<task, folder, others, disturbed, settled, cmd, cfg, started>>
      /\ was' = [was EXCEPT ![p] = settled]
  BY DEF Read
<1>j. \A t \in {task, Null} : Judge(p, t) =>
        /\ pc' \in [Proc -> Places] /\ out' \in [Proc -> Outcomes]
        /\ \/ cmd[p] = "validate" /\ pc'[p] = "idle" /\ out'[p] = Check(t, cfg[p])
           \/ /\ cmd[p] = "schedule" /\ t # Null /\ UpToDate(t, cfg[p])
              /\ pc'[p] = "idle" /\ out'[p] = "uptodate"
           \/ /\ cmd[p] = "schedule" /\ ~(t # Null /\ UpToDate(t, cfg[p]))
              /\ pc'[p] = "getfolder" /\ out'[p] = out[p]
  <2>1. \A t : Check(t, cfg[p]) \in Verdicts
    BY DEF Check, Verdicts
  <2>2. \A t : Check(t, cfg[p]) \in Outcomes /\ "uptodate" \in Outcomes
    BY <2>1 DEF Outcomes, Done
  <2>3. "idle" \in Places /\ "getfolder" \in Places
    BY DEF Places
  <2> QED BY <1>0, <2>2, <2>3 DEF Judge, TypeOK
<1>r. \/ seen' = [seen EXCEPT ![p] = task] /\ failed' = failed /\ Judge(p, task)
      \/ /\ failed' = [failed EXCEPT ![p] = @ \cup {"read"}]
         /\ seen' = [seen EXCEPT ![p] = Null] /\ Judge(p, Null)
      \/ /\ failed' = [failed EXCEPT ![p] = @ \cup {"read"}]
         /\ seen' = seen /\ End(p, "error")
  BY DEF Read
<1>a. /\ pc' \in [Proc -> Places] /\ out' \in [Proc -> Outcomes]
      /\ failed' \in [Proc -> SUBSET Calls]
      /\ seen' \in [Proc -> TaskSet \cup {Null}]
  <2>1. "idle" \in Places /\ "error" \in Outcomes /\ "read" \in Calls
    BY DEF Places, Outcomes, Calls
  <2>2. pc' \in [Proc -> Places] /\ out' \in [Proc -> Outcomes]
    BY <1>0, <1>r, <1>j, <2>1 DEF TypeOK
  <2>3. failed' \in [Proc -> SUBSET Calls]
    BY <1>0, <1>r, <2>1 DEF TypeOK
  <2>4. seen' \in [Proc -> TaskSet \cup {Null}]
    BY <1>0, <1>r DEF TypeOK
  <2> QED BY <2>2, <2>3, <2>4
<1>1. TypeOK'
  BY <1>0, <1>a, <1>s DEF TypeOK
<1>2. SettledOK'
  BY <1>0, <1>s DEF SettledOK
<1>3. Placed(p)'
  <2>1. CASE cmd[p] = "validate"
    BY <1>0, <1>r, <1>j, <1>s, <1>p, <2>1 DEF TypeOK, Placed, Writing
  <2>2. CASE cmd[p] = "schedule"
    <3>1. Again(p)' /\ pc'[p] = "getfolder" => ~Distinct(cfg[p])
      <4> SUFFICES ASSUME Again(p)', pc'[p] = "getfolder", Distinct(cfg[p])
                   PROVE  FALSE
        OBVIOUS
      <4>1. settled = cfg[p] /\ "read" \notin failed'[p]
        BY <1>0, <1>s DEF Again, TypeOK
      <4>2. Judge(p, task)
        BY <1>0, <1>r, <4>1 DEF TypeOK
      <4>3. task = Want(cfg[p]) /\ task # Null
        BY <1>0, <1>p, <2>2, <4>1, WantIsTask, NullIsNone DEF SettledOK
      <4> QED BY <4>2, <4>3, <1>j, WantUpToDate
    <3>2. pc'[p] \in {"idle", "getfolder"}
          /\ (pc'[p] = "idle" => out'[p] \in {"uptodate", "error"})
      BY <1>0, <1>r, <1>j, <2>2 DEF TypeOK
    <3> QED BY <1>p, <1>s, <2>2, <3>1, <3>2 DEF Placed, Writing
  <2> QED BY <1>p, <2>1, <2>2
<1>4. Known(p)'
  BY <1>0, <1>r, <1>j, <1>s, <1>p DEF TypeOK, Known, Writing
<1>5. Registered(p)'
  <2>1. CASE Ended(p, "schedule")' /\ out'[p] \in Done
    <3>1. \E t \in {task, Null} : t # Null /\ UpToDate(t, cfg[p])
      BY <1>0, <1>r, <1>j, <1>s, <2>1 DEF TypeOK, Ended, Done
    <3>2. task \in TaskSet /\ UpToDate(task, cfg[p])
      BY <1>0, <3>1 DEF TypeOK
    <3> QED BY <3>2, <1>s, UpToDateIsWant DEF Registered
  <2> QED BY <2>1 DEF Registered
<1>6. LossExplained(p)'
  BY <1>0, <1>r, <1>j, <1>s, <1>p DEF TypeOK, LossExplained, Ended
<1>7. Cleared(p)'
  BY <1>s, <1>p DEF Cleared
<1>8. \A q \in Proc \ {p} : Bystander(q)
  BY <1>0, <1>r, <1>s DEF TypeOK, Judge, Read
<1> QED BY <1>1, <1>2, <1>3, <1>4, <1>5, <1>6, <1>7, <1>8 DEF Keeps, Claims

LEMMA LaunchKeeps ==
  ASSUME NEW p \in Proc, NEW c \in Commands, NEW config \in Configs,
         NEW admin \in BOOLEAN, IInv, Launch(p, c, config, admin)
  PROVE  Keeps(p)
<1> USE DEF Launch, Goto, End, Bystander
<1>0. TypeOK /\ SettledOK /\ Claims(p)
  BY DEF IInv
<1>s. /\ UNCHANGED <<task, folder, others, settled>>
      /\ cmd' = [cmd EXCEPT ![p] = c] /\ cfg' = [cfg EXCEPT ![p] = config]
      /\ seen' = [seen EXCEPT ![p] = Null]
      /\ failed' = [failed EXCEPT ![p] = {}]
      /\ was' = [was EXCEPT ![p] = Null]
      /\ disturbed' = disturbed \ {p}
      /\ started' \in 0..MaxCmds
  BY <1>0, ScheduleAssumption DEF TypeOK
<1>o. /\ pc' \in [Proc -> Places] /\ out' \in [Proc -> Outcomes]
      /\ pc[p] = "idle"
      /\ \/ pc'[p] = "idle" /\ out'[p] \in {"refused", "disabled"}
         \/ /\ pc'[p] = "connect" /\ out'[p] = out[p]
            /\ c = "schedule" => Asked(config)
      /\ \A q \in Proc \ {p} : pc'[q] = pc[q] /\ out'[q] = out[q]
  BY <1>0 DEF TypeOK, Places, Outcomes
<1> HIDE DEF Launch
<1>1. TypeOK'
  BY <1>0, <1>s, <1>o DEF TypeOK, Calls
<1>2. SettledOK'
  BY <1>0, <1>s DEF SettledOK
<1>3. Placed(p)'
  BY <1>0, <1>s, <1>o, NullIsNone DEF TypeOK, Placed, Writing, Done, Again
<1>4. Known(p)'
  BY <1>0, <1>s, <1>o DEF TypeOK, Known, Writing
<1>5. Registered(p)'
  BY <1>0, <1>s, <1>o DEF TypeOK, Registered, Ended, Done
<1>6. LossExplained(p)'
  BY <1>0, <1>s, <1>o DEF TypeOK, LossExplained, Ended
<1>7. Cleared(p)'
  BY <1>0, <1>s, <1>o DEF TypeOK, Cleared, Gone
<1>8. \A q \in Proc \ {p} : Bystander(q)
  BY <1>0, <1>s, <1>o DEF TypeOK
<1> QED BY <1>1, <1>2, <1>3, <1>4, <1>5, <1>6, <1>7, <1>8 DEF Keeps, Claims
-----------------------------------------------------------------------------
LEMMA StepKeeps ==
  ASSUME NEW p \in Proc, IInv, Keeps(p)
  PROVE  IInv'
<1>1. \A q \in Proc \ {p} : Claims(q)'
  BY BystanderKeeps DEF IInv, Keeps
<1> QED BY <1>1 DEF IInv, Keeps

LEMMA Inductive == IInv /\ [Next]_vars => IInv'
<1> SUFFICES ASSUME IInv, [Next]_vars  PROVE IInv'
  OBVIOUS
<1>1. CASE AddOther
  <2>1. \A q \in Proc : Bystander(q)
    BY <1>1 DEF AddOther, Bystander, local
  <2>2. TypeOK' /\ SettledOK'
    BY <1>1 DEF AddOther, IInv, TypeOK, SettledOK, local
  <2> QED BY <2>1, <2>2, BystanderKeeps DEF IInv
<1>2. CASE UNCHANGED vars
  <2>1. \A q \in Proc : Bystander(q)
    BY <1>2 DEF vars, Bystander
  <2>2. TypeOK' /\ SettledOK'
    BY <1>2 DEF vars, IInv, TypeOK, SettledOK
  <2> QED BY <2>1, <2>2, BystanderKeeps DEF IInv
<1>3. ASSUME NEW p \in Proc, NEW c \in Commands, NEW config \in Configs,
             NEW admin \in BOOLEAN, Launch(p, c, config, admin)
      PROVE  IInv'
  BY <1>3, LaunchKeeps, StepKeeps
<1>4. ASSUME NEW p \in Proc, Step(p) \/ Kill(p)
      PROVE  IInv'
  BY <1>4, StepKeeps, ConnectKeeps, ReadKeeps, EnsureFolderKeeps,
     RegisterKeeps, FallbackDeleteKeeps, ReregisterKeeps, FindFolderKeeps,
     DeleteKeeps, SweepKeeps, KillKeeps DEF Step
<1> QED BY <1>1, <1>2, <1>3, <1>4 DEF Next

LEMMA Initially == Init => IInv
<1> SUFFICES ASSUME Init  PROVE IInv
  OBVIOUS
<1>1. "idle" \in Places /\ "none yet" \in Outcomes /\ "validate" \in Commands
  BY DEF Places, Outcomes, Commands
<1>2. TypeOK
  <2>1. started \in 0..MaxCmds /\ task \in TaskSet \cup {Null}
    <3>1. MaxCmds \in Nat /\ Tasks \subseteq TaskSet
      BY ScheduleAssumption
    <3>2. started = 0 /\ task \in Tasks \cup {Null}
      BY DEF Init
    <3> QED BY <3>1, <3>2
  <2>2. /\ pc \in [Proc -> Places] /\ cmd \in [Proc -> Commands]
        /\ out \in [Proc -> Outcomes]
    BY <1>1 DEF Init
  <2>3. /\ cfg \in [Proc -> Configs \cup {Null}]
        /\ seen \in [Proc -> TaskSet \cup {Null}]
        /\ was \in [Proc -> Configs \cup {Null}]
        /\ failed \in [Proc -> SUBSET Calls]
    BY DEF Init
  <2>4. /\ folder \in BOOLEAN /\ others \in BOOLEAN /\ disturbed \subseteq Proc
        /\ settled \in Configs \cup {Null}
        /\ (task # Null \/ others) => folder
    BY DEF Init
  <2> QED BY <2>1, <2>2, <2>3, <2>4 DEF TypeOK
<1>3. SettledOK
  BY DEF Init, SettledOK
<1>4. ASSUME NEW p \in Proc
      PROVE  pc[p] = "idle" /\ out[p] = "none yet" /\ cmd[p] = "validate"
  BY DEF Init
<1>5. ASSUME NEW p \in Proc  PROVE Claims(p)
  BY <1>4 DEF Claims, Placed, Known, Registered, LossExplained, Cleared,
              Ended, Writing
<1> QED BY <1>2, <1>3, <1>5 DEF IInv

(* In every state: the types, what is known at each place of a command,    *)
(* and the claims about commands that have ended.                          *)
THEOREM Invariant == Spec => []IInv
BY Initially, Inductive, PTL DEF Spec

(* What lpm schedule reports done is registered exactly as configured, and  *)
(* lpm validate agrees when no time is configured twice.                   *)
THEOREM SuccessIsRegistered == Spec => []SuccessMatches
<1>1. ASSUME IInv, NEW p \in Proc
      PROVE  Validated(p)
  <2> SUFFICES ASSUME Ended(p, "schedule"), out[p] \in Done,
                      p \notin disturbed, Distinct(cfg[p])
               PROVE  Check(task, cfg[p]) = "ok"
    BY DEF Validated
  <2>1. task = Want(cfg[p]) /\ cfg[p] \in Configs /\ Asked(cfg[p])
    BY <1>1 DEF IInv, Claims, Registered, Placed, Ended
  <2> QED BY <2>1, WantChecksOk
<1>2. IInv => SuccessMatches
  BY <1>1 DEF IInv, Claims, SuccessMatches
<1> QED BY <1>2, Invariant, PTL

(* One failing call, or one kill, never loses the scheduled task.          *)
THEOREM LossTakesTwoFailures == Spec => []LossNeedsTwoFailures
<1>1. IInv => LossNeedsTwoFailures
  BY DEF IInv, Claims, LossNeedsTwoFailures
<1> QED BY <1>1, Invariant, PTL

(* What a removal leaves behind, and which failing call explains it.       *)
THEOREM RemovalIsExplained == Spec => []RemovalExplained
<1>1. IInv => RemovalExplained
  BY DEF IInv, Claims, RemovalExplained
<1> QED BY <1>1, Invariant, PTL

(* lpm schedule repeats a registration only for a time configured twice.   *)
THEOREM RegistrationConverges == Spec => []Converges
<1>1. IInv => Converges
  BY DEF IInv, Claims, Placed, Converges, Ended
<1> QED BY <1>1, Invariant, PTL
=============================================================================
