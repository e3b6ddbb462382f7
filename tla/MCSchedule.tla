----------------------------- MODULE MCSchedule -----------------------------
(* Schedule with two processes, five configs and four tasks found.         *)
EXTENDS Schedule, TLC

Sym == Permutations(Proc)

Cfg(s, e, ts, w) == [section |-> s, enabled |-> e, times |-> ts, weekdays |-> w]

\* No section; disabled; two times out of order; the same time twice; an
\* invalid time.
MCConfigs == {Cfg("absent", "missing", <<>>, TRUE),
              Cfg("object", "false", <<"05:00">>, TRUE),
              Cfg("object", "true", <<"15:00", "05:00">>, TRUE),
              Cfg("object", "true", <<"05:00", "05:00">>, FALSE),
              Cfg("object", "true", <<"15:00", "24:00">>, TRUE)}

Tsk(ts, w, s, a, e) ==
  [times |-> ts, weekdays |-> w, system |-> s, args |-> a, exe |-> e]

\* Registered by an older version (a user's account, --collect, bare lpm), by
\* an install that is gone, by another install, for another schedule.
MCTasks == {Tsk({"05:00", "15:00"}, TRUE, FALSE, FALSE, "bare"),
            Tsk({"05:00", "15:00"}, TRUE, TRUE, TRUE, "gone"),
            Tsk({"05:00", "15:00"}, TRUE, TRUE, TRUE, "other"),
            Tsk({"05:00"}, FALSE, TRUE, TRUE, "this")}
=============================================================================
