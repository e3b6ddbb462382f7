--------------------------- MODULE MCWeeklyReport ---------------------------
(* WeeklyReport with days of two hours and weeks of two days, in a zone one *)
(* hour west of UTC: a day of one hour, one of three hours, one of two.    *)
EXTENDS WeeklyReport

Sym == Permutations(Ips)
MCMidnights == <<1, 2, 5, 7>>
=============================================================================
