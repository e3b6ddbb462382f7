------------------------------- MODULE MCWalk -------------------------------
(* Walk of two hosts over a small tree of OIDs: one group with a branch    *)
(* table and one inside it, some separate roots, several command lines.   *)
EXTENDS Walk, TLC

MCExpand == [ip |-> <<"h1">>, cidr |-> <<"h2", "h1">>]
MCGroupRoots == [zebra |-> {<<1>>}, zql |-> {<<1, 2>>}, host |-> {<<2>>, <<3>>, <<4>>}]
MCBranches == (<<1>> :> {2, 10})
MCOids == {<<1>>, <<1, 2>>, <<1, 2, 1>>, <<1, 3>>, <<1, 10>>, <<2, 1>>}

Line(ts, mib, keys, custom, branch, ver, fb, pr) ==
  [targets |-> ts, mib |-> mib, keys |-> keys, custom |-> custom,
   perBranch |-> branch, version |-> ver, fallback |-> fb, probe |-> pr]

\* Overlapping groups on both hosts; all groups on one; branches, a root
\* that is none of them and one beside the group; v1 without fallback; nothing
\* selected.
MCRuns == {
  Line(<<"ip", "cidr">>, "some", {"zql"}, {<<1, 2>>, <<1, 2, 1>>}, FALSE, "v2c", TRUE, TRUE),
  Line(<<"ip">>, "all", {}, {}, FALSE, "v2c", TRUE, TRUE),
  Line(<<"cidr">>, "some", {"zebra"}, {<<1, 3>>, <<2>>}, TRUE, "v2c", FALSE, TRUE),
  Line(<<"cidr", "ip">>, "absent", {}, {<<1, 3>>}, FALSE, "v1", TRUE, FALSE),
  Line(<<"ip">>, "none", {}, {}, FALSE, "v1", TRUE, TRUE)}
=============================================================================
