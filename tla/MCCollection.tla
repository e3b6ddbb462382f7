---------------------------- MODULE MCCollection ----------------------------
(* Collection for TLC: the configured printers of each run of the checker. *)
EXTENDS Collection

CONSTANTS a, b

OnePrinter   == << [ip |-> a, known |-> TRUE] >>
TwoPrinters  == << [ip |-> a, known |-> TRUE], [ip |-> b, known |-> FALSE] >>
(* the same address configured twice, and an unknown model                 *)
SharedIp     == << [ip |-> a, known |-> TRUE], [ip |-> a, known |-> TRUE] >>
=============================================================================
