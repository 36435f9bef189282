---------------------------- MODULE MCWatchSync ----------------------------
(* The scenarios of the runs of WatchSync. *)
EXTENDS WatchSync

QueriesLossless == [ask |-> TRUE, fail |-> FALSE, errors |-> 0]
MutationsFaulty == [ask |-> FALSE, fail |-> TRUE, errors |-> 2]
QueriesLate == [ask |-> TRUE, fail |-> TRUE, errors |-> 0]
QueriesMissed == [ask |-> TRUE, fail |-> FALSE, errors |-> 1]

MCScenarios == {QueriesLossless, MutationsFaulty, QueriesLate, QueriesMissed}
LateOnly == {QueriesLate}
=============================================================================
