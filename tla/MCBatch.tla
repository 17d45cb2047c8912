------------------------------- MODULE MCBatch -------------------------------
(* Small instances of Batch for TLC. *)
EXTENDS Batch

\* More commands than process ids, so that ids are used again: a failure, a
\* command that cannot be executed, and successes around them; and commands that
\* never end by themselves next to a failure.
TwoJobs == {<<"ok", "fail", "bad", "ok">>, <<"fail", "hang", "hang", "ok">>}

\* arg4.txt: the first fails before the second ends.
TestFour == {<<"fail", "ok">>}

=============================================================================
