----------------------------- MODULE MCCassSpeed -----------------------------
(* Small instances of CassSpeed for TLC. *)
EXTENDS CassSpeed

Cmd(from, to, devices, methods, step, sets) ==
  [from |-> from, to |-> to, devices |-> devices, methods |-> methods, step |-> step, sets |-> sets]

\* Two devices, several chunks and a start within a second; two methods with a step that
\* does not divide a second; a chunk too long for an int; a range within a second; raw data
\* with a step, and with skipped samples; a range that ends before it begins; "Skip" with a step
\* of all the samples of a chunk; and no device.
MCRequests == { Cmd(65, 80, <<"A", "B">>, {"Raw"}, 1, 1),
                Cmd(70, 90, <<"A">>, {"Min", "Skip"}, 3, 2),
                Cmd(60, 80, <<"A">>, {"Raw"}, 1, 1),
                Cmd(73, 80, <<"A">>, {"Raw"}, 1, 1),
                Cmd(65, 70, <<"B">>, {"Avg", "Raw"}, 2, 3),
                Cmd(60, 70, <<"B">>, {"Skip", "Raw"}, 1, 1),
                Cmd(75, 70, <<"B">>, {"Raw"}, 1, 1),
                Cmd(60, 80, <<"B">>, {"Skip"}, 4, 6),
                Cmd(60, 80, <<>>, {"Avg"}, 2, 1) }

\* All seconds of the ranges, or one of them missing of device A.
MCArchives == {[d \in Devices |-> IF d = "A" THEN a ELSE 6..8] : a \in {6..8, {6, 8}}}
=============================================================================
