--------------------------- MODULE MCDownloadJob ---------------------------
(***************************************************************************)
(* DownloadJob with small sets of jobs and worker threads.                 *)
(***************************************************************************)
EXTENDS DownloadJob, TLC

CONSTANTS j1, j2, j3, j4, w1, w2, w3

TwoJobs == {j1, j2}
ThreeJobs == {j1, j2, j3}
FourJobs == {j1, j2, j3, j4}
TwoWorkers == {w1, w2}
ThreeWorkers == {w1, w2, w3}

NoFaults == {}
AllFaults == FaultKinds
Failures == {"prepare", "exec", "slow"}

Symmetry == Permutations(Jobs) \union Permutations(Workers)
=============================================================================
