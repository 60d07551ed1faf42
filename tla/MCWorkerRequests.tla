-------------------------- MODULE MCWorkerRequests ---------------------------
EXTENDS WorkerRequests, TLC

CONSTANTS r1, r2, r3, p1, p2

ThreeRequests == {r1, r2, r3}
TwoIds        == {p1, p2}
=============================================================================
