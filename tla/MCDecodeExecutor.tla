-------------------------- MODULE MCDecodeExecutor ---------------------------
EXTENDS DecodeExecutor, TLC

CONSTANTS f1, f2, b1, b2

ForegroundThreads == {f1, f2}
BackgroundThreads == {b1, b2}
=============================================================================
