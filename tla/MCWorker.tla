------------------------------ MODULE MCWorker ------------------------------
EXTENDS WorkerProcess
=============================================================================
