----------------------------- MODULE MCTransport -----------------------------
\* Bounded instance of Transport: a connection whose peer sends up to two
\* messages, the second of which is a log request.
EXTENDS Transport

MCLoad == [c \in Conns |-> 2]
MCLogMsgs == Conns \X {2}
=============================================================================
