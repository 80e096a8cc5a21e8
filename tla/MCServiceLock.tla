--------------------------- MODULE MCServiceLock ---------------------------
(* TLC instances of ServiceLock.                                           *)
EXTENDS ServiceLock
=============================================================================
