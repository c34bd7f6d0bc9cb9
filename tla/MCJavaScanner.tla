--------------------------- MODULE MCJavaScanner ---------------------------
(***************************************************************************)
(* Small instances of JavaScanner: three threads, two adapters, and calls  *)
(* with a number, with a negative one, by address and by name.             *)
(***************************************************************************)
EXTENDS JavaScanner

CONSTANTS t1, t2, t3

MCThreads   == {t1, t2, t3}
MCDevices   == {0, 1}
MCArguments == {-1, 0}
=============================================================================
