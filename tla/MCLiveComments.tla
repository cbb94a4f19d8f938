-------------------------- MODULE MCLiveComments --------------------------
(* Constant values for checking LiveComments on small instances.           *)
EXTENDS LiveComments

CONSTANTS t1, t2

TwoThreads == {t1, t2}
OneThread == {t1}
NoThread == {}
===========================================================================
