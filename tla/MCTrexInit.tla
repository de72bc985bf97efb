----------------------------- MODULE MCTrexInit -----------------------------
(* Model-checking instance of TrexInit: the SDK levels on either side of  *)
(* every threshold JNI_OnLoad and trex.h compare against.                 *)
EXTENDS TrexInit

\* 32-bit devices: Jelly Bean (Dalvik), KitKat (either runtime), L, M, Q, R.
MCSdks32 == {18, 19, 21, 23, 29, 30}
\* 64-bit devices start at L.
MCSdks64 == {21, 23, 29, 30}
MCThreads1 == {"t1"}
=============================================================================
