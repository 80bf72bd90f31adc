---------------------------- MODULE MCAdbSockets ----------------------------
(***************************************************************************)
(* AdbSockets for TLC: a package of three bytes, sent as two WRTEs through a *)
(* socket pair with room for one byte, and an empty one (what the comment    *)
(* in adb_install.cpp suggests to end the wait for a package), that may be   *)
(* sent at the same time or after it.                                        *)
(***************************************************************************)
EXTENDS AdbSockets

MCSize == <<3, 0>>
=============================================================================
