---------------------------- MODULE MCSafeQueue ----------------------------
(* Two producers and two consumers of safequeue.h, three pushes. *)
EXTENDS SafeQueue
=============================================================================
