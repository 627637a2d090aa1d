---------------------------- MODULE ServerFiles ----------------------------
(***************************************************************************)
(* A server process between its two files: the snapshot of its model cache *)
(* and its request log.  The process may end between any two steps; what   *)
(* the next one has is what the files say.                                 *)
(***************************************************************************)
EXTENDS ModelCache, Tracker

vars == <<cacheVars, trackVars>>

Init == CacheInit /\ TrackInit

Restart == CacheRestart /\ TrackRestart

Next ==
  \/ CacheNext /\ UNCHANGED trackVars
  \/ TrackNext /\ UNCHANGED cacheVars
  \/ Restart

Spec == Init /\ [][Next]_vars
=============================================================================
