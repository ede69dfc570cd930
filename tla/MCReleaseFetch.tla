---------------------------- MODULE MCReleaseFetch ----------------------------
(***************************************************************************)
(* Instances of ReleaseFetch for TLC.                                       *)
(***************************************************************************)
EXTENDS ReleaseFetch

CONSTANTS latest, other

\* Faults that leave the boot directory alone.
Harmless == {"network", "settings", "log"}
Everything == Harmless \cup {"kill", "rename", "remove"}
=============================================================================
