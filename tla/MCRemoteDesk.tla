---------------------------- MODULE MCRemoteDesk ----------------------------
(***************************************************************************)
(* Symmetry for TLC's safety runs: viewers, IDs, PINs and sessions are     *)
(* never compared but for equality.                                        *)
(***************************************************************************)
EXTENDS RemoteDesk, TLC

MCSymmetry ==
    Permutations(Viewer) \cup Permutations(ID) \cup Permutations(PIN)
       \cup Permutations(Session)
=============================================================================
