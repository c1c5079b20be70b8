----------------------------- MODULE MCElectronApp ------------------------------
(***************************************************************************)
(* Instances of ElectronApp for TLC.                                        *)
(***************************************************************************)
EXTENDS ElectronApp

CONSTANTS phone, tablet, q1, q2, f1, f2
=============================================================================
