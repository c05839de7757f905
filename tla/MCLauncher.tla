----------------------------- MODULE MCLauncher -----------------------------
(* Launcher with two results to record: none, some or all of them can be   *)
(* there when Run ends.                                                    *)
EXTENDS Launcher

=============================================================================
