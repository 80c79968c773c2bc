---------------------------- MODULE MCEventWorker ----------------------------
(* A small instance of EventWorker for TLC.                                *)
EXTENDS EventWorker

LastIsPoison == {3}

=============================================================================
