-------------------------- MODULE PlatformClientMC --------------------------
(* Two workers that start jobs and wait for them, two processes that save. *)
EXTENDS PlatformClient

Limits == [ops |-> 2, lost |-> 1]
=============================================================================
