-------------------------- MODULE MCListenCommand --------------------------
(* ListenCommand for TLC: no limit of retries, or one. *)
EXTENDS ListenCommand

SomeLimits == {None, 1}
=============================================================================
