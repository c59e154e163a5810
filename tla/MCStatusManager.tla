-------------------------- MODULE MCStatusManager --------------------------
(* A small instance of StatusManager for TLC. *)
EXTENDS StatusManager, TLC

CONSTANTS conn, chan

\* ConnCb::close and ChanCb::close of an AMQP network.
AmqpCallbacks == (conn :> "Failed") @@ (chan :> "Inoperable")

=============================================================================
