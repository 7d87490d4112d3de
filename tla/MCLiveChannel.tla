---------------------------- MODULE MCLiveChannel ----------------------------
(* Small instances of LiveChannel for TLC. *)
EXTENDS LiveChannel, TLC

\* WebSocket objects are interchangeable.
SocketSymmetry == Permutations(Sockets)

=============================================================================
