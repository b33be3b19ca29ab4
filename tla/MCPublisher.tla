------------------------------- MODULE MCPublisher -------------------------------
(***************************************************************************)
(* Small instances of RabbitPublisher.                                     *)
(***************************************************************************)
EXTENDS RabbitPublisher

CONSTANTS w1, w2

Workers == {w1, w2}

=============================================================================
