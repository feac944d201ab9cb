-------------------------- MODULE MCIdempotency --------------------------
(* Idempotency with one key, two bodies and two requests at a time.        *)
EXTENDS Idempotency
==========================================================================
