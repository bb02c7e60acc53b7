----------------------------- MODULE MCDigestAuth -----------------------------
(* Three attempts, against servers that never expire a nonce, expire it after *)
(* every request, and after every second one: enough for two workers to find  *)
(* the same nonce stale while a third still answers the one before.           *)
EXTENDS DigestAuth

CONSTANTS w1, w2, w3

MCWorkers == {w1, w2, w3}
MCNonceLifetimes == {0, 1, 2}
=============================================================================
