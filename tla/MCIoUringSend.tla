--------------------------- MODULE MCIoUringSend ---------------------------
(* Instances of IoUringSend for TLC. *)
EXTENDS IoUringSend

CONSTANTS c1, c2, f1, f2

TwoConns == {c1, c2}
TwoFds == {f1, f2}
=============================================================================
