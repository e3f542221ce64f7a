-------------------------- MODULE MCUsdcConversion --------------------------
(* Instances of UsdcConversion for TLC. *)
EXTENDS UsdcConversion

CONSTANTS ngn, kes

TwoCurrencies == <<ngn, kes>>
=============================================================================
