---------------------------- MODULE MCWithdrawal ----------------------------
(* Instances of Withdrawal for TLC. *)
EXTENDS Withdrawal

CONSTANTS t1, t2, flutterwave, paystack

Rows == {t1, t2}

(* DEFAULT_CURRENCY_PROVIDERS: t1 is in KES, t2 in NGN. *)
DefaultRoute == [t \in Rows |-> IF t = t1 THEN <<flutterwave>> ELSE <<paystack, flutterwave>>]

(* Two effects name t1, one names t2. *)
RowEvents == [t \in Rows |-> IF t = t1 THEN 2 ELSE 1]
=============================================================================
