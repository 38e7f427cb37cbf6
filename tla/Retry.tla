------------------------------- MODULE Retry -------------------------------
(***************************************************************************)
(* RetryDelay of internal/outbox/outbox.go, which the outbox dispatcher    *)
(* and the Webhook delivery dispatcher share.  The jitter is a hash of the *)
(* entry and the attempt: any value below its bound.                       *)
(***************************************************************************)
EXTENDS Integers

CONSTANTS RetryBase, RetryCap

ASSUME RetryAssumption ==
    /\ RetryBase \in Nat \ {0}
    /\ RetryCap \in Nat
    /\ RetryBase <= RetryCap

\* The delay doubles with each attempt until doubling would pass the cap.
Backoff[attempt \in Nat] ==
    IF attempt <= 1 THEN RetryBase
    ELSE IF Backoff[attempt - 1] > RetryCap \div 2 THEN RetryCap
    ELSE 2 * Backoff[attempt - 1]

\* Up to a fifth more, without passing the cap.
JitterBound(delay) ==
    IF delay \div 5 > RetryCap - delay THEN RetryCap - delay ELSE delay \div 5

RetryDelays(attempt) ==
    {delay \in RetryBase..RetryCap :
        /\ Backoff[attempt] <= delay
        /\ delay <= Backoff[attempt] + JitterBound(Backoff[attempt])}
=============================================================================
