------------------------------ MODULE Webhooks ------------------------------
(***************************************************************************)
(* The rows and transactions of internal/postgres/webhook*.go: Webhook     *)
(* Integrations with the versions of their signing secret, the deliveries  *)
(* an Alert is routed to, and the attempts of each delivery.               *)
(*                                                                         *)
(* Every administrator's request carries the Integration's version, which  *)
(* is compared under the row's lock before anything is written: one that   *)
(* is out of date changes nothing, and any other is one step.              *)
(***************************************************************************)
EXTENDS Clock, FiniteSets

CONSTANTS
    Alerts,
    Integrations,
    MaxEnabled,     \* MaxEnabledIntegrations
    MaxSecret,      \* bound on the versions of a signing secret
    MaxAttempts     \* MaxDeliveryAttempts

ASSUME WebhooksAssumption ==
    /\ MaxEnabled \in Nat
    /\ MaxSecret \in Nat \ {0}
    /\ MaxAttempts \in Nat \ {0}

VARIABLES
    alerts,         \* Alerts projected so far
    integration,    \* webhook_integrations
    secret,         \* the state of each webhook_signing_secrets row
    delivery,       \* webhook_deliveries
    attempt         \* the outcome of each webhook_delivery_attempts row

webhookVars == <<alerts, integration, secret, delivery, attempt>>

Deliveries == Alerts \X Integrations
Secrets == Integrations \X (1..MaxSecret)
Attempts == Deliveries \X (1..MaxAttempts)

SecretStates == {"none", "pending", "active", "retiring", "retired"}
Outcomes == {"none", "inProgress", "succeeded", "failed", "cancelled"}

\* A row that is not settled is leased if expires is not 0.
DeliveryRows == [state : {"none", "pending", "settled"}, suppressed : BOOLEAN,
                 secret : 0..MaxSecret, available : Nat, attempts : 0..MaxAttempts,
                 expires : Nat]
NoDelivery == [state |-> "none", suppressed |-> FALSE, secret |-> 0,
               available |-> 0, attempts |-> 0, expires |-> 0]

WebhookTypeOK ==
    /\ alerts \subseteq Alerts
    /\ integration \in [Integrations -> [enabled : BOOLEAN, active : 0..MaxSecret]]
    /\ secret \in [Secrets -> SecretStates]
    /\ delivery \in [Deliveries -> DeliveryRows]
    /\ attempt \in [Attempts -> Outcomes]

WebhookInit ==
    /\ alerts = {}
    /\ integration = [i \in Integrations |-> [enabled |-> FALSE, active |-> 0]]
    /\ secret = [s \in Secrets |-> "none"]
    /\ delivery = [d \in Deliveries |-> NoDelivery]
    /\ attempt = [r \in Attempts |-> "none"]

-----------------------------------------------------------------------------
(* Integrations *)

Created(i) == integration[i].active # 0
Enabled(i) == Created(i) /\ integration[i].enabled

\* A new Integration is disabled and has one secret.
CreateIntegration(i) ==
    /\ ~ Created(i)
    /\ integration' = [integration EXCEPT ![i].active = 1]
    /\ secret' = [secret EXCEPT ![<<i, 1>>] = "active"]
    /\ UNCHANGED <<alerts, delivery, attempt>>

\* The Organization's row is locked while the enabled ones are counted.
SetEnabled(i, enabled) ==
    /\ Created(i)
    /\ integration[i].enabled # enabled
    /\ enabled => Cardinality({j \in Integrations : Enabled(j)}) < MaxEnabled
    /\ integration' = [integration EXCEPT ![i].enabled = enabled]
    /\ UNCHANGED <<alerts, secret, delivery, attempt>>

\* A rotation prepares the next secret, activates it once receivers know it, and
\* retires the one before.
InState(i, state) == {v \in 1..MaxSecret : secret[<<i, v>>] = state}

\* (PreparesAlongside only minds another pending one.)
PreparesAlongside(i) == InState(i, "pending") = {}
RotationIdle(i) == InState(i, "pending") \cup InState(i, "retiring") = {}

PrepareSecret(i) ==
    /\ Created(i)
    /\ RotationIdle(i)
    /\ integration[i].active < MaxSecret
    /\ secret' = [secret EXCEPT ![<<i, integration[i].active + 1>>] = "pending"]
    /\ UNCHANGED <<alerts, integration, delivery, attempt>>

ActivateSecret(i) ==
    \E v \in InState(i, "pending") :
        /\ secret' = [secret EXCEPT ![<<i, v>>] = "active",
                                    ![<<i, integration[i].active>>] = "retiring"]
        /\ integration' = [integration EXCEPT ![i].active = v]
        /\ UNCHANGED <<alerts, delivery, attempt>>

Unfinished(d) == delivery[d].state = "pending"

\* (NeededByEnabled lets the deliveries of a disabled Integration go.)
NeededByEnabled(i, v) ==
    Enabled(i) /\ \E d \in Deliveries : d[2] = i /\ Unfinished(d) /\ delivery[d].secret = v
InUse(i, v) == \E d \in Deliveries : d[2] = i /\ Unfinished(d) /\ delivery[d].secret = v

\* The ciphertext goes with the state.
RetireSecret(i) ==
    \E v \in InState(i, "retiring") :
        /\ ~ InUse(i, v)
        /\ secret' = [secret EXCEPT ![<<i, v>>] = "retired"]
        /\ UNCHANGED <<alerts, integration, delivery, attempt>>

Administer(i) ==
    \/ CreateIntegration(i)
    \/ \E enabled \in BOOLEAN : SetEnabled(i, enabled)
    \/ PrepareSecret(i) \/ ActivateSecret(i) \/ RetireSecret(i)

-----------------------------------------------------------------------------
\* routeWebhookDeliveries: in the transaction that inserts the Alert, a delivery
\* for each Integration that is enabled, with the secret that is active now.
\* Under maintenance it is settled from the start.
NewDelivery(i, now, suppressed) ==
    [state |-> IF suppressed THEN "settled" ELSE "pending", suppressed |-> suppressed,
     secret |-> integration[i].active, available |-> now, attempts |-> 0, expires |-> 0]

Route(a, now, suppressed) ==
    /\ alerts' = alerts \cup {a}
    /\ delivery' = [d \in Deliveries |->
          IF d[1] = a /\ Enabled(d[2]) THEN NewDelivery(d[2], now, suppressed)
          ELSE delivery[d]]
    /\ UNCHANGED <<integration, secret, attempt>>

-----------------------------------------------------------------------------
(* Deliveries *)

Settled(row) == [row EXCEPT !.state = "settled", !.expires = 0]
Attempted(row, expires) == [row EXCEPT !.attempts = @ + 1, !.expires = expires]
Rescheduled(row, next) == [row EXCEPT !.state = "pending", !.expires = 0, !.available = next]

Latest(d) == <<d, delivery[d].attempts>>
Leased(d) == delivery[d].expires # 0
Expired(d, now) == Unfinished(d) /\ Leased(d) /\ delivery[d].expires <= now

\* What a claim does first, to every row: an attempt whose lease ran out is
\* failed, its outcome uncertain, and its delivery settled if it was the last.
Uncertain(d, now) == Expired(d, now) /\ attempt[Latest(d)] = "inProgress"

Exhausted(d, now) == Expired(d, now) /\ delivery[d].attempts = MaxAttempts

\* (ClaimableLeased overlooks the lease.)
ClaimableLeased(d, now) ==
    /\ Unfinished(d)
    /\ delivery[d].available <= now
    /\ delivery[d].attempts < MaxAttempts
Claimable(d, now) ==
    /\ Unfinished(d)
    /\ delivery[d].available <= now
    /\ delivery[d].attempts < MaxAttempts
    /\ ~ Leased(d) \/ Expired(d, now)

ClaimDeliveries(batch, now, expires) ==
    /\ \A d \in batch : Claimable(d, now)
    /\ delivery' = [d \in Deliveries |->
          IF Exhausted(d, now) THEN Settled(delivery[d])
          ELSE IF d \in batch THEN Attempted(delivery[d], expires)
          ELSE delivery[d]]
    /\ attempt' = [r \in Attempts |->
          IF r[1] \in batch /\ r[2] = delivery[r[1]].attempts + 1 THEN "inProgress"
          ELSE IF Uncertain(r[1], now) /\ r = Latest(r[1]) THEN "failed"
          ELSE attempt[r]]
    /\ UNCHANGED <<alerts, integration, secret>>

\* Complete matches the lease holder, for which the attempt's number stands, the
\* attempt in progress, and a lease that had not run out when the call finished.
\* (HoldsAttempt asks for the number only.)
HoldsAttempt(d, n, finished) == delivery[d].attempts = n
HoldsDelivery(d, n, finished) ==
    /\ Unfinished(d)
    /\ delivery[d].attempts = n
    /\ attempt[<<d, n>>] = "inProgress"
    /\ delivery[d].expires > finished

\* next is when to try again; it is ignored if the outcome settles the delivery.
Complete(d, n, outcome, finished, settles, next) ==
    /\ HoldsDelivery(d, n, finished)
    /\ attempt' = [attempt EXCEPT ![<<d, n>>] = outcome]
    /\ delivery' = [delivery EXCEPT ![d] = IF settles THEN Settled(@)
                                          ELSE Rescheduled(@, next)]
    /\ UNCHANGED <<alerts, integration, secret>>

-----------------------------------------------------------------------------
(* Properties of the rows *)

\* NewIntegration accepts what every rotation leaves, whoever runs which step when:
\* one secret is active; the pending one follows it, the retiring one precedes it,
\* and there are never both.
Restorable ==
    \A i \in Integrations :
        /\ InState(i, "active") = IF Created(i) THEN {integration[i].active} ELSE {}
        /\ InState(i, "pending") \subseteq {integration[i].active + 1}
        /\ InState(i, "retiring") \subseteq {integration[i].active - 1}
        /\ InState(i, "pending") = {} \/ InState(i, "retiring") = {}

\* The secret that an unfinished delivery was routed with stays, however rotations
\* and routings interleave: none becomes undeliverable.
UnfinishedHasSecret ==
    \A d \in Deliveries : Unfinished(d) =>
        secret[<<d[2], delivery[d].secret>>] \in {"active", "retiring"}

\* The audit of a delivery: attempts are numbered from 1 without a hole, all but
\* the last have failed or were cancelled, the last one is in progress exactly while
\* the delivery is leased, unless its lease ran out, and after a success nothing follows.
AuditSound ==
    \A d \in Deliveries :
        /\ \A n \in 1..MaxAttempts :
              /\ attempt[<<d, n>>] = "none" <=> n > delivery[d].attempts
              /\ n < delivery[d].attempts => attempt[<<d, n>>] \in {"failed", "cancelled"}
              /\ attempt[<<d, n>>] = "inProgress" => Unfinished(d) /\ Leased(d)
              /\ attempt[<<d, n>>] = "succeeded" => delivery[d].state = "settled"
        /\ delivery[d].suppressed => delivery[d].attempts = 0

\* What was decided stays decided: the outcome of an attempt, and a settled delivery.
AuditIsFinal ==
    [][/\ \A r \in Attempts :
             attempt[r] \notin {"none", "inProgress"} => attempt'[r] = attempt[r]
       /\ \A d \in Deliveries :
             delivery[d].state = "settled" => delivery'[d] = delivery[d]]_<<attempt, delivery>>
=============================================================================
