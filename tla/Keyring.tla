------------------------------- MODULE Keyring -------------------------------
(***************************************************************************)
(* internal/webhook: the wrapping keys that seal the signing secrets at    *)
(* rest.  Every process has a keyring from its environment, and re-seals   *)
(* what it finds under its first key before it serves.  The operator       *)
(* rotates keys by the procedure of docs/development.md, process by        *)
(* process, while the others create and retire secrets.                    *)
(***************************************************************************)
EXTENDS Naturals

CONSTANTS
    Replicas,       \* API processes
    SecretRows,       \* rows of webhook_signing_secrets
    MaxKey,         \* bound on the keys, numbered as they are made
    MaxSeals        \* bound on the times one row is sealed

ASSUME KeyringAssumption == MaxKey \in Nat /\ MaxSeals \in Nat \ {0}

VARIABLES
    deployed,       \* the keyring the operator deploys
    confirmed,      \* it is known that only its first key is in use
    replica,        \* each process: its keyring, and what it does
    envelope        \* the sealed secret of each row

keyringVars == <<deployed, confirmed, replica, envelope>>

\* The first key seals, all of them open.  An unset keyring has none.
Keyrings == [first : 0..MaxKey, keys : SUBSET (1..MaxKey)]
Unset == [first |-> 0, keys |-> {}]

\* The number stands for the nonce, which no two envelopes of a row share.
Envelopes == [state : {"sealed"}, key : 1..MaxKey, number : 1..MaxSeals]
None == [state |-> "none"]
Retired == [state |-> "retired"]
Sealed(v) == envelope[v].state = "sealed"

KeyringTypeOK ==
    /\ deployed \in Keyrings
    /\ confirmed \in BOOLEAN
    /\ replica \in [Replicas ->
          [pc : {"down", "serving"}, ring : Keyrings]
             \cup [pc : {"starting"}, ring : Keyrings,
                   listed : [SecretRows -> Envelopes \cup {None}]]]
    /\ envelope \in [SecretRows -> Envelopes \cup {None, Retired}]

KeyringInit ==
    /\ deployed = Unset
    /\ confirmed = FALSE
    /\ replica = [p \in Replicas |-> [pc |-> "down", ring |-> Unset]]
    /\ envelope = [v \in SecretRows |-> None]

-----------------------------------------------------------------------------
(* Processes *)

Becomes(p, pc, ring) == replica' = [replica EXCEPT ![p] = [pc |-> pc, ring |-> ring]]

\* Initialize lists the secrets that are not retired.
Start(p) ==
    /\ replica[p].pc = "down"
    /\ replica' = [replica EXCEPT ![p] =
          [pc |-> "starting", ring |-> @.ring,
           listed |-> [v \in SecretRows |-> IF Sealed(v) THEN envelope[v] ELSE None]]]
    /\ UNCHANGED <<deployed, confirmed, envelope>>

Listed(p) == {v \in SecretRows : replica[p].listed[v] # None}
CanOpen(p, e) == e.key \in replica[p].ring.keys

\* One secret that does not open ends the startup; a missing keyring opens none.
RefuseToStart(p) ==
    /\ replica[p].pc = "starting"
    /\ \E v \in Listed(p) : ~ CanOpen(p, replica[p].listed[v])
    /\ Becomes(p, "down", replica[p].ring)
    /\ UNCHANGED <<deployed, confirmed, envelope>>

\* ReplaceEnvelope compares what it replaces, whose key and nonce no other has.
Unreplaced(v, old) == envelope[v] = old

\* A row that has changed since it was listed is left as it is.
Rewrap(p) ==
    /\ replica[p].pc = "starting"
    /\ \E v \in Listed(p) :
          LET old == replica[p].listed[v]
              first == replica[p].ring.first IN
          /\ CanOpen(p, old)
          /\ old.number < MaxSeals
          /\ replica' = [replica EXCEPT ![p].listed[v] = None]
          /\ envelope' = IF old.key # first /\ Unreplaced(v, old)
                         THEN [envelope EXCEPT ![v] = [old EXCEPT !.key = first, !.number = @ + 1]]
                         ELSE envelope
    /\ UNCHANGED <<deployed, confirmed>>

Serve(p) ==
    /\ replica[p].pc = "starting"
    /\ Listed(p) = {}
    /\ Becomes(p, "serving", replica[p].ring)
    /\ UNCHANGED <<deployed, confirmed, envelope>>

Stop(p) ==
    /\ replica[p].pc # "down"
    /\ Becomes(p, "down", replica[p].ring)
    /\ UNCHANGED <<deployed, confirmed, envelope>>

\* Create and PrepareRotation seal a new secret; without a keyring they refuse.
SealNew(p, v) ==
    /\ replica[p].pc = "serving"
    /\ replica[p].ring # Unset
    /\ envelope[v] = None
    /\ envelope' = [envelope EXCEPT ![v] =
          [state |-> "sealed", key |-> replica[p].ring.first, number |-> 1]]
    /\ UNCHANGED <<deployed, confirmed, replica>>

Retire(p, v) ==
    /\ replica[p].pc = "serving"
    /\ Sealed(v)
    /\ envelope' = [envelope EXCEPT ![v] = Retired]
    /\ UNCHANGED <<deployed, confirmed, replica>>

ReplicaStep(p) ==
    \/ Start(p) \/ RefuseToStart(p) \/ Rewrap(p) \/ Serve(p) \/ Stop(p)
    \/ \E v \in SecretRows : SealNew(p, v) \/ Retire(p, v)

-----------------------------------------------------------------------------
(* The operator *)

\* 1. A new key goes before all the others.
PrependKey ==
    /\ deployed.first < MaxKey
    /\ deployed' = [first |-> deployed.first + 1, keys |-> deployed.keys \cup {deployed.first + 1}]
    /\ confirmed' = FALSE
    /\ UNCHANGED <<replica, envelope>>

\* 2. Each process is restarted with the deployed keyring; until then it restarts
\*    with the one it had.
Redeploy(p) ==
    /\ replica[p].ring # deployed
    /\ Becomes(p, "down", deployed)
    /\ UNCHANGED <<deployed, confirmed, envelope>>

UpToDate(p) == replica[p].ring.first = deployed.first

\* (OneUpToDate takes the first process for all of them.)
OneUpToDate == \E p \in Replicas : UpToDate(p)
AllUpToDate == \A p \in Replicas : UpToDate(p)

\* 3. The query names the new key only, and all processes use it.
Confirm ==
    /\ deployed # Unset
    /\ AllUpToDate
    /\ \A v \in SecretRows : Sealed(v) => envelope[v].key = deployed.first
    /\ confirmed' = TRUE
    /\ UNCHANGED <<deployed, replica, envelope>>

\* 4. The old keys go in a later deployment.
RemoveOldKeys ==
    /\ confirmed
    /\ deployed' = [deployed EXCEPT !.keys = {deployed.first}]
    /\ UNCHANGED <<confirmed, replica, envelope>>

KeyringNext ==
    \/ \E p \in Replicas : ReplicaStep(p) \/ Redeploy(p)
    \/ PrependKey \/ Confirm \/ RemoveOldKeys

KeyringSpec == KeyringInit /\ [][KeyringNext]_keyringVars

-----------------------------------------------------------------------------
\* Whoever follows the procedure loses no secret: what is not retired is sealed
\* with a key of the deployed keyring, and every process whose first key is the
\* deployed one opens it, whatever the processes that are behind still seal.
NothingLockedOut ==
    \A v \in SecretRows : Sealed(v) =>
        /\ envelope[v].key \in deployed.keys
        /\ \A p \in Replicas : UpToDate(p) => CanOpen(p, envelope[v])

\* A process that has listed a secret before it was retired does not bring its
\* ciphertext back, however late it re-seals.
RetiredStaysEmpty ==
    [][\A v \in SecretRows : envelope[v] = Retired => envelope'[v] = Retired]_keyringVars
=============================================================================
