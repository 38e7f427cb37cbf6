---------------------------- MODULE OutboxStore ----------------------------
(***************************************************************************)
(* The tables and transactions of internal/postgres/outbox.go: the queue,  *)
(* the processed markers and the dead letters.  An entry announces one     *)
(* version of one aggregate; its payload is left out.                      *)
(*                                                                         *)
(* A tick claims under a fresh holder token.  Two claims of one entry have *)
(* different tokens and every claim counts as an attempt, so the number of *)
(* the claim stands for its token.                                         *)
(***************************************************************************)
EXTENDS Integers

CONSTANTS
    Aggregates,   \* what the entries announce versions of
    MaxVersion,   \* bound on the versions of an aggregate
    MaxTime       \* bound on the clock

ASSUME OutboxStoreAssumption == MaxVersion \in Nat /\ MaxTime \in Nat

Entries == [aggregate : Aggregates, version : 1..MaxVersion]

EntryOf(a, v) == [aggregate |-> a, version |-> v]

VARIABLES
    queue,     \* outbox_entries
    marked,    \* processed_outbox_events: when each entry was marked
    dead       \* dead_letter_outbox_entries: when and why each entry died

outboxVars == <<queue, marked, dead>>

-----------------------------------------------------------------------------
Never  == -1
Nobody == 0

\* The codes an entry can be failed with: a gap in its aggregate's versions, a
\* payload no retry can mend, anything else.
Codes == {"gap", "permanent", "failed"}

QueueRows == [queued : BOOLEAN, attempts : Nat, available : Nat,
              holder : Nat, expires : Nat, gapSince : Nat \cup {Never}]

NoRow == [queued |-> FALSE, attempts |-> 0, available |-> 0,
          holder |-> Nobody, expires |-> 0, gapSince |-> Never]

NotDead == [at |-> Never, code |-> "none"]

Queued(e) == queue[e].queued
Marked(e) == marked[e] # Never
Dead(e)   == dead[e].at # Never

\* ck_outbox_entries_lease: a row has a holder exactly when it has an expiry.
OutboxTypeOK ==
    /\ queue \in [Entries -> QueueRows]
    /\ \A e \in Entries : queue[e].holder = Nobody <=> queue[e].expires = 0
    /\ marked \in [Entries -> Nat \cup {Never}]
    /\ dead \in [Entries -> [at : Nat \cup {Never}, code : Codes \cup {"none"}]]

OutboxInit ==
    /\ queue = [e \in Entries |-> NoRow]
    /\ marked = [e \in Entries |-> Never]
    /\ dead = [e \in Entries |-> NotDead]

-----------------------------------------------------------------------------
\* A producer's transaction inserts the entry, available at once.
Enqueue(e, now) ==
    queue' = [queue EXCEPT ![e] = [NoRow EXCEPT !.queued = TRUE, !.available = now]]

\* Due, and not under an unexpired lease.
\* (AvailableOnly looks at the due instant alone.)
AvailableOnly(e, now) == Queued(e) /\ queue[e].available <= now
Claimable(e, now) ==
    /\ Queued(e)
    /\ queue[e].available <= now
    /\ queue[e].holder = Nobody \/ queue[e].expires <= now

\* Claim: SKIP LOCKED may leave out any row another transaction has locked, so
\* a batch is any part of what can be claimed.  Each claim counts an attempt.
Claim(batch, now, expires) ==
    /\ \A e \in batch : Claimable(e, now)
    /\ queue' = [e \in Entries |->
                   IF e \in batch
                   THEN [queue[e] EXCEPT !.attempts = @ + 1, !.expires = expires,
                                         !.holder = queue[e].attempts + 1]
                   ELSE queue[e]]
    /\ UNCHANGED <<marked, dead>>

\* Every later statement matches the holder token.
HoldsEntry(e, holder) == Queued(e) /\ queue[e].holder = holder

\* Succeed: the marker, unless the handler wrote it, and the row's deletion.
Succeed(e, holder, now) ==
    /\ HoldsEntry(e, holder)
    /\ marked' = [marked EXCEPT ![e] = IF Marked(e) THEN @ ELSE now]
    /\ queue' = [queue EXCEPT ![e] = NoRow]
    /\ UNCHANGED dead

\* Fail, for another attempt: a gap remembers when it was first seen, any other
\* failure forgets it.  (GapForgotten restarts the gap at every failure.)
GapForgotten(e, code, now) == IF code = "gap" THEN now ELSE Never
GapSeen(e, code, now) ==
    IF code # "gap" THEN Never
    ELSE IF queue[e].gapSince = Never THEN now ELSE queue[e].gapSince

Released(row) == [row EXCEPT !.holder = Nobody, !.expires = 0]

Retry(e, holder, code, next, now) ==
    /\ HoldsEntry(e, holder)
    /\ queue' = [queue EXCEPT ![e] =
                   [Released(@) EXCEPT !.available = next,
                                       !.gapSince = GapSeen(e, code, now)]]
    /\ UNCHANGED <<marked, dead>>

\* Fail, for good: the row moves to the dead letters.
Bury(e, holder, code, now) ==
    /\ HoldsEntry(e, holder)
    /\ ~ Dead(e)
    /\ dead' = [dead EXCEPT ![e] = [at |-> now, code |-> code]]
    /\ queue' = [queue EXCEPT ![e] = NoRow]
    /\ UNCHANGED marked

\* Cleanup: markers and dead letters from before the retention limit go.
\* (LiveRowsAge lets old rows of the queue go too.)
LiveRowsAge(before) ==
    queue' = [e \in Entries |-> IF queue[e].available < before THEN NoRow ELSE queue[e]]
LiveRowsStay(before) == UNCHANGED queue

Cleanup(before) ==
    /\ marked' = [e \in Entries |-> IF marked[e] < before THEN Never ELSE marked[e]]
    /\ dead' = [e \in Entries |-> IF dead[e].at < before THEN NotDead ELSE dead[e]]
    /\ LiveRowsStay(before)

\* The consumer's own marker, in the consumer's transaction.
Mark(e, now) == marked' = [marked EXCEPT ![e] = IF Marked(e) THEN @ ELSE now]
=============================================================================
