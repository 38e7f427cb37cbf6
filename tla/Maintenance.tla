----------------------------- MODULE Maintenance -----------------------------
(***************************************************************************)
(* internal/maintenance and internal/postgres/maintenance.go: windows in   *)
(* which a Monitor's Alerts are not delivered.  Requests run concurrently. *)
(* A creation takes its instant before its transaction, which locks the    *)
(* Monitor's row; a cancellation reads the window, decides, and writes     *)
(* only if the row's xmin is still the one it read.                        *)
(***************************************************************************)
EXTENDS Monitored, Clock

CONSTANTS
    Windows,        \* windows that may be asked for
    Cancellers,     \* requests that may cancel one
    MaxDuration

ASSUME MaintenanceAssumption == MaxDuration \in Nat

VARIABLES
    window,         \* maintenance_windows
    creation,       \* the request that creates each window
    cancellation    \* requests that cancel

maintenanceVars == <<window, creation, cancellation>>

\* xmin counts the row's writes: 1 from its insertion on.
WindowRows == [monitor : Monitors, startsAt : Time, endsAt : 0..(MaxTime + MaxDuration),
               createdAt : Time, cancelledAt : Time \cup {Never}, xmin : 1..2]
NoWindow == [xmin |-> 0]

CreationRequests == [pc : {"new", "done"}] \cup [pc : {"creating"}, row : WindowRows]

CancellationAnswers == {"none", "notFound", "cancelled", "ended", "conflict"}
CancellationRequests ==
    [pc : {"idle"}, answer : CancellationAnswers]
        \cup [pc : {"deciding"}, answer : {"none"}, of : Windows, xmin : 1..2]
        \cup [pc : {"writing"}, answer : {"none"}, of : Windows, xmin : 1..2, at : Time]
        \cup [pc : {"rereading"}, answer : {"none"}, of : Windows]

MaintenanceTypeOK ==
    /\ clock \in Time
    /\ window \in [Windows -> WindowRows \cup {NoWindow}]
    /\ creation \in [Windows -> CreationRequests]
    /\ cancellation \in [Cancellers -> CancellationRequests]

MaintenanceInit ==
    /\ clock = 0
    /\ window = [w \in Windows |-> NoWindow]
    /\ creation = [w \in Windows |-> [pc |-> "new"]]
    /\ cancellation = [c \in Cancellers |-> [pc |-> "idle", answer |-> "none"]]

WindowExists(w) == window[w] # NoWindow
Uncancelled(w) == WindowExists(w) /\ window[w].cancelledAt = Never

-----------------------------------------------------------------------------
\* Create: the window starts no earlier than now and ends after it starts, and it
\* is not longer than MaxDuration.
RequestWindow(w) ==
    /\ creation[w].pc = "new"
    /\ \E m \in Monitors, s \in Time, d \in 1..MaxDuration :
          /\ s >= clock
          /\ creation' = [creation EXCEPT ![w] =
                [pc |-> "creating",
                 row |-> [monitor |-> m, startsAt |-> s, endsAt |-> s + d,
                          createdAt |-> clock, cancelledAt |-> Never, xmin |-> 1]]]
    /\ UNCHANGED <<clock, window, cancellation>>

\* Half-open intervals.  (OverlapsInside only sees an end inside the other one.)
OverlapsInside(r, w) == window[w].startsAt < r.endsAt /\ window[w].endsAt >= r.endsAt
Overlaps(r, w) == window[w].startsAt < r.endsAt /\ window[w].endsAt > r.startsAt

Conflicting(r) == {w \in Windows : Uncancelled(w) /\ window[w].monitor = r.monitor
                                                  /\ Overlaps(r, w)}

CreateWindow(w) ==
    /\ creation[w].pc = "creating"
    /\ window' = IF Conflicting(creation[w].row) = {}
                 THEN [window EXCEPT ![w] = creation[w].row] ELSE window
    /\ creation' = [creation EXCEPT ![w] = [pc |-> "done"]]
    /\ UNCHANGED <<clock, cancellation>>

-----------------------------------------------------------------------------
AnswerCancellation(c, a) ==
    /\ cancellation' = [cancellation EXCEPT ![c] = [pc |-> "idle", answer |-> a]]
    /\ UNCHANGED <<clock, window, creation>>

\* FindWindow: a window that is cancelled is an answer already.
FindWindow(c, w) ==
    /\ cancellation[c] = [pc |-> "idle", answer |-> "none"]
    /\ \/ ~ WindowExists(w) /\ AnswerCancellation(c, "notFound")
       \/ WindowExists(w) /\ ~ Uncancelled(w) /\ AnswerCancellation(c, "cancelled")
       \/ /\ Uncancelled(w)
          /\ cancellation' = [cancellation EXCEPT ![c] =
                [pc |-> "deciding", answer |-> "none", of |-> w, xmin |-> window[w].xmin]]
          /\ UNCHANGED <<clock, window, creation>>

\* Window.Cancel, with the instant at which the service looks at the clock.
DecideCancellation(c) ==
    LET r == cancellation[c] IN
    /\ r.pc = "deciding"
    /\ \/ clock >= window[r.of].endsAt /\ AnswerCancellation(c, "ended")
       \/ /\ clock < window[r.of].endsAt
          /\ cancellation' = [cancellation EXCEPT ![c] =
                [pc |-> "writing", answer |-> "none", of |-> r.of, xmin |-> r.xmin,
                 at |-> clock]]
          /\ UNCHANGED <<clock, window, creation>>

Cancelled(row, at) == [row EXCEPT !.cancelledAt = at, !.xmin = @ + 1]

\* The row is written only if nobody wrote it in between.  (Overwrites does not look.)
Overwrites(r) == TRUE
Unchanged(r) == window[r.of].xmin = r.xmin

CancelWindow(c) ==
    LET r == cancellation[c] IN
    /\ r.pc = "writing"
    /\ Unchanged(r)
    /\ window' = [window EXCEPT ![r.of] = Cancelled(@, r.at)]
    /\ cancellation' = [cancellation EXCEPT ![c] = [pc |-> "idle", answer |-> "cancelled"]]
    /\ UNCHANGED <<clock, creation>>

CancelRefused(c) ==
    LET r == cancellation[c] IN
    /\ r.pc = "writing"
    /\ ~ Unchanged(r)
    /\ cancellation' = [cancellation EXCEPT ![c] =
          [pc |-> "rereading", answer |-> "none", of |-> r.of]]
    /\ UNCHANGED <<clock, window, creation>>

\* The window was changed meanwhile: if it is cancelled that is as good.
Reread(c) ==
    /\ cancellation[c].pc = "rereading"
    /\ AnswerCancellation(c, IF Uncancelled(cancellation[c].of) THEN "conflict" ELSE "cancelled")

MaintenanceStep ==
    \/ \E w \in Windows : RequestWindow(w) \/ CreateWindow(w)
    \/ \E c \in Cancellers :
          \/ \E w \in Windows : FindWindow(c, w)
          \/ DecideCancellation(c) \/ CancelWindow(c) \/ CancelRefused(c) \/ Reread(c)

MaintenanceTick ==
    /\ clock < MaxTime
    /\ clock' = clock + 1
    /\ UNCHANGED maintenanceVars

MaintenanceNext == MaintenanceStep \/ MaintenanceTick

MaintenanceSpec == MaintenanceInit /\ [][MaintenanceNext]_<<clock, maintenanceVars>>

-----------------------------------------------------------------------------
\* Routing asks whether a Monitor was under maintenance at the instant of an event,
\* which may be long ago.  (CancelledSince forgets when a window was cancelled.)
CancelledSince(w, instant) == ~ Uncancelled(w)
CancelledBy(w, instant) == window[w].cancelledAt <= instant

AppliesAt(w, instant) ==
    /\ WindowExists(w)
    /\ window[w].createdAt <= instant
    /\ window[w].startsAt <= instant
    /\ instant < window[w].endsAt
    /\ ~ CancelledBy(w, instant)

UnderMaintenance(m, instant) ==
    \E w \in Windows : AppliesAt(w, instant) /\ window[w].monitor = m

-----------------------------------------------------------------------------
\* Two windows of one Monitor that are not cancelled never overlap, however their
\* creations and the cancellations of others interleave.
NoOverlap ==
    \A v, w \in Windows :
        /\ v # w
        /\ Uncancelled(v) /\ Uncancelled(w)
        /\ window[v].monitor = window[w].monitor
        => window[v].endsAt <= window[w].startsAt \/ window[w].endsAt <= window[v].startsAt

\* A cancellation is for good: neither a second canceller that read the window
\* before nor anything else moves its instant.
CancelledOnce ==
    [][\A w \in Windows :
          WindowExists(w) /\ ~ Uncancelled(w) => window'[w] = window[w]]_window

\* Whether a Monitor was under maintenance at an instant is fixed as soon as the
\* requests of that time are done: windows that are planned or cancelled afterwards
\* do not change what became of an event, however late it is routed.
LaterRequestsOnly(instant) ==
    /\ instant < clock
    /\ \A w \in Windows :
          creation[w].pc = "creating" => creation[w].row.createdAt > instant
    /\ \A c \in Cancellers :
          cancellation[c].pc = "writing" => cancellation[c].at > instant

DecisionsStand ==
    [][\A m \in Monitors, instant \in Time : LaterRequestsOnly(instant) =>
          (UnderMaintenance(m, instant)' <=> UnderMaintenance(m, instant))]_window

\* Cancelling is idempotent under concurrency too: nobody is told of a conflict.
CancelNeverConflicts == \A c \in Cancellers : cancellation[c].answer # "conflict"
=============================================================================
