------------------------- MODULE NotificationProofs -------------------------
(***************************************************************************)
(* Theorems of Maintenance, Webhooks and WebhookDelivery as Notifications  *)
(* composes them, for every number of windows, cancellers, Integrations,   *)
(* dispatchers, attempts and secrets, with crashes, lost answers and       *)
(* stalls of any length, and without the calm of the scenes TLC explores.  *)
(***************************************************************************)
EXTENDS Notifications, TLAPS

-----------------------------------------------------------------------------
(* Maintenance *)

\* A window that is still to be created is not there; xmin tells whether a window
\* was cancelled, and a canceller has read one that was not.
WindowsSound ==
    /\ \A w \in Windows : creation[w].pc \in {"new", "creating"} => window[w] = NoWindow
    /\ \A w \in Windows : creation[w].pc = "creating" =>
          creation[w].row.cancelledAt = Never /\ creation[w].row.xmin = 1
    /\ \A w \in Windows : WindowExists(w) => (window[w].xmin = 1 <=> Uncancelled(w))

CancellationsSound ==
    \A c \in Cancellers :
        LET r == cancellation[c] IN
        /\ r.pc \in {"deciding", "writing"} => WindowExists(r.of) /\ r.xmin = 1
        /\ r.pc = "rereading" => WindowExists(r.of) /\ ~ Uncancelled(r.of)

MaintenanceInv ==
    /\ MaintenanceTypeOK
    /\ WindowsSound
    /\ CancellationsSound
    /\ NoOverlap
    /\ CancelNeverConflicts

LEMMA NoWindowIsNoRow == NoWindow \notin WindowRows
BY DEF NoWindow, WindowRows

LEMMA TimeFacts == Time \subseteq Nat /\ Never \notin Time /\ Never \in Nat
BY ClockAssumption DEF Time, Never

LEMMA MaintenanceInitInv == MaintenanceInit => MaintenanceInv
<1> SUFFICES ASSUME MaintenanceInit PROVE MaintenanceInv
    OBVIOUS
<1>1. MaintenanceTypeOK
    BY ClockAssumption
    DEF MaintenanceInit, MaintenanceTypeOK, Time, CreationRequests, CancellationRequests,
        CancellationAnswers
<1>2. \A w \in Windows : ~ WindowExists(w)
    BY DEF MaintenanceInit, WindowExists
<1> QED
    BY <1>1, <1>2
    DEF MaintenanceInit, MaintenanceInv, WindowsSound, CancellationsSound, NoOverlap,
        Uncancelled, CancelNeverConflicts

LEMMA CancelledFields ==
    ASSUME NEW row \in WindowRows, row.xmin = 1, NEW at \in Time
    PROVE  /\ Cancelled(row, at) \in WindowRows
           /\ Cancelled(row, at).cancelledAt = at /\ Cancelled(row, at).xmin = 2
           /\ Cancelled(row, at).monitor = row.monitor
           /\ Cancelled(row, at).createdAt = row.createdAt
           /\ Cancelled(row, at).startsAt = row.startsAt
           /\ Cancelled(row, at).endsAt = row.endsAt
<1>1. \A a \in Time \cup {Never} : [row EXCEPT !.cancelledAt = a] \in WindowRows
    BY DEF WindowRows
<1> DEFINE mid == [row EXCEPT !.cancelledAt = at]
<1>2. /\ mid \in WindowRows /\ mid.cancelledAt = at /\ mid.xmin = 1
      /\ mid.monitor = row.monitor /\ mid.createdAt = row.createdAt
      /\ mid.startsAt = row.startsAt /\ mid.endsAt = row.endsAt
    BY <1>1 DEF WindowRows
<1>3. Cancelled(row, at) = [mid EXCEPT !.xmin = 2]
    BY <1>2 DEF Cancelled
<1> HIDE DEF mid
<1> QED
    BY <1>2, <1>3 DEF WindowRows

\* What a step that writes no window keeps.
LEMMA WindowsKept ==
    ASSUME MaintenanceInv, window' = window
    PROVE  NoOverlap'
BY DEF MaintenanceInv, NoOverlap, Uncancelled, WindowExists

LEMMA RequestWindowInv ==
    ASSUME MaintenanceInv, NEW w \in Windows, RequestWindow(w) PROVE MaintenanceInv'
<1>1. PICK m \in Monitors, s \in Time, d \in 1..MaxDuration :
          creation' = [creation EXCEPT ![w] =
             [pc |-> "creating",
              row |-> [monitor |-> m, startsAt |-> s, endsAt |-> s + d,
                       createdAt |-> clock, cancelledAt |-> Never, xmin |-> 1]]]
    BY DEF RequestWindow
<1>2. s + d \in 0..(MaxTime + MaxDuration)
    BY ClockAssumption, MaintenanceAssumption DEF Time
<1>3. creation'[w] \in CreationRequests /\ creation' \in [Windows -> CreationRequests]
    BY <1>1, <1>2 DEF MaintenanceInv, MaintenanceTypeOK, CreationRequests, WindowRows
<1>4. /\ window' = window /\ cancellation' = cancellation /\ clock' = clock
      /\ creation[w].pc = "new"
    BY DEF RequestWindow
<1>5. WindowsSound'
    BY <1>1, <1>4 DEF MaintenanceInv, MaintenanceTypeOK, WindowsSound, WindowExists, Uncancelled
<1> QED
    BY <1>3, <1>4, <1>5, WindowsKept
    DEF MaintenanceInv, MaintenanceTypeOK, CancellationsSound, CancelNeverConflicts,
        WindowExists, Uncancelled

LEMMA CreateWindowInv ==
    ASSUME MaintenanceInv, NEW w \in Windows, CreateWindow(w) PROVE MaintenanceInv'
<1> DEFINE row == creation[w].row
<1>1. /\ row \in WindowRows /\ window[w] = NoWindow
      /\ clock' = clock /\ cancellation' = cancellation
      /\ creation' = [creation EXCEPT ![w] = [pc |-> "done"]]
    BY DEF CreateWindow, MaintenanceInv, MaintenanceTypeOK, CreationRequests, WindowsSound
<1>2. creation' \in [Windows -> CreationRequests] /\ creation'[w].pc = "done"
      /\ \A v \in Windows \ {w} : creation'[v] = creation[v]
    BY <1>1 DEF MaintenanceInv, MaintenanceTypeOK, CreationRequests
<1>3. CASE window' = window
    BY <1>1, <1>2, <1>3, WindowsKept
    DEF MaintenanceInv, MaintenanceTypeOK, WindowsSound, CancellationsSound,
        CancelNeverConflicts, WindowExists, Uncancelled
<1>4. CASE Conflicting(row) = {} /\ window' = [window EXCEPT ![w] = row]
    <2>1. /\ window' \in [Windows -> WindowRows \cup {NoWindow}] /\ window'[w] = row
          /\ \A v \in Windows \ {w} : window'[v] = window[v]
        BY <1>1, <1>4 DEF MaintenanceInv, MaintenanceTypeOK
    <2>2. row.xmin = 1 /\ row.cancelledAt = Never
        BY <1>1 DEF MaintenanceInv, WindowsSound, CreateWindow
    <2>3. WindowExists(w)' /\ Uncancelled(w)' /\ ~ WindowExists(w)
        BY <1>1, <2>1, <2>2, NoWindowIsNoRow DEF WindowExists, Uncancelled
    <2>4. WindowsSound'
        BY <1>2, <2>1, <2>2, <2>3
        DEF MaintenanceInv, WindowsSound, WindowExists, Uncancelled
    <2>5. CancellationsSound'
        BY <1>1, <2>1, <2>3
        DEF MaintenanceInv, MaintenanceTypeOK, CancellationsSound, CancellationRequests,
            WindowExists, Uncancelled
    <2>6. NoOverlap'
        <3> SUFFICES ASSUME NEW u \in Windows, NEW v \in Windows, u # v,
                            Uncancelled(u)', Uncancelled(v)',
                            (window[u].monitor = window[v].monitor)'
                     PROVE  \/ (window[u].endsAt <= window[v].startsAt)'
                            \/ (window[v].endsAt <= window[u].startsAt)'
            BY DEF NoOverlap
        <3>1. CASE u # w /\ v # w
            BY <2>1, <3>1 DEF MaintenanceInv, NoOverlap, Uncancelled, WindowExists
        <3>2. ASSUME NEW x \in Windows, x # w, Uncancelled(x)',
                     window'[x].monitor = row.monitor
              PROVE  row.endsAt <= window'[x].startsAt \/ window'[x].endsAt <= row.startsAt
            <4>1. window[x] = window'[x] /\ Uncancelled(x)
                BY <2>1, <3>2 DEF Uncancelled, WindowExists
            <4>2. ~ Overlaps(row, x)
                BY <1>4, <3>2, <4>1 DEF Conflicting
            <4>3. window[x] \in WindowRows
                BY <4>1 DEF MaintenanceInv, MaintenanceTypeOK, Uncancelled, WindowExists
            <4> QED
                BY <1>1, <4>1, <4>2, <4>3, ClockAssumption, MaintenanceAssumption
                DEF Overlaps, WindowRows, Time
        <3> QED
            BY <2>1, <3>1, <3>2
    <2> QED
        BY <1>1, <1>2, <2>1, <2>4, <2>5, <2>6
        DEF MaintenanceInv, MaintenanceTypeOK, CancelNeverConflicts
<1> QED
    BY <1>1, <1>3, <1>4 DEF CreateWindow

\* A step that moves one canceller on and nothing else.
LEMMA CancellerMoves ==
    ASSUME MaintenanceInv, NEW c \in Cancellers, NEW r \in CancellationRequests,
           cancellation' = [cancellation EXCEPT ![c] = r],
           UNCHANGED <<clock, window, creation>>,
           r.answer # "conflict",
           r.pc \in {"deciding", "writing"} => WindowExists(r.of) /\ r.xmin = 1,
           r.pc = "rereading" => WindowExists(r.of) /\ ~ Uncancelled(r.of)
    PROVE  MaintenanceInv'
<1>1. /\ cancellation' \in [Cancellers -> CancellationRequests] /\ cancellation'[c] = r
      /\ \A b \in Cancellers \ {c} : cancellation'[b] = cancellation[b]
    BY DEF MaintenanceInv, MaintenanceTypeOK
<1>2. CancellationsSound'
    BY <1>1 DEF MaintenanceInv, CancellationsSound, WindowExists, Uncancelled
<1> QED
    BY <1>1, <1>2, WindowsKept
    DEF MaintenanceInv, MaintenanceTypeOK, WindowsSound, CancelNeverConflicts, WindowExists,
        Uncancelled

LEMMA CancellerAnswered ==
    ASSUME MaintenanceInv, NEW c \in Cancellers,
           NEW a \in CancellationAnswers \ {"conflict"}, AnswerCancellation(c, a)
    PROVE  MaintenanceInv'
<1> DEFINE r == [pc |-> "idle", answer |-> a]
<1>1. r \in CancellationRequests /\ r.pc = "idle" /\ r.answer # "conflict"
    BY DEF CancellationRequests
<1>2. cancellation' = [cancellation EXCEPT ![c] = r] /\ UNCHANGED <<clock, window, creation>>
    BY DEF AnswerCancellation
<1> HIDE DEF r
<1> QED
    BY <1>1, <1>2, CancellerMoves

LEMMA FindWindowInv ==
    ASSUME MaintenanceInv, NEW c \in Cancellers, NEW w \in Windows, FindWindow(c, w)
    PROVE  MaintenanceInv'
<1>1. CASE \E a \in {"notFound", "cancelled"} : AnswerCancellation(c, a)
    BY <1>1, CancellerAnswered DEF CancellationAnswers
<1>2. CASE /\ Uncancelled(w)
           /\ cancellation' = [cancellation EXCEPT ![c] =
                [pc |-> "deciding", answer |-> "none", of |-> w, xmin |-> window[w].xmin]]
           /\ UNCHANGED <<clock, window, creation>>
    <2>1. WindowExists(w) /\ window[w].xmin = 1
        BY <1>2 DEF MaintenanceInv, WindowsSound, Uncancelled
    <2>2. [pc |-> "deciding", answer |-> "none", of |-> w, xmin |-> window[w].xmin]
             \in CancellationRequests
        BY <2>1 DEF CancellationRequests
    <2> QED
        BY <1>2, <2>1, <2>2, CancellerMoves
<1> QED
    BY <1>1, <1>2 DEF FindWindow

LEMMA DecideCancellationInv ==
    ASSUME MaintenanceInv, NEW c \in Cancellers, DecideCancellation(c)
    PROVE  MaintenanceInv'
<1> DEFINE r == cancellation[c]
<1>1. r.pc = "deciding" /\ r \in CancellationRequests /\ clock \in Time
    BY DEF DecideCancellation, MaintenanceInv, MaintenanceTypeOK
<1>2. r.of \in Windows /\ r.xmin = 1 /\ WindowExists(r.of)
    BY <1>1 DEF MaintenanceInv, CancellationsSound, CancellationRequests
<1>3. CASE AnswerCancellation(c, "ended")
    BY <1>3, CancellerAnswered DEF CancellationAnswers
<1>4. CASE /\ cancellation' = [cancellation EXCEPT ![c] =
                [pc |-> "writing", answer |-> "none", of |-> r.of, xmin |-> r.xmin,
                 at |-> clock]]
           /\ UNCHANGED <<clock, window, creation>>
    <2>1. [pc |-> "writing", answer |-> "none", of |-> r.of, xmin |-> r.xmin, at |-> clock]
             \in CancellationRequests
        BY <1>1, <1>2 DEF CancellationRequests
    <2> QED
        BY <1>2, <1>4, <2>1, CancellerMoves
<1> QED
    BY <1>3, <1>4 DEF DecideCancellation

\* What a cancellation writes: the window was there, and was not cancelled.
LEMMA CancelWindowWrites ==
    ASSUME MaintenanceInv, NEW c \in Cancellers, CancelWindow(c)
    PROVE  LET r == cancellation[c] IN
           /\ r \in CancellationRequests /\ r.pc = "writing"
           /\ r.of \in Windows /\ r.at \in Time
           /\ window[r.of] \in WindowRows /\ window[r.of].cancelledAt = Never
           /\ window[r.of].xmin = 1
           /\ window' = [window EXCEPT ![r.of] = Cancelled(window[r.of], r.at)]
<1> DEFINE r == cancellation[c]
<1>1. r \in CancellationRequests /\ r.pc = "writing"
    BY DEF CancelWindow, MaintenanceInv, MaintenanceTypeOK
<1>2. r.of \in Windows /\ r.at \in Time /\ WindowExists(r.of) /\ r.xmin = 1
    BY <1>1 DEF CancellationRequests, MaintenanceInv, CancellationsSound
<1>3. window[r.of] \in WindowRows
    BY <1>2 DEF MaintenanceInv, MaintenanceTypeOK, WindowExists
<1>4. window[r.of].xmin = 1 /\ window[r.of].cancelledAt = Never
    BY <1>2 DEF CancelWindow, Unchanged, MaintenanceInv, WindowsSound, Uncancelled
<1>5. window' = [window EXCEPT ![r.of] = Cancelled(window[r.of], r.at)]
    BY <1>2 DEF CancelWindow, MaintenanceInv, MaintenanceTypeOK
<1> QED
    BY <1>1, <1>2, <1>3, <1>4, <1>5

LEMMA CancelWindowInv ==
    ASSUME MaintenanceInv, NEW c \in Cancellers, CancelWindow(c)
    PROVE  MaintenanceInv'
<1> DEFINE r == cancellation[c]
           row == Cancelled(window[r.of], r.at)
<1>1. /\ r \in CancellationRequests /\ r.of \in Windows /\ r.at \in Time
      /\ window[r.of] \in WindowRows /\ window[r.of].xmin = 1
      /\ window' = [window EXCEPT ![r.of] = row]
    BY CancelWindowWrites
<1>2. /\ row \in WindowRows /\ row.xmin = 2 /\ row.cancelledAt = r.at
      /\ row.monitor = window[r.of].monitor
      /\ row.startsAt = window[r.of].startsAt /\ row.endsAt = window[r.of].endsAt
    BY <1>1, CancelledFields
<1> HIDE DEF row
<1>3. /\ window' \in [Windows -> WindowRows \cup {NoWindow}] /\ window'[r.of] = row
      /\ \A w \in Windows \ {r.of} : window'[w] = window[w]
    BY <1>1, <1>2 DEF MaintenanceInv, MaintenanceTypeOK
<1>4. /\ clock' = clock /\ creation' = creation
      /\ cancellation' = [cancellation EXCEPT ![c] = [pc |-> "idle", answer |-> "cancelled"]]
    BY DEF CancelWindow
<1>5. /\ cancellation' \in [Cancellers -> CancellationRequests]
      /\ cancellation'[c] = [pc |-> "idle", answer |-> "cancelled"]
      /\ \A b \in Cancellers \ {c} : cancellation'[b] = cancellation[b]
    BY <1>4 DEF MaintenanceInv, MaintenanceTypeOK, CancellationRequests, CancellationAnswers
<1>6. /\ window[r.of] # NoWindow /\ window'[r.of] # NoWindow
      /\ window'[r.of].cancelledAt # Never
    BY <1>1, <1>2, <1>3, TimeFacts, NoWindowIsNoRow
<1> HIDE DEF r
<1>7. WindowsSound'
    BY <1>1, <1>2, <1>3, <1>4, <1>6 DEF MaintenanceInv, WindowsSound, WindowExists, Uncancelled
<1>8. CancellationsSound'
    BY <1>1, <1>3, <1>5, <1>6
    DEF MaintenanceInv, CancellationsSound, WindowExists, Uncancelled
<1>9. NoOverlap'
    BY <1>1, <1>3, <1>6 DEF MaintenanceInv, NoOverlap, WindowExists, Uncancelled
<1> QED
    BY <1>3, <1>4, <1>5, <1>7, <1>8, <1>9
    DEF MaintenanceInv, MaintenanceTypeOK, CancelNeverConflicts

LEMMA CancelRefusedInv ==
    ASSUME MaintenanceInv, NEW c \in Cancellers, CancelRefused(c)
    PROVE  MaintenanceInv'
<1> DEFINE r == cancellation[c]
<1>1. r \in CancellationRequests /\ r.pc = "writing"
    BY DEF CancelRefused, MaintenanceInv, MaintenanceTypeOK
<1>2. r.of \in Windows /\ WindowExists(r.of) /\ r.xmin = 1
    BY <1>1 DEF CancellationRequests, MaintenanceInv, CancellationsSound
<1>3. ~ Uncancelled(r.of)
    BY <1>2 DEF CancelRefused, Unchanged, MaintenanceInv, WindowsSound
<1>4. [pc |-> "rereading", answer |-> "none", of |-> r.of] \in CancellationRequests
    BY <1>2 DEF CancellationRequests
<1> QED
    BY <1>2, <1>3, <1>4, CancellerMoves DEF CancelRefused

LEMMA RereadInv ==
    ASSUME MaintenanceInv, NEW c \in Cancellers, Reread(c)
    PROVE  MaintenanceInv'
<1>1. AnswerCancellation(c, "cancelled")
    BY DEF Reread, MaintenanceInv, CancellationsSound
<1> QED
    BY <1>1, CancellerAnswered DEF CancellationAnswers

LEMMA MaintenanceStepInv ==
    ASSUME MaintenanceInv, MaintenanceStep PROVE MaintenanceInv'
BY RequestWindowInv, CreateWindowInv, FindWindowInv, DecideCancellationInv, CancelWindowInv,
   CancelRefusedInv, RereadInv DEF MaintenanceStep

LEMMA MaintenanceTickInv ==
    ASSUME MaintenanceInv, MaintenanceTick PROVE MaintenanceInv'
BY ClockAssumption, WindowsKept
DEF MaintenanceTick, maintenanceVars, MaintenanceInv, MaintenanceTypeOK, Time, WindowsSound,
    CancellationsSound, CancelNeverConflicts, WindowExists, Uncancelled

LEMMA MaintenanceSame ==
    ASSUME MaintenanceInv, UNCHANGED <<clock, maintenanceVars>> PROVE MaintenanceInv'
BY WindowsKept
DEF maintenanceVars, MaintenanceInv, MaintenanceTypeOK, WindowsSound, CancellationsSound,
    CancelNeverConflicts, WindowExists, Uncancelled

\* The dispatchers, the administrators, Incidents and routing leave windows alone.
LEMMA MaintenanceActions ==
    ASSUME [Next]_vars
    PROVE  MaintenanceStep \/ MaintenanceTick \/ UNCHANGED <<clock, maintenanceVars>>
BY DEF Next, vars, IncidentStep, ChangeMaintenance, AdministerWebhooks, Dispatch, Tick,
       ProjectIncidentTransition, DispatchStep, Claim, ClaimLost, ProcessStep, Crash, Shutdown,
       Exit, Restart, WorkStep, Begin, Answer, ReportRecorded, ReportLost, ReportFails

LEMMA MaintenanceInvariant == Spec => []MaintenanceInv
<1>1. Init => MaintenanceInv
    BY MaintenanceInitInv DEF Init
<1>2. MaintenanceInv /\ [Next]_vars => MaintenanceInv'
    BY MaintenanceActions, MaintenanceStepInv, MaintenanceTickInv, MaintenanceSame
<1> QED
    BY <1>1, <1>2, PTL DEF Spec

\* Windows of one Monitor never overlap, however creations interleave.
THEOREM MaintenanceNoOverlap == Spec => []NoOverlap
BY MaintenanceInvariant, PTL DEF MaintenanceInv

\* Nobody who cancels is told of a conflict.
THEOREM MaintenanceCancelsIdempotently == Spec => []CancelNeverConflicts
BY MaintenanceInvariant, PTL DEF MaintenanceInv

\* What may become of a window in a step.
LEMMA WindowWrites ==
    ASSUME MaintenanceInv, [Next]_vars, NEW w \in Windows
    PROVE  \/ window'[w] = window[w]
           \/ /\ window[w] = NoWindow /\ creation[w].pc = "creating"
              /\ window'[w] = creation[w].row
           \/ /\ window[w] \in WindowRows /\ window[w].cancelledAt = Never /\ window[w].xmin = 1
              /\ \E c \in Cancellers :
                    /\ cancellation[c].pc = "writing" /\ cancellation[c].at \in Time
                    /\ window'[w] = Cancelled(window[w], cancellation[c].at)
<1>1. CASE UNCHANGED window
    BY <1>1
<1>2. ASSUME NEW v \in Windows, CreateWindow(v)
      PROVE  \/ window'[w] = window[w]
             \/ /\ window[w] = NoWindow /\ creation[w].pc = "creating"
                /\ window'[w] = creation[w].row
    <2>1. window[v] = NoWindow /\ creation[v].pc = "creating"
        BY <1>2 DEF CreateWindow, MaintenanceInv, WindowsSound
    <2>2. CASE v = w
        BY <1>2, <2>1, <2>2 DEF CreateWindow, MaintenanceInv, MaintenanceTypeOK
    <2>3. CASE v # w
        BY <1>2, <2>3 DEF CreateWindow, MaintenanceInv, MaintenanceTypeOK
    <2> QED
        BY <2>2, <2>3
<1>3. ASSUME NEW c \in Cancellers, CancelWindow(c)
      PROVE  \/ window'[w] = window[w]
             \/ /\ window[w] \in WindowRows /\ window[w].cancelledAt = Never /\ window[w].xmin = 1
                /\ cancellation[c].pc = "writing" /\ cancellation[c].at \in Time
                /\ window'[w] = Cancelled(window[w], cancellation[c].at)
    <2>1. CASE w = cancellation[c].of
        BY <1>3, <2>1, CancelWindowWrites DEF MaintenanceInv, MaintenanceTypeOK
    <2>2. CASE w # cancellation[c].of
        BY <1>3, <2>2, CancelWindowWrites DEF MaintenanceInv, MaintenanceTypeOK
    <2> QED
        BY <2>1, <2>2
<1>4. \/ UNCHANGED window
      \/ \E v \in Windows : CreateWindow(v)
      \/ \E c \in Cancellers : CancelWindow(c)
    BY MaintenanceActions
    DEF MaintenanceStep, MaintenanceTick, maintenanceVars, RequestWindow, FindWindow,
        AnswerCancellation, DecideCancellation, CancelRefused, Reread
<1> QED
    BY <1>1, <1>2, <1>3, <1>4

\* A cancelled window stays as it is.
THEOREM MaintenanceCancelledOnce == Spec => CancelledOnce
<1>1. ASSUME MaintenanceInv, [Next]_vars, NEW w \in Windows, WindowExists(w), ~ Uncancelled(w)
      PROVE  window'[w] = window[w]
    BY <1>1, WindowWrites DEF Uncancelled, WindowExists
<1>2. MaintenanceInv /\ [Next]_vars
          => [\A w \in Windows : WindowExists(w) /\ ~ Uncancelled(w)
                                    => window'[w] = window[w]]_window
    BY <1>1
<1> QED
    BY <1>2, MaintenanceInvariant, PTL DEF Spec, CancelledOnce

\* Whether a Monitor was under maintenance at an instant does not change any more once
\* the requests of that time are done.
THEOREM MaintenanceDecisionsStand == Spec => DecisionsStand
<1>1. ASSUME MaintenanceInv, [Next]_vars, NEW instant \in Time, LaterRequestsOnly(instant),
             NEW w \in Windows
      PROVE  /\ AppliesAt(w, instant)' <=> AppliesAt(w, instant)
             /\ AppliesAt(w, instant) => window'[w].monitor = window[w].monitor
    <2>1. CASE window'[w] = window[w]
        BY <2>1 DEF AppliesAt, WindowExists, CancelledBy
    <2>2. CASE /\ window[w] = NoWindow /\ creation[w].pc = "creating"
               /\ window'[w] = creation[w].row
        <3>1. creation[w] \in CreationRequests
            BY <1>1 DEF MaintenanceInv, MaintenanceTypeOK
        <3>2. creation[w].row \in WindowRows
            BY <2>2, <3>1 DEF CreationRequests
        <3>3. window'[w].createdAt \in Int
            <4>1. creation[w].row.createdAt \in Time
                BY <3>2 DEF WindowRows
            <4>2. Time \subseteq Int
                BY TimeFacts
            <4> QED
                BY <2>2, <4>1, <4>2
        <3>4. window'[w].createdAt > instant
            BY <1>1, <2>2 DEF LaterRequestsOnly
        <3>5. ~ (window'[w].createdAt <= instant)
            BY <3>3, <3>4, TimeFacts
        <3>6. ~ AppliesAt(w, instant)
            BY <2>2 DEF AppliesAt, WindowExists
        <3>7. ~ AppliesAt(w, instant)'
            BY <3>5 DEF AppliesAt
        <3> QED
            BY <3>6, <3>7
    <2>3. ASSUME window[w] \in WindowRows, window[w].cancelledAt = Never, window[w].xmin = 1,
                 NEW c \in Cancellers,
                 cancellation[c].pc = "writing", cancellation[c].at \in Time,
                 window'[w] = Cancelled(window[w], cancellation[c].at)
          PROVE  /\ AppliesAt(w, instant)' <=> AppliesAt(w, instant)
                 /\ window'[w].monitor = window[w].monitor
        <3>1. cancellation[c].at > instant /\ Never > instant
            BY <1>1, <2>3, ClockAssumption DEF LaterRequestsOnly, Time, Never
        <3>2. window'[w] \in WindowRows /\ window'[w].cancelledAt = cancellation[c].at
            BY <2>3, CancelledFields
        <3>3. WindowExists(w)' /\ WindowExists(w)
            BY <2>3, <3>2, NoWindowIsNoRow DEF WindowExists
        <3>4. ~ CancelledBy(w, instant)' /\ ~ CancelledBy(w, instant)
            BY <2>3, <3>1, <3>2, ClockAssumption DEF CancelledBy, Time, Never
        <3>5. /\ window'[w].createdAt = window[w].createdAt
              /\ window'[w].startsAt = window[w].startsAt
              /\ window'[w].endsAt = window[w].endsAt
              /\ window'[w].monitor = window[w].monitor
            BY <2>3, CancelledFields
        <3> QED
            BY <3>3, <3>4, <3>5 DEF AppliesAt
    <2> QED
        BY <1>1, <2>1, <2>2, <2>3, WindowWrites
<1>2. ASSUME MaintenanceInv, [Next]_vars, NEW m \in Monitors, NEW instant \in Time,
             LaterRequestsOnly(instant)
      PROVE  UnderMaintenance(m, instant)' <=> UnderMaintenance(m, instant)
    BY <1>1, <1>2 DEF UnderMaintenance
<1>3. MaintenanceInv /\ [Next]_vars
          => [\A m \in Monitors, instant \in Time : LaterRequestsOnly(instant) =>
                (UnderMaintenance(m, instant)' <=> UnderMaintenance(m, instant))]_window
    BY <1>2
<1> QED
    BY <1>3, MaintenanceInvariant, PTL DEF Spec, DecisionsStand

-----------------------------------------------------------------------------
(* Deliveries: the invariant *)

\* An Integration without a secret has no rotation under way.
RotationSound ==
    \A i \in Integrations : ~ Created(i) => InState(i, "pending") = {}

\* Only routed Alerts have deliveries; what is settled is not leased.
RowsSound ==
    \A d \in Deliveries :
        /\ d[1] \notin alerts => delivery[d] = NoDelivery
        /\ delivery[d].state = "none" => delivery[d] = NoDelivery
        /\ delivery[d].suppressed => delivery[d].state = "settled"
        /\ delivery[d].state # "pending" => delivery[d].expires = 0
        /\ delivery[d].state # "none" => delivery[d].secret \in 1..MaxSecret

\* What a dispatcher knows of an attempt it works on: it was made, and as long as its
\* lease lasts it is the latest and the delivery is leased to it.
HoldsLease(p, d) ==
    /\ Unfinished(d)
    /\ delivery[d].attempts = Work(p, d).number
    /\ delivery[d].expires = Work(p, d).expires

WorkSound ==
    \A p \in Procs, d \in Deliveries : Work(p, d).pc # "idle" =>
        /\ Work(p, d).number \in 1..delivery[d].attempts
        /\ Work(p, d).secret = delivery[d].secret
        /\ clock < Work(p, d).expires => HoldsLease(p, d)

\* A success is not retried, and an attempt that is reported has an outcome.
OutcomesSound ==
    \A p \in Procs, d \in Deliveries : Work(p, d).pc = "reporting" =>
        /\ Work(p, d).outcome \in {"succeeded", "failed", "cancelled"}
        /\ Work(p, d).outcome = "succeeded" => ~ Work(p, d).retry

\* No two dispatchers work on the same attempt.
AttemptsExclusive ==
    \A p, q \in Procs, d \in Deliveries :
        /\ p # q
        /\ Work(p, d).pc # "idle" /\ Work(q, d).pc # "idle"
        => Work(p, d).number # Work(q, d).number

RowInv == WebhookTypeOK /\ Restorable /\ RotationSound /\ RowsSound /\ UnfinishedHasSecret
          /\ AuditSound
WorkInv == clock \in Time /\ work \in [Procs \X Deliveries -> Works]
           /\ WorkSound /\ OutcomesSound /\ AttemptsExclusive
DeliveryInv == RowInv /\ WorkInv

LEMMA DeliveryConstants ==
    /\ MaxTime \in Nat /\ Time \subseteq Nat
    /\ MaxSecret \in Nat \ {0} /\ MaxAttempts \in Nat \ {0} /\ Lease \in Nat \ {0}
    /\ \A n \in Nat : RetryDelays(n) \subseteq Nat
<1>1. RetryBase..RetryCap \subseteq Nat
    BY RetryAssumption
<1> QED
    BY <1>1, ClockAssumption, WebhooksAssumption, WebhookDeliveryAssumption
    DEF Time, RetryDelays

LEMMA DeliveryPairs == \A d \in Deliveries : d[1] \in Alerts /\ d[2] \in Integrations
BY DEF Deliveries

LEMMA NoDeliveryIsRow == NoDelivery \in DeliveryRows
BY DeliveryConstants DEF NoDelivery, DeliveryRows

LEMMA DeliveryInitInv == DeliveryInit /\ clock = 0 => DeliveryInv
<1> SUFFICES ASSUME DeliveryInit, clock = 0 PROVE DeliveryInv
    OBVIOUS
<1> USE DEF DeliveryInit, WebhookInit
<1>1. \A i \in Integrations, s \in SecretStates \ {"none"} : InState(i, s) = {}
    BY DEF InState, Secrets, SecretStates
<1>2. \A i \in Integrations : ~ Created(i)
    BY DEF Created
<1>3. WebhookTypeOK
    BY NoDeliveryIsRow, DeliveryConstants
    DEF WebhookTypeOK, SecretStates, Outcomes
<1>4. Restorable /\ RotationSound
    BY <1>1, <1>2 DEF Restorable, RotationSound, SecretStates
<1>5. RowsSound /\ UnfinishedHasSecret
    BY DEF RowsSound, UnfinishedHasSecret, Unfinished, NoDelivery
<1>6. AuditSound
    <2> SUFFICES ASSUME NEW d \in Deliveries, NEW n \in 1..MaxAttempts
                 PROVE  attempt[<<d, n>>] = "none" /\ delivery[d] = NoDelivery
        BY DEF AuditSound, NoDelivery
    <2> QED
        BY DEF Attempts
<1>7. \A p \in Procs, d \in Deliveries : Work(p, d) = NoWork
    BY DEF Work
<1>8. work \in [Procs \X Deliveries -> Works] /\ clock \in Time
    BY DeliveryConstants DEF NoWork, Works, Outcomes, Time
<1>9. WorkSound /\ OutcomesSound /\ AttemptsExclusive
    BY <1>7 DEF WorkSound, OutcomesSound, AttemptsExclusive, NoWork
<1> QED
    BY <1>3, <1>4, <1>5, <1>6, <1>8, <1>9 DEF DeliveryInv, RowInv, WorkInv

-----------------------------------------------------------------------------
(* The rows a claim or a report writes *)

LEMMA SettledFields ==
    ASSUME NEW row \in DeliveryRows
    PROVE  /\ Settled(row) \in DeliveryRows
           /\ Settled(row).state = "settled" /\ Settled(row).expires = 0
           /\ Settled(row).suppressed = row.suppressed /\ Settled(row).secret = row.secret
           /\ Settled(row).attempts = row.attempts
<1> DEFINE mid == [row EXCEPT !.state = "settled"]
<1>1. /\ mid \in DeliveryRows /\ mid.state = "settled" /\ mid.suppressed = row.suppressed
      /\ mid.secret = row.secret /\ mid.attempts = row.attempts
    BY DEF DeliveryRows
<1>2. Settled(row) = [mid EXCEPT !.expires = 0]
    BY DEF Settled
<1> HIDE DEF mid
<1> QED
    BY <1>1, <1>2 DEF DeliveryRows

LEMMA AttemptedFields ==
    ASSUME NEW row \in DeliveryRows, row.attempts < MaxAttempts, NEW expires \in Nat
    PROVE  /\ Attempted(row, expires) \in DeliveryRows
           /\ Attempted(row, expires).state = row.state
           /\ Attempted(row, expires).expires = expires
           /\ Attempted(row, expires).suppressed = row.suppressed
           /\ Attempted(row, expires).secret = row.secret
           /\ Attempted(row, expires).attempts = row.attempts + 1
<1> DEFINE mid == [row EXCEPT !.attempts = row.attempts + 1]
<1>1. row.attempts \in Nat /\ row.attempts + 1 \in 0..MaxAttempts
    BY DeliveryConstants DEF DeliveryRows
<1>2. /\ mid \in DeliveryRows /\ mid.state = row.state /\ mid.suppressed = row.suppressed
      /\ mid.secret = row.secret /\ mid.attempts = row.attempts + 1
    BY <1>1 DEF DeliveryRows
<1>3. Attempted(row, expires) = [mid EXCEPT !.expires = expires]
    BY DEF Attempted
<1> HIDE DEF mid
<1> QED
    BY <1>2, <1>3 DEF DeliveryRows

LEMMA RescheduledFields ==
    ASSUME NEW row \in DeliveryRows, NEW next \in Nat
    PROVE  /\ Rescheduled(row, next) \in DeliveryRows
           /\ Rescheduled(row, next).state = "pending"
           /\ Rescheduled(row, next).expires = 0
           /\ Rescheduled(row, next).suppressed = row.suppressed
           /\ Rescheduled(row, next).secret = row.secret
           /\ Rescheduled(row, next).attempts = row.attempts
<1> DEFINE one == [row EXCEPT !.state = "pending"]
           two == [one EXCEPT !.expires = 0]
<1>1. /\ one \in DeliveryRows /\ one.state = "pending" /\ one.suppressed = row.suppressed
      /\ one.secret = row.secret /\ one.attempts = row.attempts
    BY DEF DeliveryRows
<1> HIDE DEF one
<1>2. /\ two \in DeliveryRows /\ two.state = "pending" /\ two.suppressed = row.suppressed
      /\ two.secret = row.secret /\ two.attempts = row.attempts /\ two.expires = 0
    BY <1>1 DEF DeliveryRows
<1>3. Rescheduled(row, next) = [two EXCEPT !.available = next]
    BY DEF Rescheduled, one
<1> HIDE DEF two
<1> QED
    BY <1>2, <1>3 DEF DeliveryRows

-----------------------------------------------------------------------------
(* Administrators *)

\* What the rotation of one Integration means to the others, and to deliveries.
LEMMA SecretsInv ==
    ASSUME RowInv, NEW i \in Integrations,
           UNCHANGED <<alerts, delivery, attempt>>,
           integration' \in [Integrations -> [enabled : BOOLEAN, active : 0..MaxSecret]],
           secret' \in [Secrets -> SecretStates],
           \A j \in Integrations \ {i} :
              /\ integration'[j] = integration[j]
              /\ \A v \in 1..MaxSecret : secret'[<<j, v>>] = secret[<<j, v>>],
           /\ InState(i, "active")' = IF Created(i)' THEN {integration'[i].active} ELSE {}
           /\ InState(i, "pending")' \subseteq {integration'[i].active + 1}
           /\ InState(i, "retiring")' \subseteq {integration'[i].active - 1}
           /\ InState(i, "pending")' = {} \/ InState(i, "retiring")' = {}
           /\ ~ Created(i)' => InState(i, "pending")' = {},
           \A d \in Deliveries : d[2] = i /\ Unfinished(d) =>
              secret'[<<i, delivery[d].secret>>] \in {"active", "retiring"}
    PROVE  RowInv'
<1>1. \A j \in Integrations \ {i}, s \in SecretStates :
          Created(j)' = Created(j) /\ InState(j, s)' = InState(j, s)
    BY DEF Created, InState
<1>2. Restorable' /\ RotationSound'
    BY <1>1 DEF RowInv, Restorable, RotationSound, SecretStates
<1>3. UnfinishedHasSecret'
    <2> SUFFICES ASSUME NEW d \in Deliveries, Unfinished(d)
                 PROVE  secret'[<<d[2], delivery[d].secret>>] \in {"active", "retiring"}
        BY DEF UnfinishedHasSecret, Unfinished
    <2>1. secret[<<d[2], delivery[d].secret>>] \in {"active", "retiring"}
          /\ delivery[d].secret \in 1..MaxSecret /\ d[2] \in Integrations
        BY DeliveryPairs DEF RowInv, UnfinishedHasSecret, RowsSound, Unfinished
    <2> QED
        BY <2>1
<1>4. WebhookTypeOK' /\ RowsSound' /\ AuditSound'
    BY DEF RowInv, WebhookTypeOK, RowsSound, AuditSound, Unfinished, Leased
<1> QED
    BY <1>2, <1>3, <1>4 DEF RowInv

\* The states that a rotation may find and leave, version by version.
LEMMA RotationFacts ==
    ASSUME RowInv, NEW i \in Integrations
    PROVE  /\ \A v \in 1..MaxSecret : secret[<<i, v>>] \in SecretStates
           /\ \A v \in 1..MaxSecret : secret[<<i, v>>] = "active" <=>
                 Created(i) /\ v = integration[i].active
           /\ \A v \in 1..MaxSecret : secret[<<i, v>>] = "pending" =>
                 Created(i) /\ v = integration[i].active + 1
           /\ \A v \in 1..MaxSecret : secret[<<i, v>>] = "retiring" =>
                 v = integration[i].active - 1
           /\ \A v, w \in 1..MaxSecret :
                 ~ (secret[<<i, v>>] = "pending" /\ secret[<<i, w>>] = "retiring")
           /\ integration[i].active \in 0..MaxSecret
           /\ integration[i].enabled \in BOOLEAN
           /\ Created(i) => integration[i].active \in 1..MaxSecret
<1>1. \A v \in 1..MaxSecret : <<i, v>> \in Secrets
    BY DEF Secrets
<1>2. integration[i] \in [enabled : BOOLEAN, active : 0..MaxSecret]
    BY DEF RowInv, WebhookTypeOK
<1>3. Created(i) => integration[i].active \in 1..MaxSecret
    BY <1>2, DeliveryConstants DEF Created
<1>4. \A v \in 1..MaxSecret : secret[<<i, v>>] \in SecretStates
    BY <1>1 DEF RowInv, WebhookTypeOK
<1>5. \A v \in 1..MaxSecret, s \in SecretStates : v \in InState(i, s) <=> secret[<<i, v>>] = s
    BY DEF InState
<1>6. /\ InState(i, "active") = IF Created(i) THEN {integration[i].active} ELSE {}
      /\ InState(i, "pending") \subseteq {integration[i].active + 1}
      /\ InState(i, "retiring") \subseteq {integration[i].active - 1}
      /\ InState(i, "pending") = {} \/ InState(i, "retiring") = {}
      /\ ~ Created(i) => InState(i, "pending") = {}
    BY DEF RowInv, Restorable, RotationSound
<1>7. {"active", "pending", "retiring"} \subseteq SecretStates
    BY DEF SecretStates
<1> QED
    BY <1>2, <1>3, <1>4, <1>5, <1>6, <1>7

\* The same facts about the next state give SecretsInv what it needs.
LEMMA RotationKept ==
    ASSUME RowInv, NEW i \in Integrations,
           UNCHANGED <<alerts, delivery, attempt>>,
           integration' \in [Integrations -> [enabled : BOOLEAN, active : 0..MaxSecret]],
           secret' \in [Secrets -> SecretStates],
           \A j \in Integrations \ {i} :
              /\ integration'[j] = integration[j]
              /\ \A v \in 1..MaxSecret : secret'[<<j, v>>] = secret[<<j, v>>],
           NEW active \in 1..MaxSecret, integration'[i].active = active,
           secret'[<<i, active>>] = "active",
           \A v \in 1..MaxSecret : /\ secret'[<<i, v>>] = "active" => v = active
                                   /\ secret'[<<i, v>>] = "pending" => v = active + 1
                                   /\ secret'[<<i, v>>] = "retiring" => v = active - 1,
           \A v, w \in 1..MaxSecret :
              ~ (secret'[<<i, v>>] = "pending" /\ secret'[<<i, w>>] = "retiring"),
           \A d \in Deliveries : d[2] = i /\ Unfinished(d) =>
              secret'[<<i, delivery[d].secret>>] \in {"active", "retiring"}
    PROVE  RowInv'
<1>1. Created(i)' /\ integration'[i].active = active
    BY DeliveryConstants DEF Created
<1>2. InState(i, "active")' = {active}
    BY DEF InState
<1>3. InState(i, "pending")' \subseteq {active + 1}
    BY DEF InState
<1>4. InState(i, "retiring")' \subseteq {active - 1}
    BY DEF InState
<1>5. InState(i, "pending")' = {} \/ InState(i, "retiring")' = {}
    BY DEF InState
<1> QED
    BY <1>1, <1>2, <1>3, <1>4, <1>5, SecretsInv

\* An unfinished delivery was routed with a version that receivers still accept.
LEMMA RoutedWith ==
    ASSUME RowInv, NEW d \in Deliveries, Unfinished(d)
    PROVE  /\ delivery[d].secret \in 1..MaxSecret /\ d[2] \in Integrations
           /\ secret[<<d[2], delivery[d].secret>>] \in {"active", "retiring"}
BY DeliveryPairs DEF RowInv, RowsSound, UnfinishedHasSecret, Unfinished

LEMMA CreateIntegrationInv ==
    ASSUME RowInv, NEW i \in Integrations, CreateIntegration(i) PROVE RowInv'
<1>1. /\ integration' = [integration EXCEPT ![i].active = 1]
      /\ secret' = [secret EXCEPT ![<<i, 1>>] = "active"]
      /\ UNCHANGED <<alerts, delivery, attempt>> /\ ~ Created(i)
    BY DEF CreateIntegration
<1>2. 1 \in 1..MaxSecret /\ <<i, 1>> \in Secrets /\ integration[i].active = 0
    BY <1>1, DeliveryConstants DEF Secrets, Created
<1>3. /\ integration' \in [Integrations -> [enabled : BOOLEAN, active : 0..MaxSecret]]
      /\ integration'[i].active = 1
      /\ \A j \in Integrations \ {i} : integration'[j] = integration[j]
    BY <1>1, <1>2 DEF RowInv, WebhookTypeOK
<1>4. /\ secret' \in [Secrets -> SecretStates]
      /\ secret'[<<i, 1>>] = "active"
      /\ \A j \in Integrations, v \in 1..MaxSecret : j # i \/ v # 1 =>
            secret'[<<j, v>>] = secret[<<j, v>>]
    BY <1>1, <1>2 DEF RowInv, WebhookTypeOK, SecretStates, Secrets
<1>5. \A v \in 1..MaxSecret : secret[<<i, v>>] \notin {"active", "pending", "retiring"}
    BY <1>1, <1>2, RotationFacts
<1>6. \A d \in Deliveries : d[2] = i => ~ Unfinished(d)
    BY <1>5, RoutedWith
<1> QED
    BY <1>1, <1>2, <1>3, <1>4, <1>5, <1>6, RotationKept

LEMMA SetEnabledInv ==
    ASSUME RowInv, NEW i \in Integrations, NEW e \in BOOLEAN, SetEnabled(i, e) PROVE RowInv'
<1>1. /\ integration' = [integration EXCEPT ![i].enabled = e] /\ Created(i)
      /\ UNCHANGED <<alerts, secret, delivery, attempt>>
    BY DEF SetEnabled
<1>2. integration[i].active \in 1..MaxSecret
    BY <1>1, RotationFacts
<1>3. /\ integration' \in [Integrations -> [enabled : BOOLEAN, active : 0..MaxSecret]]
      /\ integration'[i].active = integration[i].active
      /\ \A j \in Integrations \ {i} : integration'[j] = integration[j]
    BY <1>1 DEF RowInv, WebhookTypeOK
<1>4. secret' \in [Secrets -> SecretStates]
    BY <1>1 DEF RowInv, WebhookTypeOK
<1>5. \A d \in Deliveries : d[2] = i /\ Unfinished(d) =>
          secret'[<<i, delivery[d].secret>>] \in {"active", "retiring"}
    BY <1>1, RoutedWith
<1>6. /\ secret'[<<i, integration[i].active>>] = "active"
      /\ \A v \in 1..MaxSecret :
            /\ secret'[<<i, v>>] = "active" => v = integration[i].active
            /\ secret'[<<i, v>>] = "pending" => v = integration[i].active + 1
            /\ secret'[<<i, v>>] = "retiring" => v = integration[i].active - 1
      /\ \A v, w \in 1..MaxSecret :
            ~ (secret'[<<i, v>>] = "pending" /\ secret'[<<i, w>>] = "retiring")
    BY <1>1, <1>2, RotationFacts
<1> QED
    BY <1>1, <1>2, <1>3, <1>4, <1>5, <1>6, RotationKept

LEMMA PrepareSecretInv ==
    ASSUME RowInv, NEW i \in Integrations, PrepareSecret(i) PROVE RowInv'
<1> DEFINE active == integration[i].active
<1>1. /\ Created(i) /\ active < MaxSecret
      /\ secret' = [secret EXCEPT ![<<i, active + 1>>] = "pending"]
      /\ UNCHANGED <<alerts, integration, delivery, attempt>>
    BY DEF PrepareSecret
<1>2. active \in 1..MaxSecret /\ active + 1 \in 1..MaxSecret /\ <<i, active + 1>> \in Secrets
    BY <1>1, RotationFacts, DeliveryConstants DEF Secrets
<1>3. \A v \in 1..MaxSecret : secret[<<i, v>>] \notin {"pending", "retiring"}
    BY DEF PrepareSecret, RotationIdle, InState
<1>4. /\ secret' \in [Secrets -> SecretStates]
      /\ secret'[<<i, active + 1>>] = "pending"
      /\ \A j \in Integrations, v \in 1..MaxSecret : j # i \/ v # active + 1 =>
            secret'[<<j, v>>] = secret[<<j, v>>]
    BY <1>1, <1>2 DEF RowInv, WebhookTypeOK, SecretStates, Secrets
<1>5. integration' \in [Integrations -> [enabled : BOOLEAN, active : 0..MaxSecret]]
    BY <1>1 DEF RowInv, WebhookTypeOK
<1>6. \A d \in Deliveries : d[2] = i /\ Unfinished(d) => delivery[d].secret = active
    <2> SUFFICES ASSUME NEW d \in Deliveries, d[2] = i, Unfinished(d)
                 PROVE  delivery[d].secret = active
        OBVIOUS
    <2>1. delivery[d].secret \in 1..MaxSecret
          /\ secret[<<i, delivery[d].secret>>] \in {"active", "retiring"}
        BY RoutedWith
    <2>2. secret[<<i, delivery[d].secret>>] = "active"
        BY <1>3, <2>1
    <2> QED
        BY <2>1, <2>2, RotationFacts
<1>7. /\ secret'[<<i, active>>] = "active"
      /\ \A v \in 1..MaxSecret : /\ secret'[<<i, v>>] = "active" => v = active
                                 /\ secret'[<<i, v>>] = "pending" => v = active + 1
                                 /\ secret'[<<i, v>>] # "retiring"
    BY <1>1, <1>2, <1>3, <1>4, RotationFacts
<1> QED
    BY <1>1, <1>2, <1>4, <1>5, <1>6, <1>7, RotationKept

LEMMA ActivateSecretInv ==
    ASSUME RowInv, NEW i \in Integrations, ActivateSecret(i) PROVE RowInv'
<1> DEFINE old == integration[i].active
<1>1. PICK v \in InState(i, "pending") :
          /\ secret' = [secret EXCEPT ![<<i, v>>] = "active", ![<<i, old>>] = "retiring"]
          /\ integration' = [integration EXCEPT ![i].active = v]
          /\ UNCHANGED <<alerts, delivery, attempt>>
    BY DEF ActivateSecret
<1>2. v \in 1..MaxSecret /\ secret[<<i, v>>] = "pending"
    BY DEF InState
<1>3. /\ Created(i) /\ v = old + 1 /\ old \in 1..MaxSecret
      /\ \A w \in 1..MaxSecret : secret[<<i, w>>] # "retiring"
    BY <1>2, RotationFacts
<1>4. <<i, v>> \in Secrets /\ <<i, old>> \in Secrets /\ v # old
    BY <1>2, <1>3 DEF Secrets
<1>5. /\ secret' \in [Secrets -> SecretStates]
      /\ secret'[<<i, v>>] = "active" /\ secret'[<<i, old>>] = "retiring"
      /\ \A j \in Integrations, w \in 1..MaxSecret : j # i \/ w \notin {v, old} =>
            secret'[<<j, w>>] = secret[<<j, w>>]
    BY <1>1, <1>3, <1>4 DEF RowInv, WebhookTypeOK, SecretStates, Secrets
<1>6. /\ integration' \in [Integrations -> [enabled : BOOLEAN, active : 0..MaxSecret]]
      /\ integration'[i].active = v
      /\ \A j \in Integrations \ {i} : integration'[j] = integration[j]
    BY <1>1, <1>2 DEF RowInv, WebhookTypeOK
<1>7. \A d \in Deliveries : d[2] = i /\ Unfinished(d) => delivery[d].secret = old
    <2> SUFFICES ASSUME NEW d \in Deliveries, d[2] = i, Unfinished(d)
                 PROVE  delivery[d].secret = old
        OBVIOUS
    <2>1. delivery[d].secret \in 1..MaxSecret
          /\ secret[<<i, delivery[d].secret>>] \in {"active", "retiring"}
        BY RoutedWith
    <2>2. secret[<<i, delivery[d].secret>>] = "active"
        BY <1>3, <2>1
    <2> QED
        BY <2>1, <2>2, RotationFacts
<1>8. \A w \in 1..MaxSecret : /\ secret'[<<i, w>>] = "active" => w = v
                              /\ secret'[<<i, w>>] # "pending"
                              /\ secret'[<<i, w>>] = "retiring" => w = v - 1
    BY <1>2, <1>3, <1>5, RotationFacts
<1>9. \A d \in Deliveries : d[2] = i /\ Unfinished(d) =>
          secret'[<<i, delivery[d].secret>>] = "retiring"
    BY <1>5, <1>7
<1>10. \A j \in Integrations \ {i} :
           /\ integration'[j] = integration[j]
           /\ \A w \in 1..MaxSecret : secret'[<<j, w>>] = secret[<<j, w>>]
    BY <1>5, <1>6
<1>11. \A u, w \in 1..MaxSecret :
           ~ (secret'[<<i, u>>] = "pending" /\ secret'[<<i, w>>] = "retiring")
    BY <1>8
<1>12. UNCHANGED <<alerts, delivery, attempt>> /\ secret' \in [Secrets -> SecretStates]
    BY <1>1, <1>5
<1> QED
    BY <1>2, <1>5, <1>6, <1>8, <1>9, <1>10, <1>11, <1>12, RotationKept

LEMMA RetireSecretInv ==
    ASSUME RowInv, NEW i \in Integrations, RetireSecret(i) PROVE RowInv'
<1>1. PICK v \in InState(i, "retiring") :
          /\ ~ InUse(i, v)
          /\ secret' = [secret EXCEPT ![<<i, v>>] = "retired"]
          /\ UNCHANGED <<alerts, integration, delivery, attempt>>
    BY DEF RetireSecret
<1>2. v \in 1..MaxSecret /\ secret[<<i, v>>] = "retiring" /\ <<i, v>> \in Secrets
    BY DEF InState, Secrets
<1>3. /\ secret' \in [Secrets -> SecretStates] /\ secret'[<<i, v>>] = "retired"
      /\ \A j \in Integrations, w \in 1..MaxSecret : j # i \/ w # v =>
            secret'[<<j, w>>] = secret[<<j, w>>]
    BY <1>1, <1>2 DEF RowInv, WebhookTypeOK, SecretStates, Secrets
<1>4. integration' \in [Integrations -> [enabled : BOOLEAN, active : 0..MaxSecret]]
    BY <1>1 DEF RowInv, WebhookTypeOK
<1>5. \A d \in Deliveries : d[2] = i /\ Unfinished(d) => delivery[d].secret # v
    BY <1>1 DEF InUse
<1>6. \A d \in Deliveries : d[2] = i /\ Unfinished(d) =>
          secret'[<<i, delivery[d].secret>>] \in {"active", "retiring"}
    BY <1>3, <1>5, RoutedWith
<1>7. CASE Created(i)
    <2>1. integration[i].active \in 1..MaxSecret
        BY <1>7, RotationFacts
    <2>2. /\ secret'[<<i, integration[i].active>>] = "active"
          /\ \A w \in 1..MaxSecret :
                /\ secret'[<<i, w>>] = "active" => w = integration[i].active
                /\ secret'[<<i, w>>] # "pending"
                /\ secret'[<<i, w>>] = "retiring" => w = integration[i].active - 1
        BY <1>2, <1>3, <1>7, <2>1, RotationFacts
    <2> QED
        BY <1>1, <1>3, <1>4, <1>6, <2>1, <2>2, RotationKept
<1>8. CASE ~ Created(i)
    BY <1>2, <1>8, RotationFacts DEF Created
<1> QED
    BY <1>7, <1>8

LEMMA AdministerInv ==
    ASSUME RowInv, NEW i \in Integrations, Administer(i) PROVE RowInv'
BY CreateIntegrationInv, SetEnabledInv, PrepareSecretInv, ActivateSecretInv, RetireSecretInv
DEF Administer

-----------------------------------------------------------------------------
(* Routing, claims and reports *)

\* What RowInv says of one delivery; a step is examined delivery by delivery.
RowSound(d) ==
    /\ delivery[d] \in DeliveryRows
    /\ d[1] \notin alerts => delivery[d] = NoDelivery
    /\ delivery[d].state = "none" => delivery[d] = NoDelivery
    /\ delivery[d].suppressed => delivery[d].state = "settled"
    /\ delivery[d].state # "pending" => delivery[d].expires = 0
    /\ delivery[d].state # "none" => delivery[d].secret \in 1..MaxSecret
    /\ delivery[d].state = "pending" =>
          secret[<<d[2], delivery[d].secret>>] \in {"active", "retiring"}
    /\ delivery[d].suppressed => delivery[d].attempts = 0

AttemptSound(d, n) ==
    /\ attempt[<<d, n>>] \in Outcomes
    /\ attempt[<<d, n>>] = "none" <=> n > delivery[d].attempts
    /\ n < delivery[d].attempts => attempt[<<d, n>>] \in {"failed", "cancelled"}
    /\ attempt[<<d, n>>] = "inProgress" =>
          delivery[d].state = "pending" /\ delivery[d].expires # 0
    /\ attempt[<<d, n>>] = "succeeded" => delivery[d].state = "settled"

LEMMA RowInvEachWay ==
    RowInv <=> /\ alerts \subseteq Alerts
               /\ integration \in [Integrations -> [enabled : BOOLEAN, active : 0..MaxSecret]]
               /\ secret \in [Secrets -> SecretStates]
               /\ delivery = [d \in Deliveries |-> delivery[d]]
               /\ attempt = [r \in Attempts |-> attempt[r]]
               /\ Restorable /\ RotationSound
               /\ \A d \in Deliveries : RowSound(d)
               /\ \A d \in Deliveries, n \in 1..MaxAttempts : AttemptSound(d, n)
<1>1. ASSUME RowInv, NEW d \in Deliveries PROVE RowSound(d)
    BY <1>1 DEF RowInv, WebhookTypeOK, RowsSound, UnfinishedHasSecret, AuditSound, Unfinished,
                RowSound
<1>2. ASSUME RowInv, NEW d \in Deliveries, NEW n \in 1..MaxAttempts PROVE AttemptSound(d, n)
    <2>1. attempt[<<d, n>>] \in Outcomes
        <3>1. <<d, n>> \in Attempts
            BY DEF Attempts
        <3> QED
            BY <1>2, <3>1 DEF RowInv, WebhookTypeOK
    <2> QED
        BY <1>2, <2>1 DEF RowInv, AuditSound, Unfinished, Leased, AttemptSound
<1>3. ASSUME delivery = [d \in Deliveries |-> delivery[d]], \A d \in Deliveries : RowSound(d)
      PROVE  delivery \in [Deliveries -> DeliveryRows] /\ RowsSound /\ UnfinishedHasSecret
    BY <1>3 DEF RowSound, RowsSound, UnfinishedHasSecret, Unfinished
<1>4. ASSUME attempt = [r \in Attempts |-> attempt[r]],
             \A d \in Deliveries : RowSound(d),
             \A d \in Deliveries, n \in 1..MaxAttempts : AttemptSound(d, n)
      PROVE  attempt \in [Attempts -> Outcomes] /\ AuditSound
    <2>1. ASSUME NEW r \in Attempts PROVE attempt[r] \in Outcomes
        <3>1. PICK d \in Deliveries, n \in 1..MaxAttempts : r = <<d, n>>
            BY DEF Attempts
        <3>2. AttemptSound(d, n)
            BY <1>4
        <3> QED
            BY <3>1, <3>2 DEF AttemptSound
    <2>2. AuditSound
        <3> SUFFICES ASSUME NEW d \in Deliveries
                     PROVE  /\ \A n \in 1..MaxAttempts :
                                  /\ attempt[<<d, n>>] = "none" <=> n > delivery[d].attempts
                                  /\ n < delivery[d].attempts =>
                                        attempt[<<d, n>>] \in {"failed", "cancelled"}
                                  /\ attempt[<<d, n>>] = "inProgress" =>
                                        Unfinished(d) /\ Leased(d)
                                  /\ attempt[<<d, n>>] = "succeeded" =>
                                        delivery[d].state = "settled"
                            /\ delivery[d].suppressed => delivery[d].attempts = 0
            BY DEF AuditSound
        <3>1. \A n \in 1..MaxAttempts : AttemptSound(d, n)
            BY <1>4
        <3>2. RowSound(d)
            BY <1>4
        <3> QED
            BY <3>1, <3>2 DEF AttemptSound, RowSound, Unfinished, Leased
    <2> QED
        BY <1>4, <2>1, <2>2
<1> QED
    BY <1>1, <1>2, <1>3, <1>4 DEF RowInv, WebhookTypeOK

LEMMA RouteInv ==
    ASSUME RowInv, NEW a \in Alerts, a \notin alerts, NEW now \in Nat,
           NEW suppressed \in BOOLEAN, Route(a, now, suppressed)
    PROVE  RowInv'
<1>1. /\ alerts' = alerts \cup {a} /\ UNCHANGED <<integration, secret, attempt>>
      /\ delivery' = [d \in Deliveries |->
            IF d[1] = a /\ Enabled(d[2]) THEN NewDelivery(d[2], now, suppressed)
            ELSE delivery[d]]
    BY DEF Route
<1>2. Restorable' /\ RotationSound'
    BY <1>1 DEF RowInv, Restorable, RotationSound, Created, InState
<1>3. ASSUME NEW d \in Deliveries, d[1] = a, Enabled(d[2])
      PROVE  /\ RowSound(d)'
             /\ \A n \in 1..MaxAttempts : AttemptSound(d, n)'
    <2>1. delivery'[d] = NewDelivery(d[2], now, suppressed) /\ delivery[d] = NoDelivery
        BY <1>1, <1>3, RowInvEachWay DEF RowSound
    <2>2. /\ integration[d[2]].active \in 1..MaxSecret
          /\ secret[<<d[2], integration[d[2]].active>>] = "active"
        BY <1>3, DeliveryPairs, RotationFacts DEF Enabled
    <2>3. RowSound(d)'
        <3>1. CASE suppressed
            BY <1>1, <1>3, <2>1, <2>2, <3>1, DeliveryConstants
            DEF RowSound, NewDelivery, DeliveryRows
        <3>2. CASE ~ suppressed
            BY <1>1, <1>3, <2>1, <2>2, <3>2, DeliveryConstants
            DEF RowSound, NewDelivery, DeliveryRows
        <3> QED
            BY <3>1, <3>2
    <2>4. ASSUME NEW n \in 1..MaxAttempts PROVE AttemptSound(d, n)'
        <3>1. AttemptSound(d, n) /\ delivery[d].attempts = 0 /\ n > 0
            BY <2>1, RowInvEachWay DEF NoDelivery
        <3>2. delivery'[d].attempts = 0
            BY <2>1 DEF NewDelivery
        <3>3. attempt[<<d, n>>] = "none" /\ attempt' = attempt
            BY <1>1, <3>1 DEF AttemptSound
        <3> QED
            BY <3>1, <3>2, <3>3 DEF AttemptSound, Outcomes
    <2> QED
        BY <2>3, <2>4
<1>4. ASSUME NEW d \in Deliveries, ~ (d[1] = a /\ Enabled(d[2]))
      PROVE  /\ RowSound(d)'
             /\ \A n \in 1..MaxAttempts : AttemptSound(d, n)'
    <2>1. delivery'[d] = delivery[d]
        BY <1>1, <1>4
    <2> QED
        BY <1>1, <2>1, RowInvEachWay DEF RowSound, AttemptSound
<1>5. /\ delivery' = [d \in Deliveries |-> delivery'[d]]
      /\ attempt' = [r \in Attempts |-> attempt'[r]]
    BY <1>1, RowInvEachWay
<1>6. /\ alerts' \subseteq Alerts
      /\ integration' \in [Integrations -> [enabled : BOOLEAN, active : 0..MaxSecret]]
      /\ secret' \in [Secrets -> SecretStates]
    BY <1>1, RowInvEachWay
<1> HIDE DEF Route
<1>7. (\A d \in Deliveries : RowSound(d))'
      /\ (\A d \in Deliveries, n \in 1..MaxAttempts : AttemptSound(d, n))'
    BY <1>3, <1>4
<1>8. (/\ alerts \subseteq Alerts
       /\ integration \in [Integrations -> [enabled : BOOLEAN, active : 0..MaxSecret]]
       /\ secret \in [Secrets -> SecretStates]
       /\ delivery = [d \in Deliveries |-> delivery[d]]
       /\ attempt = [r \in Attempts |-> attempt[r]]
       /\ Restorable /\ RotationSound
       /\ \A d \in Deliveries : RowSound(d)
       /\ \A d \in Deliveries, n \in 1..MaxAttempts : AttemptSound(d, n))'
    BY <1>2, <1>5, <1>6, <1>7
<1> QED
    BY <1>8, RowInvEachWay, PTL

\* Half of RowInvEachWay in the next state, for a step that moves deliveries only.
LEMMA RowsKept ==
    ASSUME RowInv, UNCHANGED <<alerts, integration, secret>>,
           delivery' = [d \in Deliveries |-> delivery'[d]],
           attempt' = [r \in Attempts |-> attempt'[r]],
           \A d \in Deliveries : RowSound(d)',
           \A d \in Deliveries, n \in 1..MaxAttempts : AttemptSound(d, n)'
    PROVE  RowInv'
<1>1. Restorable' /\ RotationSound'
    BY DEF RowInv, Restorable, RotationSound, Created, InState
<1>2. /\ alerts' \subseteq Alerts
      /\ integration' \in [Integrations -> [enabled : BOOLEAN, active : 0..MaxSecret]]
      /\ secret' \in [Secrets -> SecretStates]
    BY RowInvEachWay
<1>3. (\A d \in Deliveries : RowSound(d))'
      /\ (\A d \in Deliveries, n \in 1..MaxAttempts : AttemptSound(d, n))'
    OBVIOUS
<1>4. (/\ alerts \subseteq Alerts
       /\ integration \in [Integrations -> [enabled : BOOLEAN, active : 0..MaxSecret]]
       /\ secret \in [Secrets -> SecretStates]
       /\ delivery = [d \in Deliveries |-> delivery[d]]
       /\ attempt = [r \in Attempts |-> attempt[r]]
       /\ Restorable /\ RotationSound
       /\ \A d \in Deliveries : RowSound(d)
       /\ \A d \in Deliveries, n \in 1..MaxAttempts : AttemptSound(d, n))'
    BY <1>1, <1>2, <1>3
<1> QED
    BY <1>4, RowInvEachWay, PTL

LEMMA RowFacts ==
    ASSUME RowInv, NEW d \in Deliveries
    PROVE  /\ RowSound(d) /\ \A n \in 1..MaxAttempts : AttemptSound(d, n)
           /\ delivery[d] \in DeliveryRows
           /\ delivery[d].attempts \in 0..MaxAttempts /\ delivery[d].attempts \in Nat
           /\ delivery[d].expires \in Nat
<1>1. RowSound(d) /\ \A n \in 1..MaxAttempts : AttemptSound(d, n)
    BY RowInvEachWay
<1>2. delivery[d] \in DeliveryRows
    BY <1>1 DEF RowSound
<1>3. delivery[d].attempts \in 0..MaxAttempts /\ delivery[d].expires \in Nat
    BY <1>2 DEF DeliveryRows
<1> QED
    BY <1>1, <1>2, <1>3, DeliveryConstants

\* What a claim writes, delivery by delivery.
ClaimWrote(batch, now, expires, d) ==
    /\ delivery'[d] = IF Exhausted(d, now) THEN Settled(delivery[d])
                      ELSE IF d \in batch THEN Attempted(delivery[d], expires)
                      ELSE delivery[d]
    /\ \A n \in 1..MaxAttempts : attempt'[<<d, n>>] =
          IF d \in batch /\ n = delivery[d].attempts + 1 THEN "inProgress"
          ELSE IF Uncertain(d, now) /\ n = delivery[d].attempts THEN "failed"
          ELSE attempt[<<d, n>>]
    /\ d \in batch => Claimable(d, now)
    /\ Exhausted(d, now) => d \notin batch

LEMMA ClaimWrites ==
    ASSUME RowInv, NEW batch \in SUBSET Deliveries, NEW now \in Nat, NEW expires \in Nat,
           ClaimDeliveries(batch, now, expires), NEW d \in Deliveries
    PROVE  ClaimWrote(batch, now, expires, d)
<1>1. /\ \A x \in batch : Claimable(x, now)
      /\ delivery' = [x \in Deliveries |->
            IF Exhausted(x, now) THEN Settled(delivery[x])
            ELSE IF x \in batch THEN Attempted(delivery[x], expires)
            ELSE delivery[x]]
      /\ attempt' = [r \in Attempts |->
            IF r[1] \in batch /\ r[2] = delivery[r[1]].attempts + 1 THEN "inProgress"
            ELSE IF Uncertain(r[1], now) /\ r = Latest(r[1]) THEN "failed"
            ELSE attempt[r]]
    BY DEF ClaimDeliveries
<1>2. ASSUME NEW n \in 1..MaxAttempts
      PROVE  attempt'[<<d, n>>] =
                IF d \in batch /\ n = delivery[d].attempts + 1 THEN "inProgress"
                ELSE IF Uncertain(d, now) /\ n = delivery[d].attempts THEN "failed"
                ELSE attempt[<<d, n>>]
    <2>1. <<d, n>> \in Attempts
        BY DEF Attempts
    <2>2. <<d, n>> = Latest(d) <=> n = delivery[d].attempts
        BY DEF Latest
    <2> QED
        BY <1>1, <2>1, <2>2
<1>3. Exhausted(d, now) => d \notin batch
    <2>1. delivery[d].attempts \in Nat
        BY RowFacts
    <2> QED
        BY <1>1, <2>1, DeliveryConstants DEF Exhausted, Claimable
<1> QED
    BY <1>1, <1>2, <1>3 DEF ClaimWrote

LEMMA ClaimInv ==
    ASSUME RowInv, NEW batch \in SUBSET Deliveries, NEW now \in Nat,
           NEW expires \in Nat, expires # 0, ClaimDeliveries(batch, now, expires)
    PROVE  RowInv'
<1>1. UNCHANGED <<alerts, integration, secret>>
    BY DEF ClaimDeliveries
<1>2. /\ delivery' = [d \in Deliveries |-> delivery'[d]]
      /\ attempt' = [r \in Attempts |-> attempt'[r]]
    BY DEF ClaimDeliveries
<1>3. ASSUME NEW d \in Deliveries
      PROVE  RowSound(d)' /\ \A n \in 1..MaxAttempts : AttemptSound(d, n)'
    <2> DEFINE row == delivery[d]
    <2>1. RowSound(d) /\ row \in DeliveryRows /\ row.attempts \in 0..MaxAttempts
        BY RowFacts
    <2>2. \A n \in 1..MaxAttempts : AttemptSound(d, n)
        BY RowFacts
    <2>3. ClaimWrote(batch, now, expires, d)
        BY ClaimWrites
    <2>4. CASE Exhausted(d, now)
        <3>1. delivery'[d] = Settled(row) /\ d \notin batch /\ row.state = "pending"
              /\ row.attempts = MaxAttempts
            BY <2>4, <2>3 DEF ClaimWrote, Exhausted, Expired, Unfinished
        <3>2. /\ delivery'[d] \in DeliveryRows /\ delivery'[d].state = "settled"
              /\ delivery'[d].expires = 0 /\ delivery'[d].suppressed = row.suppressed
              /\ delivery'[d].secret = row.secret /\ delivery'[d].attempts = row.attempts
            BY <2>1, <3>1, SettledFields
        <3>3. RowSound(d)'
            BY <1>1, <2>1, <3>1, <3>2 DEF RowSound, NoDelivery
        <3>4. ASSUME NEW n \in 1..MaxAttempts PROVE AttemptSound(d, n)'
            <4>1. attempt'[<<d, n>>] =
                     IF Uncertain(d, now) /\ n = row.attempts THEN "failed"
                     ELSE attempt[<<d, n>>]
                BY <3>1, <2>3 DEF ClaimWrote
            <4>2. attempt[<<d, n>>] = "inProgress" => n = row.attempts /\ Uncertain(d, now)
                BY <2>1, <2>2, <2>4, <3>1 DEF AttemptSound, Uncertain, Latest, Exhausted
            <4>3. /\ delivery'[d].attempts = row.attempts /\ delivery'[d].state = "settled"
                BY <2>1, <3>1, SettledFields
            <4> HIDE DEF row
            <4> QED
                BY <2>1, <2>2, <4>1, <4>2, <4>3 DEF AttemptSound, Outcomes, row
        <3> QED
            BY <3>3, <3>4
    <2>5. CASE d \in batch
        <3>1. /\ delivery'[d] = Attempted(row, expires) /\ row.attempts < MaxAttempts
              /\ row.state = "pending" /\ Claimable(d, now)
            BY <2>5, <2>3 DEF ClaimWrote, Claimable, Unfinished
        <3>2. /\ delivery'[d] \in DeliveryRows /\ delivery'[d].state = "pending"
              /\ delivery'[d].expires = expires /\ delivery'[d].suppressed = row.suppressed
              /\ delivery'[d].secret = row.secret
              /\ delivery'[d].attempts = row.attempts + 1
            BY <2>1, <3>1, AttemptedFields
        <3>3. RowSound(d)'
            BY <1>1, <2>1, <3>1, <3>2 DEF RowSound, NoDelivery
        <3>4. ASSUME NEW n \in 1..MaxAttempts PROVE AttemptSound(d, n)'
            <4>1. attempt'[<<d, n>>] =
                     IF n = row.attempts + 1 THEN "inProgress"
                     ELSE IF Uncertain(d, now) /\ n = row.attempts THEN "failed"
                     ELSE attempt[<<d, n>>]
                BY <2>5, <2>3 DEF ClaimWrote
            <4>2. attempt[<<d, n>>] = "inProgress" => n = row.attempts /\ Uncertain(d, now)
                BY <2>1, <2>2, <3>1
                DEF AttemptSound, Uncertain, Latest, Claimable, Leased
            <4>3. attempt[<<d, n>>] # "succeeded"
                BY <2>2, <3>1 DEF AttemptSound
            <4> QED
                BY <2>1, <2>2, <3>2, <4>1, <4>2, <4>3 DEF AttemptSound, Outcomes
        <3> QED
            BY <3>3, <3>4
    <2>6. CASE ~ Exhausted(d, now) /\ d \notin batch
        <3>1. delivery'[d] = row
            BY <2>6, <2>3 DEF ClaimWrote
        <3>2. RowSound(d)'
            BY <1>1, <2>1, <3>1 DEF RowSound
        <3>3. ASSUME NEW n \in 1..MaxAttempts PROVE AttemptSound(d, n)'
            <4>1. attempt'[<<d, n>>] =
                     IF Uncertain(d, now) /\ n = row.attempts THEN "failed"
                     ELSE attempt[<<d, n>>]
                BY <2>6, <2>3 DEF ClaimWrote
            <4> QED
                BY <2>1, <2>2, <3>1, <4>1 DEF AttemptSound, Outcomes
        <3> QED
            BY <3>2, <3>3
    <2> QED
        BY <2>4, <2>5, <2>6
<1> QED
    BY <1>1, <1>2, <1>3, RowsKept

\* What a report writes.
ReportWrote(d, n, outcome, finished, settles) ==
    /\ HoldsDelivery(d, n, finished)
    /\ attempt'[<<d, n>>] = outcome
    /\ \A e \in Deliveries, m \in 1..MaxAttempts :
          e # d \/ m # n => attempt'[<<e, m>>] = attempt[<<e, m>>]
    /\ delivery'[d] \in DeliveryRows
    /\ delivery'[d].state = IF settles THEN "settled" ELSE "pending"
    /\ delivery'[d].expires = 0
    /\ delivery'[d].suppressed = delivery[d].suppressed
    /\ delivery'[d].secret = delivery[d].secret
    /\ delivery'[d].attempts = delivery[d].attempts
    /\ \A e \in Deliveries \ {d} : delivery'[e] = delivery[e]
    /\ delivery' = [e \in Deliveries |-> delivery'[e]]
    /\ attempt' = [r \in Attempts |-> attempt'[r]]
    /\ UNCHANGED <<alerts, integration, secret>>

LEMMA ReportWrites ==
    ASSUME RowInv, NEW d \in Deliveries, NEW n \in 1..MaxAttempts, NEW outcome,
           NEW finished \in Nat, NEW settles \in BOOLEAN, NEW next \in Nat,
           Complete(d, n, outcome, finished, settles, next)
    PROVE  ReportWrote(d, n, outcome, finished, settles)
<1> DEFINE row == IF settles THEN Settled(delivery[d]) ELSE Rescheduled(delivery[d], next)
<1>1. /\ HoldsDelivery(d, n, finished)
      /\ attempt' = [attempt EXCEPT ![<<d, n>>] = outcome]
      /\ delivery' = [delivery EXCEPT ![d] = row]
      /\ UNCHANGED <<alerts, integration, secret>>
    BY DEF Complete
<1>2. /\ row \in DeliveryRows /\ row.expires = 0
      /\ row.state = IF settles THEN "settled" ELSE "pending"
      /\ row.suppressed = delivery[d].suppressed /\ row.secret = delivery[d].secret
      /\ row.attempts = delivery[d].attempts
    BY RowFacts, SettledFields, RescheduledFields
<1>3. delivery = [e \in Deliveries |-> delivery[e]] /\ attempt = [r \in Attempts |-> attempt[r]]
    BY RowInvEachWay
<1> HIDE DEF row
<1>4. /\ delivery'[d] = row
      /\ \A e \in Deliveries \ {d} : delivery'[e] = delivery[e]
      /\ delivery' = [e \in Deliveries |-> delivery'[e]]
    BY <1>1, <1>3
<1>5. /\ attempt'[<<d, n>>] = outcome
      /\ \A e \in Deliveries, m \in 1..MaxAttempts :
            e # d \/ m # n => attempt'[<<e, m>>] = attempt[<<e, m>>]
      /\ attempt' = [r \in Attempts |-> attempt'[r]]
    BY <1>1, <1>3 DEF Attempts
<1> QED
    BY <1>1, <1>2, <1>4, <1>5 DEF ReportWrote

LEMMA ReportInv ==
    ASSUME RowInv, NEW d \in Deliveries, NEW n \in 1..MaxAttempts,
           NEW outcome \in {"succeeded", "failed", "cancelled"},
           NEW finished \in Nat, NEW settles \in BOOLEAN,
           outcome = "succeeded" => settles,
           ReportWrote(d, n, outcome, finished, settles)
    PROVE  RowInv'
<1> USE DEF ReportWrote
<1>1. delivery[d].state = "pending" /\ delivery[d].attempts = n
    BY DEF HoldsDelivery, Unfinished
<1>2. RowSound(d)'
    <2>1. RowSound(d)
        BY RowFacts
    <2> QED
        BY <1>1, <2>1 DEF RowSound, NoDelivery
<1>3. ASSUME NEW m \in 1..MaxAttempts PROVE AttemptSound(d, m)'
    <2>1. AttemptSound(d, m)
        BY RowFacts
    <2>2. CASE m = n
        BY <1>1, <2>1, <2>2 DEF AttemptSound, Outcomes
    <2>3. CASE m # n
        BY <1>1, <2>1, <2>3 DEF AttemptSound
    <2> QED
        BY <2>2, <2>3
<1>4. ASSUME NEW e \in Deliveries, e # d
      PROVE  RowSound(e)' /\ \A m \in 1..MaxAttempts : AttemptSound(e, m)'
    <2>1. RowSound(e) /\ \A m \in 1..MaxAttempts : AttemptSound(e, m)
        BY RowFacts
    <2> QED
        BY <1>4, <2>1 DEF RowSound, AttemptSound
<1> QED
    BY <1>2, <1>3, <1>4, RowsKept

-----------------------------------------------------------------------------
(* The dispatchers *)

\* What WorkInv says of one dispatcher and one delivery.
WorkOK(p, d) ==
    /\ Work(p, d) \in Works
    /\ Work(p, d).pc # "idle" =>
          /\ Work(p, d).number \in 1..delivery[d].attempts
          /\ Work(p, d).secret = delivery[d].secret
          /\ clock < Work(p, d).expires =>
                /\ delivery[d].state = "pending"
                /\ delivery[d].attempts = Work(p, d).number
                /\ delivery[d].expires = Work(p, d).expires
    /\ Work(p, d).pc = "reporting" =>
          /\ Work(p, d).outcome \in {"succeeded", "failed", "cancelled"}
          /\ Work(p, d).outcome = "succeeded" => ~ Work(p, d).retry

LEMMA WorkInvEachWay ==
    WorkInv <=> /\ clock \in Time
                /\ work = [pd \in Procs \X Deliveries |-> work[pd]]
                /\ \A p \in Procs, d \in Deliveries : WorkOK(p, d)
                /\ AttemptsExclusive
<1>1. ASSUME WorkInv, NEW p \in Procs, NEW d \in Deliveries PROVE WorkOK(p, d)
    <2>1. Work(p, d) \in Works
        BY <1>1 DEF WorkInv, Work
    <2> QED
        BY <1>1, <2>1 DEF WorkInv, WorkSound, OutcomesSound, HoldsLease, Unfinished, WorkOK
<1>2. ASSUME work = [pd \in Procs \X Deliveries |-> work[pd]],
             \A p \in Procs, d \in Deliveries : WorkOK(p, d)
      PROVE  work \in [Procs \X Deliveries -> Works] /\ WorkSound /\ OutcomesSound
    <2>1. ASSUME NEW pd \in Procs \X Deliveries PROVE work[pd] \in Works
        <3>1. PICK p \in Procs, d \in Deliveries : pd = <<p, d>>
            OBVIOUS
        <3>2. WorkOK(p, d)
            BY <1>2
        <3> QED
            BY <3>1, <3>2 DEF WorkOK, Work
    <2>2. WorkSound
        BY <1>2 DEF WorkOK, WorkSound, HoldsLease, Unfinished
    <2>3. OutcomesSound
        BY <1>2 DEF WorkOK, OutcomesSound
    <2> QED
        BY <1>2, <2>1, <2>2, <2>3
<1> QED
    BY <1>1, <1>2 DEF WorkInv

LEMMA WorkKept ==
    ASSUME clock' \in Time,
           work' = [pd \in Procs \X Deliveries |-> work'[pd]],
           \A p \in Procs, d \in Deliveries : WorkOK(p, d)',
           AttemptsExclusive'
    PROVE  WorkInv'
<1>1. (\A p \in Procs, d \in Deliveries : WorkOK(p, d))'
    OBVIOUS
<1>2. (/\ clock \in Time
       /\ work = [pd \in Procs \X Deliveries |-> work[pd]]
       /\ \A p \in Procs, d \in Deliveries : WorkOK(p, d)
       /\ AttemptsExclusive)'
    BY <1>1
<1> QED
    BY <1>2, WorkInvEachWay, PTL

LEMMA WorkFacts ==
    ASSUME DeliveryInv, NEW p \in Procs, NEW d \in Deliveries
    PROVE  WorkOK(p, d) /\ Work(p, d) \in Works /\ Work(p, d).number \in Nat
           /\ Work(p, d).expires \in Nat /\ Work(p, d).finished \in Nat
           /\ Work(p, d).retry \in BOOLEAN /\ clock \in Nat
<1>1. WorkOK(p, d) /\ clock \in Time
    BY WorkInvEachWay DEF DeliveryInv
<1>2. Work(p, d) \in Works
    BY <1>1 DEF WorkOK
<1> QED
    BY <1>1, <1>2, DeliveryConstants DEF Works

\* A delivery that a dispatcher still holds is in nobody else's claim.
LEMMA ClaimSparesWork ==
    ASSUME DeliveryInv, NEW batch \in SUBSET Deliveries, NEW p \in Procs, NEW d \in Deliveries,
           ClaimWrote(batch, clock, clock + Lease, d), UNCHANGED clock,
           Work(p, d)' = Work(p, d)
    PROVE  WorkOK(p, d)'
<1>1. WorkOK(p, d) /\ clock \in Nat /\ Work(p, d).number \in Nat /\ Work(p, d).expires \in Nat
    BY WorkFacts
<1>2. /\ delivery[d] \in DeliveryRows /\ delivery[d].attempts \in Nat
      /\ delivery[d].expires \in Nat /\ delivery[d].attempts \in 0..MaxAttempts
    BY RowFacts DEF DeliveryInv
<1>3. delivery'[d].secret = delivery[d].secret
      /\ delivery'[d].attempts \in Nat /\ delivery'[d].attempts >= delivery[d].attempts
    <2>1. CASE Exhausted(d, clock)
        BY <1>2, <2>1, SettledFields DEF ClaimWrote
    <2>2. CASE ~ Exhausted(d, clock) /\ d \in batch
        <3>1. delivery[d].attempts < MaxAttempts /\ clock + Lease \in Nat
            BY <1>1, <2>2, DeliveryConstants DEF ClaimWrote, Claimable
        <3>2. delivery'[d] = Attempted(delivery[d], clock + Lease)
            BY <2>2 DEF ClaimWrote
        <3> QED
            BY <1>2, <3>1, <3>2, AttemptedFields
    <2>3. CASE ~ Exhausted(d, clock) /\ d \notin batch
        BY <1>2, <2>3 DEF ClaimWrote
    <2> QED
        BY <2>1, <2>2, <2>3
<1>4. Work(p, d).pc # "idle" /\ clock < Work(p, d).expires => delivery'[d] = delivery[d]
    BY <1>1, <1>2
    DEF WorkOK, ClaimWrote, Exhausted, Claimable, Expired, Leased, Unfinished
<1>5. Work(p, d).number \in 1..delivery[d].attempts
          => Work(p, d).number \in 1..delivery'[d].attempts
    BY <1>1, <1>2, <1>3
<1> QED
    BY <1>1, <1>3, <1>4, <1>5 DEF WorkOK

LEMMA ClaimStepInv ==
    ASSUME DeliveryInv, NEW p \in Procs, Claim(p) PROVE DeliveryInv'
<1>1. PICK batch \in Batches :
          /\ ClaimDeliveries(batch, clock, clock + Lease)
          /\ work' = [pd \in Procs \X Deliveries |->
                IF pd[1] = p /\ pd[2] \in batch THEN Taken(pd[2]) ELSE work[pd]]
    BY DEF Claim
<1>2. batch \in SUBSET Deliveries /\ UNCHANGED clock /\ clock \in Time
      /\ clock \in Nat /\ clock + Lease \in Nat /\ clock + Lease # 0
    BY DeliveryConstants, WorkInvEachWay DEF Batches, Claim, DeliveryInv
<1>3. RowInv'
    BY <1>1, <1>2, ClaimInv DEF DeliveryInv
<1>4. \A d \in Deliveries : ClaimWrote(batch, clock, clock + Lease, d)
    BY <1>1, <1>2, ClaimWrites DEF DeliveryInv
<1>5. \A q \in Procs, d \in Deliveries :
          Work(q, d)' = IF q = p /\ d \in batch THEN Taken(d) ELSE Work(q, d)
    BY <1>1 DEF Work
<1>6. ASSUME NEW d \in batch
      PROVE  /\ d \in Deliveries /\ delivery[d].attempts < MaxAttempts
             /\ delivery[d].attempts \in Nat
             /\ delivery'[d].state = "pending" /\ delivery'[d].expires = clock + Lease
             /\ delivery'[d].attempts = delivery[d].attempts + 1
             /\ delivery'[d].secret = delivery[d].secret
             /\ delivery[d].secret \in 0..MaxSecret
    <2>1. /\ d \in Deliveries /\ delivery[d].attempts < MaxAttempts
          /\ delivery[d].state = "pending"
          /\ delivery'[d] = Attempted(delivery[d], clock + Lease)
        BY <1>2, <1>4 DEF ClaimWrote, Claimable, Unfinished
    <2>2. delivery[d] \in DeliveryRows /\ delivery[d].attempts \in Nat
        BY <2>1, RowFacts DEF DeliveryInv
    <2>3. delivery[d].secret \in 0..MaxSecret
        BY <2>2 DEF DeliveryRows
    <2> QED
        BY <1>2, <2>1, <2>2, <2>3, AttemptedFields
<1>7. ASSUME NEW q \in Procs, NEW d \in Deliveries PROVE WorkOK(q, d)'
    <2>1. CASE q = p /\ d \in batch
        <3>1. Work(q, d)' = Taken(d)
            BY <1>5, <2>1
        <3>2. Taken(d) \in Works
            BY <1>2, <1>6, <2>1, DeliveryConstants DEF Taken, Works, Outcomes
        <3>3. Taken(d).number = delivery[d].attempts + 1
              /\ Taken(d).secret = delivery[d].secret /\ Taken(d).expires = clock + Lease
              /\ Taken(d).pc = "ready"
            BY DEF Taken
        <3>4. delivery[d].attempts + 1 \in 1..delivery'[d].attempts
            BY <1>6, <2>1
        <3> HIDE DEF Taken
        <3> QED
            BY <1>6, <2>1, <3>1, <3>2, <3>3, <3>4 DEF WorkOK
    <2>2. CASE ~ (q = p /\ d \in batch)
        BY <1>2, <1>4, <1>5, <2>2, ClaimSparesWork
    <2> QED
        BY <2>1, <2>2
<1>8. AttemptsExclusive'
    <2> SUFFICES ASSUME NEW q \in Procs, NEW r \in Procs, NEW d \in Deliveries, q # r,
                        Work(q, d)'.pc # "idle", Work(r, d)'.pc # "idle"
                 PROVE  Work(q, d)'.number # Work(r, d)'.number
        BY DEF AttemptsExclusive
    <2>1. ASSUME NEW o \in Procs, o # p, d \in batch, Work(o, d)'.pc # "idle"
          PROVE  Taken(d).number # Work(o, d)'.number
        <3>1. Work(o, d)' = Work(o, d)
            BY <1>5, <2>1
        <3>2. Work(o, d).number \in 1..delivery[d].attempts
            BY <2>1, <3>1, WorkFacts DEF WorkOK
        <3> QED
            BY <1>6, <2>1, <3>1, <3>2 DEF Taken
    <2>2. CASE d \in batch /\ (q = p \/ r = p)
        BY <1>5, <2>1, <2>2
    <2>3. CASE ~ (d \in batch /\ (q = p \/ r = p))
        <3>1. Work(q, d)' = Work(q, d) /\ Work(r, d)' = Work(r, d)
            BY <1>5, <2>3
        <3> QED
            BY <3>1 DEF DeliveryInv, WorkInv, AttemptsExclusive
    <2> QED
        BY <2>2, <2>3
<1>9. work' = [pd \in Procs \X Deliveries |-> work'[pd]]
    BY <1>1
<1> QED
    BY <1>2, <1>3, <1>7, <1>8, <1>9, WorkKept DEF DeliveryInv

LEMMA ClaimLostInv ==
    ASSUME DeliveryInv, NEW p \in Procs, ClaimLost(p) PROVE DeliveryInv'
<1>1. PICK batch \in Batches : ClaimDeliveries(batch, clock, clock + Lease)
    BY DEF ClaimLost
<1>2. batch \in SUBSET Deliveries /\ UNCHANGED <<clock, work>> /\ clock \in Time
      /\ clock \in Nat /\ clock + Lease \in Nat /\ clock + Lease # 0
    BY DeliveryConstants, WorkInvEachWay DEF Batches, ClaimLost, DeliveryInv, processVars
<1>3. RowInv'
    BY <1>1, <1>2, ClaimInv DEF DeliveryInv
<1>4. \A d \in Deliveries : ClaimWrote(batch, clock, clock + Lease, d)
    BY <1>1, <1>2, ClaimWrites DEF DeliveryInv
<1>5. \A q \in Procs, d \in Deliveries : Work(q, d)' = Work(q, d)
    BY <1>2 DEF Work
<1>6. \A q \in Procs, d \in Deliveries : WorkOK(q, d)'
    BY <1>2, <1>4, <1>5, ClaimSparesWork
<1>7. AttemptsExclusive'
    BY <1>2 DEF DeliveryInv, WorkInv, AttemptsExclusive, Work
<1>8. work' = [pd \in Procs \X Deliveries |-> work'[pd]]
    BY <1>2, WorkInvEachWay DEF DeliveryInv
<1> QED
    BY <1>2, <1>3, <1>6, <1>7, <1>8, WorkKept DEF DeliveryInv

\* A step that leaves the rows alone and changes what one dispatcher does about one
\* delivery: it drops it, or goes on with the same attempt.
LEMMA OneWorkMoves ==
    ASSUME DeliveryInv, NEW p \in Procs, NEW d \in Deliveries, NEW w \in Works,
           UNCHANGED <<clock, webhookVars>>,
           work' = [work EXCEPT ![<<p, d>>] = w],
           w.pc # "idle" => /\ Work(p, d).pc # "idle"
                            /\ w.number = Work(p, d).number
                            /\ w.secret = Work(p, d).secret
                            /\ w.expires = Work(p, d).expires,
           w.pc = "reporting" => /\ w.outcome \in {"succeeded", "failed", "cancelled"}
                                 /\ w.outcome = "succeeded" => ~ w.retry
    PROVE  DeliveryInv'
<1>1. /\ Work(p, d)' = w
      /\ \A q \in Procs, e \in Deliveries : q # p \/ e # d => Work(q, e)' = Work(q, e)
      /\ work' = [pd \in Procs \X Deliveries |-> work'[pd]]
    <2>1. work = [pd \in Procs \X Deliveries |-> work[pd]]
        BY WorkInvEachWay DEF DeliveryInv
    <2> QED
        BY <2>1 DEF Work
<1>2. RowInv'
    BY DEF DeliveryInv, RowInv, webhookVars, WebhookTypeOK, Restorable, RotationSound,
           Created, InState, RowsSound, UnfinishedHasSecret, Unfinished, AuditSound, Leased
<1>3. ASSUME NEW q \in Procs, NEW e \in Deliveries PROVE WorkOK(q, e)'
    <2>1. WorkOK(q, e) /\ WorkOK(p, d)
        BY WorkFacts
    <2>2. CASE q = p /\ e = d
        BY <1>1, <2>1, <2>2 DEF WorkOK, webhookVars
    <2>3. CASE ~ (q = p /\ e = d)
        BY <1>1, <2>1, <2>3 DEF WorkOK, webhookVars
    <2> QED
        BY <2>2, <2>3
<1>4. AttemptsExclusive'
    <2> SUFFICES ASSUME NEW q \in Procs, NEW r \in Procs, NEW e \in Deliveries, q # r,
                        Work(q, e)'.pc # "idle", Work(r, e)'.pc # "idle"
                 PROVE  Work(q, e)'.number # Work(r, e)'.number
        BY DEF AttemptsExclusive
    <2>1. \A o \in Procs : Work(o, e)'.pc # "idle" =>
              Work(o, e).pc # "idle" /\ Work(o, e)'.number = Work(o, e).number
        BY <1>1
    <2> QED
        BY <2>1 DEF DeliveryInv, WorkInv, AttemptsExclusive
<1>5. clock' \in Time
    BY WorkInvEachWay DEF DeliveryInv
<1> QED
    BY <1>1, <1>2, <1>3, <1>4, <1>5, WorkKept DEF DeliveryInv

LEMMA ConcludeInv ==
    ASSUME DeliveryInv, NEW p \in Procs, NEW d \in Deliveries, Work(p, d).pc # "idle",
           UNCHANGED <<clock, webhookVars>>,
           NEW outcome \in {"succeeded", "failed", "cancelled"}, NEW retry \in BOOLEAN,
           outcome = "succeeded" => ~ retry,
           Conclude(p, d, outcome, retry)
    PROVE  DeliveryInv'
<1> DEFINE w == Concluded(Work(p, d), outcome, retry)
<1>1. work' = [work EXCEPT ![<<p, d>>] = w]
    BY DEF Conclude, Work
<1>2. Work(p, d) \in Works /\ clock \in Nat
    BY WorkFacts
<1>3. /\ w \in Works /\ w.number = Work(p, d).number /\ w.secret = Work(p, d).secret
      /\ w.expires = Work(p, d).expires /\ w.outcome = outcome /\ (w.retry <=> retry)
    BY <1>2 DEF Concluded, Works, Outcomes
<1> HIDE DEF w
<1> QED
    BY <1>1, <1>3, OneWorkMoves

LEMMA BeginInv ==
    ASSUME DeliveryInv, NEW p \in Procs, NEW d \in Deliveries, Begin(p, d)
    PROVE  DeliveryInv'
<1>1. UNCHANGED <<clock, webhookVars>> /\ Work(p, d).pc = "ready"
    BY DEF Begin
<1>2. CASE Conclude(p, d, "cancelled", TRUE)
    BY <1>1, <1>2, ConcludeInv
<1>3. CASE Refuse(p, d)
    BY <1>1, <1>3, ConcludeInv DEF Refuse
<1>4. CASE work' = [work EXCEPT ![<<p, d>>].pc = "calling"]
    <2> DEFINE old == Work(p, d)
               w == [old EXCEPT !.pc = "calling"]
    <2>1. work' = [work EXCEPT ![<<p, d>>] = w]
        BY <1>4 DEF Work
    <2>2. old \in Works
        BY WorkFacts
    <2> HIDE DEF old
    <2>3. /\ w \in Works /\ w.pc = "calling" /\ w.number = old.number
          /\ w.secret = old.secret /\ w.expires = old.expires
        BY <2>2 DEF Works
    <2> HIDE DEF w
    <2> QED
        BY <1>1, <2>1, <2>3, OneWorkMoves DEF old
<1> QED
    BY <1>2, <1>3, <1>4 DEF Begin

LEMMA AnswerInv ==
    ASSUME DeliveryInv, NEW p \in Procs, NEW d \in Deliveries, Answer(p, d)
    PROVE  DeliveryInv'
<1>1. UNCHANGED <<clock, webhookVars>> /\ Work(p, d).pc = "calling"
    BY DEF Answer
<1> QED
    BY <1>1, ConcludeInv DEF Answer

LEMMA NoWorkIsIdle == NoWork \in Works /\ NoWork.pc = "idle"
BY DeliveryConstants DEF NoWork, Works, Outcomes

LEMMA DropInv ==
    ASSUME DeliveryInv, NEW p \in Procs, NEW d \in Deliveries,
           UNCHANGED <<clock, webhookVars>>, Drop(p, d)
    PROVE  DeliveryInv'
BY NoWorkIsIdle, OneWorkMoves DEF Drop

\* Who records holds the attempt, so nobody else's lease lasts.
LEMMA ReportRecordedWrites ==
    ASSUME DeliveryInv, NEW p \in Procs, NEW d \in Deliveries, ReportRecorded(p, d)
    PROVE  LET w == Work(p, d) IN
           /\ w.number \in 1..MaxAttempts /\ w.finished \in Nat
           /\ w.outcome \in {"succeeded", "failed", "cancelled"}
           /\ Settles(w) \in BOOLEAN /\ (w.outcome = "succeeded" => Settles(w))
           /\ ReportWrote(d, w.number, w.outcome, w.finished, Settles(w))
<1> DEFINE w == Work(p, d)
<1>1. /\ WorkOK(p, d) /\ w.pc = "reporting" /\ w.finished \in Nat /\ w.number \in Nat
    BY WorkFacts DEF ReportRecorded
<1>2. w.number \in 1..MaxAttempts
    <2>1. delivery[d].attempts \in 0..MaxAttempts
        BY RowFacts DEF DeliveryInv
    <2> QED
        BY <1>1, <2>1, DeliveryConstants DEF WorkOK
<1>3. w.outcome \in {"succeeded", "failed", "cancelled"}
      /\ (w.outcome = "succeeded" => Settles(w)) /\ Settles(w) \in BOOLEAN
    BY <1>1 DEF WorkOK, Settles
<1>4. PICK delay \in RetryDelays(w.number) :
          Complete(d, w.number, w.outcome, w.finished, Settles(w), w.finished + delay)
    BY DEF ReportRecorded, Report
<1>5. w.finished + delay \in Nat
    <2>1. delay \in Nat
        BY <1>1, DeliveryConstants
    <2> QED
        BY <1>1, <2>1
<1>6. ReportWrote(d, w.number, w.outcome, w.finished, Settles(w))
    BY <1>1, <1>2, <1>3, <1>4, <1>5, ReportWrites DEF DeliveryInv
<1> QED
    BY <1>1, <1>2, <1>3, <1>6

LEMMA ReportRecordedInv ==
    ASSUME DeliveryInv, NEW p \in Procs, NEW d \in Deliveries, ReportRecorded(p, d)
    PROVE  DeliveryInv'
<1> DEFINE w == Work(p, d)
<1>1. /\ w.number \in 1..MaxAttempts /\ w.finished \in Nat
      /\ w.outcome \in {"succeeded", "failed", "cancelled"}
      /\ Settles(w) \in BOOLEAN /\ (w.outcome = "succeeded" => Settles(w))
      /\ ReportWrote(d, w.number, w.outcome, w.finished, Settles(w))
    BY ReportRecordedWrites
<1>2. RowInv'
    BY <1>1, ReportInv DEF DeliveryInv
<1>3. /\ work' = [work EXCEPT ![<<p, d>>] = NoWork] /\ clock' = clock
      /\ work = [pd \in Procs \X Deliveries |-> work[pd]] /\ clock \in Time
      /\ w.pc = "reporting"
    BY WorkInvEachWay DEF ReportRecorded, Drop, DeliveryInv
<1>4. /\ Work(p, d)' = NoWork
      /\ \A q \in Procs, e \in Deliveries : q # p \/ e # d => Work(q, e)' = Work(q, e)
      /\ work' = [pd \in Procs \X Deliveries |-> work'[pd]]
    BY <1>3 DEF Work
<1>5. delivery[d].attempts = w.number
    BY <1>1 DEF ReportWrote, HoldsDelivery
<1> HIDE DEF w
<1>6. ASSUME NEW q \in Procs, NEW e \in Deliveries PROVE WorkOK(q, e)'
    <2>1. WorkOK(q, e)
        BY WorkFacts
    <2>2. CASE e # d
        <3>1. delivery'[e] = delivery[e] /\ Work(q, e)' = Work(q, e)
            BY <1>1, <1>4, <2>2 DEF ReportWrote
        <3> QED
            BY <1>3, <2>1, <3>1 DEF WorkOK
    <2>3. CASE e = d /\ q = p
        BY <1>4, <2>3, NoWorkIsIdle DEF WorkOK
    <2>4. CASE e = d /\ q # p
        <3>1. Work(q, e)' = Work(q, e)
            BY <1>4, <2>4
        <3>2. /\ delivery'[d].attempts = delivery[d].attempts
              /\ delivery'[d].secret = delivery[d].secret
            BY <1>1 DEF ReportWrote
        <3>3. Work(q, d).pc # "idle" => Work(q, d).number # delivery[d].attempts
            BY <1>3, <1>5, <2>4 DEF DeliveryInv, WorkInv, AttemptsExclusive, w
        <3> QED
            BY <1>3, <2>1, <2>4, <3>1, <3>2, <3>3 DEF WorkOK
    <2> QED
        BY <2>2, <2>3, <2>4
<1>7. AttemptsExclusive'
    <2> SUFFICES ASSUME NEW q \in Procs, NEW r \in Procs, NEW e \in Deliveries, q # r,
                        Work(q, e)'.pc # "idle", Work(r, e)'.pc # "idle"
                 PROVE  Work(q, e)'.number # Work(r, e)'.number
        BY DEF AttemptsExclusive
    <2>1. \A o \in Procs : Work(o, e)'.pc # "idle" => Work(o, e)' = Work(o, e)
        BY <1>4, NoWorkIsIdle
    <2> QED
        BY <2>1 DEF DeliveryInv, WorkInv, AttemptsExclusive
<1> QED
    BY <1>2, <1>3, <1>4, <1>6, <1>7, WorkKept DEF DeliveryInv

LEMMA CrashInv ==
    ASSUME DeliveryInv, NEW p \in Procs, Crash(p) PROVE DeliveryInv'
<1>1. /\ work' = [pd \in Procs \X Deliveries |-> IF pd[1] = p THEN NoWork ELSE work[pd]]
      /\ UNCHANGED <<webhookVars, clock>>
    BY DEF Crash
<1>2. \A q \in Procs, d \in Deliveries :
          Work(q, d)' = IF q = p THEN NoWork ELSE Work(q, d)
    BY <1>1 DEF Work
<1>3. RowInv'
    BY <1>1 DEF DeliveryInv, RowInv, webhookVars, WebhookTypeOK, Restorable, RotationSound,
           Created, InState, RowsSound, UnfinishedHasSecret, Unfinished, AuditSound, Leased
<1>4. ASSUME NEW q \in Procs, NEW e \in Deliveries PROVE WorkOK(q, e)'
    <2>1. WorkOK(q, e)
        BY WorkFacts
    <2>2. CASE q = p
        BY <1>2, <2>2, NoWorkIsIdle DEF WorkOK
    <2>3. CASE q # p
        BY <1>1, <1>2, <2>1, <2>3 DEF WorkOK, webhookVars
    <2> QED
        BY <2>2, <2>3
<1>5. AttemptsExclusive'
    <2> SUFFICES ASSUME NEW q \in Procs, NEW r \in Procs, NEW e \in Deliveries, q # r,
                        Work(q, e)'.pc # "idle", Work(r, e)'.pc # "idle"
                 PROVE  Work(q, e)'.number # Work(r, e)'.number
        BY DEF AttemptsExclusive
    <2>1. \A o \in Procs : Work(o, e)'.pc # "idle" => Work(o, e)' = Work(o, e)
        BY <1>2, NoWorkIsIdle
    <2> QED
        BY <2>1 DEF DeliveryInv, WorkInv, AttemptsExclusive
<1>6. clock' \in Time /\ work' = [pd \in Procs \X Deliveries |-> work'[pd]]
    BY <1>1, WorkInvEachWay DEF DeliveryInv
<1> QED
    BY <1>3, <1>4, <1>5, <1>6, WorkKept DEF DeliveryInv

LEMMA DeliverySame ==
    ASSUME DeliveryInv, UNCHANGED <<clock, webhookVars, work>> PROVE DeliveryInv'
BY DEF DeliveryInv, RowInv, webhookVars, WebhookTypeOK, Restorable, RotationSound, Created,
       InState, RowsSound, UnfinishedHasSecret, Unfinished, AuditSound, Leased, WorkInv,
       WorkSound, OutcomesSound, AttemptsExclusive, Work, HoldsLease

LEMMA DispatchInv ==
    ASSUME DeliveryInv, Dispatch PROVE DeliveryInv'
<1>1. ASSUME NEW p \in Procs, Claim(p) \/ ClaimLost(p) \/ ProcessStep(p) PROVE DeliveryInv'
    BY <1>1, ClaimStepInv, ClaimLostInv, CrashInv, DeliverySame
    DEF ProcessStep, Shutdown, Exit, Restart
<1>2. ASSUME NEW p \in Procs, NEW d \in Deliveries, WorkStep(p, d) PROVE DeliveryInv'
    <2>1. CASE Begin(p, d)
        BY <2>1, BeginInv
    <2>2. CASE Answer(p, d)
        BY <2>2, AnswerInv
    <2>3. CASE ReportRecorded(p, d)
        BY <2>3, ReportRecordedInv
    <2>4. CASE ReportLost(p, d) \/ ReportFails(p, d)
        BY <2>4, DropInv DEF ReportLost, ReportFails
    <2> QED
        BY <1>2, <2>1, <2>2, <2>3, <2>4 DEF WorkStep
<1> QED
    BY <1>1, <1>2 DEF Dispatch, DispatchStep

-----------------------------------------------------------------------------
(* The composition *)

LEMMA ProjectInv ==
    ASSUME DeliveryInv, NEW a \in Alerts, ProjectIncidentTransition(a) PROVE DeliveryInv'
<1> DEFINE suppressed == UnderMaintenance(MonitorOf(a[1]), occurredAt[a])
<1>1. /\ Route(a, clock, suppressed) /\ a \notin alerts /\ UNCHANGED <<clock, work>>
    BY DEF ProjectIncidentTransition, Projects, processVars
<1>2. clock \in Nat /\ clock \in Time /\ suppressed \in BOOLEAN
    BY WorkInvEachWay, DeliveryConstants DEF DeliveryInv, UnderMaintenance
<1> HIDE DEF suppressed
<1>3. RowInv'
    BY <1>1, <1>2, RouteInv DEF DeliveryInv
<1>4. ASSUME NEW q \in Procs, NEW e \in Deliveries PROVE WorkOK(q, e)'
    <2>1. WorkOK(q, e) /\ Work(q, e)' = Work(q, e)
        BY <1>1, WorkFacts DEF Work
    <2>2. CASE e[1] = a
        <3>1. delivery[e] = NoDelivery
            BY <1>1, <2>2, RowFacts DEF DeliveryInv, RowSound
        <3>2. Work(q, e).pc = "idle"
            BY <2>1, <3>1 DEF WorkOK, NoDelivery
        <3> QED
            BY <2>1, <3>2 DEF WorkOK
    <2>3. CASE e[1] # a
        <3>1. delivery'[e] = delivery[e]
            BY <1>1, <2>3 DEF Route
        <3> QED
            BY <1>1, <2>1, <3>1 DEF WorkOK
    <2> QED
        BY <2>2, <2>3
<1>5. AttemptsExclusive'
    BY <1>1 DEF DeliveryInv, WorkInv, AttemptsExclusive, Work
<1>6. clock' \in Time /\ work' = [pd \in Procs \X Deliveries |-> work'[pd]]
    BY <1>1, <1>2, WorkInvEachWay DEF DeliveryInv
<1> QED
    BY <1>3, <1>4, <1>5, <1>6, WorkKept DEF DeliveryInv

LEMMA AdministerWebhooksInv ==
    ASSUME DeliveryInv, AdministerWebhooks PROVE DeliveryInv'
<1>1. PICK i \in Integrations : Administer(i)
    BY DEF AdministerWebhooks
<1>2. RowInv'
    BY <1>1, AdministerInv DEF DeliveryInv
<1>3. UNCHANGED <<clock, delivery, work>>
    BY <1>1
    DEF AdministerWebhooks, processVars, Administer, CreateIntegration, SetEnabled,
        PrepareSecret, ActivateSecret, RetireSecret
<1>4. WorkInv'
    BY <1>3 DEF DeliveryInv, WorkInv, WorkSound, OutcomesSound, AttemptsExclusive, Work,
                HoldsLease, Unfinished
<1> QED
    BY <1>2, <1>4 DEF DeliveryInv

LEMMA TickInv ==
    ASSUME DeliveryInv, Tick PROVE DeliveryInv'
<1>1. clock' = clock + 1 /\ clock < MaxTime /\ UNCHANGED <<webhookVars, work>>
    BY DEF Tick, MaintenanceTick, processVars
<1>2. RowInv'
    BY <1>1 DEF DeliveryInv, RowInv, webhookVars, WebhookTypeOK, Restorable, RotationSound,
           Created, InState, RowsSound, UnfinishedHasSecret, Unfinished, AuditSound, Leased
<1>3. clock \in Time /\ clock' \in Time
    BY <1>1, WorkInvEachWay, DeliveryConstants DEF DeliveryInv, Time
<1>4. ASSUME NEW q \in Procs, NEW e \in Deliveries PROVE WorkOK(q, e)'
    <2>1. WorkOK(q, e) /\ Work(q, e)' = Work(q, e) /\ clock \in Nat
          /\ Work(q, e).expires \in Nat
        BY <1>1, WorkFacts DEF Work
    <2>2. clock' < Work(q, e).expires => clock < Work(q, e).expires
        BY <1>1, <2>1
    <2> QED
        BY <1>1, <2>1, <2>2 DEF WorkOK, webhookVars
<1>5. AttemptsExclusive'
    BY <1>1 DEF DeliveryInv, WorkInv, AttemptsExclusive, Work
<1>6. work' = [pd \in Procs \X Deliveries |-> work'[pd]]
    BY <1>1, WorkInvEachWay DEF DeliveryInv
<1> QED
    BY <1>2, <1>3, <1>4, <1>5, <1>6, WorkKept DEF DeliveryInv

LEMMA DeliveryInvariant == Spec => []DeliveryInv
<1>1. Init => DeliveryInv
    BY DeliveryInitInv DEF Init, MaintenanceInit
<1>2. DeliveryInv /\ [Next]_vars => DeliveryInv'
    <2> SUFFICES ASSUME DeliveryInv, [Next]_vars PROVE DeliveryInv'
        OBVIOUS
    <2>1. CASE IncidentStep \/ ChangeMaintenance \/ UNCHANGED vars
        <3>1. UNCHANGED <<clock, webhookVars, work>>
            BY <2>1
            DEF IncidentStep, ChangeMaintenance, vars, processVars, MaintenanceStep,
                RequestWindow, CreateWindow, FindWindow, AnswerCancellation,
                DecideCancellation, CancelWindow, CancelRefused, Reread
        <3> QED
            BY <3>1, DeliverySame
    <2> QED
        BY <2>1, AdministerWebhooksInv, DispatchInv, TickInv, ProjectInv DEF Next
<1> QED
    BY <1>1, <1>2, PTL DEF Spec

\* Rows, dispatchers and their invariant.
THEOREM DeliveryTypes == Spec => [](WebhookTypeOK /\ work \in [Procs \X Deliveries -> Works])
BY DeliveryInvariant, PTL DEF DeliveryInv, RowInv, WorkInv

\* Every rotation leaves secrets that the next start accepts.
THEOREM WebhooksRestorable == Spec => []Restorable
BY DeliveryInvariant, PTL DEF DeliveryInv, RowInv

\* The audit of a delivery has no hole and ends with its delivery.
THEOREM WebhooksAuditSound == Spec => []AuditSound
BY DeliveryInvariant, PTL DEF DeliveryInv, RowInv

\* While a lease lasts, one dispatcher calls the destination of a delivery.
THEOREM DeliveryOneCaller == Spec => []OneCaller
<1>1. ASSUME DeliveryInv, NEW p \in Procs, NEW q \in Procs, NEW d \in Deliveries,
             Holding(p, d), Holding(q, d), p # q
      PROVE  FALSE
    <2>1. delivery[d].attempts = Work(p, d).number /\ delivery[d].attempts = Work(q, d).number
        BY <1>1, WorkFacts DEF WorkOK, Holding
    <2> QED
        BY <1>1, <2>1 DEF Holding, DeliveryInv, WorkInv, AttemptsExclusive
<1>2. DeliveryInv => OneCaller
    BY <1>1 DEF OneCaller
<1> QED
    BY <1>2, DeliveryInvariant, PTL

\* Calls within a lease are signed with a secret that receivers still accept.
THEOREM DeliverySignedWithLiveSecret == Spec => []SignedWithLiveSecret
<1>1. ASSUME DeliveryInv, NEW p \in Procs, NEW d \in Deliveries,
             Work(p, d).pc \in {"ready", "calling"}, clock < Work(p, d).expires
      PROVE  secret[<<d[2], Work(p, d).secret>>] \in {"active", "retiring"}
    <2>1. delivery[d].state = "pending" /\ Work(p, d).secret = delivery[d].secret
        BY <1>1, WorkFacts DEF WorkOK
    <2> QED
        BY <1>1, <2>1, RoutedWith DEF DeliveryInv, Unfinished
<1>2. DeliveryInv => SignedWithLiveSecret
    BY <1>1 DEF SignedWithLiveSecret
<1> QED
    BY <1>2, DeliveryInvariant, PTL

-----------------------------------------------------------------------------
(* Steps *)

\* Every way in which a step may write the rows of deliveries.
LEMMA DeliveryWrites ==
    ASSUME DeliveryInv, [Next]_vars
    PROVE  \/ UNCHANGED <<alerts, delivery, attempt>>
           \/ \E a \in Alerts \ alerts, suppressed \in BOOLEAN : Route(a, clock, suppressed)
           \/ /\ UNCHANGED alerts
              /\ \E batch \in SUBSET Deliveries :
                    /\ ClaimDeliveries(batch, clock, clock + Lease)
                    /\ \A d \in Deliveries : ClaimWrote(batch, clock, clock + Lease, d)
           \/ \E d \in Deliveries, n \in 1..MaxAttempts, settles \in BOOLEAN,
                 finished \in Nat, outcome \in {"succeeded", "failed", "cancelled"} :
                    ReportWrote(d, n, outcome, finished, settles)
<1>1. CASE IncidentStep \/ ChangeMaintenance \/ AdministerWebhooks \/ Tick \/ UNCHANGED vars
    BY <1>1
    DEF IncidentStep, ChangeMaintenance, AdministerWebhooks, Tick, vars, webhookVars,
        Administer, CreateIntegration, SetEnabled, PrepareSecret, ActivateSecret, RetireSecret
<1>2. ASSUME NEW a \in Alerts, ProjectIncidentTransition(a)
      PROVE  \E s \in BOOLEAN : a \notin alerts /\ Route(a, clock, s)
    <2>1. UnderMaintenance(MonitorOf(a[1]), occurredAt[a]) \in BOOLEAN
        BY DEF UnderMaintenance
    <2> QED
        BY <1>2, <2>1 DEF ProjectIncidentTransition, Projects
<1>3. ASSUME NEW p \in Procs, Claim(p) \/ ClaimLost(p)
      PROVE  /\ UNCHANGED alerts
             /\ \E batch \in SUBSET Deliveries :
                   /\ ClaimDeliveries(batch, clock, clock + Lease)
                   /\ \A d \in Deliveries : ClaimWrote(batch, clock, clock + Lease, d)
    <2>1. PICK batch \in Batches : ClaimDeliveries(batch, clock, clock + Lease)
        BY <1>3 DEF Claim, ClaimLost
    <2>2. batch \in SUBSET Deliveries /\ clock \in Nat /\ clock + Lease \in Nat
        BY WorkInvEachWay, DeliveryConstants DEF Batches, DeliveryInv
    <2>3. UNCHANGED alerts
        BY <2>1 DEF ClaimDeliveries
    <2> QED
        BY <2>1, <2>2, <2>3, ClaimWrites DEF DeliveryInv
<1>4. ASSUME NEW p \in Procs, ProcessStep(p)
      PROVE  UNCHANGED <<alerts, delivery, attempt>>
    BY <1>4 DEF ProcessStep, Crash, Shutdown, Exit, Restart, webhookVars
<1>5. ASSUME NEW p \in Procs, NEW d \in Deliveries, WorkStep(p, d), ~ ReportRecorded(p, d)
      PROVE  UNCHANGED <<alerts, delivery, attempt>>
    BY <1>5 DEF WorkStep, Begin, Answer, ReportLost, ReportFails, webhookVars
<1>6. ASSUME NEW p \in Procs, NEW d \in Deliveries, ReportRecorded(p, d)
      PROVE  \E n \in 1..MaxAttempts, settles \in BOOLEAN,
                finished \in Nat, outcome \in {"succeeded", "failed", "cancelled"} :
                ReportWrote(d, n, outcome, finished, settles)
    BY <1>6, ReportRecordedWrites
<1>7. CASE Dispatch
    BY <1>3, <1>4, <1>5, <1>6, <1>7 DEF Dispatch, DispatchStep
<1> QED
    BY <1>1, <1>2, <1>7 DEF Next

\* An outcome stays as it was decided, and a settled delivery as it was settled.
THEOREM DeliveryAuditIsFinal == Spec => AuditIsFinal
<1>1. ASSUME DeliveryInv, [Next]_vars, NEW d \in Deliveries
      PROVE  /\ delivery[d].state = "settled" => delivery'[d] = delivery[d]
             /\ \A n \in 1..MaxAttempts : attempt[<<d, n>>] \notin {"none", "inProgress"} =>
                   attempt'[<<d, n>>] = attempt[<<d, n>>]
    <2>0. /\ RowSound(d) /\ \A n \in 1..MaxAttempts : AttemptSound(d, n)
          /\ delivery[d].attempts \in Nat
        BY <1>1, RowFacts DEF DeliveryInv
    <2>1. CASE UNCHANGED <<alerts, delivery, attempt>>
        BY <2>1
    <2>2. ASSUME NEW a \in Alerts \ alerts, NEW s \in BOOLEAN, Route(a, clock, s)
          PROVE  /\ delivery[d].state = "settled" => delivery'[d] = delivery[d]
                 /\ UNCHANGED attempt
        <3>1. CASE d[1] = a
            BY <2>0, <2>2, <3>1 DEF RowSound, NoDelivery, Route
        <3>2. CASE d[1] # a
            BY <2>2, <3>2 DEF Route
        <3> QED
            BY <3>1, <3>2
    <2>3. ASSUME NEW batch \in SUBSET Deliveries,
                 ClaimWrote(batch, clock, clock + Lease, d)
          PROVE  /\ delivery[d].state = "settled" => delivery'[d] = delivery[d]
                 /\ \A n \in 1..MaxAttempts :
                       attempt[<<d, n>>] \notin {"none", "inProgress"} =>
                          attempt'[<<d, n>>] = attempt[<<d, n>>]
        <3>1. delivery[d].state = "settled" => delivery'[d] = delivery[d]
            BY <2>3 DEF ClaimWrote, Exhausted, Expired, Claimable, Unfinished
        <3>2. ASSUME NEW n \in 1..MaxAttempts, attempt[<<d, n>>] \notin {"none", "inProgress"}
              PROVE  attempt'[<<d, n>>] = attempt[<<d, n>>]
            <4>1. n <= delivery[d].attempts
                BY <2>0, <3>2 DEF AttemptSound
            <4>2. ~ (Uncertain(d, clock) /\ n = delivery[d].attempts)
                BY <3>2 DEF Uncertain, Latest
            <4>3. n # delivery[d].attempts + 1
                BY <2>0, <4>1
            <4> QED
                BY <2>3, <4>2, <4>3 DEF ClaimWrote
        <3> QED
            BY <3>1, <3>2
    <2>4. ASSUME NEW e \in Deliveries, NEW n \in 1..MaxAttempts, NEW settles \in BOOLEAN,
                 NEW finished \in Nat, NEW outcome \in {"succeeded", "failed", "cancelled"},
                 ReportWrote(e, n, outcome, finished, settles)
          PROVE  /\ delivery[d].state = "settled" => delivery'[d] = delivery[d]
                 /\ \A m \in 1..MaxAttempts :
                       attempt[<<d, m>>] \notin {"none", "inProgress"} =>
                          attempt'[<<d, m>>] = attempt[<<d, m>>]
        BY <2>4 DEF ReportWrote, HoldsDelivery, Unfinished
    <2> QED
        BY <1>1, <2>1, <2>2, <2>3, <2>4, DeliveryWrites
<1>2. DeliveryInv /\ [Next]_vars =>
          [/\ \A r \in Attempts :
                 attempt[r] \notin {"none", "inProgress"} => attempt'[r] = attempt[r]
           /\ \A d \in Deliveries :
                 delivery[d].state = "settled" => delivery'[d] = delivery[d]]_<<attempt, delivery>>
    BY <1>1 DEF Attempts
<1> QED
    BY <1>2, DeliveryInvariant, PTL DEF Spec, AuditIsFinal

\* What became of a route, as AlertRouting sees it.
RouteOf(d) == IF delivery[d].suppressed THEN "suppressed" ELSE delivery[d].state
RouteMap == [d \in Deliveries |-> RouteOf(d)]

LEMMA RoutingStep ==
    ASSUME DeliveryInv, [Next]_vars
    PROVE  [Routing!Next]_<<alerts, RouteMap>>
<1> USE DEF DeliveryInv
<1>1. CASE UNCHANGED <<alerts, delivery, attempt>>
    BY <1>1 DEF RouteMap, RouteOf
<1>2. ASSUME NEW a \in Alerts \ alerts, NEW s \in BOOLEAN, Route(a, clock, s)
      PROVE  Routing!Next
    <2> DEFINE targets == {i \in Integrations : Enabled(i)}
               state == IF s THEN "suppressed" ELSE "pending"
    <2>1. ASSUME NEW d \in Deliveries
          PROVE  RouteOf(d)' = IF d[1] = a /\ d[2] \in targets THEN state ELSE RouteOf(d)
        <3>1. CASE d[1] = a /\ Enabled(d[2])
            <4>1. delivery'[d] = NewDelivery(d[2], clock, s)
                BY <1>2, <3>1 DEF Route
            <4>2. RouteOf(d)' = state
                BY <4>1 DEF RouteOf, NewDelivery
            <4> QED
                BY <3>1, <4>2, DeliveryPairs
        <3>2. CASE ~ (d[1] = a /\ Enabled(d[2]))
            BY <1>2, <3>2 DEF Route, RouteOf
        <3> QED
            BY <3>1, <3>2
    <2>2. RouteMap' = [d \in Deliveries |->
                          IF d[1] = a /\ d[2] \in targets THEN state ELSE RouteMap[d]]
        BY <2>1 DEF RouteMap
    <2>3. Routing!RouteAlert(a, targets, state)
        BY <1>2, <2>2 DEF Routing!RouteAlert, RouteMap, RouteOf, Deliveries, Route
    <2>4. targets \in SUBSET Integrations /\ state \in {"pending", "suppressed"}
        OBVIOUS
    <2> QED
        BY <2>3, <2>4 DEF Routing!Next
<1>3. ASSUME NEW routes \in SUBSET Deliveries, UNCHANGED alerts,
             \A d \in routes : RouteOf(d) = "pending" /\ RouteOf(d)' = "settled",
             \A d \in Deliveries \ routes : RouteOf(d)' = RouteOf(d)
      PROVE  Routing!Next
    <2>1. RouteMap' = [d \in Deliveries |-> IF d \in routes THEN "settled" ELSE RouteMap[d]]
        BY <1>3 DEF RouteMap
    <2>2. routes \in SUBSET {d \in Deliveries : RouteMap[d] = "pending"}
        BY <1>3 DEF RouteMap
    <2>3. Routing!Settle(routes)
        BY <1>3, <2>1 DEF Routing!Settle, RouteMap, RouteOf, Deliveries
    <2> QED
        BY <2>2, <2>3 DEF Routing!Next, RouteMap, RouteOf, Deliveries
<1>4. ASSUME NEW batch \in SUBSET Deliveries, UNCHANGED alerts,
             \A d \in Deliveries : ClaimWrote(batch, clock, clock + Lease, d)
      PROVE  Routing!Next
    <2> DEFINE routes == {d \in Deliveries : Exhausted(d, clock)}
    <2>1. ASSUME NEW d \in routes PROVE RouteOf(d) = "pending" /\ RouteOf(d)' = "settled"
        <3>1. delivery[d] \in DeliveryRows /\ RowSound(d) /\ delivery[d].state = "pending"
              /\ delivery'[d] = Settled(delivery[d])
            BY <1>4, <2>1, RowFacts DEF ClaimWrote, Exhausted, Expired, Unfinished
        <3> QED
            BY <3>1, SettledFields DEF RouteOf, RowSound
    <2>2. ASSUME NEW d \in Deliveries \ routes PROVE RouteOf(d)' = RouteOf(d)
        <3>1. CASE d \in batch
            <4>1. delivery[d] \in DeliveryRows /\ delivery[d].attempts < MaxAttempts
                  /\ delivery'[d] = Attempted(delivery[d], clock + Lease)
                  /\ clock + Lease \in Nat
                BY <1>4, <2>2, <3>1, RowFacts, WorkInvEachWay, DeliveryConstants
                DEF ClaimWrote, Claimable
            <4> QED
                BY <4>1, AttemptedFields DEF RouteOf
        <3>2. CASE d \notin batch
            BY <1>4, <2>2, <3>2 DEF ClaimWrote, RouteOf
        <3> QED
            BY <3>1, <3>2
    <2> HIDE DEF routes
    <2>3. routes \in SUBSET Deliveries
        BY DEF routes
    <2> QED
        BY <1>3, <1>4, <2>1, <2>2, <2>3
<1>5. ASSUME NEW d \in Deliveries, NEW n \in 1..MaxAttempts, NEW settles \in BOOLEAN,
             NEW finished \in Nat, NEW outcome \in {"succeeded", "failed", "cancelled"},
             ReportWrote(d, n, outcome, finished, settles)
      PROVE  Routing!Next
    <2>1. RouteOf(d) = "pending" /\ RouteOf(d)' = IF settles THEN "settled" ELSE "pending"
        <3>1. RowSound(d) /\ delivery[d].state = "pending"
            BY <1>5, RowFacts DEF ReportWrote, HoldsDelivery, Unfinished
        <3> QED
            BY <1>5, <3>1 DEF RouteOf, RowSound, ReportWrote
    <2>2. \A e \in Deliveries \ {d} : RouteOf(e)' = RouteOf(e)
        BY <1>5 DEF ReportWrote, RouteOf
    <2>3. UNCHANGED alerts
        BY <1>5 DEF ReportWrote
    <2>4. CASE settles
        <3>1. {d} \in SUBSET Deliveries
            OBVIOUS
        <3>2. \A e \in {d} : RouteOf(e) = "pending" /\ RouteOf(e)' = "settled"
            BY <2>1, <2>4
        <3> QED
            BY <1>3, <2>2, <2>3, <3>1, <3>2
    <2>5. CASE ~ settles
        <3>1. \A e \in Deliveries : RouteOf(e)' = RouteOf(e)
            BY <2>1, <2>2, <2>5
        <3> DEFINE routes == {}
        <3>2. /\ routes \in SUBSET Deliveries
              /\ \A e \in routes : RouteOf(e) = "pending" /\ RouteOf(e)' = "settled"
              /\ \A e \in Deliveries \ routes : RouteOf(e)' = RouteOf(e)
            BY <3>1
        <3> HIDE DEF routes
        <3> QED
            BY <1>3, <2>3, <3>2
    <2> QED
        BY <2>4, <2>5
<1> QED
    BY <1>1, <1>2, <1>4, <1>5, DeliveryWrites

\* Alerts are routed once, for good: the composition implements AlertRouting.
THEOREM AlertsRoutedOnce == Spec => RoutedOnce
<1>1. Init => Routing!Init
    BY DEF Init, DeliveryInit, WebhookInit, Routing!Init, Deliveries, NoDelivery
<1>2. DeliveryInv /\ [Next]_vars => [Routing!Next]_<<alerts, RouteMap>>
    BY RoutingStep
<1>3. RouteMap = [d \in Deliveries |->
                     IF delivery[d].suppressed THEN "suppressed" ELSE delivery[d].state]
    BY DEF RouteMap, RouteOf
<1> QED
    BY <1>1, <1>2, <1>3, DeliveryInvariant, PTL DEF Spec, RoutedOnce, Routing!Spec, RouteMap,
       RouteOf
=============================================================================
