--------------------------- MODULE MonitorEditing ---------------------------
(***************************************************************************)
(* internal/monitor and internal/postgres/monitor.go: Monitors and their   *)
(* revisions under concurrent edits.  An edit reads the row, decides on a  *)
(* copy of it and writes the whole copy back, only if the row's xmin is    *)
(* still the one it read.  An edit that is refused changes nothing and is  *)
(* not a step; a client may ask for anything.                              *)
(***************************************************************************)
EXTENDS Monitored, Naturals

CONSTANTS
    Names, Intervals,
    Editors,        \* requests that edit
    MaxWrites       \* bound on the writes of one row

ASSUME MonitorEditingAssumption == MaxWrites \in Nat \ {0}

VARIABLES
    monitor,        \* monitors
    revision,       \* monitor_revisions: the numbers of each Monitor's
    edit            \* the request in each editor's hands

monitorVars == <<monitor, revision, edit>>

States == {"draft", "active", "paused", "archived"}

\* xmin counts the row's writes: 1 from its insertion on.
MonitorRows == [name : Names, interval : Intervals, state : States,
                latest : 0..MaxWrites, xmin : 1..MaxWrites]
NoMonitor == [state |-> "absent"]

\* "to" is the copy to write, with the xmin of the row that was read.
Edits == [pc : {"idle"}] \cup [pc : {"update", "append"}, of : Monitors, to : MonitorRows]

MonitorTypeOK ==
    /\ monitor \in [Monitors -> MonitorRows \cup {NoMonitor}]
    /\ revision \in [Monitors -> SUBSET (1..MaxWrites)]
    /\ edit \in [Editors -> Edits]

MonitorInit ==
    /\ monitor = [m \in Monitors |-> NoMonitor]
    /\ revision = [m \in Monitors |-> {}]
    /\ edit = [e \in Editors |-> [pc |-> "idle"]]

Editable(m) == monitor[m].state \notin {"absent", "archived"}

-----------------------------------------------------------------------------
CreateMonitor(m) ==
    /\ monitor[m] = NoMonitor
    /\ \E n \in Names, i \in Intervals :
          monitor' = [monitor EXCEPT ![m] =
             [name |-> n, interval |-> i, state |-> "draft", latest |-> 0, xmin |-> 1]]
    /\ UNCHANGED <<revision, edit>>

\* FindMonitor and the decision, which depends on nothing else.
Decide(e, m, pc, to) ==
    /\ edit[e].pc = "idle"
    /\ Editable(m)
    /\ monitor[m].xmin < MaxWrites
    /\ edit' = [edit EXCEPT ![e] = [pc |-> pc, of |-> m, to |-> to]]
    /\ UNCHANGED <<monitor, revision>>

Rename(e, m) ==
    \E n \in Names : Decide(e, m, "update", [monitor[m] EXCEPT !.name = n])

ChangeInterval(e, m) ==
    \E i \in Intervals : Decide(e, m, "update", [monitor[m] EXCEPT !.interval = i])

Transitions ==
    {<<"draft", "active">>, <<"paused", "active">>, <<"active", "paused">>}
        \cup {"draft", "active", "paused"} \X {"archived"}

\* A Monitor is not activated before it has a revision.
TransitionTo(m, target) ==
    /\ <<monitor[m].state, target>> \in Transitions
    /\ target = "active" => monitor[m].latest > 0

ChangeState(e, m) ==
    \E s \in States :
        /\ TransitionTo(m, s)
        /\ Decide(e, m, "update", [monitor[m] EXCEPT !.state = s])

CreateRevision(e, m) ==
    Decide(e, m, "append", [monitor[m] EXCEPT !.latest = @ + 1])

-----------------------------------------------------------------------------
\* (WrittenAnyway does not compare.)
WrittenAnyway(e) == TRUE
Unwritten(e) == monitor[edit[e].of].xmin = edit[e].to.xmin

Answer(e) == edit' = [edit EXCEPT ![e] = [pc |-> "idle"]]

UpdateMonitor(e) ==
    LET r == edit[e] IN
    /\ r.pc = "update"
    /\ Unwritten(e)
    /\ monitor' = [monitor EXCEPT ![r.of] = [r.to EXCEPT !.xmin = @ + 1]]
    /\ Answer(e)
    /\ UNCHANGED revision

\* Only the counter is written here.  The number must be a new one, too.
AppendRevision(e) ==
    LET r == edit[e] IN
    /\ r.pc = "append"
    /\ Unwritten(e)
    /\ r.to.latest \notin revision[r.of]
    /\ monitor' = [monitor EXCEPT ![r.of].latest = r.to.latest,
                                  ![r.of].xmin = @ + 1]
    /\ revision' = [revision EXCEPT ![r.of] = @ \cup {r.to.latest}]
    /\ Answer(e)

\* ErrConcurrentUpdate, or a request that breaks off.
AbandonEdit(e) ==
    /\ edit[e].pc # "idle"
    /\ Answer(e)
    /\ UNCHANGED <<monitor, revision>>

MonitorNext ==
    \/ \E m \in Monitors : CreateMonitor(m)
    \/ \E e \in Editors, m \in Monitors :
          \/ Rename(e, m) \/ ChangeInterval(e, m)
          \/ ChangeState(e, m) \/ CreateRevision(e, m)
    \/ \E e \in Editors : UpdateMonitor(e) \/ AppendRevision(e) \/ AbandonEdit(e)

MonitorSpec == MonitorInit /\ [][MonitorNext]_monitorVars

-----------------------------------------------------------------------------
\* The revisions of a Monitor are numbered 1 up to its counter, although the counter
\* is part of the copy that every edit of the name or the state writes back.
RevisionsMatchCounter ==
    \A m \in Monitors : monitor[m] # NoMonitor => revision[m] = 1..monitor[m].latest

\* Edits take effect one at a time: none undoes another that it did not see, and
\* none touches a Monitor archived since it was read.
Aspects(m) ==
    IF monitor[m] = NoMonitor THEN NoMonitor
    ELSE [name |-> monitor[m].name, interval |-> monitor[m].interval,
          state |-> monitor[m].state, latest |-> monitor[m].latest]

Lifecycle == INSTANCE MonitorLifecycle
    WITH aspects <- [m \in Monitors |-> Aspects(m)], numbers <- revision

LifecycleSpec == Lifecycle!Spec
=============================================================================
