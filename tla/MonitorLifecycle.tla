-------------------------- MODULE MonitorLifecycle --------------------------
(***************************************************************************)
(* What editing a Monitor promises, as if one person edited at a time: an  *)
(* edit changes one aspect, revisions are numbered without gaps, a Monitor *)
(* runs or pauses only with a revision, and an archived one is final.      *)
(***************************************************************************)
EXTENDS Monitored, Naturals

CONSTANTS Names, Intervals

VARIABLES
    aspects,        \* of each Monitor, Absent before it is created
    numbers         \* of its revisions

Absent == [state |-> "absent"]

Init ==
    /\ aspects = [m \in Monitors |-> Absent]
    /\ numbers = [m \in Monitors |-> {}]

Create(m) ==
    /\ aspects[m] = Absent
    /\ \E n \in Names, i \in Intervals :
          aspects' = [aspects EXCEPT ![m] =
             [name |-> n, interval |-> i, state |-> "draft", latest |-> 0]]
    /\ UNCHANGED numbers

Rename(m) ==
    /\ \E n \in Names : aspects' = [aspects EXCEPT ![m].name = n]
    /\ UNCHANGED numbers

Repace(m) ==
    /\ \E i \in Intervals : aspects' = [aspects EXCEPT ![m].interval = i]
    /\ UNCHANGED numbers

Activate(m) ==
    /\ aspects[m].state \in {"draft", "paused"}
    /\ aspects[m].latest > 0
    /\ aspects' = [aspects EXCEPT ![m].state = "active"]
    /\ UNCHANGED numbers

Pause(m) ==
    /\ aspects[m].state = "active"
    /\ aspects' = [aspects EXCEPT ![m].state = "paused"]
    /\ UNCHANGED numbers

Archive(m) ==
    /\ aspects' = [aspects EXCEPT ![m].state = "archived"]
    /\ UNCHANGED numbers

Revise(m) ==
    /\ aspects' = [aspects EXCEPT ![m].latest = @ + 1]
    /\ numbers' = [numbers EXCEPT ![m] = @ \cup {aspects[m].latest + 1}]

Edit(m) ==
    /\ aspects[m].state \notin {"absent", "archived"}
    /\ Rename(m) \/ Repace(m) \/ Activate(m) \/ Pause(m) \/ Archive(m) \/ Revise(m)

Next == \E m \in Monitors : Create(m) \/ Edit(m)

Spec == Init /\ [][Next]_<<aspects, numbers>>
=============================================================================
