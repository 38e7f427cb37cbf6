-------------------------- MODULE MCAdministration --------------------------
(* The administration of an instance for TLC.  Monitors and pages meet, the  *)
(* other parts do not: each is checked while the rest is at rest.            *)
EXTENDS StatusPages, Team, Passwords, Keyring, Retention

VARIABLE part

allVars == <<monitorVars, statusVars, teamVars, passwordVars,
             keyringVars, retentionVars, part>>

Init ==
    /\ MonitorInit /\ StatusInit /\ TeamInit /\ KeyringInit /\ RetentionInit
    /\ \/ part \in {"monitors", "pages", "team", "keys", "evidence"}
          /\ stored = [secret |-> CHOOSE s \in Secrets : TRUE, outdated |-> FALSE, resets |-> 0]
          /\ chosen = stored.secret
          /\ undone = FALSE
          /\ login = [l \in Logins |-> [pc |-> "idle"]]
       \/ part = "passwords" /\ PasswordInit

EditMonitors ==
    /\ part = "monitors"
    /\ MonitorNext
    /\ UNCHANGED <<statusVars, teamVars, passwordVars, keyringVars, retentionVars>>

\* Two plain Monitors, which are archived while the page is replaced.
PlainMonitors ==
    \A m \in Monitors :
        /\ monitor'[m] # NoMonitor => /\ monitor'[m].name = CHOOSE n \in Names : TRUE
                                      /\ monitor'[m].interval = CHOOSE i \in Intervals : TRUE
        /\ monitor'[m].state \in {"absent", "draft", "archived"}

ArchiveMonitors ==
    /\ part = "pages"
    /\ \/ \E m \in Monitors : CreateMonitor(m)
       \/ \E e \in Editors, m \in Monitors : ChangeState(e, m)
       \/ \E e \in Editors : UpdateMonitor(e)
    /\ PlainMonitors
    /\ \A e, f \in Editors : edit'[e].pc = "idle" \/ edit'[f].pc = "idle" \/ e = f
    /\ UNCHANGED <<statusVars, teamVars, passwordVars, keyringVars, retentionVars>>

ServePages == part = "pages" /\ StatusNext /\ UNCHANGED <<teamVars, passwordVars, keyringVars, retentionVars>>

GatherTeam ==
    /\ part = "team"
    /\ TeamNext
    /\ UNCHANGED <<monitorVars, statusVars, passwordVars, keyringVars, retentionVars>>

LogIn ==
    /\ part = "passwords"
    /\ PasswordNext
    /\ UNCHANGED <<monitorVars, statusVars, teamVars, keyringVars, retentionVars>>

RotateKeys ==
    /\ part = "keys"
    /\ KeyringNext
    /\ UNCHANGED <<monitorVars, statusVars, teamVars, passwordVars, retentionVars>>

KeepEvidence ==
    /\ part = "evidence"
    /\ RetentionNext
    /\ UNCHANGED <<monitorVars, statusVars, teamVars, passwordVars, keyringVars>>

Next ==
    /\ \/ EditMonitors \/ ArchiveMonitors \/ ServePages \/ GatherTeam
       \/ LogIn \/ RotateKeys \/ KeepEvidence
    /\ UNCHANGED part

Spec == Init /\ [][Next]_allVars
=============================================================================
