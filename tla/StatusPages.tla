----------------------------- MODULE StatusPages -----------------------------
(***************************************************************************)
(* internal/statuspage and internal/postgres/statuspage.go: the status page *)
(* of one Organization.  A replacement reads the page and its components in *)
(* two statements, then writes in a transaction that locks the page's row.  *)
(* A visitor's answer is read in a transaction that shares that lock.  The  *)
(* title and the labels stand for themselves as the version they were saved *)
(* in.                                                                      *)
(***************************************************************************)
EXTENDS MonitorEditing

CONSTANTS
    Replacers,      \* requests that replace the page
    Visitors,
    MaxVersion,     \* bound on the versions
    MaxToken        \* bound on the publications

ASSUME StatusPageAssumption == MaxVersion \in Nat /\ MaxToken \in Nat

VARIABLES
    page,           \* status_pages: 0 is no page, and 0 no publication
    component,      \* status_page_components: the id of each Monitor's
    replacement,    \* the request of each replacer
    visit,          \* the request of each visitor
    saved           \* what the versions held when they were saved

statusVars == <<page, component, replacement, visit, saved>>

\* An id is new whenever one is generated.
ComponentIds == Replacers \X (1..MaxVersion)
NoId == <<>>
Components == [Monitors -> ComponentIds \cup {NoId}]
Empty == [m \in Monitors |-> NoId]

Versions == 0..MaxVersion
Tokens == 0..MaxToken

StatusTypeOK ==
    /\ page \in [version : Versions, token : Tokens, publications : Tokens]
    /\ component \in Components
    /\ replacement \in [Replacers ->
          [pc : {"idle"}] \cup [pc : {"listing"}, version : Versions]
             \cup [pc : {"writing"}, version : Versions, to : Components]]
    /\ visit \in [Visitors ->
          [pc : {"idle"}] \cup [pc : {"reading"}, version : Versions, token : Tokens]
             \cup [pc : {"answered"}, version : Versions, shown : Components]]
    /\ saved \in [Versions -> Components]

StatusInit ==
    /\ page = [version |-> 0, token |-> 0, publications |-> 0]
    /\ component = Empty
    /\ replacement = [r \in Replacers |-> [pc |-> "idle"]]
    /\ visit = [v \in Visitors |-> [pc |-> "idle"]]
    /\ saved = [n \in Versions |-> Empty]

On(c) == {m \in Monitors : c[m] # NoId}

\* A visitor's transaction keeps the row as it is.  (NobodyReads: a plain read.)
NobodyReads == TRUE
Unshared == \A v \in Visitors : visit[v].pc # "reading"

-----------------------------------------------------------------------------
\* Replace with the version the page has: with another one it is refused.  FindDraft
\* reads the page first.
FindPage(r) ==
    /\ replacement[r].pc = "idle"
    /\ page.version < MaxVersion
    /\ replacement' = [replacement EXCEPT ![r] = [pc |-> "listing", version |-> page.version]]
    /\ UNCHANGED <<page, component, visit, saved, monitorVars>>

\* Then its components, and a Monitor that stays on the page keeps its id.
ListComponents(r) ==
    LET before == replacement[r].version
        found == IF before = 0 THEN Empty ELSE component IN
    /\ replacement[r].pc = "listing"
    /\ \E S \in SUBSET Monitors \ {{}} :
          replacement' = [replacement EXCEPT ![r] =
             [pc |-> "writing", version |-> before,
              to |-> [m \in Monitors |->
                         IF m \notin S THEN NoId
                         ELSE IF found[m] # NoId THEN found[m] ELSE <<r, before + 1>>]]]
    /\ UNCHANGED <<page, component, visit, saved, monitorVars>>

\* (LastOneWins does not compare.)
LastOneWins(r) == TRUE
StillAt(r) == page.version = replacement[r].version

Available(m) == monitor[m].state \notin {"absent", "archived"}

ReplaceDraft(r) ==
    LET to == replacement[r].to IN
    /\ replacement[r].pc = "writing"
    /\ Unshared
    /\ StillAt(r)
    /\ \A m \in On(to) : Available(m)
    /\ page' = [page EXCEPT !.version = replacement[r].version + 1]
    /\ component' = to
    /\ saved' = [saved EXCEPT ![replacement[r].version + 1] = to]
    /\ replacement' = [replacement EXCEPT ![r] = [pc |-> "idle"]]
    /\ UNCHANGED <<visit, monitorVars>>

\* ErrConcurrentUpdate, ErrMonitorUnavailable, or a request that breaks off.
AbandonReplacement(r) ==
    /\ replacement[r].pc # "idle"
    /\ replacement' = [replacement EXCEPT ![r] = [pc |-> "idle"]]
    /\ UNCHANGED <<page, component, visit, saved, monitorVars>>

-----------------------------------------------------------------------------
Publish ==
    /\ page.version > 0
    /\ Unshared
    /\ page.token = 0
    /\ page.publications < MaxToken
    /\ page' = [page EXCEPT !.publications = @ + 1, !.token = page.publications + 1]
    /\ UNCHANGED <<component, replacement, visit, saved, monitorVars>>

Revoke ==
    /\ page.token # 0
    /\ Unshared
    /\ page' = [page EXCEPT !.token = 0]
    /\ UNCHANGED <<component, replacement, visit, saved, monitorVars>>

\* FindPublicPage, by the token of the publication; any other finds nothing.
FindPublicPage(v) ==
    /\ visit[v].pc # "reading"
    /\ page.token # 0
    /\ visit' = [visit EXCEPT ![v] =
          [pc |-> "reading", version |-> page.version, token |-> page.token]]
    /\ UNCHANGED <<page, component, replacement, saved, monitorVars>>

ListPublicComponents(v) ==
    /\ visit[v].pc = "reading"
    /\ visit' = [visit EXCEPT ![v] =
          [pc |-> "answered", version |-> visit[v].version, shown |-> component]]
    /\ UNCHANGED <<page, component, replacement, saved, monitorVars>>

AbandonVisit(v) ==
    /\ visit[v].pc = "reading"
    /\ visit' = [visit EXCEPT ![v] = [pc |-> "idle"]]
    /\ UNCHANGED <<page, component, replacement, saved, monitorVars>>

StatusNext ==
    \/ \E r \in Replacers :
          \/ FindPage(r) \/ ListComponents(r)
          \/ ReplaceDraft(r) \/ AbandonReplacement(r)
    \/ Publish
    \/ Revoke
    \/ \E v \in Visitors :
          FindPublicPage(v) \/ ListPublicComponents(v) \/ AbandonVisit(v)

\* The page beside the Monitors it shows, which are edited meanwhile.
StatusSpec ==
    /\ StatusInit /\ MonitorInit
    /\ [][StatusNext \/ (MonitorNext /\ UNCHANGED statusVars)]_<<statusVars, monitorVars>>

-----------------------------------------------------------------------------
\* A visitor sees one version of the page, although its title and its components are
\* read by two statements between which the page may be replaced; and it is published
\* until the second one has read it.
AnswersAreWhole ==
    \A v \in Visitors :
        /\ visit[v].pc = "answered" => visit[v].shown = saved[visit[v].version]
        /\ visit[v].pc = "reading" => visit[v].token = page.token

\* A Monitor that stays on the page keeps its component, whoever replaces the page and
\* however old the components were that they read.
ComponentsStay ==
    [][\A m \in On(component) \cap On(component)' : component'[m] = component[m]]_component
=============================================================================
