------------------------ MODULE AdministrationProofs ------------------------
(* Theorems of Team, Passwords, MonitorEditing and StatusPages, for every    *)
(* number of accounts, Organizations, logins, Monitors, editors and visitors. *)
EXTENDS StatusPages, Team, Passwords, FiniteSetTheorems, TLAPS

-----------------------------------------------------------------------------
(* Team *)

\* Nobody looks for accounts without the lock, and none appears after the look.
SetupExclusive ==
    /\ setupLock = {} \/ \E u \in Users : setupLock = {u}
    /\ \A u \in Users : joining[u].pc \in {"checking", "inserting"} => setupLock = {u}
    /\ \A u \in Users : joining[u].pc = "inserting" => users = {}

\* An account exists from its insertion on.
JoiningsSound ==
    \A u \in Users :
        LET r == joining[u] IN
        /\ r.pc \in {"bootstrap", "setUp", "added", "listed", "joined"} => u \in users
        /\ r.pc \in {"new", "checking", "inserting"} => u \notin users
        /\ r.pc \in {"added", "listed", "joined"} => r.existing \subseteq organizations
        /\ r.pc = "listed" => r.existing \subseteq r.list /\ r.list \subseteq organizations

\* An Organization exists when its request is done; what a request lists includes
\* the accounts there were when it came in.
FoundingsSound ==
    \A o \in Organizations :
        LET r == founding[o] IN
        /\ o \in organizations <=> r.pc = "done"
        /\ r.pc # "new" => r.known \subseteq users /\ r.by \in users
        /\ r.pc = "listed" => r.known \subseteq r.list /\ r.list \subseteq users

RowsSound ==
    /\ users \subseteq Users
    /\ organizations \subseteq Organizations
    /\ members \subseteq users \X organizations
    /\ joining \in [Users -> Joinings]
    /\ founding \in [Organizations -> Foundings]

\* The inductive invariant.
TeamIInv ==
    /\ RowsSound /\ SetupExclusive /\ JoiningsSound /\ FoundingsSound
    /\ SetupOnce /\ GapsExplained

LEMMA TeamInitInv == TeamInit => TeamIInv
BY DEF TeamInit, TeamIInv, RowsSound, SetupExclusive, JoiningsSound, FoundingsSound,
       SetupOnce, GapsExplained, Joinings, Foundings

\* What a step of an account's creation changes.
LEMMA JoinsOne ==
    ASSUME TeamIInv, NEW u \in Users, NEW r \in Joinings, Joins(u, r)
    PROVE  /\ joining' \in [Users -> Joinings] /\ joining'[u] = r
           /\ \A v \in Users \ {u} : joining'[v] = joining[v]
    BY DEF TeamIInv, RowsSound, Joins

LEMMA FoundsOne ==
    ASSUME TeamIInv, NEW o \in Organizations, NEW r \in Foundings, Founds(o, r)
    PROVE  /\ founding' \in [Organizations -> Foundings] /\ founding'[o] = r
           /\ \A p \in Organizations \ {o} : founding'[p] = founding[p]
    BY DEF TeamIInv, RowsSound, Founds

-----------------------------------------------------------------------------
LEMMA BeginSetupInv ==
    ASSUME TeamIInv, NEW u \in Users, BeginSetup(u) PROVE TeamIInv'
<1>1. [pc |-> "checking"] \in Joinings
    BY DEF Joinings
<1> QED
    BY <1>1, JoinsOne
    DEF BeginSetup, Locks, TeamIInv, RowsSound, SetupExclusive, JoiningsSound, FoundingsSound,
        SetupOnce, GapsExplained

LEMMA CheckSetupInv ==
    ASSUME TeamIInv, NEW u \in Users, CheckSetup(u) PROVE TeamIInv'
<1>1. [pc |-> "inserting"] \in Joinings /\ [pc |-> "failed"] \in Joinings
    BY DEF Joinings
<1>2. \A v \in Users \ {u} : joining[v].pc \notin {"checking", "inserting"}
    BY DEF CheckSetup, TeamIInv, SetupExclusive
<1>3. setupLock = {u}
    BY DEF CheckSetup, TeamIInv, SetupExclusive
<1> QED
    BY <1>1, <1>2, <1>3, JoinsOne
    DEF CheckSetup, TeamIInv, RowsSound, SetupExclusive, JoiningsSound, FoundingsSound,
        SetupOnce, GapsExplained

LEMMA InsertAdministratorInv ==
    ASSUME TeamIInv, NEW u \in Users, InsertAdministrator(u) PROVE TeamIInv'
<1>1. [pc |-> "bootstrap"] \in Joinings
    BY DEF Joinings
<1>2. /\ users = {} /\ setupLock = {u} /\ users' = {u}
      /\ \A v \in Users \ {u} : joining[v].pc \in {"new", "failed"}
    <2>1. users = {} /\ setupLock = {u}
        BY DEF InsertAdministrator, TeamIInv, SetupExclusive
    <2>2. ASSUME NEW v \in Users \ {u} PROVE joining[v].pc \in {"new", "failed"}
        <3>1. joining[v].pc \notin {"checking", "inserting"}
            BY <2>1 DEF TeamIInv, SetupExclusive
        <3>2. joining[v].pc \notin {"bootstrap", "setUp", "added", "listed", "joined"}
            BY <2>1 DEF TeamIInv, JoiningsSound
        <3> QED
            BY <3>1, <3>2 DEF TeamIInv, RowsSound, Joinings
    <2> QED
        BY <2>1, <2>2 DEF InsertAdministrator
<1>3. organizations = {} /\ members = {}
    <2>1. \A o \in Organizations : founding[o].pc = "new"
        BY <1>2 DEF TeamIInv, FoundingsSound
    <2> QED
        BY <1>2, <2>1 DEF TeamIInv, FoundingsSound, RowsSound
<1>4. RowsSound' /\ SetupExclusive' /\ JoiningsSound' /\ SetupOnce'
    BY <1>1, <1>2, <1>3, JoinsOne
    DEF InsertAdministrator, TeamIInv, RowsSound, SetupExclusive, JoiningsSound, SetupOnce
<1>5. FoundingsSound' /\ GapsExplained'
    BY <1>2, <1>3
    DEF InsertAdministrator, TeamIInv, FoundingsSound, GapsExplained
<1> QED
    BY <1>4, <1>5 DEF TeamIInv

LEMMA InsertUserInv ==
    ASSUME TeamIInv, NEW u \in Users, InsertUser(u) PROVE TeamIInv'
<1>1. [pc |-> "added", existing |-> organizations] \in Joinings
    BY DEF TeamIInv, RowsSound, Joinings
<1>2. u \notin users /\ users # {} /\ users' = users \cup {u}
    BY DEF InsertUser, TeamIInv, JoiningsSound
<1> QED
    BY <1>1, <1>2, JoinsOne
    DEF InsertUser, TeamIInv, RowsSound, SetupExclusive, JoiningsSound, FoundingsSound,
        SetupOnce, GapsExplained

LEMMA ListOrganizationsInv ==
    ASSUME TeamIInv, NEW u \in Users, ListOrganizations(u) PROVE TeamIInv'
<1> DEFINE r == [pc |-> "listed", existing |-> joining[u].existing, list |-> organizations]
<1>1. r \in Joinings
    BY DEF ListOrganizations, TeamIInv, RowsSound, Joinings
<1> QED
    BY <1>1, JoinsOne
    DEF ListOrganizations, TeamIInv, RowsSound, SetupExclusive, JoiningsSound, FoundingsSound,
        SetupOnce, GapsExplained

LEMMA CreateMembershipsInv ==
    ASSUME TeamIInv, NEW u \in Users, CreateMemberships(u) PROVE TeamIInv'
<1> DEFINE r == [pc |-> "joined", existing |-> joining[u].existing]
<1>1. r \in Joinings
    BY DEF CreateMemberships, TeamIInv, RowsSound, Joinings
<1>2. /\ u \in users /\ joining[u].list \subseteq organizations
      /\ joining[u].existing \subseteq joining[u].list
    BY DEF CreateMemberships, TeamIInv, JoiningsSound
<1>3. members' \subseteq users \X organizations /\ members \subseteq members'
    BY <1>2 DEF CreateMemberships, TeamIInv, RowsSound
<1>4. \A o \in joining[u].existing : <<u, o>> \in members'
    BY <1>2 DEF CreateMemberships
<1> QED
    BY <1>1, <1>2, <1>3, <1>4, JoinsOne
    DEF CreateMemberships, TeamIInv, RowsSound, SetupExclusive, JoiningsSound, FoundingsSound,
        SetupOnce, GapsExplained

-----------------------------------------------------------------------------
LEMMA ProvisionInv ==
    ASSUME TeamIInv, NEW o \in Organizations, NEW u \in Users, Provision(o, u) PROVE TeamIInv'
<1>1. [pc |-> "asked", by |-> u, known |-> users] \in Foundings
    BY DEF TeamIInv, RowsSound, Foundings
<1> QED
    BY <1>1, FoundsOne
    DEF Provision, TeamIInv, RowsSound, SetupExclusive, JoiningsSound, FoundingsSound,
        SetupOnce, GapsExplained

LEMMA ProvisionBootstrapInv ==
    ASSUME TeamIInv, NEW o \in Organizations, NEW u \in Users, ProvisionBootstrap(o, u)
    PROVE  TeamIInv'
<1>1. [pc |-> "asked", by |-> u, known |-> users] \in Foundings /\ u \in users
    BY DEF ProvisionBootstrap, TeamIInv, RowsSound, JoiningsSound, Foundings
<1>2. [pc |-> "setUp"] \in Joinings
    BY DEF Joinings
<1> QED
    BY <1>1, <1>2, FoundsOne, JoinsOne
    DEF ProvisionBootstrap, TeamIInv, RowsSound, SetupExclusive, JoiningsSound, FoundingsSound,
        SetupOnce, GapsExplained

LEMMA ListUsersInv ==
    ASSUME TeamIInv, NEW o \in Organizations, ListUsers(o) PROVE TeamIInv'
<1> DEFINE r == [pc |-> "listed", by |-> founding[o].by, known |-> founding[o].known,
                 list |-> users]
<1>1. r \in Foundings
    BY DEF ListUsers, TeamIInv, RowsSound, Foundings
<1> QED
    BY <1>1, FoundsOne
    DEF ListUsers, TeamIInv, RowsSound, SetupExclusive, JoiningsSound, FoundingsSound,
        SetupOnce, GapsExplained

LEMMA CreateOrganizationInv ==
    ASSUME TeamIInv, NEW o \in Organizations, CreateOrganization(o) PROVE TeamIInv'
<1> DEFINE r == [pc |-> "done", by |-> founding[o].by, known |-> founding[o].known]
<1>1. r \in Foundings
    BY DEF CreateOrganization, TeamIInv, RowsSound, Foundings
<1>2. /\ NewMembers(o) \subseteq users /\ founding[o].known \subseteq NewMembers(o)
      /\ o \notin organizations
    BY DEF CreateOrganization, NewMembers, TeamIInv, FoundingsSound
<1>3. members' \subseteq users \X organizations' /\ members \subseteq members'
    BY <1>2 DEF CreateOrganization, TeamIInv, RowsSound
<1>4. \A u \in founding[o].known : <<u, o>> \in members'
    BY <1>2 DEF CreateOrganization
<1>5. RowsSound' /\ SetupExclusive' /\ JoiningsSound' /\ FoundingsSound' /\ SetupOnce'
    BY <1>1, <1>2, <1>3, FoundsOne
    DEF CreateOrganization, TeamIInv, RowsSound, SetupExclusive, JoiningsSound, FoundingsSound,
        SetupOnce
<1>6. GapsExplained'
    <2> SUFFICES ASSUME NEW v \in users, NEW p \in organizations', <<v, p>> \notin members'
                 PROVE  /\ v \notin founding'[p].known
                        /\ joining[v].pc = "joined" => p \notin joining[v].existing
        BY DEF CreateOrganization, GapsExplained
    <2>1. CASE p = o
        BY <1>1, <1>2, <1>4, <2>1, FoundsOne DEF CreateOrganization, TeamIInv, JoiningsSound,
           RowsSound
    <2>2. CASE p # o
        BY <1>1, <1>3, <2>2, FoundsOne DEF CreateOrganization, TeamIInv, GapsExplained,
           RowsSound
    <2> QED
        BY <2>1, <2>2
<1> QED
    BY <1>5, <1>6 DEF TeamIInv

-----------------------------------------------------------------------------
LEMMA BreakJoiningInv ==
    ASSUME TeamIInv, NEW u \in Users, BreakJoining(u) PROVE TeamIInv'
<1>1. [pc |-> "failed"] \in Joinings
    BY DEF Joinings
<1>2. \A v \in Users : joining[v].pc \in {"checking", "inserting"} => setupLock = {v}
    BY DEF TeamIInv, SetupExclusive
<1> QED
    BY <1>1, <1>2, JoinsOne
    DEF BreakJoining, TeamIInv, RowsSound, SetupExclusive, JoiningsSound, FoundingsSound,
        SetupOnce, GapsExplained

LEMMA BreakFoundingInv ==
    ASSUME TeamIInv, NEW o \in Organizations, BreakFounding(o) PROVE TeamIInv'
<1> DEFINE r == [pc |-> "failed", by |-> founding[o].by, known |-> founding[o].known]
<1>1. r \in Foundings
    BY DEF BreakFounding, TeamIInv, RowsSound, Foundings
<1> QED
    BY <1>1, FoundsOne
    DEF BreakFounding, TeamIInv, RowsSound, SetupExclusive, JoiningsSound, FoundingsSound,
        SetupOnce, GapsExplained

LEMMA TeamStepKeeps == TeamIInv /\ [TeamNext]_teamVars => TeamIInv'
<1> SUFFICES ASSUME TeamIInv, [TeamNext]_teamVars PROVE TeamIInv'
    OBVIOUS
<1>1. CASE UNCHANGED teamVars
    BY <1>1 DEF teamVars, TeamIInv, RowsSound, SetupExclusive, JoiningsSound, FoundingsSound,
                SetupOnce, GapsExplained
<1>2. CASE TeamNext
    BY <1>2, BeginSetupInv, CheckSetupInv, InsertAdministratorInv, InsertUserInv,
       ListOrganizationsInv, CreateMembershipsInv, ProvisionInv, ProvisionBootstrapInv,
       ListUsersInv, CreateOrganizationInv, BreakJoiningInv, BreakFoundingInv
    DEF TeamNext
<1> QED
    BY <1>1, <1>2

\* Accounts, Organizations, memberships and requests are well formed.
THEOREM TeamTypes == TeamSpec => []TeamTypeOK
<1>1. TeamIInv => TeamTypeOK
    <2> SUFFICES ASSUME TeamIInv PROVE Cardinality(setupLock) <= 1 /\ setupLock \subseteq Users
        BY DEF TeamIInv, RowsSound, TeamTypeOK
    <2>1. setupLock = {} \/ \E u \in Users : setupLock = {u}
        BY DEF TeamIInv, SetupExclusive
    <2>2. CASE setupLock = {}
        BY <2>2, FS_EmptySet
    <2>3. ASSUME NEW u \in Users, setupLock = {u} PROVE Cardinality(setupLock) <= 1
        <3>1. Cardinality({u}) = 1
            BY FS_Singleton, Zenon
        <3> QED
            BY <2>3, <3>1
    <2> QED
        BY <2>1, <2>2, <2>3
<1> QED
    BY <1>1, TeamInitInv, TeamStepKeeps, PTL DEF TeamSpec

\* However many servers are asked to set up at once, one account is made by it.
THEOREM TeamSetUpOnce == TeamSpec => []SetupOnce
<1>1. TeamIInv => SetupOnce
    BY DEF TeamIInv
<1> QED
    BY <1>1, TeamInitInv, TeamStepKeeps, PTL DEF TeamSpec

\* Only accounts and Organizations whose creations overlapped miss each other.
THEOREM TeamGapsExplained == TeamSpec => []GapsExplained
<1>1. TeamIInv => GapsExplained
    BY DEF TeamIInv
<1> QED
    BY <1>1, TeamInitInv, TeamStepKeeps, PTL DEF TeamSpec
-----------------------------------------------------------------------------
(* Passwords *)

\* What a login has read is what is stored, unless it was reset since then.
ReadingsSound ==
    \A l \in Logins : login[l].pc \in {"verifying", "rehashing"} =>
        LET found == login[l].found IN
        /\ found.resets <= stored.resets
        /\ ~ undone /\ found.resets = stored.resets => found.secret = stored.secret
        /\ login[l].pc = "rehashing" => login[l].tried = found.secret

\* The inductive invariant.
PasswordIInv == PasswordTypeOK /\ ReadingsSound /\ OnlyResetsChange

LEMMA PasswordInitInv == PasswordInit => PasswordIInv
<1> SUFFICES ASSUME PasswordInit PROVE PasswordIInv
    OBVIOUS
<1>1. undone \in BOOLEAN /\ stored.secret = chosen
    BY Zenon DEF PasswordInit
<1>2. stored \in Hashes /\ \A l \in Logins : login[l] = [pc |-> "idle"]
    BY PasswordAssumption DEF PasswordInit, Hashes
<1> QED
    BY <1>1, <1>2 DEF PasswordInit, PasswordIInv, PasswordTypeOK, ReadingsSound, OnlyResetsChange

LEMMA PasswordStepKeeps == PasswordIInv /\ [PasswordNext]_passwordVars => PasswordIInv'
<1> SUFFICES ASSUME PasswordIInv, [PasswordNext]_passwordVars PROVE PasswordIInv'
    OBVIOUS
<1> USE PasswordAssumption DEF PasswordIInv, PasswordTypeOK, ReadingsSound, OnlyResetsChange, Hashes
<1>1. ASSUME NEW l \in Logins, FindAccount(l) PROVE PasswordIInv'
    BY <1>1 DEF FindAccount, Proceeds
<1>2. ASSUME NEW l \in Logins, Verify(l) PROVE PasswordIInv'
    BY <1>2 DEF Verify, Verified, Proceeds
<1>3. ASSUME NEW l \in Logins, UpdatePasswordHash(l) PROVE PasswordIInv'
    <2> DEFINE overtaken == login[l].found.resets < stored.resets
    <2>1. undone' = (undone \/ overtaken)
        BY <1>3 DEF UpdatePasswordHash
    <2> HIDE DEF overtaken
    <2>2. undone' \in BOOLEAN /\ (~ undone' => ~ undone /\ ~ overtaken)
        BY <2>1, Zenon
    <2>3. /\ stored' = [stored EXCEPT !.secret = login[l].tried, !.outdated = FALSE]
          /\ login' = [login EXCEPT ![l] = [pc |-> "accepted"]]
          /\ chosen' = chosen /\ login[l].pc = "rehashing"
        BY <1>3 DEF UpdatePasswordHash
    <2>4. login[l].tried \in Secrets /\ stored' \in Hashes /\ stored'.resets = stored.resets
        BY <2>3
    <2>5. ~ undone' => stored'.secret = stored.secret
        <3>1. login[l].tried = login[l].found.secret /\ stored'.secret = login[l].tried
            BY <2>3
        <3>2. /\ login[l].found.resets \in Nat /\ stored.resets \in Nat
              /\ login[l].found.resets <= stored.resets
            BY <2>3
        <3>3. ~ overtaken => login[l].found.resets = stored.resets
            BY <3>2 DEF overtaken
        <3>4. ~ undone /\ login[l].found.resets = stored.resets
                 => login[l].found.secret = stored.secret
            BY <2>3
        <3> QED
            BY <2>2, <3>1, <3>3, <3>4, Zenon
    <2>6. PasswordTypeOK'
        BY <2>2, <2>3, <2>4
    <2> QED
        BY <2>2, <2>3, <2>4, <2>5, <2>6
<1>4. ASSUME NEW l \in Logins, BreakLogin(l) PROVE PasswordIInv'
    BY <1>4 DEF BreakLogin, Proceeds
<1>5. ASSUME ResetPassword PROVE PasswordIInv'
    <2>1. undone' \in BOOLEAN
        BY <1>5, Zenon DEF ResetPassword
    <2>2. /\ chosen' \in Secrets /\ login' = login /\ stored.resets < MaxResets
          /\ stored' = [secret |-> chosen', outdated |-> FALSE, resets |-> stored.resets + 1]
        BY <1>5 DEF ResetPassword
    <2>3. stored' \in Hashes /\ stored'.resets = stored.resets + 1 /\ stored'.secret = chosen'
        BY <2>2
    <2> QED
        BY <2>1, <2>2, <2>3
<1>6. ASSUME Strengthen PROVE PasswordIInv'
    BY <1>6 DEF Strengthen
<1>7. CASE UNCHANGED passwordVars
    BY <1>7 DEF passwordVars
<1> QED
    BY <1>1, <1>2, <1>3, <1>4, <1>5, <1>6, <1>7 DEF PasswordNext

\* The hash and the readings of logins are well formed.
THEOREM PasswordTypes == PasswordSpec => []PasswordTypeOK
<1>1. PasswordIInv => PasswordTypeOK
    BY DEF PasswordIInv
<1> QED
    BY <1>1, PasswordInitInv, PasswordStepKeeps, PTL DEF PasswordSpec

\* The password is the one chosen last, unless a login undoes a reset it overtakes.
THEOREM PasswordOnlyResetsChange == PasswordSpec => []OnlyResetsChange
<1>1. PasswordIInv => OnlyResetsChange
    BY DEF PasswordIInv
<1> QED
    BY <1>1, PasswordInitInv, PasswordStepKeeps, PTL DEF PasswordSpec
-----------------------------------------------------------------------------
(* MonitorEditing *)

\* What a request may want of a Monitor's row: one aspect changed, the state along a
\* transition, or the next revision.
Wants(e, m) ==
    LET to == edit[e].to IN
    \/ /\ edit[e].pc = "update"
       /\ \/ \E n \in Names : to = [monitor[m] EXCEPT !.name = n]
          \/ \E i \in Intervals : to = [monitor[m] EXCEPT !.interval = i]
          \/ \E s \in States : TransitionTo(m, s) /\ to = [monitor[m] EXCEPT !.state = s]
    \/ edit[e].pc = "append" /\ to = [monitor[m] EXCEPT !.latest = @ + 1]

\* As long as nobody else has written the row, a request's copy is the row and what
\* it wants of it; the copies of the others are of an older row.
EditSound(e, m) ==
    /\ monitor[m] \in MonitorRows
    /\ edit[e].to.xmin <= monitor[m].xmin
    /\ edit[e].to.xmin < MaxWrites
    /\ edit[e].to.xmin = monitor[m].xmin => Editable(m) /\ Wants(e, m)

EditsSound ==
    \A e \in Editors, m \in Monitors :
        edit[e].pc # "idle" /\ edit[e].of = m => EditSound(e, m)

\* The revisions leave one write of the row for its insertion.
RevisionsBounded ==
    \A m \in Monitors : /\ monitor[m] \in MonitorRows => monitor[m].latest < monitor[m].xmin
                        /\ monitor[m] = NoMonitor => revision[m] = {}

\* The inductive invariant.
MonitorIInv == MonitorTypeOK /\ EditsSound /\ RevisionsBounded /\ RevisionsMatchCounter

LEMMA NoMonitorIsNoRow == NoMonitor \notin MonitorRows
BY DEF NoMonitor, MonitorRows, States

LEMMA MonitorInitInv == MonitorInit => MonitorIInv
BY NoMonitorIsNoRow
DEF MonitorInit, MonitorIInv, MonitorTypeOK, EditsSound, RevisionsBounded,
    RevisionsMatchCounter, Edits

\* A write of another row changes nothing that a request relies on.
LEMMA EditSoundSame ==
    ASSUME NEW e \in Editors, NEW m \in Monitors, edit'[e] = edit[e], monitor'[m] = monitor[m]
    PROVE  EditSound(e, m)' <=> EditSound(e, m)
<1>1. \A s \in States : TransitionTo(m, s)' <=> TransitionTo(m, s)
    BY Zenon DEF TransitionTo
<1>2. (Wants(e, m)' <=> Wants(e, m)) /\ (Editable(m)' <=> Editable(m))
    BY <1>1, Zenon DEF Wants, Editable
<1> QED
    BY <1>2, Zenon DEF EditSound

LEMMA CreateMonitorInv ==
    ASSUME MonitorIInv, NEW m \in Monitors, CreateMonitor(m) PROVE MonitorIInv'
<1> USE MonitorEditingAssumption
<1>1. PICK n \in Names, i \in Intervals : monitor' = [monitor EXCEPT ![m] =
          [name |-> n, interval |-> i, state |-> "draft", latest |-> 0, xmin |-> 1]]
    BY DEF CreateMonitor
<1>2. monitor'[m] \in MonitorRows /\ monitor'[m].latest = 0 /\ monitor'[m].xmin = 1
    BY <1>1 DEF MonitorIInv, MonitorTypeOK, MonitorRows, States
<1>3. monitor[m] = NoMonitor /\ revision' = revision /\ edit' = edit /\ revision[m] = {}
    BY DEF CreateMonitor, MonitorIInv, RevisionsBounded
<1>4. \A k \in Monitors \ {m} : monitor'[k] = monitor[k]
    BY <1>1 DEF MonitorIInv, MonitorTypeOK
<1>5. \A e \in Editors : edit[e].pc # "idle" => edit[e].of \in Monitors \ {m}
    BY <1>3, NoMonitorIsNoRow DEF MonitorIInv, MonitorTypeOK, EditsSound, EditSound, Edits
<1>6. MonitorTypeOK'
    BY <1>1, <1>2, <1>3 DEF MonitorIInv, MonitorTypeOK
<1>7. EditsSound'
    BY <1>3, <1>4, <1>5, EditSoundSame DEF MonitorIInv, EditsSound
<1>8. RevisionsBounded' /\ RevisionsMatchCounter'
    <2>1. 1..monitor'[m].latest = {}
        BY <1>2
    <2>2. revision'[m] = 1..monitor'[m].latest /\ monitor'[m] # NoMonitor
        BY <1>2, <1>3, <2>1, NoMonitorIsNoRow, Zenon
    <2>3. monitor'[m].latest < monitor'[m].xmin
        BY <1>2
    <2> QED
        BY <1>3, <1>4, <2>2, <2>3 DEF MonitorIInv, RevisionsBounded, RevisionsMatchCounter
<1> QED
    BY <1>6, <1>7, <1>8 DEF MonitorIInv

\* A request that reads the row and decides.
LEMMA DecideInv ==
    ASSUME MonitorIInv, NEW e \in Editors, NEW m \in Monitors, NEW pc \in {"update", "append"},
           NEW to \in MonitorRows, Decide(e, m, pc, to), to.xmin = monitor[m].xmin,
           \/ /\ pc = "update"
              /\ \/ \E n \in Names : to = [monitor[m] EXCEPT !.name = n]
                 \/ \E i \in Intervals : to = [monitor[m] EXCEPT !.interval = i]
                 \/ \E s \in States : TransitionTo(m, s) /\ to = [monitor[m] EXCEPT !.state = s]
           \/ pc = "append" /\ to = [monitor[m] EXCEPT !.latest = @ + 1]
    PROVE  MonitorIInv'
<1> DEFINE r == [pc |-> pc, of |-> m, to |-> to]
<1>1. r \in Edits /\ r.pc = pc /\ r.of = m /\ r.to = to
    BY DEF Edits
<1>2. monitor[m] \in MonitorRows /\ Editable(m) /\ to.xmin < MaxWrites
    BY DEF Decide, Editable, MonitorIInv, MonitorTypeOK, NoMonitor
<1>3. monitor' = monitor /\ revision' = revision /\ edit' = [edit EXCEPT ![e] = r]
    BY DEF Decide
<1> HIDE DEF r
<1>4. edit'[e] = r /\ \A f \in Editors \ {e} : edit'[f] = edit[f]
    BY <1>3 DEF MonitorIInv, MonitorTypeOK
<1>5. MonitorTypeOK'
    BY <1>1, <1>3 DEF MonitorIInv, MonitorTypeOK
<1>6. to.xmin <= monitor[m].xmin
    BY DEF MonitorRows
<1>7. Wants(e, m)'
    <2>1. \A s \in States : TransitionTo(m, s)' <=> TransitionTo(m, s)
        BY <1>3 DEF TransitionTo
    <2>2. edit'[e].pc = pc /\ edit'[e].to = to /\ monitor' = monitor
        BY <1>1, <1>3, <1>4
    <2> QED
        BY <2>1, <2>2 DEF Wants
<1>8. EditSound(e, m)'
    <2>1. Editable(m)'
        BY <1>2, <1>3 DEF Editable
    <2> QED
        BY <1>1, <1>2, <1>3, <1>4, <1>6, <1>7, <2>1 DEF EditSound
<1>9. EditsSound'
    BY <1>1, <1>3, <1>4, <1>8, EditSoundSame DEF MonitorIInv, EditsSound
<1> QED
    BY <1>3, <1>5, <1>9 DEF MonitorIInv, RevisionsBounded, RevisionsMatchCounter

LEMMA RenameInv ==
    ASSUME MonitorIInv, NEW e \in Editors, NEW m \in Monitors, Rename(e, m) PROVE MonitorIInv'
<1>1. PICK n \in Names : Decide(e, m, "update", [monitor[m] EXCEPT !.name = n])
    BY DEF Rename
<1>2. monitor[m] \in MonitorRows
    BY <1>1 DEF Decide, Editable, MonitorIInv, MonitorTypeOK, NoMonitor
<1>3. /\ [monitor[m] EXCEPT !.name = n] \in MonitorRows
      /\ [monitor[m] EXCEPT !.name = n].xmin = monitor[m].xmin
    BY <1>2 DEF MonitorRows
<1> QED
    BY <1>1, <1>3, DecideInv

LEMMA ChangeIntervalInv ==
    ASSUME MonitorIInv, NEW e \in Editors, NEW m \in Monitors, ChangeInterval(e, m)
    PROVE  MonitorIInv'
<1>1. PICK i \in Intervals : Decide(e, m, "update", [monitor[m] EXCEPT !.interval = i])
    BY DEF ChangeInterval
<1>2. monitor[m] \in MonitorRows
    BY <1>1 DEF Decide, Editable, MonitorIInv, MonitorTypeOK, NoMonitor
<1>3. /\ [monitor[m] EXCEPT !.interval = i] \in MonitorRows
      /\ [monitor[m] EXCEPT !.interval = i].xmin = monitor[m].xmin
    BY <1>2 DEF MonitorRows
<1> QED
    BY <1>1, <1>3, DecideInv

LEMMA ChangeStateInv ==
    ASSUME MonitorIInv, NEW e \in Editors, NEW m \in Monitors, ChangeState(e, m)
    PROVE  MonitorIInv'
<1>1. PICK s \in States : /\ TransitionTo(m, s)
                          /\ Decide(e, m, "update", [monitor[m] EXCEPT !.state = s])
    BY DEF ChangeState
<1>2. monitor[m] \in MonitorRows
    BY <1>1 DEF Decide, Editable, MonitorIInv, MonitorTypeOK, NoMonitor
<1>3. /\ [monitor[m] EXCEPT !.state = s] \in MonitorRows
      /\ [monitor[m] EXCEPT !.state = s].xmin = monitor[m].xmin
    BY <1>2 DEF MonitorRows
<1> QED
    BY <1>1, <1>3, DecideInv

LEMMA CreateRevisionInv ==
    ASSUME MonitorIInv, NEW e \in Editors, NEW m \in Monitors, CreateRevision(e, m)
    PROVE  MonitorIInv'
<1> DEFINE to == [monitor[m] EXCEPT !.latest = @ + 1]
<1>1. Decide(e, m, "append", to) /\ monitor[m].xmin < MaxWrites
    BY DEF CreateRevision, Decide
<1>2. monitor[m] \in MonitorRows
    BY <1>1 DEF Decide, Editable, MonitorIInv, MonitorTypeOK, NoMonitor
<1>3. monitor[m].latest + 1 \in 0..MaxWrites
    BY <1>1, <1>2, MonitorEditingAssumption
    DEF MonitorRows, MonitorIInv, RevisionsBounded
<1>4. to \in MonitorRows /\ to.xmin = monitor[m].xmin
    BY <1>2, <1>3 DEF MonitorRows
<1> QED
    BY <1>1, <1>4, DecideInv

-----------------------------------------------------------------------------
\* What a write leaves: its request has its answer, and the copies that others read
\* of the row are older than the row.
LEMMA WriteKeeps ==
    ASSUME MonitorIInv, NEW e \in Editors, NEW m \in Monitors, NEW row \in MonitorRows,
           edit[e].pc # "idle", edit[e].of = m, Unwritten(e),
           monitor' = [monitor EXCEPT ![m] = row], row.xmin = monitor[m].xmin + 1, Answer(e)
    PROVE  /\ monitor' \in [Monitors -> MonitorRows \cup {NoMonitor}]
           /\ edit' \in [Editors -> Edits]
           /\ EditsSound'
<1>1. monitor'[m] = row /\ \A k \in Monitors \ {m} : monitor'[k] = monitor[k]
    BY DEF MonitorIInv, MonitorTypeOK
<1>2. /\ monitor' \in [Monitors -> MonitorRows \cup {NoMonitor}]
      /\ edit' \in [Editors -> Edits]
    BY DEF MonitorIInv, MonitorTypeOK, Answer, Edits
<1>3. edit'[e].pc = "idle" /\ \A f \in Editors \ {e} : edit'[f] = edit[f]
    BY DEF MonitorIInv, MonitorTypeOK, Answer
<1>4. ASSUME NEW f \in Editors \ {e}, edit[f].pc # "idle", edit[f].of = m
      PROVE  EditSound(f, m)'
    <2>1. /\ edit[f].to \in MonitorRows /\ monitor[m] \in MonitorRows
          /\ edit[f].to.xmin <= monitor[m].xmin /\ edit[f].to.xmin < MaxWrites
        BY <1>4 DEF MonitorIInv, MonitorTypeOK, EditsSound, EditSound, Edits
    <2>2. edit[f].to.xmin < row.xmin
        BY <2>1, MonitorEditingAssumption DEF MonitorRows
    <2>3. row.xmin \in Nat /\ edit[f].to.xmin \in Nat
        BY <2>1, MonitorEditingAssumption DEF MonitorRows
    <2> QED
        BY <1>1, <1>3, <2>1, <2>2, <2>3 DEF EditSound
<1> QED
    BY <1>1, <1>2, <1>3, <1>4, EditSoundSame DEF MonitorIInv, EditsSound

\* The row a request writes is the one it read, with what it wants.
LEMMA WriterKnowsRow ==
    ASSUME MonitorIInv, NEW e \in Editors, edit[e].pc # "idle", Unwritten(e)
    PROVE  /\ edit[e].of \in Monitors /\ edit[e].to \in MonitorRows
           /\ monitor[edit[e].of] \in MonitorRows
           /\ monitor[edit[e].of].xmin < MaxWrites
           /\ Editable(edit[e].of) /\ Wants(e, edit[e].of)
           /\ monitor[edit[e].of].latest < monitor[edit[e].of].xmin
           /\ revision[edit[e].of] = 1..monitor[edit[e].of].latest
    BY NoMonitorIsNoRow
    DEF Unwritten, MonitorIInv, MonitorTypeOK, EditsSound, EditSound, Edits, RevisionsBounded,
        RevisionsMatchCounter

LEMMA UpdateMonitorInv ==
    ASSUME MonitorIInv, NEW e \in Editors, UpdateMonitor(e) PROVE MonitorIInv'
<1> DEFINE m == edit[e].of
           row == [edit[e].to EXCEPT !.xmin = @ + 1]
<1>1. /\ edit[e].pc = "update" /\ Unwritten(e) /\ Answer(e) /\ revision' = revision
      /\ monitor' = [monitor EXCEPT ![m] = row]
    BY DEF UpdateMonitor
<1>2. /\ m \in Monitors /\ edit[e].to \in MonitorRows /\ monitor[m] \in MonitorRows
      /\ monitor[m].xmin < MaxWrites /\ Wants(e, m)
      /\ monitor[m].latest < monitor[m].xmin /\ revision[m] = 1..monitor[m].latest
    BY <1>1, WriterKnowsRow
<1>3. edit[e].to.xmin = monitor[m].xmin
    BY <1>1 DEF Unwritten
<1>4. row \in MonitorRows /\ row.xmin = monitor[m].xmin + 1 /\ row.latest = edit[e].to.latest
    BY <1>2, <1>3, MonitorEditingAssumption DEF MonitorRows
<1>5. edit[e].to.latest = monitor[m].latest
    BY <1>1, <1>2 DEF Wants, MonitorRows
<1> HIDE DEF row
<1>6. monitor'[m] = row /\ \A k \in Monitors \ {m} : monitor'[k] = monitor[k]
    BY <1>1, <1>2 DEF MonitorIInv, MonitorTypeOK
<1>7. /\ monitor' \in [Monitors -> MonitorRows \cup {NoMonitor}]
      /\ edit' \in [Editors -> Edits]
      /\ EditsSound'
    BY <1>1, <1>2, <1>4, WriteKeeps
<1>8. row.latest < row.xmin /\ revision'[m] = 1..row.latest
    BY <1>1, <1>2, <1>4, <1>5 DEF MonitorRows
<1>9. RevisionsBounded' /\ RevisionsMatchCounter'
    BY <1>1, <1>4, <1>6, <1>8, NoMonitorIsNoRow
    DEF MonitorIInv, RevisionsBounded, RevisionsMatchCounter
<1> QED
    BY <1>1, <1>7, <1>9 DEF MonitorIInv, MonitorTypeOK

LEMMA AppendRevisionInv ==
    ASSUME MonitorIInv, NEW e \in Editors, AppendRevision(e) PROVE MonitorIInv'
<1> DEFINE m == edit[e].of
           n == monitor[m].latest + 1
           next == [monitor[m] EXCEPT !.latest = n]
           row == [next EXCEPT !.xmin = monitor[m].xmin + 1]
<1>1. /\ edit[e].pc = "append" /\ Unwritten(e) /\ Answer(e)
      /\ monitor' = [monitor EXCEPT ![m].latest = edit[e].to.latest, ![m].xmin = @ + 1]
      /\ revision' = [revision EXCEPT ![m] = @ \cup {edit[e].to.latest}]
    BY DEF AppendRevision
<1>2. /\ m \in Monitors /\ edit[e].to \in MonitorRows /\ monitor[m] \in MonitorRows
      /\ monitor[m].xmin < MaxWrites /\ Wants(e, m)
      /\ monitor[m].latest < monitor[m].xmin /\ revision[m] = 1..monitor[m].latest
    BY <1>1, WriterKnowsRow
<1>3. edit[e].to.latest = n
    BY <1>1, <1>2 DEF Wants, MonitorRows
<1>4. n \in 1..MaxWrites /\ n < monitor[m].xmin + 1
    BY <1>2, MonitorEditingAssumption DEF MonitorRows
<1>5. row \in MonitorRows /\ row.xmin = monitor[m].xmin + 1 /\ row.latest = n
    <2>1. monitor[m].xmin + 1 \in 1..MaxWrites /\ n \in 0..MaxWrites
        BY <1>2, <1>4, MonitorEditingAssumption DEF MonitorRows
    <2>2. next \in MonitorRows /\ next.latest = n
        BY <1>2, <2>1 DEF MonitorRows
    <2> HIDE DEF next
    <2> QED
        BY <2>1, <2>2 DEF MonitorRows
<1>7. monitor'[m] = row /\ \A k \in Monitors \ {m} : monitor'[k] = monitor[k]
    BY <1>1, <1>2, <1>3 DEF MonitorIInv, MonitorTypeOK, MonitorRows
<1> HIDE DEF row
<1>6. monitor' = [monitor EXCEPT ![m] = row]
    <2>1. monitor' = [k \in Monitors |-> monitor'[k]]
        BY <1>1 DEF MonitorIInv, MonitorTypeOK
    <2> QED
        BY <1>7, <2>1 DEF MonitorIInv, MonitorTypeOK
<1>8. /\ monitor' \in [Monitors -> MonitorRows \cup {NoMonitor}]
      /\ edit' \in [Editors -> Edits]
      /\ EditsSound'
    BY <1>1, <1>2, <1>5, <1>6, WriteKeeps
<1>9. /\ revision' \in [Monitors -> SUBSET (1..MaxWrites)]
      /\ revision'[m] = 1..n
      /\ \A k \in Monitors \ {m} : revision'[k] = revision[k]
    <2>1. (1..monitor[m].latest) \cup {n} = 1..n
        BY <1>2, MonitorEditingAssumption DEF MonitorRows
    <2> QED
        BY <1>1, <1>2, <1>3, <1>4, <2>1 DEF MonitorIInv, MonitorTypeOK
<1>10. RevisionsBounded' /\ RevisionsMatchCounter'
    BY <1>4, <1>5, <1>7, <1>9, NoMonitorIsNoRow
    DEF MonitorIInv, RevisionsBounded, RevisionsMatchCounter
<1> QED
    BY <1>8, <1>9, <1>10 DEF MonitorIInv, MonitorTypeOK

LEMMA AbandonEditInv ==
    ASSUME MonitorIInv, NEW e \in Editors, AbandonEdit(e) PROVE MonitorIInv'
<1>1. /\ edit' \in [Editors -> Edits] /\ edit'[e].pc = "idle"
      /\ \A f \in Editors \ {e} : edit'[f] = edit[f]
      /\ monitor' = monitor /\ revision' = revision
    BY DEF AbandonEdit, Answer, MonitorIInv, MonitorTypeOK, Edits
<1>2. EditsSound'
    BY <1>1, EditSoundSame DEF MonitorIInv, EditsSound
<1> QED
    BY <1>1, <1>2 DEF MonitorIInv, MonitorTypeOK, RevisionsBounded, RevisionsMatchCounter

LEMMA MonitorStepKeeps == MonitorIInv /\ [MonitorNext]_monitorVars => MonitorIInv'
<1> SUFFICES ASSUME MonitorIInv, [MonitorNext]_monitorVars PROVE MonitorIInv'
    OBVIOUS
<1>1. CASE UNCHANGED monitorVars
    <2>1. monitor' = monitor /\ revision' = revision /\ edit' = edit
        BY <1>1 DEF monitorVars
    <2>2. EditsSound'
        BY <2>1, EditSoundSame DEF MonitorIInv, EditsSound
    <2> QED
        BY <2>1, <2>2 DEF MonitorIInv, MonitorTypeOK, RevisionsBounded, RevisionsMatchCounter
<1>2. CASE MonitorNext
    BY <1>2, CreateMonitorInv, RenameInv, ChangeIntervalInv, ChangeStateInv,
       CreateRevisionInv, UpdateMonitorInv, AppendRevisionInv, AbandonEditInv
    DEF MonitorNext
<1> QED
    BY <1>1, <1>2

LEMMA MonitorInvariant == MonitorSpec => []MonitorIInv
    BY MonitorInitInv, MonitorStepKeeps, PTL DEF MonitorSpec

\* Whatever writes back a row that it read, the revisions of a Monitor are 1 up to
\* its counter.
THEOREM MonitorRevisionsMatch == MonitorSpec => [](MonitorTypeOK /\ RevisionsMatchCounter)
<1>1. MonitorIInv => MonitorTypeOK /\ RevisionsMatchCounter
    BY DEF MonitorIInv
<1> QED
    BY <1>1, MonitorInvariant, PTL

-----------------------------------------------------------------------------
\* What MonitorLifecycle sees of the Monitors.
Seen == [m \in Monitors |-> Aspects(m)]

LEMMA SeenOne ==
    ASSUME NEW m \in Monitors, \A k \in Monitors \ {m} : monitor'[k] = monitor[k]
    PROVE  Seen' = [Seen EXCEPT ![m] = Aspects(m)']
    BY DEF Seen, Aspects

LEMMA CreateRefines ==
    ASSUME MonitorIInv, NEW m \in Monitors, CreateMonitor(m) PROVE Lifecycle!Next
<1>1. PICK n \in Names, i \in Intervals : monitor' = [monitor EXCEPT ![m] =
          [name |-> n, interval |-> i, state |-> "draft", latest |-> 0, xmin |-> 1]]
    BY DEF CreateMonitor
<1>2. monitor'[m] = [name |-> n, interval |-> i, state |-> "draft", latest |-> 0, xmin |-> 1]
    BY <1>1 DEF MonitorIInv, MonitorTypeOK
<1>3. Aspects(m)' = [name |-> n, interval |-> i, state |-> "draft", latest |-> 0]
    BY <1>2 DEF Aspects, NoMonitor
<1>4. Seen' = [Seen EXCEPT ![m] = Aspects(m)']
    BY <1>1, SeenOne DEF MonitorIInv, MonitorTypeOK
<1>5. Seen[m] = Lifecycle!Absent /\ UNCHANGED revision
    BY DEF CreateMonitor, Seen, Aspects, NoMonitor, Lifecycle!Absent
<1>6. \E v \in Names, j \in Intervals : Seen' = [Seen EXCEPT ![m] =
          [name |-> v, interval |-> j, state |-> "draft", latest |-> 0]]
    BY <1>3, <1>4
<1>7. Lifecycle!Create(m)
    BY <1>5, <1>6 DEF Lifecycle!Create, Seen
<1> QED
    BY <1>7 DEF Lifecycle!Next

LEMMA UpdateRefines ==
    ASSUME MonitorIInv, NEW e \in Editors, NEW m \in Monitors, edit[e].of = m, UpdateMonitor(e)
    PROVE  Lifecycle!Next
<1> DEFINE to == edit[e].to
           row == [to EXCEPT !.xmin = @ + 1]
           old == monitor[m]
           seen == [name |-> to.name, interval |-> to.interval, state |-> to.state,
                    latest |-> to.latest]
<1>1. /\ edit[e].pc = "update" /\ Unwritten(e) /\ revision' = revision
      /\ monitor' = [monitor EXCEPT ![m] = row]
    BY DEF UpdateMonitor
<1>2. /\ m \in Monitors /\ to \in MonitorRows /\ old \in MonitorRows
      /\ Wants(e, m) /\ Editable(m)
    BY <1>1, WriterKnowsRow
<1>3. monitor'[m] = row /\ \A k \in Monitors \ {m} : monitor'[k] = monitor[k]
    BY <1>1, <1>2 DEF MonitorIInv, MonitorTypeOK
<1>4. row # NoMonitor /\ row.name = to.name /\ row.interval = to.interval
      /\ row.state = to.state /\ row.latest = to.latest
    BY <1>2 DEF MonitorRows, NoMonitor, States
<1>5. Aspects(m)' = seen
    BY <1>3, <1>4 DEF Aspects
<1>6. Seen' = [Seen EXCEPT ![m] = seen]
    BY <1>2, <1>3, <1>5, SeenOne
<1>7. Seen[m] = [name |-> old.name, interval |-> old.interval, state |-> old.state,
                 latest |-> old.latest]
    BY <1>2, NoMonitorIsNoRow DEF Seen, Aspects
<1>8. Seen[m].state \notin {"absent", "archived"}
    BY <1>2, <1>7 DEF Editable
<1>9. CASE \E n \in Names : to = [old EXCEPT !.name = n]
    <2>1. PICK n \in Names : to = [old EXCEPT !.name = n]
        BY <1>9
    <2>2. seen = [Seen[m] EXCEPT !.name = n]
        BY <1>2, <1>7, <2>1 DEF MonitorRows
    <2>3. Lifecycle!Rename(m)
        BY <1>1, <1>6, <2>2 DEF Lifecycle!Rename, Seen
    <2> QED
        BY <1>2, <1>8, <2>3 DEF Lifecycle!Next, Lifecycle!Edit, Seen
<1>10. CASE \E i \in Intervals : to = [old EXCEPT !.interval = i]
    <2>1. PICK i \in Intervals : to = [old EXCEPT !.interval = i]
        BY <1>10
    <2>2. seen = [Seen[m] EXCEPT !.interval = i]
        BY <1>2, <1>7, <2>1 DEF MonitorRows
    <2>3. Lifecycle!Repace(m)
        BY <1>1, <1>6, <2>2 DEF Lifecycle!Repace, Seen
    <2> QED
        BY <1>2, <1>8, <2>3 DEF Lifecycle!Next, Lifecycle!Edit, Seen
<1>11. CASE \E s \in States : TransitionTo(m, s) /\ to = [old EXCEPT !.state = s]
    <2>1. PICK s \in States : TransitionTo(m, s) /\ to = [old EXCEPT !.state = s]
        BY <1>11
    <2>2. seen = [Seen[m] EXCEPT !.state = s]
        BY <1>2, <1>7, <2>1 DEF MonitorRows
    <2>3. Lifecycle!Activate(m) \/ Lifecycle!Pause(m) \/ Lifecycle!Archive(m)
        <3>1. Seen' = [Seen EXCEPT ![m].state = s]
            BY <1>6, <2>2
        <3>2. Seen[m].state = old.state /\ Seen[m].latest = old.latest
            BY <1>7
        <3>3. \/ s = "active" /\ old.state \in {"draft", "paused"} /\ old.latest > 0
              \/ s = "paused" /\ old.state = "active"
              \/ s = "archived"
            BY <2>1 DEF TransitionTo, Transitions
        <3> HIDE DEF old
        <3> QED
            BY <1>1, <3>1, <3>2, <3>3
            DEF Lifecycle!Activate, Lifecycle!Pause, Lifecycle!Archive, Seen
    <2> QED
        BY <1>2, <1>8, <2>3 DEF Lifecycle!Next, Lifecycle!Edit, Seen
<1> QED
    BY <1>1, <1>2, <1>9, <1>10, <1>11 DEF Wants

LEMMA AppendRefines ==
    ASSUME MonitorIInv, NEW e \in Editors, NEW m \in Monitors, edit[e].of = m, AppendRevision(e)
    PROVE  Lifecycle!Next
<1> DEFINE old == monitor[m]
           n == old.latest + 1
<1>1. /\ edit[e].pc = "append" /\ Unwritten(e)
      /\ monitor' = [monitor EXCEPT ![m].latest = edit[e].to.latest, ![m].xmin = @ + 1]
      /\ revision' = [revision EXCEPT ![m] = @ \cup {edit[e].to.latest}]
    BY DEF AppendRevision
<1>2. m \in Monitors /\ old \in MonitorRows /\ Wants(e, m) /\ Editable(m)
    BY <1>1, WriterKnowsRow
<1>3. edit[e].to.latest = n
    BY <1>1, <1>2 DEF Wants, MonitorRows
<1>4. /\ monitor'[m] = [old EXCEPT !.latest = n, !.xmin = @ + 1]
      /\ \A k \in Monitors \ {m} : monitor'[k] = monitor[k]
    BY <1>1, <1>2, <1>3 DEF MonitorIInv, MonitorTypeOK, MonitorRows
<1>5. Seen[m] = [name |-> old.name, interval |-> old.interval, state |-> old.state,
                 latest |-> old.latest]
    BY <1>2, NoMonitorIsNoRow DEF Seen, Aspects
<1>6. Aspects(m)' = [Seen[m] EXCEPT !.latest = n]
    <2>1. monitor'[m] # NoMonitor
        BY <1>2, <1>4 DEF MonitorRows, NoMonitor, States
    <2> QED
        BY <1>2, <1>4, <1>5, <2>1 DEF Aspects, MonitorRows
<1>7. Seen' = [Seen EXCEPT ![m] = [Seen[m] EXCEPT !.latest = n]]
    BY <1>2, <1>4, <1>6, SeenOne
<1>8. Seen[m].latest = old.latest /\ Seen[m].state \notin {"absent", "archived"}
    BY <1>2, <1>5 DEF Editable
<1>9. Lifecycle!Revise(m)
    BY <1>1, <1>3, <1>7, <1>8 DEF Lifecycle!Revise, Seen
<1> QED
    BY <1>2, <1>8, <1>9 DEF Lifecycle!Next, Lifecycle!Edit, Seen

LEMMA LifecycleStep == MonitorIInv /\ [MonitorNext]_monitorVars => [Lifecycle!Next]_<<Seen, revision>>
<1> SUFFICES ASSUME MonitorIInv, [MonitorNext]_monitorVars
             PROVE  Lifecycle!Next \/ UNCHANGED <<Seen, revision>>
    OBVIOUS
<1>1. ASSUME monitor' = monitor PROVE UNCHANGED Seen
    BY <1>1 DEF Seen, Aspects
<1>2. \A e \in Editors : edit[e].pc # "idle" => edit[e].of \in Monitors
    BY DEF MonitorIInv, MonitorTypeOK, Edits
<1>3. ASSUME NEW e \in Editors, UpdateMonitor(e) \/ AppendRevision(e) PROVE Lifecycle!Next
    BY <1>2, <1>3, UpdateRefines, AppendRefines DEF UpdateMonitor, AppendRevision
<1> QED
    BY <1>1, <1>3, CreateRefines
    DEF MonitorNext, monitorVars, Rename, ChangeInterval, ChangeState, CreateRevision, Decide,
        AbandonEdit

\* Concurrent edits implement editing one at a time: none undoes another that it did
\* not see, and an archived Monitor is never touched.
THEOREM MonitorsImplementLifecycle == MonitorSpec => LifecycleSpec
<1>1. MonitorInit => Lifecycle!Init
    BY DEF MonitorInit, Lifecycle!Init, Lifecycle!Absent, Aspects, NoMonitor
<1>2. MonitorIInv /\ [MonitorNext]_monitorVars
         => [Lifecycle!Next]_<<[m \in Monitors |-> Aspects(m)], revision>>
    BY LifecycleStep DEF Seen
<1> QED
    BY <1>1, <1>2, MonitorInvariant, PTL DEF MonitorSpec, LifecycleSpec, Lifecycle!Spec

-----------------------------------------------------------------------------
(* StatusPages *)

\* The page holds what was saved as its version; an answer, what was saved as the one
\* it is of; while one is being read, the page stays as it is.
AnswersSound ==
    /\ component = saved[page.version] /\ saved[0] = Empty
    /\ \A v \in Visitors :
          /\ visit[v].pc = "reading" =>
                visit[v].version = page.version /\ visit[v].token = page.token
          /\ visit[v].pc = "answered" =>
                /\ visit[v].version <= page.version
                /\ visit[v].shown = saved[visit[v].version]

\* A replacement that may still be written keeps the ids the page has now; the others
\* are of an older version and stay so.
ReplacementsSound ==
    \A r \in Replacers : replacement[r].pc # "idle" =>
        /\ replacement[r].version <= page.version /\ replacement[r].version < MaxVersion
        /\ replacement[r].pc = "writing" /\ StillAt(r) =>
              \A m \in On(replacement[r].to) \cap On(component) :
                 replacement[r].to[m] = component[m]

\* The inductive invariant.
StatusIInv == StatusTypeOK /\ AnswersSound /\ ReplacementsSound

LEMMA StatusInitInv == StatusInit => StatusIInv
<1> SUFFICES ASSUME StatusInit PROVE StatusIInv
    OBVIOUS
<1>1. Empty \in Components /\ 0 \in Versions /\ 0 \in Tokens
    BY StatusPageAssumption DEF Empty, Components, Versions, Tokens
<1>2. StatusTypeOK
    BY <1>1 DEF StatusInit, StatusTypeOK
<1>3. AnswersSound
    BY <1>1 DEF StatusInit, AnswersSound
<1>4. ReplacementsSound
    BY DEF StatusInit, ReplacementsSound
<1> QED
    BY <1>2, <1>3, <1>4 DEF StatusIInv

\* The versions and the requests, as far as arithmetic needs them.
LEMMA StatusVersions ==
    ASSUME StatusTypeOK
    PROVE  /\ MaxVersion \in Nat /\ page.version \in Nat /\ page.version <= MaxVersion
           /\ \A r \in Replacers : replacement[r].pc # "idle" => replacement[r].version \in Nat
           /\ \A v \in Visitors : visit[v].pc # "idle" =>
                 visit[v].version \in Versions /\ visit[v].version \in Nat
    BY StatusPageAssumption DEF StatusTypeOK, Versions

\* A step that leaves the page, its components and what was saved alone, and of the
\* requests only makes sound ones.
LEMMA FindPageInv ==
    ASSUME StatusIInv, NEW r \in Replacers, FindPage(r) PROVE StatusIInv'
<1> DEFINE request == [pc |-> "listing", version |-> page.version]
<1>1. page.version < MaxVersion /\ page.version \in Versions /\ page.version <= page.version
    BY StatusVersions DEF FindPage, StatusIInv, StatusTypeOK
<1>2. /\ replacement' = [replacement EXCEPT ![r] = request]
      /\ UNCHANGED <<page, component, visit, saved>>
    BY DEF FindPage
<1>3. request.pc = "listing" /\ request.version = page.version
    OBVIOUS
<1>4. StatusTypeOK'
    BY <1>1, <1>2 DEF StatusIInv, StatusTypeOK
<1> HIDE DEF request
<1>5. \A q \in Replacers : replacement'[q] = IF q = r THEN request ELSE replacement[q]
    BY <1>2 DEF StatusIInv, StatusTypeOK
<1>6. AnswersSound'
    BY <1>2 DEF StatusIInv, AnswersSound
<1>7. ReplacementsSound'
    BY <1>1, <1>2, <1>3, <1>5 DEF StatusIInv, ReplacementsSound, StillAt
<1> QED
    BY <1>4, <1>6, <1>7 DEF StatusIInv

LEMMA ListComponentsInv ==
    ASSUME StatusIInv, NEW r \in Replacers, ListComponents(r) PROVE StatusIInv'
<1> DEFINE before == replacement[r].version
           found == IF before = 0 THEN Empty ELSE component
           To(S) == [m \in Monitors |-> IF m \notin S THEN NoId
                                        ELSE IF found[m] # NoId THEN found[m]
                                        ELSE <<r, before + 1>>]
<1>1. PICK S \in SUBSET Monitors :
         replacement' = [replacement EXCEPT ![r] =
            [pc |-> "writing", version |-> before, to |-> To(S)]]
    BY DEF ListComponents
<1>2. UNCHANGED <<page, component, visit, saved>> /\ replacement[r].pc = "listing"
    BY DEF ListComponents
<1>3. before \in Versions /\ before <= page.version /\ before < MaxVersion
    BY <1>2, StatusVersions DEF StatusIInv, ReplacementsSound, StatusTypeOK
<1>4. found \in Components
    BY DEF Empty, Components, StatusIInv, StatusTypeOK
<1>5. before + 1 \in 1..MaxVersion
    BY <1>3, StatusPageAssumption DEF Versions
<1>6. page.version = before => found = component
    BY DEF StatusIInv, AnswersSound
<1> HIDE DEF before, found
<1>7. To(S) \in Components
    BY <1>4, <1>5 DEF Components, ComponentIds
<1>8. page.version = before => \A m \in On(To(S)) \cap On(component) : To(S)[m] = component[m]
    BY <1>6 DEF On
<1> HIDE DEF To
<1> DEFINE request == [pc |-> "writing", version |-> before, to |-> To(S)]
<1>9. request.pc = "writing" /\ request.version = before /\ request.to = To(S)
    OBVIOUS
<1>10. StatusTypeOK'
    BY <1>1, <1>2, <1>3, <1>7 DEF StatusIInv, StatusTypeOK
<1> HIDE DEF request
<1>11. \A q \in Replacers : replacement'[q] = IF q = r THEN request ELSE replacement[q]
    BY <1>1 DEF StatusIInv, StatusTypeOK, request
<1>12. AnswersSound'
    BY <1>2 DEF StatusIInv, AnswersSound
<1>13. ReplacementsSound'
    BY <1>2, <1>3, <1>8, <1>9, <1>11 DEF StatusIInv, ReplacementsSound, StillAt, On
<1> QED
    BY <1>10, <1>12, <1>13 DEF StatusIInv

LEMMA ReplaceDraftInv ==
    ASSUME StatusIInv, NEW r \in Replacers, ReplaceDraft(r) PROVE StatusIInv'
<1> DEFINE to == replacement[r].to
           next == page.version + 1
<1>1. /\ replacement[r].pc = "writing" /\ replacement[r].version = page.version
      /\ Unshared /\ UNCHANGED visit /\ component' = to
    BY DEF ReplaceDraft, StillAt
<1>2. /\ page' = [page EXCEPT !.version = next]
      /\ saved' = [saved EXCEPT ![next] = to]
      /\ replacement' = [replacement EXCEPT ![r] = [pc |-> "idle"]]
    BY <1>1 DEF ReplaceDraft
<1>3. /\ page.version \in Nat /\ MaxVersion \in Nat
      /\ \A v \in Visitors : visit[v].pc # "idle" =>
            visit[v].version \in Versions /\ visit[v].version \in Nat
      /\ \A q \in Replacers : replacement[q].pc # "idle" => replacement[q].version \in Nat
    BY StatusVersions DEF StatusIInv
<1>4. page.version < MaxVersion
    BY <1>1 DEF StatusIInv, ReplacementsSound
<1>5. next \in Versions /\ next # 0 /\ to \in Components
    <2>1. to \in Components
        BY <1>1 DEF StatusIInv, StatusTypeOK
    <2> QED
        BY <1>3, <1>4, <2>1 DEF Versions
<1>6. page \in [version : Versions, token : Tokens, publications : Tokens]
    BY DEF StatusIInv, StatusTypeOK
<1>7. page'.version = next
    BY <1>2, <1>6
<1> HIDE DEF to
<1>8. StatusTypeOK'
    BY <1>1, <1>2, <1>5, <1>6 DEF StatusIInv, StatusTypeOK
<1>9. saved \in [Versions -> Components] /\ saved'[next] = to
    BY <1>2, <1>5 DEF StatusIInv, StatusTypeOK
<1>10. \A n \in Versions : n # next => saved'[n] = saved[n]
    BY <1>2, <1>9
<1>11. 0 \in Versions
    BY <1>3 DEF Versions
<1>12. AnswersSound'
    <2>1. \A v \in Visitors : visit[v].pc # "reading"
        BY <1>1 DEF Unshared
    <2>2. ASSUME NEW v \in Visitors, visit[v].pc = "answered"
          PROVE  visit[v].version <= next /\ visit[v].shown = saved'[visit[v].version]
        <3>1. /\ visit[v].version <= page.version /\ visit[v].version \in Versions
              /\ visit[v].version \in Nat /\ visit[v].shown = saved[visit[v].version]
            BY <1>3, <2>2 DEF StatusIInv, AnswersSound
        <3>2. visit[v].version # next /\ visit[v].version <= next
            BY <1>3, <3>1
        <3> QED
            BY <1>10, <3>1, <3>2
    <2>3. saved'[0] = Empty
        BY <1>5, <1>10, <1>11 DEF StatusIInv, AnswersSound
    <2> QED
        BY <1>1, <1>7, <1>9, <2>1, <2>2, <2>3 DEF AnswersSound
<1>13. ReplacementsSound'
    <2> SUFFICES ASSUME NEW q \in Replacers, replacement'[q].pc # "idle"
                 PROVE  /\ replacement'[q].version <= next
                        /\ replacement'[q].version < MaxVersion
                        /\ next # replacement'[q].version
        BY <1>7 DEF ReplacementsSound, StillAt
    <2>1. replacement'[q] = replacement[q]
        BY <1>2 DEF StatusIInv, StatusTypeOK
    <2>2. /\ replacement[q].version <= page.version /\ replacement[q].version < MaxVersion
          /\ replacement[q].version \in Nat
        BY <1>3, <2>1 DEF StatusIInv, ReplacementsSound
    <2> QED
        BY <1>3, <2>1, <2>2
<1> QED
    BY <1>8, <1>12, <1>13 DEF StatusIInv

LEMMA AbandonReplacementInv ==
    ASSUME StatusIInv, NEW r \in Replacers, AbandonReplacement(r) PROVE StatusIInv'
<1>1. /\ replacement' = [replacement EXCEPT ![r] = [pc |-> "idle"]]
      /\ UNCHANGED <<page, component, visit, saved>>
    BY DEF AbandonReplacement
<1>2. \A q \in Replacers : replacement'[q].pc # "idle" => replacement'[q] = replacement[q]
    BY <1>1 DEF StatusIInv, StatusTypeOK
<1>3. StatusTypeOK'
    BY <1>1 DEF StatusIInv, StatusTypeOK
<1>4. AnswersSound'
    BY <1>1 DEF StatusIInv, AnswersSound
<1>5. ReplacementsSound'
    BY <1>1, <1>2 DEF StatusIInv, ReplacementsSound, StillAt
<1> QED
    BY <1>3, <1>4, <1>5 DEF StatusIInv

\* A publication, or the end of one: nobody is reading.
LEMMA PublishInv == ASSUME StatusIInv, Publish \/ Revoke PROVE StatusIInv'
<1>1. UNCHANGED <<component, replacement, visit, saved>> /\ Unshared
    BY DEF Publish, Revoke
<1>2. page \in [version : Versions, token : Tokens, publications : Tokens]
    BY DEF StatusIInv, StatusTypeOK
<1>3. /\ page' \in [version : Versions, token : Tokens, publications : Tokens]
      /\ page'.version = page.version
    <2>1. CASE Publish
        <3>1. page.publications + 1 \in Tokens
            BY <1>2, <2>1, StatusPageAssumption DEF Publish, Tokens
        <3>2. page' = [page EXCEPT !.publications = page.publications + 1,
                                   !.token = page.publications + 1]
            BY <2>1 DEF Publish
        <3> QED
            BY <1>2, <3>1, <3>2
    <2>2. CASE Revoke
        <3>1. 0 \in Tokens
            BY StatusPageAssumption DEF Tokens
        <3> QED
            BY <1>2, <2>2, <3>1 DEF Revoke
    <2> QED
        BY <2>1, <2>2
<1>4. StatusTypeOK'
    BY <1>1, <1>3 DEF StatusIInv, StatusTypeOK
<1>5. AnswersSound'
    BY <1>1, <1>3 DEF StatusIInv, AnswersSound, Unshared
<1>6. ReplacementsSound'
    BY <1>1, <1>3 DEF StatusIInv, ReplacementsSound, StillAt
<1> QED
    BY <1>4, <1>5, <1>6 DEF StatusIInv

\* A visitor begins to read, has read, or goes.
LEMMA VisitInv ==
    ASSUME StatusIInv, NEW v \in Visitors,
           FindPublicPage(v) \/ ListPublicComponents(v) \/ AbandonVisit(v)
    PROVE  StatusIInv'
<1>1. UNCHANGED <<page, component, replacement, saved>>
    BY DEF FindPublicPage, ListPublicComponents, AbandonVisit
<1>2. page.version \in Versions /\ page.token \in Tokens /\ page.version <= page.version
    BY StatusVersions DEF StatusIInv, StatusTypeOK
<1>3. /\ StatusTypeOK'
      /\ \A u \in Visitors : u # v => visit'[u] = visit[u]
      /\ visit'[v].pc = "reading" =>
            visit'[v].version = page.version /\ visit'[v].token = page.token
      /\ visit'[v].pc = "answered" =>
            /\ visit'[v].version <= page.version
            /\ visit'[v].shown = saved[visit'[v].version]
    <2>1. CASE FindPublicPage(v)
        BY <1>1, <1>2, <2>1 DEF FindPublicPage, StatusIInv, StatusTypeOK
    <2>2. CASE ListPublicComponents(v)
        <3>1. visit[v].pc = "reading" /\ visit[v].version = page.version
            BY <2>2 DEF ListPublicComponents, StatusIInv, AnswersSound
        <3>2. component = saved[page.version] /\ component \in Components
            BY DEF StatusIInv, AnswersSound, StatusTypeOK
        <3>3. visit' = [visit EXCEPT ![v] =
                 [pc |-> "answered", version |-> page.version, shown |-> component]]
            BY <2>2, <3>1 DEF ListPublicComponents
        <3> QED
            BY <1>1, <1>2, <3>2, <3>3 DEF StatusIInv, StatusTypeOK
    <2>3. CASE AbandonVisit(v)
        BY <1>1, <2>3 DEF AbandonVisit, StatusIInv, StatusTypeOK
    <2> QED
        BY <2>1, <2>2, <2>3
<1>4. AnswersSound'
    BY <1>1, <1>3 DEF StatusIInv, AnswersSound
<1>5. ReplacementsSound'
    BY <1>1 DEF StatusIInv, ReplacementsSound, StillAt
<1> QED
    BY <1>3, <1>4, <1>5 DEF StatusIInv

LEMMA StatusUnchanged == StatusIInv /\ UNCHANGED statusVars => StatusIInv'
    BY DEF StatusIInv, StatusTypeOK, AnswersSound, ReplacementsSound, StillAt, statusVars

LEMMA StatusStep ==
    StatusIInv /\ [StatusNext \/ (MonitorNext /\ UNCHANGED statusVars)]_<<statusVars, monitorVars>>
        => StatusIInv'
<1> SUFFICES ASSUME StatusIInv, StatusNext \/ UNCHANGED statusVars PROVE StatusIInv'
    OBVIOUS
<1>1. CASE \E r \in Replacers : \/ FindPage(r) \/ ListComponents(r)
                               \/ ReplaceDraft(r) \/ AbandonReplacement(r)
    BY <1>1, FindPageInv, ListComponentsInv, ReplaceDraftInv, AbandonReplacementInv
<1>2. CASE Publish \/ Revoke
    BY <1>2, PublishInv
<1>3. CASE \E v \in Visitors :
              FindPublicPage(v) \/ ListPublicComponents(v) \/ AbandonVisit(v)
    BY <1>3, VisitInv
<1>4. CASE UNCHANGED statusVars
    BY <1>4, StatusUnchanged
<1> QED
    BY <1>1, <1>2, <1>3, <1>4 DEF StatusNext

\* What replacers, publishers and visitors rely on holds in every state.
THEOREM StatusInvariant == StatusSpec => []StatusIInv
    BY StatusInitInv, StatusStep, PTL DEF StatusSpec

\* A visitor sees one version of the page, whole, and only while it is published.
THEOREM StatusAnswersAreWhole == StatusSpec => []AnswersAreWhole
<1>1. StatusIInv => AnswersAreWhole
    BY DEF StatusIInv, AnswersSound, AnswersAreWhole
<1> QED
    BY <1>1, StatusInvariant, PTL

\* A Monitor that stays on the page keeps its component.
THEOREM StatusComponentsStay == StatusSpec => ComponentsStay
<1>1. ASSUME StatusIInv, NEW r \in Replacers, ReplaceDraft(r),
             NEW m \in On(component) \cap On(component)'
      PROVE  component'[m] = component[m]
    BY <1>1 DEF ReplaceDraft, StatusIInv, ReplacementsSound, On
<1>2. StatusIInv /\ [StatusNext \/ (MonitorNext /\ UNCHANGED statusVars)]_<<statusVars, monitorVars>>
      => [\A m \in On(component) \cap On(component)' : component'[m] = component[m]]_component
    <2> SUFFICES ASSUME StatusIInv, StatusNext \/ UNCHANGED statusVars
                 PROVE  [\A m \in On(component) \cap On(component)' :
                           component'[m] = component[m]]_component
        OBVIOUS
    <2>1. UNCHANGED component \/ \E r \in Replacers : ReplaceDraft(r)
        BY DEF StatusNext, FindPage, ListComponents, AbandonReplacement, Publish, Revoke,
               FindPublicPage, ListPublicComponents, AbandonVisit, statusVars
    <2> QED
        BY <1>1, <2>1
<1> QED
    BY <1>2, StatusInvariant, PTL DEF StatusSpec, ComponentsStay
=============================================================================
