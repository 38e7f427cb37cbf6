-------------------------------- MODULE Team --------------------------------
(***************************************************************************)
(* internal/user and internal/organization: who is in an instance, which   *)
(* is one team.  The first account is made by setup, the others by an      *)
(* administrator; everybody is to be a member of every Organization.       *)
(* Requests run concurrently, in any number of processes, and may break    *)
(* off between two statements or transactions.                             *)
(***************************************************************************)
EXTENDS Naturals, FiniteSets

CONSTANTS Users, Organizations

VARIABLES
    users,          \* users: the ids of the accounts
    organizations,  \* organizations
    members,        \* organization_members
    setupLock,      \* who holds the advisory lock of setup
    joining,        \* the request that creates each account
    founding        \* the request that creates each Organization

teamVars == <<users, organizations, members, setupLock, joining, founding>>

\* "existing": the Organizations there were when the account was made.
Joinings ==
    [pc : {"new", "checking", "inserting", "bootstrap", "setUp", "failed"}]
        \cup [pc : {"added", "joined"}, existing : SUBSET Organizations]
        \cup [pc : {"listed"}, existing : SUBSET Organizations, list : SUBSET Organizations]

\* "known": the accounts there were when the request came in.
Foundings ==
    [pc : {"new"}]
        \cup [pc : {"asked", "done", "failed"}, by : Users, known : SUBSET Users]
        \cup [pc : {"listed"}, by : Users, known : SUBSET Users, list : SUBSET Users]

TeamTypeOK ==
    /\ users \subseteq Users
    /\ organizations \subseteq Organizations
    /\ members \subseteq users \X organizations
    /\ setupLock \subseteq Users /\ Cardinality(setupLock) <= 1
    /\ joining \in [Users -> Joinings]
    /\ founding \in [Organizations -> Foundings]

TeamInit ==
    /\ users = {}
    /\ organizations = {}
    /\ members = {}
    /\ setupLock = {}
    /\ joining = [u \in Users |-> [pc |-> "new"]]
    /\ founding = [o \in Organizations |-> [pc |-> "new"]]

Joins(u, r) == joining' = [joining EXCEPT ![u] = r]
Founds(o, r) == founding' = [founding EXCEPT ![o] = r]

-----------------------------------------------------------------------------
\* CreateFirstAdministrator: the lock first, the look for accounts under it.
\* (Unguarded looks without it.)
Unguarded(u) == setupLock' = setupLock \cup {u}
Locks(u) == setupLock = {} /\ setupLock' = {u}

BeginSetup(u) ==
    /\ joining[u].pc = "new"
    /\ Locks(u)
    /\ Joins(u, [pc |-> "checking"])
    /\ UNCHANGED <<users, organizations, members, founding>>

CheckSetup(u) ==
    /\ joining[u].pc = "checking"
    /\ IF users = {}
       THEN Joins(u, [pc |-> "inserting"]) /\ UNCHANGED setupLock
       ELSE Joins(u, [pc |-> "failed"]) /\ setupLock' = setupLock \ {u}
    /\ UNCHANGED <<users, organizations, members, founding>>

InsertAdministrator(u) ==
    /\ joining[u].pc = "inserting"
    /\ users' = users \cup {u}
    /\ setupLock' = setupLock \ {u}
    /\ Joins(u, [pc |-> "bootstrap"])
    /\ UNCHANGED <<organizations, members, founding>>

-----------------------------------------------------------------------------
\* createUser asks for an administrator, so there is none before setup.
InsertUser(u) ==
    /\ joining[u].pc = "new"
    /\ users # {}
    /\ users' = users \cup {u}
    /\ Joins(u, [pc |-> "added", existing |-> organizations])
    /\ UNCHANGED <<organizations, members, setupLock, founding>>

ListOrganizations(u) ==
    LET r == joining[u] IN
    /\ r.pc = "added"
    /\ Joins(u, [pc |-> "listed", existing |-> r.existing, list |-> organizations])
    /\ UNCHANGED <<users, organizations, members, setupLock, founding>>

CreateMemberships(u) ==
    LET r == joining[u] IN
    /\ r.pc = "listed"
    /\ members' = members \cup {u} \X r.list
    /\ Joins(u, [pc |-> "joined", existing |-> r.existing])
    /\ UNCHANGED <<users, organizations, setupLock, founding>>

-----------------------------------------------------------------------------
\* Provision, which setup calls as well.
Provision(o, u) ==
    /\ founding[o].pc = "new"
    /\ u \in users
    /\ Founds(o, [pc |-> "asked", by |-> u, known |-> users])
    /\ UNCHANGED <<users, organizations, members, setupLock, joining>>

ProvisionBootstrap(o, u) ==
    /\ joining[u].pc = "bootstrap"
    /\ founding[o].pc = "new"
    /\ Founds(o, [pc |-> "asked", by |-> u, known |-> users])
    /\ Joins(u, [pc |-> "setUp"])
    /\ UNCHANGED <<users, organizations, members, setupLock>>

ListUsers(o) ==
    LET r == founding[o] IN
    /\ r.pc = "asked"
    /\ Founds(o, [pc |-> "listed", by |-> r.by, known |-> r.known, list |-> users])
    /\ UNCHANGED <<users, organizations, members, setupLock, joining>>

\* (OnlyTheCreator does not invite the others.)
OnlyTheCreator(o) == {founding[o].by}
NewMembers(o) == founding[o].list \cup {founding[o].by}

CreateOrganization(o) ==
    LET r == founding[o] IN
    /\ r.pc = "listed"
    /\ organizations' = organizations \cup {o}
    /\ members' = members \cup NewMembers(o) \X {o}
    /\ Founds(o, [pc |-> "done", by |-> r.by, known |-> r.known])
    /\ UNCHANGED <<users, setupLock, joining>>

-----------------------------------------------------------------------------
\* A request is refused, fails or breaks off with its process; an open transaction
\* is rolled back and its lock released.
BreakJoining(u) ==
    /\ joining[u].pc \notin {"joined", "setUp", "failed"}
    /\ Joins(u, [pc |-> "failed"])
    /\ setupLock' = setupLock \ {u}
    /\ UNCHANGED <<users, organizations, members, founding>>

BreakFounding(o) ==
    LET r == founding[o] IN
    /\ r.pc \in {"asked", "listed"}
    /\ Founds(o, [pc |-> "failed", by |-> r.by, known |-> r.known])
    /\ UNCHANGED <<users, organizations, members, setupLock, joining>>

TeamNext ==
    \/ \E u \in Users :
          \/ BeginSetup(u) \/ CheckSetup(u) \/ InsertAdministrator(u)
          \/ InsertUser(u) \/ ListOrganizations(u) \/ CreateMemberships(u)
          \/ BreakJoining(u)
    \/ \E o \in Organizations, u \in Users : Provision(o, u) \/ ProvisionBootstrap(o, u)
    \/ \E o \in Organizations :
          ListUsers(o) \/ CreateOrganization(o) \/ BreakFounding(o)

TeamSpec == TeamInit /\ [][TeamNext]_teamVars

-----------------------------------------------------------------------------
\* Setup makes one account, however many servers are asked to set up at once.
SetupOnce ==
    \A u, v \in Users :
        (joining[u].pc \in {"bootstrap", "setUp"} /\ joining[v].pc \in {"bootstrap", "setUp"})
           => u = v

\* The comment on createUser: an account that misses an Organization has one of two
\* excuses.  It did not exist when that Organization was asked for; and either its own
\* creation has not come to its end, or the Organization did not exist before it, so
\* that the two creations overlapped.
GapsExplained ==
    \A u \in users, o \in organizations : <<u, o>> \notin members =>
        /\ u \notin founding[o].known
        /\ joining[u].pc = "joined" => o \notin joining[u].existing
=============================================================================
