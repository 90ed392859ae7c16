------------------------------ MODULE Accounts ------------------------------
(***************************************************************************)
(* internal/handler/auth.go and app.go over the tenants, apps and key      *)
(* indexes of repository/memory.go.  Register looks the address up, hashes *)
(* the password, creates a tenant, creates its first app and stores the    *)
(* account, in critical sections of two locks with nothing held between    *)
(* them; Login reads the account, compares the password and scans the      *)
(* roles.  A registration is named by the user it would make; its tenant   *)
(* and its first app carry its name as well, all three being fresh uuids.  *)
(* Keys are fresh: an app's keys are named by the app.  The bcrypt hash of *)
(* a password is the password.  Session tokens are kept nowhere, and the   *)
(* scenes of handler/scene.go cannot be reached: no route binds the app_id *)
(* its handlers look up.                                                   *)
(***************************************************************************)
EXTENDS Naturals, FiniteSets, Functions

CONSTANTS
    Regs,        \* the registrations there may be
    Email,       \* registration |-> the address it is for
    Password,    \* registration |-> the password it chooses
    Logins,      \* the logins there may be
    DemoTenant, DemoApp,  \* the seed data of the store
    NewApps,     \* the apps POST /v1/apps may create
    NewKeys,     \* the API keys POST /v1/account/api-keys may issue
    Nobody       \* no user, no tenant: the zero value of a pointer, of a string

VARIABLES
    users,       \* address |-> the user stored for it, or Nobody
    roles,       \* user and tenant pairs, all of them owners
    apiKeys,     \* tenants, by their API key
    issued,      \* API keys issued by GenerateAPIKey; no lookup reads them
    apps,        \* app |-> the tenant it belongs to
    siteKeys,    \* the index: app whose site key it is |-> app
    secretKeys,  \* the index: app whose secret key it is |-> app
    registering, \* registration |-> what it does next
    found,       \* registration |-> users stored for its address when it looked (history)
    login,       \* login |-> what it does next, and with what
    answers      \* the successful logins (history)

storeVars   == <<apiKeys, apps, siteKeys, secretKeys>>
handlerVars == <<users, roles, issued>>
vars == <<storeVars, handlerVars, registering, found, login, answers>>

Emails == {Email[r] : r \in Regs}

Tenants == {DemoTenant} \cup Regs

Init ==
    /\ users = [e \in Emails |-> Nobody] /\ roles = {} /\ issued = {}
    /\ apiKeys = {DemoTenant}
    /\ apps = [a \in {DemoApp} |-> DemoTenant]
    /\ siteKeys = [a \in {DemoApp} |-> a] /\ secretKeys = [a \in {DemoApp} |-> a]
    /\ registering = [r \in Regs |-> "lookup"]
    /\ found = [r \in Regs |-> {}]
    /\ login = [l \in Logins |-> [pc |-> "idle"]]
    /\ answers = {}
-----------------------------------------------------------------------------
(* The store's critical sections. *)

CreateApp(a, t) ==
    /\ apps' = [x \in DOMAIN apps \cup {a} |-> IF x = a THEN t ELSE apps[x]]
    /\ siteKeys' = [x \in DOMAIN siteKeys \cup {a} |-> IF x = a THEN a ELSE siteKeys[x]]
    /\ secretKeys' = [x \in DOMAIN secretKeys \cup {a} |-> IF x = a THEN a ELSE secretKeys[x]]
    /\ UNCHANGED apiKeys

\* Variant: the secret key of a deleted app stays in its index.
DeleteAppKeepingSecret(a) ==
    /\ apps' = Restrict(apps, DOMAIN apps \ {a})
    /\ siteKeys' = Restrict(siteKeys, DOMAIN siteKeys \ {a})
    /\ UNCHANGED <<secretKeys, apiKeys>>

DeleteApp(a) ==
    /\ apps' = Restrict(apps, DOMAIN apps \ {a})
    /\ siteKeys' = Restrict(siteKeys, DOMAIN siteKeys \ {a})
    /\ secretKeys' = Restrict(secretKeys, DOMAIN secretKeys \ {a})
    /\ UNCHANGED apiKeys
-----------------------------------------------------------------------------
(* POST /v1/auth/register *)

\* Variant: an address is taken as long as the app made with the account exists.
ConflictByApp(r) == users[Email[r]] \in DOMAIN apps

Conflict(r) == users[Email[r]] # Nobody

\* The first critical section; the hash is computed after it.
LookUp(r) ==
    /\ registering[r] = "lookup"
    /\ registering' = [registering EXCEPT ![r] = IF Conflict(r) THEN "refused" ELSE "tenant"]
    /\ found' = [found EXCEPT ![r] = {users[Email[r]]} \ {Nobody}]
    /\ UNCHANGED <<storeVars, handlerVars, login, answers>>

RegisterTenant(r) ==
    /\ registering[r] = "tenant"
    /\ registering' = [registering EXCEPT ![r] = "app"]
    /\ apiKeys' = apiKeys \cup {r}
    /\ UNCHANGED <<apps, siteKeys, secretKeys, handlerVars, found, login, answers>>

RegisterApp(r) ==
    /\ registering[r] = "app"
    /\ registering' = [registering EXCEPT ![r] = "account"]
    /\ CreateApp(r, r)
    /\ UNCHANGED <<handlerVars, found, login, answers>>

\* The last critical section and the 201.
RegisterAccount(r) ==
    /\ registering[r] = "account"
    /\ registering' = [registering EXCEPT ![r] = "created"]
    /\ users' = [users EXCEPT ![Email[r]] = r]
    /\ roles' = roles \cup {<<r, r>>}
    /\ UNCHANGED <<storeVars, issued, found, login, answers>>
-----------------------------------------------------------------------------
(* POST /v1/auth/login *)

\* The account is read; an unknown address is refused.
LoginRead(l, e, p) ==
    /\ login[l].pc = "idle"
    /\ users[e] # Nobody
    /\ login' = [login EXCEPT ![l] = [pc |-> "read", email |-> e, password |-> p, user |-> users[e]]]
    /\ UNCHANGED <<storeVars, handlerVars, registering, found, answers>>

\* The password is compared with the one of the account that was read.
LoginCompare(l) ==
    /\ login[l].pc = "read"
    /\ login' = [login EXCEPT ![l] =
                    IF @.password = Password[@.user] THEN [@ EXCEPT !.pc = "matched"]
                                                     ELSE [pc |-> "idle"]]
    /\ UNCHANGED <<storeVars, handlerVars, registering, found, answers>>

\* Variant: the user is looked up again by the address.
UserAgain(l) == users[login[l].email]

UserOf(l) == login[l].user

\* What the scan of the roles may find for the user; no tenant if he has no role.
TenantsOf(u) ==
    LET owned == {t \in Regs : <<u, t>> \in roles} IN
        IF owned = {} THEN {Nobody} ELSE owned

\* The second critical section, and the reply, with a tenant or without one.
LoginAnswer(l) ==
    /\ login[l].pc = "matched"
    /\ \E t \in TenantsOf(UserOf(l)) :
          answers' = answers \cup {[email |-> login[l].email, password |-> login[l].password,
                                   user |-> login[l].user, tenant |-> t]}
    /\ login' = [login EXCEPT ![l] = [pc |-> "idle"]]
    /\ UNCHANGED <<storeVars, handlerVars, registering, found>>
-----------------------------------------------------------------------------
(* The console's endpoints, for whoever sends the API key of a tenant; none of *)
(* them compares an app's tenant with the caller's.                            *)

ConsoleCreate(a, t) ==
    /\ a \notin DOMAIN apps /\ t \in apiKeys
    /\ CreateApp(a, t)
    /\ UNCHANGED <<handlerVars, registering, found, login, answers>>

ConsoleDelete(a) ==
    /\ a \in DOMAIN apps
    /\ DeleteApp(a)
    /\ UNCHANGED <<handlerVars, registering, found, login, answers>>

GenerateAPIKey(k) ==
    /\ k \notin issued
    /\ issued' = issued \cup {k}
    /\ UNCHANGED <<storeVars, users, roles, registering, found, login, answers>>

Next ==
    \/ \E r \in Regs : LookUp(r) \/ RegisterTenant(r) \/ RegisterApp(r) \/ RegisterAccount(r)
    \/ \E l \in Logins :
          \/ \E e \in Emails, r \in Regs : LoginRead(l, e, Password[r])
          \/ LoginCompare(l) \/ LoginAnswer(l)
    \/ \E a \in NewApps, t \in Tenants : ConsoleCreate(a, t)
    \/ \E a \in DOMAIN apps : ConsoleDelete(a)
    \/ \E k \in NewKeys : GenerateAPIKey(k)

Spec == Init /\ [][Next]_vars
-----------------------------------------------------------------------------
\* The types of the variables.
TypeOK ==
    /\ users \in [Emails -> Regs \cup {Nobody}] /\ roles \subseteq Regs \X Regs
    /\ apiKeys \subseteq Tenants /\ issued \subseteq NewKeys
    /\ DOMAIN apps \subseteq {DemoApp} \cup Regs \cup NewApps
    /\ \A a \in DOMAIN apps : apps[a] \in Tenants
    /\ registering \in [Regs -> {"lookup", "refused", "tenant", "app", "account", "created"}]
    /\ found \in [Regs -> SUBSET Regs]

\* Every key that an index still knows leads to an app that is there, and every app
\* is found by both its keys: GetAppBySiteKey and GetAppBySecretKey return what the
\* index says unchecked, and SiteKeyAuth reads fields of it.
KeysResolve ==
    /\ DOMAIN siteKeys = DOMAIN apps /\ \A a \in DOMAIN siteKeys : siteKeys[a] = a
    /\ DOMAIN secretKeys = DOMAIN apps /\ \A a \in DOMAIN secretKeys : secretKeys[a] = a

\* A successful login is told the tenant that the registration made whose address and
\* password were given, even if the account is replaced while the login runs.
LoginOwnTenant ==
    \A x \in answers :
        \E r \in Regs :
            /\ Email[r] = x.email /\ Password[r] = x.password
            /\ x.user = r /\ x.tenant = r /\ registering[r] = "created"

\* An account that was answered with success keeps its address, except against
\* registrations that looked the address up before it was stored: what the lock,
\* released while the password is hashed, lets through and nothing more.
ReplacedOnlyByOverlap ==
    \A r \in Regs : registering[r] = "created" =>
        \/ users[Email[r]] = r
        \/ \E q \in Regs \ {r} :
              users[Email[r]] = q /\ registering[q] = "created" /\ r \notin found[q]
=============================================================================
