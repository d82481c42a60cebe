-------------------------------- MODULE Login --------------------------------
(***************************************************************************)
(* Who may come in: the login limiter (internal/auth/ratelimit.go), the    *)
(* account and its sessions (internal/auth/auth.go), and the handlers of   *)
(* setup, login and logout (internal/api/auth.go).  A handler takes the    *)
(* limiter's mutex and the database several times; the program is killed   *)
(* and started again, and `recodarr reset-admin` runs as a process of its  *)
(* own.                                                                    *)
(***************************************************************************)
EXTENDS Integers, FiniteSets, Sequences

CONSTANTS
    Client,      \* client addresses
    Request,     \* requests handled at the same time
    Token,       \* session tokens, none given out twice
    NoClient,
    MaxEntries,  \* maxEntries
    Backoff(_),  \* the wait after so many failures
    Retention,   \* retentionAfterReady
    MaxFailures, \* bound: from here on the back-off stays the same
    MaxTime,     \* bound: how long the clock runs
    MaxAccounts  \* bound: how often an account is made

VARIABLES
    now,        \* the clock
    failures,   \* failures[c]: of the limiter's entry of client c, 0 without an entry
    nextOK,     \* nextOK[c]: when the entry lets c try again
    accounts,   \* admin_users: ids of the rows
    created,    \* the ids given out so far are 1..created (sqlite_sequence)
    sessions,   \* sessions[t]: the user_id of the row with token t, 0 without a row
    issued,     \* the tokens given out
    phase,      \* phase[r]: where request r is
    client,     \* client[r]: who sent it
    user        \* user[r]: the account whose password it gave

limiterVars == <<failures, nextOK>>
accountVars == <<accounts, created>>
sessionVars == <<sessions, issued>>
requestVars == <<phase, client, user>>
vars == <<now, limiterVars, accountVars, sessionVars, requestVars>>

Account == 1..MaxAccounts

TypeOK ==
    /\ now \in 0..MaxTime
    /\ failures \in [Client -> 0..MaxFailures] /\ nextOK \in [Client -> Nat]
    /\ accounts \subseteq Account /\ created \in 0..MaxAccounts
    /\ sessions \in [Token -> 0..MaxAccounts] /\ issued \subseteq Token
    /\ phase \in [Request -> {"idle", "verify", "reset", "made", "session"}]
    /\ client \in [Request -> Client \cup {NoClient}] /\ user \in [Request -> 0..MaxAccounts]

Init ==
    /\ now = 0
    /\ failures = [c \in Client |-> 0] /\ nextOK = [c \in Client |-> 0]
    /\ accounts = {} /\ created = 0
    /\ sessions = [t \in Token |-> 0] /\ issued = {}
    /\ phase = [r \in Request |-> "idle"]
    /\ client = [r \in Request |-> NoClient] /\ user = [r \in Request |-> 0]

-----------------------------------------------------------------------------
(* LoginLimiter *)

\* backoffFor, in seconds: what Backoff is in the program.
BackoffFor(n) ==
    IF n <= 3 THEN 0 ELSE IF n > 10 THEN 300 ELSE <<2, 4, 8, 16, 30, 60, 120>>[n - 3]

Entries == {c \in Client : failures[c] > 0}

Locked(c) == failures[c] > 0 /\ nextOK[c] > now

\* sweepLocked: entries that have been ready for a while are forgotten.
Swept == {c \in Entries : nextOK[c] < now - Retention}

\* Mutant: the entry that is ready last is evicted.
EvictLatest(kept) ==
    IF Cardinality(kept) < MaxEntries THEN {{}}
    ELSE {{c} : c \in {c \in kept : \A d \in kept : nextOK[c] >= nextOK[d]}}

\* The entries a new one may push out: evictOldestLocked takes the one that
\* has been ready the longest, any of them if there are several.
Evicted(kept) ==
    IF Cardinality(kept) < MaxEntries THEN {{}}
    ELSE {{c} : c \in {c \in kept : \A d \in kept : nextOK[c] <= nextOK[d]}}

Forgotten(c) == IF failures[c] > 0 THEN {{}} ELSE {Swept \cup out : out \in Evicted(Entries \ Swept)}

\* RegisterFailure: a new entry makes room for itself first.
RegisterFailure(c) ==
    \E gone \in Forgotten(c) :
      LET n == IF failures[c] < MaxFailures THEN failures[c] + 1 ELSE MaxFailures IN
        /\ failures' = [d \in Client |-> IF d = c THEN n ELSE IF d \in gone THEN 0 ELSE failures[d]]
        /\ nextOK' = [d \in Client |-> IF d = c THEN now + Backoff(n) ELSE IF d \in gone THEN 0 ELSE nextOK[d]]

\* Reset
Forget(c) ==
    /\ failures' = [failures EXCEPT ![c] = 0]
    /\ nextOK' = [nextOK EXCEPT ![c] = 0]

-----------------------------------------------------------------------------
(* authLogin *)

Goes(r, here, there) == phase[r] = here /\ phase' = [phase EXCEPT ![r] = there]

Answered(r) ==
    /\ phase' = [phase EXCEPT ![r] = "idle"]
    /\ client' = [client EXCEPT ![r] = NoClient]
    /\ user' = [user EXCEPT ![r] = 0]

\* Allow: a client that is locked out is refused.
StartLogin(r, c) ==
    /\ Goes(r, "idle", "verify")
    /\ ~Locked(c)
    /\ client' = [client EXCEPT ![r] = c]
    /\ UNCHANGED <<now, limiterVars, accountVars, sessionVars, user>>

\* VerifyPassword finds the account, and the password is right.
RightPassword(r) ==
    /\ Goes(r, "verify", "reset")
    /\ \E a \in accounts : user' = [user EXCEPT ![r] = a]
    /\ UNCHANGED <<now, limiterVars, accountVars, sessionVars, client>>

\* Or it is wrong, or cannot be checked.
WrongPassword(r) ==
    /\ phase[r] = "verify"
    /\ RegisterFailure(client[r])
    /\ Answered(r)
    /\ UNCHANGED <<now, accountVars, sessionVars>>

\* The client's failures are forgotten.
ResetClient(r) ==
    /\ Goes(r, "reset", "session")
    /\ Forget(client[r])
    /\ UNCHANGED <<now, accountVars, sessionVars, client, user>>

\* Mutant: foreign keys are not enforced.
AnyUser == {0} \cup 1..MaxAccounts

\* A session's user_id refers to a row of admin_users (foreign_keys=1).
Referable == accounts

\* CreateSession fails if the account is gone.
CreateSession(r) ==
    /\ phase[r] = "session"
    /\ IF user[r] \in Referable
       THEN \E t \in Token \ issued :
              /\ sessions' = [sessions EXCEPT ![t] = user[r]]
              /\ issued' = issued \cup {t}
       ELSE UNCHANGED sessionVars
    /\ Answered(r)
    /\ UNCHANGED <<now, limiterVars, accountVars>>

-----------------------------------------------------------------------------
(* authSetup, authLogout, reset-admin *)

\* CreateAdmin: INSERT ... WHERE NOT EXISTS, one statement.
NoAdmin == accounts = {}

\* A setup makes the account, or is refused.
Setup(r) ==
    /\ Goes(r, "idle", "made")
    /\ NoAdmin /\ created < MaxAccounts
    /\ created' = created + 1
    /\ accounts' = accounts \cup {created'}
    /\ UNCHANGED <<now, limiterVars, sessionVars, client, user>>

\* It then logs in with the password it has set: the account it finds is its
\* own, or one that was made since with the same name and password.
SetupVerifies(r) ==
    /\ phase[r] = "made"
    /\ \/ /\ phase' = [phase EXCEPT ![r] = "session"]
          /\ \E a \in accounts : user' = [user EXCEPT ![r] = a]
          /\ UNCHANGED client
       \/ Answered(r)
    /\ UNCHANGED <<now, limiterVars, accountVars, sessionVars>>

\* The row of a session is deleted: logout, or it was found to be expired
\* (LookupSession, PurgeExpiredSessions).
EndSession(t) ==
    /\ sessions[t] # 0
    /\ sessions' = [sessions EXCEPT ![t] = 0]
    /\ UNCHANGED <<now, limiterVars, accountVars, issued, requestVars>>

\* ResetAdmin: one transaction.
ResetAdmin ==
    /\ sessions' = [t \in Token |-> 0]
    /\ accounts' = {}
    /\ UNCHANGED <<now, limiterVars, created, issued, requestVars>>

Tick ==
    /\ now < MaxTime
    /\ now' = now + 1
    /\ UNCHANGED <<limiterVars, accountVars, sessionVars, requestVars>>

\* The limiter is in memory, the tables are not.
Restart ==
    /\ failures' = [c \in Client |-> 0] /\ nextOK' = [c \in Client |-> 0]
    /\ phase' = [r \in Request |-> "idle"]
    /\ client' = [r \in Request |-> NoClient] /\ user' = [r \in Request |-> 0]
    /\ UNCHANGED <<now, accountVars, sessionVars>>

Handle(r) ==
    \/ \E c \in Client : StartLogin(r, c)
    \/ RightPassword(r) \/ WrongPassword(r) \/ ResetClient(r) \/ CreateSession(r)
    \/ Setup(r) \/ SetupVerifies(r)

Next ==
    \/ \E r \in Request : Handle(r)
    \/ \E t \in Token : EndSession(t)
    \/ ResetAdmin \/ Tick \/ Restart

Spec == Init /\ [][Next]_vars

-----------------------------------------------------------------------------
(* Properties *)

\* There is at most one account, and every session is of an account that
\* exists, though accounts are wiped and made anew while logins are under way: who
\* gave the password of an account that is gone by then gets no session of the
\* next one (CreateAdmin, CreateSession, ResetAdmin).
SessionsAreOwned ==
    /\ \A a, b \in accounts : a = b
    /\ \A t \in Token : sessions[t] # 0 => sessions[t] \in accounts

\* A client that is locked out stays so until then, whatever other clients and
\* its own earlier requests do, unless its own login succeeds, the program is
\* started again, or more clients than the limiter holds are locked out.
LockoutIsKept ==
    [][ \A c \in Client : Locked(c) =>
          \/ failures'[c] > 0 /\ nextOK'[c] >= nextOK[c]
          \/ \E r \in Request : ResetClient(r) /\ client[r] = c
          \/ Restart
          \/ Cardinality(Entries) >= MaxEntries /\ \A d \in Entries : Locked(d) ]_vars

=============================================================================
