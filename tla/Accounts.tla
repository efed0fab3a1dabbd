------------------------------ MODULE Accounts ------------------------------
(***************************************************************************)
(* User accounts: the seeding of the default administrator by every process *)
(* that starts, registration, login, and the life of the tokens that login  *)
(* issues.  Several API processes and the seed command share one table of   *)
(* users, whose UNIQUE constraint on email is the only thing that is atomic. *)
(***************************************************************************)
EXTENDS Naturals

CONSTANTS
    Servers,          \* API processes
    Seeders,          \* runs of cmd/seed
    Clients,          \* clients, each with the last token it was given
    UserIds,          \* ids that new users may get
    Addresses,        \* e-mail addresses in normal form
    AdminAddress,     \* defaultAdminEmail
    Roles, RoleAdmin,
    Passwords, SeedPassword,
    TicksPerSecond,   \* resolution of the clock
    Expiry,           \* JWT_EXPIRATION_MINUTES, in seconds
    MaxTime,          \* bound on the clock, in ticks
    None              \* no user, no token

ASSUME AccountsAssumption ==
    /\ AdminAddress \in Addresses
    /\ RoleAdmin \in Roles
    /\ SeedPassword \in Passwords
    /\ TicksPerSecond \in Nat \ {0}
    /\ Expiry \in Nat \ {0}
    /\ MaxTime \in Nat

VARIABLES
    users,   \* the users table
    proc,    \* where each process is in its start-up
    token,   \* the token each client holds
    clock,
    outage   \* whether statements may fail

vars == <<users, proc, token, clock, outage>>

-----------------------------------------------------------------------------

Processes == Servers \cup Seeders

\* An e-mail as a client may write it: an address, in normal form or not (other
\* case, surrounding blanks).
Email == [address : Addresses, normal : BOOLEAN]
Admin == [address |-> AdminAddress, normal |-> TRUE]

\* A stored user; its e-mail is in normal form.
User == [email : [address : Addresses, normal : {TRUE}], role : Roles, password : Passwords,
         active : BOOLEAN]

ASSUME UserAssumption == None \notin User

\* exp is in seconds; issued is history, the moment of the Login.
Token == [sub : UserIds, role : Roles, exp : Nat, issued : Nat]

\* Mutant: only the look-up ignores case and blanks.
normalizeEmailNot(e) == e

normalizeEmail(e) == [e EXCEPT !.normal = TRUE]

FindByEmail(e) == {u \in UserIds : users[u] # None /\ users[u].email = e}

\* INSERT INTO users under a fresh id; the constraint was found to hold.  New
\* users are active, and nothing in the repository deactivates one.
Insert(e, role, password) ==
    \E u \in UserIds :
        /\ users[u] = None
        /\ users' = [users EXCEPT ![u] = [email |-> e, role |-> role, password |-> password,
                                            active |-> TRUE]]

-----------------------------------------------------------------------------
(* Start-up: SeedDefaultAdmin, then serve (or, for cmd/seed, exit). *)

At(p, pc) == proc' = [proc EXCEPT ![p] = pc]

Start(p) ==
    /\ proc[p] \in {"down", "failed"}
    /\ At(p, "find")
    /\ UNCHANGED <<users, token, clock, outage>>

\* FindByEmail of the administrator: there is one, there is none, or the
\* statement fails and the process exits with the error.
SeedFind(p) ==
    /\ proc[p] = "find"
    /\ \/ At(p, IF FindByEmail(Admin) # {} THEN "up" ELSE "create")
       \/ outage /\ At(p, "failed")
    /\ UNCHANGED <<users, token, clock, outage>>

\* Mutant: ErrEmailTaken is an error like any other.
SeedConflictFails == "failed"

\* ErrEmailTaken: another process was faster, which is as good.
SeedConflict == "up"

\* Create of the administrator; a statement that fails may have taken effect.
SeedCreate(p) ==
    /\ proc[p] = "create"
    /\ \/ FindByEmail(Admin) # {} /\ At(p, SeedConflict) /\ UNCHANGED users
       \/ /\ FindByEmail(Admin) = {}
          /\ Insert(Admin, RoleAdmin, SeedPassword)
          /\ At(p, "up") \/ (outage /\ At(p, "failed"))
       \/ outage /\ At(p, "failed") /\ UNCHANGED users
    /\ UNCHANGED <<token, clock, outage>>

\* A process ends or is killed; one killed while it seeds is one that failed.
Stop(p) ==
    /\ proc[p] = "up"
    /\ At(p, "down")
    /\ UNCHANGED <<users, token, clock, outage>>

-----------------------------------------------------------------------------
(* Requests. *)

\* Mutant: the API listens before it has seeded.
ServingEarly == \E p \in Servers : proc[p] \notin {"down", "failed"}

\* Some API process is listening.
Serving == \E p \in Servers : proc[p] = "up"

\* Register, with a body that validateRegister and ParseRole accept.  A taken
\* e-mail is answered 409; a request that fails has no effect, or (its reply lost)
\* the same.
Register ==
    /\ Serving
    /\ \E e \in Email, role \in Roles, password \in Passwords :
          /\ FindByEmail(normalizeEmail(e)) = {}
          /\ Insert(normalizeEmail(e), role, password)
    /\ UNCHANGED <<proc, token, clock, outage>>

\* Issue at the present moment: exp is truncated to a second.
Issue(u) ==
    [sub |-> u, role |-> users[u].role,
     exp |-> (clock + Expiry * TicksPerSecond) \div TicksPerSecond, issued |-> clock]

\* Login of an active user with the right password; any other is answered 401.
Login(c) ==
    /\ Serving
    /\ \E e \in Email, password \in Passwords, u \in UserIds :
          /\ u \in FindByEmail(normalizeEmail(e))
          /\ users[u].password = password
          /\ users[u].active
          /\ token' = [token EXCEPT ![c] = Issue(u)]
    /\ UNCHANGED <<users, proc, clock, outage>>

\* Mutant: a token is still good at the second of its expiry.
VerifyLate(t) == clock <= t.exp * TicksPerSecond

\* Verify of a token this service signed: it is good before its expiry.
Verify(t) == clock < t.exp * TicksPerSecond

\* The database and the way to it recover: from now on no statement fails.
OutageEnds ==
    /\ outage
    /\ outage' = FALSE
    /\ UNCHANGED <<users, proc, token, clock>>

Tick ==
    /\ clock < MaxTime
    /\ clock' = clock + 1
    /\ UNCHANGED <<users, proc, token, outage>>

Init ==
    /\ users = [u \in UserIds |-> None]
    /\ proc = [p \in Processes |-> "down"]
    /\ token = [c \in Clients |-> None]
    /\ clock = 0
    /\ outage = TRUE

Next ==
    \/ \E p \in Processes : Start(p) \/ SeedFind(p) \/ SeedCreate(p) \/ Stop(p)
    \/ Register
    \/ \E c \in Clients : Login(c)
    \/ OutageEnds
    \/ Tick

Spec == Init /\ [][Next]_vars

\* A process that has begun to seed goes on; it is started, stopped and asked
\* at will.
Fairness == \A p \in Processes : WF_vars(SeedFind(p)) /\ WF_vars(SeedCreate(p))

FairSpec == Spec /\ Fairness

-----------------------------------------------------------------------------
(* Properties. *)

\* Every variable has its type, and only the normal form of an e-mail is stored.
AccountsTypeOK ==
    /\ users \in [UserIds -> User \cup {None}]
    /\ proc \in [Processes -> {"down", "find", "create", "up", "failed"}]
    /\ token \in [Clients -> Token \cup {None}]
    /\ clock \in 0..MaxTime
    /\ outage \in BOOLEAN

\* No two accounts belong to one address, however it was written and however
\* seeds and registrations race.
AddressesUnique ==
    \A u, v \in UserIds :
        /\ users[u] # None
        /\ users[v] # None
        /\ users[u].email.address = users[v].email.address
        => u = v

\* The default administrator's address belongs to the seeded account: the API
\* serves only after SeedDefaultAdmin succeeded, so no registration comes first,
\* whatever processes start, fail and race.
AdminIsSeeded ==
    \A u \in UserIds :
        users[u] # None /\ users[u].email.address = AdminAddress
            => users[u].role = RoleAdmin /\ users[u].password = SeedPassword

\* A token is good for less than the configured time, and for more than that time
\* less one second: the truncation of exp costs at most a second.
TokenLifetime ==
    \A c \in Clients : token[c] # None =>
        LET age == clock - token[c].issued
        IN  /\ Verify(token[c]) => age < Expiry * TicksPerSecond
            /\ age <= (Expiry - 1) * TicksPerSecond => Verify(token[c])

\* A process that is up has seen or made the seeded account.
UpMeansSeeded == (\E p \in Processes : proc[p] = "up") => FindByEmail(Admin) # {}

\* The inductive invariant.
AccountsInv == AccountsTypeOK /\ UpMeansSeeded /\ AddressesUnique /\ AdminIsSeeded

\* Once statements no longer fail, a process at work on its seed gets through,
\* also when it loses the race for the INSERT, and whatever earlier failures left
\* in the table.
SeedingSucceeds ==
    \A p \in Processes : ~outage /\ proc[p] \in {"find", "create"} ~> proc[p] = "up"

=============================================================================
