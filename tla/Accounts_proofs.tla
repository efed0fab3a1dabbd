-------------------------- MODULE Accounts_proofs --------------------------
(***************************************************************************)
(* Accounts, for any number of processes, clients, users and addresses.     *)
(***************************************************************************)
EXTENDS Accounts, TLAPS

\* Before the first process starts the invariant holds.
LEMMA AccountsInitially == Init => AccountsInv
  BY AccountsAssumption
     DEF Init, AccountsInv, AccountsTypeOK, UpMeansSeeded, AddressesUnique, AdminIsSeeded

\* What the INSERT of a user does to the table when its address is free: the
\* types and the uniqueness of addresses are kept.
LEMMA InsertKeeps ==
  ASSUME AccountsInv, NEW e \in Email, e.normal = TRUE, FindByEmail(e) = {},
         NEW role \in Roles, NEW password \in Passwords, Insert(e, role, password),
         e.address = AdminAddress => role = RoleAdmin /\ password = SeedPassword
  PROVE  /\ users' \in [UserIds -> User \cup {None}]
         /\ AddressesUnique'
         /\ AdminIsSeeded'
         /\ FindByEmail(Admin) # {} => FindByEmail(Admin)' # {}
         /\ e = Admin => FindByEmail(Admin)' # {}
  <1> DEFINE row == [email |-> e, role |-> role, password |-> password, active |-> TRUE]
  <1>1. PICK u \in UserIds : users[u] = None /\ users' = [users EXCEPT ![u] = row]
    BY DEF Insert
  <1>2. users \in [UserIds -> User \cup {None}]
    BY DEF AccountsInv, AccountsTypeOK
  <1>3. e = [address |-> e.address, normal |-> TRUE] /\ e.address \in Addresses
    BY DEF Email
  <1>4. row \in User /\ row # None
    <2>1. e \in [address : Addresses, normal : {TRUE}]
      BY <1>3
    <2>2. row \in User
      BY <2>1 DEF User
    <2> QED
      BY <2>2, UserAssumption
  <1>5. users'[u] = row /\ \A v \in UserIds \ {u} : users'[v] = users[v]
    BY <1>1, <1>2
  <1>6. users' \in [UserIds -> User \cup {None}]
    BY <1>1, <1>2, <1>4
  <1>7. \A v \in UserIds : users[v] # None => users[v].email.address # e.address
    <2> SUFFICES ASSUME NEW v \in UserIds, users[v] # None, users[v].email.address = e.address
                 PROVE  FALSE
      OBVIOUS
    <2>1. users[v] \in User
      BY <1>2
    <2>2. users[v].email = [address |-> e.address, normal |-> TRUE]
      BY <2>1 DEF User
    <2> QED
      BY <1>3, <2>2 DEF FindByEmail
  <1>8. AddressesUnique'
    BY <1>4, <1>5, <1>7 DEF AccountsInv, AddressesUnique
  <1>9. AdminIsSeeded'
    BY <1>4, <1>5 DEF AccountsInv, AdminIsSeeded
  <1>10. FindByEmail(Admin) # {} => FindByEmail(Admin)' # {}
    BY <1>1, <1>5 DEF FindByEmail
  <1>11. e = Admin => FindByEmail(Admin)' # {}
    BY <1>4, <1>5 DEF FindByEmail
  <1> QED
    BY <1>6, <1>8, <1>9, <1>10, <1>11

\* Every step keeps the invariant.
LEMMA AccountsStep == AccountsInv /\ [Next]_vars => AccountsInv'
  <1> SUFFICES ASSUME AccountsInv, [Next]_vars PROVE AccountsInv'
    OBVIOUS
  <1> USE AccountsAssumption
  <1>a. /\ users \in [UserIds -> User \cup {None}]
        /\ proc \in [Processes -> {"down", "find", "create", "up", "failed"}]
        /\ token \in [Clients -> Token \cup {None}]
        /\ clock \in 0..MaxTime
        /\ outage \in BOOLEAN
    BY DEF AccountsInv, AccountsTypeOK
  <1>b. Admin \in Email /\ Admin.normal = TRUE /\ Admin.address = AdminAddress
    BY DEF Admin, Email
  <1>c. ASSUME users' = users
        PROVE  AddressesUnique' /\ AdminIsSeeded' /\ FindByEmail(Admin)' = FindByEmail(Admin)
    BY <1>c DEF AccountsInv, AddressesUnique, AdminIsSeeded, FindByEmail
  <1>1. ASSUME NEW p \in Processes, Start(p) PROVE AccountsInv'
    BY <1>1, <1>a, <1>c DEF Start, At, AccountsInv, AccountsTypeOK, UpMeansSeeded
  <1>2. ASSUME NEW p \in Processes, SeedFind(p) PROVE AccountsInv'
    BY <1>2, <1>a, <1>c DEF SeedFind, At, AccountsInv, AccountsTypeOK, UpMeansSeeded
  <1>3. ASSUME NEW p \in Processes, SeedCreate(p) PROVE AccountsInv'
    <2>1. CASE /\ users' = users
               /\ proc[p] = "create"
               /\ \/ FindByEmail(Admin) # {} /\ At(p, "up")
                  \/ At(p, "failed")
               /\ UNCHANGED <<token, clock, outage>>
      BY <1>a, <1>c, <2>1 DEF At, AccountsInv, AccountsTypeOK, UpMeansSeeded
    <2>2. CASE Insert(Admin, RoleAdmin, SeedPassword) /\ FindByEmail(Admin) = {}
      <3>1. /\ users' \in [UserIds -> User \cup {None}]
            /\ AddressesUnique'
            /\ AdminIsSeeded'
            /\ FindByEmail(Admin)' # {}
        BY <1>b, <2>2, InsertKeeps
      <3> QED
        BY <1>3, <1>a, <2>2, <3>1 DEF SeedCreate, At, AccountsInv, AccountsTypeOK, UpMeansSeeded
    <2> QED
      BY <1>3, <2>1, <2>2 DEF SeedCreate, SeedConflict
  <1>4. ASSUME NEW p \in Processes, Stop(p) PROVE AccountsInv'
    BY <1>4, <1>a, <1>c DEF Stop, At, AccountsInv, AccountsTypeOK, UpMeansSeeded
  <1>5. ASSUME Register PROVE AccountsInv'
    <2>1. PICK e \in Email, role \in Roles, password \in Passwords :
             /\ FindByEmail(normalizeEmail(e)) = {}
             /\ Insert(normalizeEmail(e), role, password)
      BY <1>5 DEF Register
    <2> DEFINE n == normalizeEmail(e)
    <2>2. n \in Email /\ n.normal = TRUE
      BY DEF normalizeEmail, Email
    <2>3. FindByEmail(Admin) # {}
      BY <1>5 DEF Register, Serving, Processes, AccountsInv, UpMeansSeeded
    <2>4. n.address # AdminAddress
      <3> SUFFICES ASSUME n.address = AdminAddress PROVE FALSE
        OBVIOUS
      <3>1. n = Admin
        BY <2>2 DEF Admin, Email
      <3> QED
        BY <2>1, <2>3, <3>1
    <2> HIDE DEF n
    <2>5. /\ users' \in [UserIds -> User \cup {None}]
          /\ AddressesUnique'
          /\ AdminIsSeeded'
          /\ FindByEmail(Admin)' # {}
      BY <2>1, <2>2, <2>3, <2>4, InsertKeeps DEF n
    <2> QED
      BY <1>5, <1>a, <2>5 DEF Register, AccountsInv, AccountsTypeOK, UpMeansSeeded
  <1>6. ASSUME NEW c \in Clients, Login(c) PROVE AccountsInv'
    <2>1. PICK u \in UserIds : users[u] # None /\ token' = [token EXCEPT ![c] = Issue(u)]
      BY <1>6 DEF Login, FindByEmail
    <2>2. users[u].role \in Roles
      BY <1>a, <2>1 DEF User
    <2>3. (clock + Expiry * TicksPerSecond) \div TicksPerSecond \in Nat
      <3>1. clock + Expiry * TicksPerSecond \in Nat
        BY <1>a
      <3> QED
        BY <3>1
    <2>4. Issue(u) \in Token
      BY <1>a, <2>2, <2>3 DEF Issue, Token
    <2> QED
      BY <1>6, <1>a, <1>c, <2>1, <2>4 DEF Login, AccountsInv, AccountsTypeOK, UpMeansSeeded
  <1>7. ASSUME Tick PROVE AccountsInv'
    BY <1>7, <1>a, <1>c DEF Tick, AccountsInv, AccountsTypeOK, UpMeansSeeded
  <1>8. ASSUME OutageEnds PROVE AccountsInv'
    BY <1>8, <1>a, <1>c DEF OutageEnds, AccountsInv, AccountsTypeOK, UpMeansSeeded
  <1>9. CASE UNCHANGED vars
    BY <1>9, <1>a, <1>c DEF vars, AccountsInv, AccountsTypeOK, UpMeansSeeded
  <1> QED
    BY <1>1, <1>2, <1>3, <1>4, <1>5, <1>6, <1>7, <1>8, <1>9 DEF Next

\* The inductive invariant holds in every reachable state.
THEOREM AccountsInvariant == Spec => []AccountsInv
  BY AccountsInitially, AccountsStep, PTL DEF Spec

\* Every variable of the accounts keeps its type: processes, tokens, users.
THEOREM AccountsTypeCorrect == Spec => []AccountsTypeOK
  <1>1. AccountsInv => AccountsTypeOK
    BY DEF AccountsInv
  <1> QED
    BY <1>1, AccountsInvariant, PTL

\* Register and SeedDefaultAdmin never make two accounts of one address.
THEOREM AddressesAreUnique == Spec => []AddressesUnique
  <1>1. AccountsInv => AddressesUnique
    BY DEF AccountsInv
  <1> QED
    BY <1>1, AccountsInvariant, PTL

\* The administrator's address belongs to the account SeedDefaultAdmin makes.
THEOREM AdminAccountIsSeeded == Spec => []AdminIsSeeded
  <1>1. AccountsInv => AdminIsSeeded
    BY DEF AccountsInv
  <1> QED
    BY <1>1, AccountsInvariant, PTL

\* Truncating to seconds loses less than one.
LEMMA Truncation ==
  ASSUME NEW n \in Nat, NEW t \in Nat \ {0}
  PROVE  /\ n \div t \in Nat
         /\ (n \div t) * t <= n
         /\ n < (n \div t) * t + t
  OBVIOUS

\* What a token that a client holds is made of.
TokenIsExact ==
    \A c \in Clients : token[c] # None =>
        /\ token[c].issued \in Nat /\ token[c].issued <= clock
        /\ token[c].exp * TicksPerSecond \in Nat
        /\ token[c].exp * TicksPerSecond <= token[c].issued + Expiry * TicksPerSecond
        /\ token[c].issued + Expiry * TicksPerSecond < token[c].exp * TicksPerSecond + TicksPerSecond

LEMMA TokenIsExactStep == AccountsTypeOK /\ TokenIsExact /\ [Next]_vars => TokenIsExact'
  <1> SUFFICES ASSUME AccountsTypeOK, TokenIsExact, [Next]_vars PROVE TokenIsExact'
    OBVIOUS
  <1>1. clock \in Nat /\ Expiry * TicksPerSecond \in Nat
    BY AccountsAssumption DEF AccountsTypeOK
  <1>2. ASSUME NEW c \in Clients, Login(c) PROVE TokenIsExact'
    <2>1. PICK u \in UserIds : token' = [token EXCEPT ![c] = Issue(u)]
      BY <1>2 DEF Login
    <2> DEFINE n == clock + Expiry * TicksPerSecond
    <2> DEFINE q == n \div TicksPerSecond
    <2>2. /\ token'[c].issued = clock /\ token'[c].exp = q
          /\ \A d \in Clients : d # c => token'[d] = token[d]
      BY <2>1 DEF AccountsTypeOK, Issue
    <2>3. n \in Nat
      BY <1>1
    <2>4. q \in Nat /\ q * TicksPerSecond <= n /\ n < q * TicksPerSecond + TicksPerSecond
      BY <2>3, AccountsAssumption, Truncation
    <2>5. q * TicksPerSecond \in Nat
      BY <2>4, AccountsAssumption
    <2>6. clock' = clock
      BY <1>2 DEF Login
    <2> HIDE DEF q
    <2> QED
      BY <1>1, <2>2, <2>4, <2>5, <2>6 DEF TokenIsExact
  <1>3. CASE token' = token /\ clock' \in Nat /\ clock' >= clock
    BY <1>1, <1>3 DEF TokenIsExact
  <1>4. CASE Tick
    BY <1>1, <1>3, <1>4 DEF Tick
  <1> QED
    BY <1>1, <1>2, <1>3, <1>4
       DEF Next, vars, Start, SeedFind, SeedCreate, Stop, Register, OutageEnds

\* Issue and Verify together: a token is good for the configured time, short of it
\* by less than a second.
THEOREM TokensLiveAsConfigured == Spec => []TokenLifetime
  <1>1. Init => TokenIsExact
    BY DEF Init, TokenIsExact
  <1>2. AccountsTypeOK /\ TokenIsExact => TokenLifetime
    <2> SUFFICES ASSUME AccountsTypeOK, TokenIsExact, NEW c \in Clients, token[c] # None
                 PROVE  LET age == clock - token[c].issued
                        IN  /\ Verify(token[c]) => age < Expiry * TicksPerSecond
                            /\ age <= (Expiry - 1) * TicksPerSecond => Verify(token[c])
      BY DEF TokenLifetime
    <2>1. clock \in Nat /\ TicksPerSecond \in Nat /\ Expiry * TicksPerSecond \in Nat
          /\ (Expiry - 1) * TicksPerSecond = Expiry * TicksPerSecond - TicksPerSecond
      BY AccountsAssumption DEF AccountsTypeOK
    <2>2. /\ token[c].issued \in Nat /\ token[c].issued <= clock
          /\ token[c].exp * TicksPerSecond \in Nat
          /\ token[c].exp * TicksPerSecond <= token[c].issued + Expiry * TicksPerSecond
          /\ token[c].issued + Expiry * TicksPerSecond < token[c].exp * TicksPerSecond + TicksPerSecond
      BY DEF TokenIsExact
    <2> QED
      BY <2>1, <2>2 DEF Verify
  <1> QED
    BY <1>1, <1>2, TokenIsExactStep, AccountsTypeCorrect, PTL DEF Spec

=============================================================================
