---------------------------- MODULE Registration ----------------------------
(***************************************************************************)
(* Accounts and tokens: auth_handler.go, auth_usecase.go, user_repo.go,    *)
(* pkg/auth/jwt.go and the JWTAuth middleware.                             *)
(*                                                                         *)
(* Register looks for the address, hashes the password and inserts the     *)
(* row, and other requests run in between; what keeps two accounts from    *)
(* sharing an address is the unique index on users.email.  Time advances   *)
(* in units of which a token lives TokenLife.                              *)
(***************************************************************************)
EXTENDS Naturals, FiniteSets

CONSTANTS Emails, Passwords,
          Accounts,  \* the uuids Register may draw
          RgRequests, \* the registrations that may be in flight together
          TokenLife, \* 72 hours, in the units of rgNow
          MaxTime    \* bound on rgNow

ASSUME RgAssumption == MaxTime \in Nat /\ TokenLife \in Nat

VARIABLES
  rgUsers,  \* the users table, a set of rows
  rgFlight, \* the registration each request is busy with
  rgTokens, \* the tokens handed out, with the login that earned them
  rgNow

rgVars == <<rgUsers, rgFlight, rgTokens, rgNow>>

UserRow == [id: Accounts, email: Emails, password: Passwords]
Token == [user: Accounts, expires: 0 .. MaxTime + TokenLife,
          email: Emails, password: Passwords]
RgIdle == [phase |-> "idle"]
Flight == {RgIdle} \cup [phase: {"hashed"}, email: Emails, password: Passwords]

RgInit ==
  /\ rgUsers = {} /\ rgTokens = {} /\ rgNow = 0
  /\ rgFlight = [r \in RgRequests |-> RgIdle]

ByEmail(e) == {row \in rgUsers : row.email = e}

\* Register up to its Create: a known address is refused here.
RegisterCheck(r, e, p) ==
  /\ rgFlight[r] = RgIdle
  /\ ByEmail(e) = {}
  /\ rgFlight' = [rgFlight EXCEPT ![r] = [phase |-> "hashed", email |-> e, password |-> p]]
  /\ UNCHANGED <<rgUsers, rgTokens, rgNow>>

\* Mutation: no unique index.
NoIndex(e) == TRUE

\* The table's own rule: users.email carries a unique index.
IndexAllows(e) == ByEmail(e) = {}

\* userRepo.Create under a fresh id; a row the index refuses ends in 409.
RegisterCreate(r) ==
  LET f == rgFlight[r] IN
  /\ f.phase = "hashed"
  /\ IF IndexAllows(f.email)
     THEN \E id \in Accounts \ {row.id : row \in rgUsers} :
            rgUsers' = rgUsers \cup {[id |-> id, email |-> f.email, password |-> f.password]}
     ELSE UNCHANGED rgUsers
  /\ rgFlight' = [rgFlight EXCEPT ![r] = RgIdle]
  /\ UNCHANGED <<rgTokens, rgNow>>

\* Login: GetByEmail takes a first row of the address, bcrypt compares.
Login(e, p) ==
  /\ \E row \in ByEmail(e) :
       /\ row.password = p
       /\ rgTokens' = rgTokens \cup {[user |-> row.id, email |-> e, password |-> p,
                                      expires |-> rgNow + TokenLife]}
  /\ UNCHANGED <<rgUsers, rgFlight, rgNow>>

Tick ==
  /\ rgNow < MaxTime
  /\ rgNow' = rgNow + 1
  /\ UNCHANGED <<rgUsers, rgFlight, rgTokens>>

RgNext ==
  \/ \E r \in RgRequests :
       \/ \E e \in Emails, p \in Passwords : RegisterCheck(r, e, p)
       \/ RegisterCreate(r)
  \/ \E e \in Emails, p \in Passwords : Login(e, p)
  \/ Tick

RgSpec == RgInit /\ [][RgNext]_rgVars

\* ParseToken, as JWTAuth uses it: the signature is not modelled, a token is
\* one that GenerateToken made.
Accepted(t) == rgNow < t.expires

-----------------------------------------------------------------------------
\* Properties

RgTypeOK ==
  /\ rgUsers \subseteq UserRow /\ rgTokens \subseteq Token /\ rgNow \in 0 .. MaxTime
  /\ rgFlight \in [RgRequests -> Flight]

\* An address has one account, however many registrations of it overlap
\* between the look-up and the insert.
OneAccountPerEmail ==
  \A x, y \in rgUsers : x.email = y.email => x = y

\* A token the middleware accepts speaks for the one account of the address
\* and password it was earned with: no registration in between changes whose.
TokensSpeakForTheirLogin ==
  \A t \in rgTokens : Accepted(t) =>
    ByEmail(t.email) = {[id |-> t.user, email |-> t.email, password |-> t.password]}

\* Accounts and tokens together.
AccountsAreOne == OneAccountPerEmail /\ TokensSpeakForTheirLogin
=============================================================================
