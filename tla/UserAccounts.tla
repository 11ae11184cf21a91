----------------------------- MODULE UserAccounts -----------------------------
(***************************************************************************)
(* Accounts of the community platform, internal/community/user: e-mail     *)
(* codes (email.go), registration, login and refresh (handler_auth.go,     *)
(* jwt.go), and the requests that write a user's row back (service.go,     *)
(* handler_user.go, handler_admin.go).                                     *)
(*                                                                         *)
(* One action is one statement of the store, or one critical section of    *)
(* the e-mail service.  Of a row only what is compared is kept: names,     *)
(* e-mails and the status; passwords, keys, roles ride along with a row    *)
(* that is written back whole.  A signed token is its user and the time it *)
(* still has; tokens are not revoked, so the longest-lived one counts.     *)
(***************************************************************************)
EXTENDS Naturals, FiniteSets, FiniteSetsExt

CONSTANTS
    Names, Emails, NoEmail,
    Ids,          \* of the table's rows, numbers from 1 (bound)
    Registrations, \* registration requests at one time
    Logins,       \* requests for tokens at one time
    Updates,      \* requests that write a row back, at one time
    MaxSends,     \* codes sent (bound)
    ResendAfter, CodeLife, AccessLife, RefreshLife,  \* in ticks
    Apart,        \* requests that write back the same row do not overlap
    None

OwnKinds == {"ResetAPIKey", "ChangePassword"}
AdminKinds == {"BanUser", "UnbanUser", "UpdateUserRole"}

VARIABLES
    users,    \* the table
    codes,    \* EmailService.codes
    sends,    \* codes sent so far
    reg,      \* registration requests
    login,    \* Login and RefreshToken requests
    update,   \* requests that write a row back
    access,   \* per user, the time an access token still has
    refresh,  \* the same of a refresh token
    decided   \* the status an operator has last been told is set (history)

vars == <<users, codes, sends, reg, login, update, access, refresh, decided>>

Row == [name : Names, email : Emails \cup {NoEmail}, status : {"active", "banned"}]
Code == [code : 1..MaxSends, age : 0..(CodeLife + 1)]

BoundsAssumption ==
    /\ MaxSends \in Nat /\ ResendAfter \in Nat /\ CodeLife \in Nat
    /\ AccessLife \in Nat /\ RefreshLife \in Nat
    /\ Ids \subseteq Nat /\ Apart \in BOOLEAN /\ None \notin Row \cup Code

NoReg == [pc |-> "idle", name |-> None, email |-> None, code |-> 0]
NoLogin == [pc |-> "idle", id |-> None]
NoUpdate == [pc |-> "idle", kind |-> None, id |-> None, row |-> None]

TypeOK ==
    /\ users \in [Ids -> Row \cup {None}]
    /\ codes \in [Emails -> Code \cup {None}]
    /\ sends \in 0..MaxSends
    /\ reg \in [Registrations ->
                  [pc : {"idle", "verify", "spend", "expire", "name", "email", "insert"},
                   name : Names \cup {None}, email : Emails \cup {NoEmail, None}, code : 0..MaxSends]]
    /\ login \in [Logins -> [pc : {"idle", "checked"}, id : Ids \cup {None}]]
    /\ update \in [Updates -> [pc : {"idle", "read"}, kind : OwnKinds \cup AdminKinds \cup {None},
                               id : Ids \cup {None}, row : Row \cup {None}]]
    /\ access \in [Ids -> 0..AccessLife] /\ refresh \in [Ids -> 0..RefreshLife]
    /\ decided \in [Ids -> {"active", "banned"}]

Init ==
    /\ users = [i \in Ids |-> None]
    /\ codes = [e \in Emails |-> None] /\ sends = 0
    /\ reg = [r \in Registrations |-> NoReg]
    /\ login = [l \in Logins |-> NoLogin]
    /\ update = [u \in Updates |-> NoUpdate]
    /\ access = [i \in Ids |-> 0] /\ refresh = [i \in Ids |-> 0]
    /\ decided = [i \in Ids |-> "active"]

Taken == {i \in Ids : users[i] # None}
HasName(n) == \E i \in Taken : users[i].name = n
HasEmail(e) == \E i \in Taken : users[i].email = e

-----------------------------------------------------------------------------
(* SendVerificationCode: a code replaces the one before. *)
SendVerificationCode(e) ==
    /\ sends < MaxSends
    /\ codes[e] # None => codes[e].age >= ResendAfter
    /\ sends' = sends + 1
    /\ codes' = [codes EXCEPT ![e] = [code |-> sends', age |-> 0]]
    /\ UNCHANGED <<users, reg, login, update, access, refresh, decided>>

Expired(e) == codes[e].age > CodeLife

CleanExpired ==
    /\ \E e \in Emails : codes[e] # None /\ Expired(e)
    /\ codes' = [e \in Emails |-> IF codes[e] # None /\ Expired(e) THEN None ELSE codes[e]]
    /\ UNCHANGED <<users, sends, reg, login, update, access, refresh, decided>>

-----------------------------------------------------------------------------
RegGoto(r, label) == reg' = [reg EXCEPT ![r].pc = label]
RegEnds(r) == reg' = [reg EXCEPT ![r] = NoReg]

(* A request with an e-mail has a code to show, without one it needs none. *)
BeginRegister(r) ==
    /\ reg[r].pc = "idle"
    /\ \E n \in Names :
          \/ reg' = [reg EXCEPT ![r] = [pc |-> "name", name |-> n, email |-> NoEmail, code |-> 0]]
          \/ \E e \in Emails, k \in 1..sends :
                reg' = [reg EXCEPT ![r] = [pc |-> "verify", name |-> n, email |-> e, code |-> k]]
    /\ UNCHANGED <<users, codes, sends, login, update, access, refresh, decided>>

(* VerifyCode reads and compares under the read lock ... *)
VerifyCode(r) ==
    LET e == reg[r].email IN
    /\ reg[r].pc = "verify"
    /\ IF codes[e] = None THEN RegEnds(r)
       ELSE IF Expired(e) THEN RegGoto(r, "expire")
       ELSE IF codes[e].code = reg[r].code THEN RegGoto(r, "spend")
       ELSE RegEnds(r)
    /\ UNCHANGED <<users, codes, sends, login, update, access, refresh, decided>>

(* ... and deletes what is there under the lock. *)
SpendCode(r) ==
    /\ reg[r].pc \in {"spend", "expire"}
    /\ codes' = [codes EXCEPT ![reg[r].email] = None]
    /\ IF reg[r].pc = "spend" THEN RegGoto(r, "name") ELSE RegEnds(r)
    /\ UNCHANGED <<users, sends, login, update, access, refresh, decided>>

(* Service.Register: two checks ... *)
CheckUsername(r) ==
    /\ reg[r].pc = "name"
    /\ IF HasName(reg[r].name) THEN RegEnds(r)
       ELSE RegGoto(r, IF reg[r].email = NoEmail THEN "insert" ELSE "email")
    /\ UNCHANGED <<users, codes, sends, login, update, access, refresh, decided>>

CheckEmail(r) ==
    /\ reg[r].pc = "email"
    /\ IF HasEmail(reg[r].email) THEN RegEnds(r) ELSE RegGoto(r, "insert")
    /\ UNCHANGED <<users, codes, sends, login, update, access, refresh, decided>>

Issue(i) ==
    /\ access' = [access EXCEPT ![i] = AccessLife]
    /\ refresh' = [refresh EXCEPT ![i] = RefreshLife]

Inserted(r, i) ==
    /\ users' = [users EXCEPT ![i] = [name |-> reg[r].name, email |-> reg[r].email, status |-> "active"]]
    /\ Issue(i)
    /\ RegEnds(r)
    /\ UNCHANGED <<codes, sends, login, update, decided>>

InsertUnconstrained(r) ==  \* mutant: the table's columns are not UNIQUE
    /\ reg[r].pc = "insert" /\ Taken # Ids
    /\ Inserted(r, Min(Ids \ Taken))

(* ... and the insert, which the UNIQUE columns or anything else may fail;   *)
(* a user without an e-mail has the empty one.                               *)
Insert(r) ==
    /\ reg[r].pc = "insert" /\ Taken # Ids
    /\ \/ /\ ~HasName(reg[r].name) /\ ~HasEmail(reg[r].email)
          /\ Inserted(r, Min(Ids \ Taken))
       \/ /\ RegEnds(r)
          /\ UNCHANGED <<users, codes, sends, login, update, access, refresh, decided>>

-----------------------------------------------------------------------------
(* Login and RefreshToken: both ask the table for the status, later sign. *)
LoginChecked(l, i) == login' = [login EXCEPT ![l] = [pc |-> "checked", id |-> i]]

Authenticate(l, i) ==
    /\ login[l].pc = "idle" /\ users[i] # None
    /\ users[i].status # "banned"
    /\ LoginChecked(l, i)
    /\ UNCHANGED <<users, codes, sends, reg, update, access, refresh, decided>>

RefreshUnchecked(l, i) ==  \* mutant: the refresh token is enough
    /\ login[l].pc = "idle" /\ refresh[i] > 0
    /\ LoginChecked(l, i)
    /\ UNCHANGED <<users, codes, sends, reg, update, access, refresh, decided>>

RefreshToken(l, i) ==
    /\ login[l].pc = "idle" /\ refresh[i] > 0
    /\ users[i].status # "banned"
    /\ LoginChecked(l, i)
    /\ UNCHANGED <<users, codes, sends, reg, update, access, refresh, decided>>

GenerateTokenPair(l) ==
    /\ login[l].pc = "checked"
    /\ Issue(login[l].id)
    /\ login' = [login EXCEPT ![l] = NoLogin]
    /\ UNCHANGED <<users, codes, sends, reg, update, decided>>

-----------------------------------------------------------------------------
(* Whoever changes a row reads it whole ... *)
ReadRow(u, i, kind) ==
    /\ update[u].pc = "idle" /\ users[i] # None
    /\ kind \in OwnKinds => access[i] > 0                          \* JWTMiddleware
    /\ Apart => \A v \in Updates : update[v].id # i
    /\ update' = [update EXCEPT ![u] = [pc |-> "read", kind |-> kind, id |-> i, row |-> users[i]]]
    /\ UNCHANGED <<users, codes, sends, reg, login, access, refresh, decided>>

Changed(row, kind) ==
    CASE kind = "BanUser"   -> [row EXCEPT !.status = "banned"]
      [] kind = "UnbanUser" -> [row EXCEPT !.status = "active"]
      [] OTHER              -> row

(* ... and writes it back whole; a wrong password or a failing statement     *)
(* ends the request without it.                                              *)
UpdateUser(u) ==
    LET new == Changed(update[u].row, update[u].kind)
        i == update[u].id
    IN  /\ update[u].pc = "read"
        /\ \/ /\ users' = [users EXCEPT ![i] = new]
              /\ decided' = IF update[u].kind \in {"BanUser", "UnbanUser"}
                            THEN [decided EXCEPT ![i] = new.status] ELSE decided
           \/ UNCHANGED <<users, decided>>
        /\ update' = [update EXCEPT ![u] = NoUpdate]
        /\ UNCHANGED <<codes, sends, reg, login, access, refresh>>

-----------------------------------------------------------------------------
Lower(t) == IF t = 0 THEN 0 ELSE t - 1
Older(code) == IF code = None THEN None
               ELSE [code EXCEPT !.age = IF @ > CodeLife THEN @ ELSE @ + 1]

Tick ==
    /\ codes' = [e \in Emails |-> Older(codes[e])]
    /\ access' = [i \in Ids |-> Lower(access[i])]
    /\ refresh' = [i \in Ids |-> Lower(refresh[i])]
    /\ UNCHANGED <<users, sends, reg, login, update, decided>>

Register(r) ==
    \/ BeginRegister(r) \/ VerifyCode(r) \/ SpendCode(r)
    \/ CheckUsername(r) \/ CheckEmail(r) \/ Insert(r)

Next ==
    \/ \E e \in Emails : SendVerificationCode(e)
    \/ CleanExpired
    \/ \E r \in Registrations : Register(r)
    \/ \E l \in Logins : GenerateTokenPair(l) \/ \E i \in Ids : Authenticate(l, i) \/ RefreshToken(l, i)
    \/ \E u \in Updates : UpdateUser(u) \/ \E i \in Ids, k \in OwnKinds \cup AdminKinds : ReadRow(u, i, k)
    \/ Tick

Spec == Init /\ [][Next]_vars

(* Time passes; nobody has to send a request.                               *)
Fairness == WF_vars(Tick)
FairSpec == Spec /\ Fairness

-----------------------------------------------------------------------------
(* No two accounts have one name or one e-mail, so an e-mail code serves one *)
(* account at most, though two requests may find the name free and the code  *)
(* valid at the same time (service.go 42, email.go 82).                      *)
OneAccountEach ==
    \A i, j \in Taken : i # j => users[i].name # users[j].name /\ users[i].email # users[j].email

(* A user who is banned and stays so ends up without a token to call with,   *)
(* though tokens are not revoked and a request that has read the row before  *)
(* the ban may still sign one (handler_auth.go 132: the refresh asks whether *)
(* the user is banned).  It holds while requests that write the same row     *)
(* back do not overlap.                                                      *)
BansTakeEffect == \A i \in Ids : <>[](decided[i] = "banned") => <>[](access[i] = 0)
=============================================================================
