----------------------------- MODULE AuthSessions -----------------------------
(***************************************************************************)
(* auth.service.ts behind auth.controller.ts, and the guards in front of   *)
(* protected routes: concurrent requests of clients, and the users         *)
(* table they share.  scripts/seed.ts, which writes that table too, is in  *)
(* module Seeding; here its accounts are there at first, or not at all     *)
(* (SeedUsers).  A user has at most one refresh token, whose hash is       *)
(* a column of the user's row; a JWT is decided by whom it is for and by   *)
(* the second it was signed in, so two signed in one second are one text.  *)
(***************************************************************************)
EXTENDS Integers, FiniteSets

CONSTANTS
    Requests,    \* handler executions
    Emails, Passwords,
    SeedUsers,   \* rows there are at the start: [id, email, password, role, session]
    AccessTtl,   \* JWT_ACCESS_TTL, in seconds
    RefreshTtl,  \* JWT_REFRESH_TTL
    MaxTime,     \* bound on the clock
    Outages,     \* whether statements of the database may fail
    None

ASSUME TtlAssumption == AccessTtl \in Nat /\ RefreshTtl \in Nat /\ MaxTime \in Nat
ASSUME OutagesAssumption == Outages \in BOOLEAN
ASSUME SeedAssumption ==
    /\ \A u \in SeedUsers :
          /\ u \in [id : {u.id}, email : Emails, password : Passwords,
                   role : {"USER", "ADMIN"}, session : {None}]
          /\ u.id \notin Requests
    /\ \A u, v \in SeedUsers : u.email = v.email \/ u.id = v.id => u = v

VARIABLES
    pc,     \* where each handler is
    body,   \* what it was sent
    sub,    \* the user it acts for: user.id, or the token's payload.sub
    seen,   \* the refreshTokenHash that refresh has read
    minted, \* the refresh token it has signed
    resp,   \* what the client has been answered
    users,  \* the users table
    now,    \* seconds
    live    \* history: r's refresh token was its user's at some time since r came in

vars == <<pc, body, sub, seen, minted, resp, users, now, live>>

Ids == Requests \cup {u.id : u \in SeedUsers}
Tokens == [sub : Ids, iat : 0..MaxTime]

Credentials == [email : Emails, password : Passwords]
Guarded == {"access", "remove"} \* any protected route; DELETE /users/:id, for ADMIN
Bodies ==
    [op : {"register", "login"}, cred : Credentials, token : {None}]
      \cup [op : {"refresh", "logout"} \cup Guarded, cred : {None}, token : Tokens \cup {None}]

InFlight == {"find", "insert", "sign", "store", "verify", "read", "compare", "clear"}
ASSUME NoneAssumption == None \notin Ids \cup Tokens \cup Bodies

Statuses == {"none", "OK", "Unauthorized", "Forbidden", "Conflict", "RequestTimeout",
             "InternalServerError"}

TypeOK ==
    /\ pc \in [Requests -> {"idle", "done"} \cup InFlight]
    /\ body \in [Requests -> Bodies \cup {None}]
    /\ sub \in [Requests -> Ids \cup {None}]
    /\ seen \in [Requests -> Tokens \cup {None}]
    /\ minted \in [Requests -> Tokens \cup {None}]
    /\ resp \in [Requests -> [status : Statuses, access : Tokens \cup {None},
                              refresh : Tokens \cup {None}]]
    /\ users \subseteq [id : Ids, email : Emails, password : Passwords,
                        role : {"USER", "ADMIN"}, session : Tokens \cup {None}]
    /\ now \in 0..MaxTime
    /\ live \in [Requests -> BOOLEAN]

NoAnswer == [status |-> "none", access |-> None, refresh |-> None]

Init ==
    /\ pc = [r \in Requests |-> "idle"]
    /\ body = [r \in Requests |-> None]
    /\ sub = [r \in Requests |-> None]
    /\ seen = [r \in Requests |-> None]
    /\ minted = [r \in Requests |-> None]
    /\ resp = [r \in Requests |-> NoAnswer]
    /\ users = SeedUsers
    /\ now = 0
    /\ live = [r \in Requests |-> FALSE]

-----------------------------------------------------------------------------
(* Helpers *)

\* A client is answered once (a 408 may have been first).
Answer(r, status, access, refresh) ==
    /\ resp' = IF resp[r].status = "none"
                 THEN [resp EXCEPT ![r] = [status |-> status, access |-> access,
                                           refresh |-> refresh]]
                 ELSE resp
    /\ pc' = [pc EXCEPT ![r] = "done"]

Refuse(r, status) == Answer(r, status, None, None)

Go(r, next) == pc' = [pc EXCEPT ![r] = next] /\ UNCHANGED resp

\* A statement takes effect, and its handler goes on, or hears only that its
\* connection broke: an error no controller expects.
Lost(r) == Outages /\ Refuse(r, "InternalServerError")

ByEmail(email) == {u \in users : u.email = email}
ById(id) == {u \in users : u.id = id}

IsSession(token) == \E u \in users : u.session = token /\ u.session # None

\* Mutant of SetSession: an update without its condition.
SetSessionOfAll(id, token) == users' = {[u EXCEPT !.session = token] : u \in users}

\* update({ id }, { refreshTokenHash })
SetSession(id, token) ==
    users' = {IF u.id = id THEN [u EXCEPT !.session = token] ELSE u : u \in users}

-----------------------------------------------------------------------------
(* Clients send credentials, or tokens they have been answered, or texts that are no
   tokens (None; for the guard also no text).  Bodies the DTOs refuse are left out. *)

RefreshTokens == {resp[q].refresh : q \in Requests} \cup {None}
AccessTokens == {resp[q].access : q \in Requests} \cup {None}

Receive(r, b) ==
    /\ pc[r] = "idle"
    /\ b.op \in {"refresh", "logout"} => b.token \in RefreshTokens
    /\ b.op \in Guarded => b.token \in AccessTokens
    /\ body' = [body EXCEPT ![r] = b]
    /\ live' = [live EXCEPT ![r] = b.op = "refresh" /\ IsSession(b.token)]
    /\ Go(r, IF b.op \in {"register", "login"} THEN "find" ELSE "verify")
    /\ UNCHANGED <<sub, seen, minted, users, now>>

-----------------------------------------------------------------------------
(* register *)

RegisterLookup(r) ==
    /\ pc[r] = "find" /\ body[r].op = "register"
    /\ IF ByEmail(body[r].cred.email) # {} THEN Refuse(r, "Conflict") ELSE Go(r, "insert")
    /\ UNCHANGED <<body, sub, seen, minted, users, now, live>>

NewUser(r) == [id |-> r, email |-> body[r].cred.email,
               password |-> body[r].cred.password, role |-> "USER", session |-> None]

\* Mutant of InsertUser: no unique index on email.
InsertUserAnyway(r) ==
    /\ pc[r] = "insert"
    /\ users' = users \cup {NewUser(r)}
    /\ sub' = [sub EXCEPT ![r] = r]
    /\ (Go(r, "sign") \/ Lost(r))
    /\ UNCHANGED <<body, seen, minted, now, live>>

InsertUser(r) ==
    /\ pc[r] = "insert"
    /\ ByEmail(body[r].cred.email) = {}
    /\ users' = users \cup {NewUser(r)}
    /\ sub' = [sub EXCEPT ![r] = r]
    /\ (Go(r, "sign") \/ Lost(r))
    /\ UNCHANGED <<body, seen, minted, now, live>>

\* The unique index on email: an error the controller does not know.
InsertTaken(r) ==
    /\ pc[r] = "insert"
    /\ ByEmail(body[r].cred.email) # {}
    /\ Refuse(r, "InternalServerError")
    /\ UNCHANGED <<body, sub, seen, minted, users, now, live>>

-----------------------------------------------------------------------------
(* login, and what it shares with register *)

\* Mutant of Authentic: whoever has an account.
KnownEmail(r) == ByEmail(body[r].cred.email)

\* The user of the email, if the password is right.
Authentic(r) == {u \in ByEmail(body[r].cred.email) : u.password = body[r].cred.password}

LoginLookup(r) ==
    /\ pc[r] = "find" /\ body[r].op = "login"
    /\ IF Authentic(r) # {}
         THEN /\ \E u \in Authentic(r) : sub' = [sub EXCEPT ![r] = u.id]
              /\ Go(r, "sign")
         ELSE Refuse(r, "Unauthorized") /\ UNCHANGED sub
    /\ UNCHANGED <<body, seen, minted, users, now, live>>

\* issueTokens signs both tokens in one breath, then spends an scrypt on the hash.
SignTokens(r) ==
    /\ pc[r] = "sign"
    /\ minted' = [minted EXCEPT ![r] = [sub |-> sub[r], iat |-> now]]
    /\ Go(r, "store")
    /\ UNCHANGED <<body, sub, seen, users, now, live>>

StoreSession(r) ==
    /\ pc[r] = "store"
    /\ SetSession(sub[r], minted[r])
    /\ live' = [q \in Requests |->
                  live[q] \/ (body[q] # None /\ body[q].op = "refresh"
                                /\ body[q].token = minted[r] /\ pc[q] # "done")]
    /\ Answer(r, "OK", minted[r], minted[r]) \/ Lost(r)
    /\ UNCHANGED <<body, sub, seen, minted, now>>

-----------------------------------------------------------------------------
(* refresh and logout *)

Expired(token, ttl) == now >= token.iat + ttl

\* verifyRefresh or verifyAccess: the signature and the expiry.
Verified(r, ttl) == body[r].token # None /\ ~Expired(body[r].token, ttl)

\* jsonwebtoken's errors are none that the controller knows.
VerifyRefresh(r) ==
    /\ pc[r] = "verify" /\ body[r].op \in {"refresh", "logout"}
    /\ IF Verified(r, RefreshTtl)
         THEN /\ sub' = [sub EXCEPT ![r] = body[r].token.sub]
              /\ Go(r, IF body[r].op = "refresh" THEN "read" ELSE "clear")
         ELSE Refuse(r, "InternalServerError") /\ UNCHANGED sub
    /\ UNCHANGED <<body, seen, minted, users, now, live>>

\* findById: no user, or no refreshTokenHash, is an InvalidRefreshTokenError.
ReadSession(r) ==
    /\ pc[r] = "read"
    /\ IF \E u \in ById(sub[r]) : u.session # None
         THEN /\ \E u \in ById(sub[r]) : seen' = [seen EXCEPT ![r] = u.session]
              /\ Go(r, "compare")
         ELSE Refuse(r, "Unauthorized") /\ UNCHANGED seen
    /\ UNCHANGED <<body, sub, minted, users, now, live>>

\* Mutant of CompareToken: any session of the user will do.
CompareNothing(r) ==
    /\ pc[r] = "compare"
    /\ Answer(r, "OK", [sub |-> sub[r], iat |-> now], None)
    /\ UNCHANGED <<body, sub, seen, minted, users, now, live>>

\* An scrypt later: the token against the hash that was read, and a new access token.
CompareToken(r) ==
    /\ pc[r] = "compare"
    /\ IF seen[r] = body[r].token
         THEN Answer(r, "OK", [sub |-> sub[r], iat |-> now], None)
         ELSE Refuse(r, "Unauthorized")
    /\ UNCHANGED <<body, sub, seen, minted, users, now, live>>

\* logout clears the hash, whatever token it is the hash of.
ClearSession(r) ==
    /\ pc[r] = "clear"
    /\ SetSession(sub[r], None)
    /\ Answer(r, "OK", None, None) \/ Lost(r)
    /\ UNCHANGED <<body, sub, seen, minted, now, live>>

-----------------------------------------------------------------------------
(* AuthGuard and then RolesGuard on a protected route, whose handler is not part of this
   module (UsersService.remove is a stub) *)

\* Mutant of RoleSuffices: the guards the other way round, with no user to look at yet.
AnyRoleSuffices(r) == TRUE

RoleSuffices(r) ==
    body[r].op = "remove" => \E u \in ById(body[r].token.sub) : u.role = "ADMIN"

Access(r) ==
    /\ pc[r] = "verify" /\ body[r].op \in Guarded
    /\ IF Verified(r, AccessTtl) /\ ById(body[r].token.sub) # {}
         THEN /\ sub' = [sub EXCEPT ![r] = body[r].token.sub]
              /\ IF RoleSuffices(r) THEN Answer(r, "OK", None, None) ELSE Refuse(r, "Forbidden")
         ELSE Refuse(r, "Unauthorized") /\ UNCHANGED sub
    /\ UNCHANGED <<body, seen, minted, users, now, live>>

-----------------------------------------------------------------------------
(* Around the handlers *)

\* A statement fails without effect, also where findUserByAccessToken forgets to await
\* it; nothing turns the error into an HttpException.
StatementFails(r) ==
    /\ Outages
    /\ \/ pc[r] \in {"find", "insert", "store", "read", "clear"}
       \/ pc[r] = "verify" /\ body[r].op \in Guarded /\ Verified(r, AccessTtl)
    /\ Refuse(r, "InternalServerError")
    /\ UNCHANGED <<body, sub, seen, minted, users, now, live>>

\* TimeoutInterceptor; it is behind the guards, so it does not cover them.
Timeout(r) ==
    /\ pc[r] \in InFlight /\ body[r].op \notin Guarded
    /\ resp[r].status = "none"
    /\ resp' = [resp EXCEPT ![r] = [NoAnswer EXCEPT !.status = "RequestTimeout"]]
    /\ UNCHANGED <<pc, body, sub, seen, minted, users, now, live>>

Tick ==
    /\ now < MaxTime
    /\ now' = now + 1
    /\ UNCHANGED <<pc, body, sub, seen, minted, resp, users, live>>

Next ==
    \/ \E r \in Requests :
        \/ \E b \in Bodies : Receive(r, b)
        \/ RegisterLookup(r)
        \/ InsertUser(r)
        \/ InsertTaken(r)
        \/ LoginLookup(r)
        \/ SignTokens(r)
        \/ StoreSession(r)
        \/ VerifyRefresh(r)
        \/ ReadSession(r)
        \/ CompareToken(r)
        \/ ClearSession(r)
        \/ Access(r)
        \/ StatementFails(r)
        \/ Timeout(r)
    \/ Tick

Spec == Init /\ [][Next]_vars

-----------------------------------------------------------------------------
(* Properties *)

\* An email has one account however many registrations race for it, and the client that
\* was handed tokens for a registration is the one whose password the account has.
OneAccountPerEmail ==
    /\ \A u, v \in users : u.email = v.email \/ u.id = v.id => u = v
    /\ \A r \in Requests :
          body[r] # None /\ body[r].op = "register" /\ resp[r].status = "OK" =>
              \E u \in users : u.id = r /\ u.email = body[r].cred.email
                                       /\ u.password = body[r].cred.password

\* A request of its own has presented the user's password.
Earned(id) ==
    \E q \in Requests, u \in users :
        /\ sub[q] = id /\ u.id = id
        /\ body[q].op \in {"register", "login"}
        /\ body[q].cred = [email |-> u.email, password |-> u.password]

\* What entitles r to u's account: the password, or a refresh token of u's that the
\* service itself has handed to some client.
SpeaksFor(r, u) ==
    \/ /\ body[r].op \in {"register", "login"}
       /\ body[r].cred = [email |-> u.email, password |-> u.password]
    \/ /\ body[r].op \in {"refresh", "logout"} /\ body[r].token # None
       /\ body[r].token.sub = u.id
       /\ \E q \in Requests : resp[q].refresh = body[r].token

\* A client is handed tokens only of a user whose password it has just presented itself,
\* or whose refresh token it has presented and the service had handed out; whatever the
\* way, and for whatever token a user's row accepts, some request has presented that
\* user's password.
TokensAreEarned ==
    /\ \A r \in Requests :
          \A token \in {resp[r].access, resp[r].refresh} \ {None} :
              /\ Earned(token.sub)
              /\ \E u \in users : u.id = token.sub /\ SpeaksFor(r, u)
    /\ \A u \in users : u.session # None => Earned(u.id) /\ u.session.sub = u.id

\* A refresh token that has been logged out, or replaced by a later login, is of no use:
\* what refreshes was its user's current token at some time since the request came in.
RefreshHadSession ==
    \A r \in Requests :
        body[r] # None /\ body[r].op = "refresh" /\ resp[r].status = "OK" => live[r]

\* A guard lets nobody in on whose behalf no password was presented; DELETE /users/:id is
\* for those whom the seed has made administrators, and no request of the API makes anyone
\* else one (docs/auth.md 117: "DELETE /users/:id requires ADMIN"; seed.ts 141 is the one
\* other writer of a role, and module Seeding's).
GuardsAdmitTheEarned ==
    /\ \A r \in Requests :
          body[r] # None /\ body[r].op \in Guarded /\ resp[r].status = "OK" =>
              /\ Earned(sub[r])
              /\ body[r].op = "remove" =>
                    \E u \in SeedUsers : u.id = sub[r] /\ u.role = "ADMIN"
    /\ \A v \in users : v.role = "ADMIN" =>
          \E u \in SeedUsers : u.id = v.id /\ u.role = "ADMIN"

\* Nobody's session is replaced or ended by a stranger.  A row of users changes only in
\* the last step of a handler that speaks for its user, whatever has happened since that
\* handler looked the user up, and it changes in nothing but the session.
SessionsEndByTheirOwner ==
    [][\A u \in users \ users' : \E r \in Requests :
          /\ pc[r] \in {"store", "clear"} /\ pc'[r] = "done"
          /\ SpeaksFor(r, u)
          /\ [u EXCEPT !.session = IF pc[r] = "store" THEN minted[r] ELSE None] \in users']_vars

-----------------------------------------------------------------------------
(* The inductive invariant behind these *)

\* Which handler is where, and what it has set so far.
Phase(r) ==
    /\ pc[r] = "idle" <=> body[r] = None
    /\ pc[r] = "idle" => resp[r] = NoAnswer
    /\ pc[r] \in {"idle", "find", "insert", "verify"} => sub[r] = None
    /\ pc[r] = "find" => body[r].op \in {"register", "login"}
    /\ pc[r] = "insert" => body[r].op = "register"
    /\ pc[r] \in {"sign", "store"} => Earned(sub[r]) /\ body[r].op \in {"register", "login"}
    /\ pc[r] \in {"read", "compare"} => body[r].op = "refresh"
    /\ pc[r] = "verify" => body[r].op \in {"refresh", "logout"} \cup Guarded
    /\ pc[r] = "clear" => body[r].op = "logout"

PhasesMatchOps == \A r \in Requests : Phase(r)

\* An account is made by its registration's handler, once.
AccountsMatchHandlers ==
    /\ \A u \in users : u.id \in Requests => pc[u.id] \notin {"idle", "find", "insert"}
    /\ \A r \in Requests :
          pc[r] \in {"sign", "store"} /\ body[r].op = "register" =>
              \E u \in users : u.id = r /\ u.email = body[r].cred.email
                                       /\ u.password = body[r].cred.password

\* What a handler is about to store, compare or accept.
TokensMatchHandlers ==
    \A r \in Requests :
        /\ pc[r] = "store" => minted[r] # None /\ minted[r].sub = sub[r]
        /\ pc[r] = "compare" =>
              /\ Earned(sub[r])
              /\ seen[r] # None
              /\ (seen[r] = body[r].token => live[r])
        /\ pc[r] = "verify" /\ body[r].op \in Guarded /\ body[r].token # None =>
              Earned(body[r].token.sub)

\* Whom a handler is going to act for, it is entitled to act for; a client has tokens only
\* from its answer.
HandlersSpeakForUsers ==
    \A r \in Requests :
        /\ resp[r].status = "none" => resp[r] = NoAnswer
        /\ pc[r] = "verify" /\ body[r].op \in {"refresh", "logout"} /\ body[r].token # None =>
              \E q \in Requests : resp[q].refresh = body[r].token
        /\ pc[r] \in {"sign", "store", "read", "compare", "clear"} =>
              \E u \in users : u.id = sub[r] /\ SpeaksFor(r, u)

\* The history variable says what it should.
LiveIsCurrent ==
    \A r \in Requests :
        pc[r] \notin {"idle", "done"} /\ body[r].op = "refresh" /\ IsSession(body[r].token)
            => live[r]

IInv ==
    /\ TypeOK
    /\ PhasesMatchOps
    /\ AccountsMatchHandlers
    /\ TokensMatchHandlers
    /\ HandlersSpeakForUsers
    /\ LiveIsCurrent
    /\ OneAccountPerEmail
    /\ TokensAreEarned
    /\ RefreshHadSession
    /\ GuardsAdmitTheEarned

-----------------------------------------------------------------------------
\* auth.service.spec.ts 73: "register throws when email already exists", which the
\* controller answers with 409.  So a registration that made no account, and was not
\* given up by the timeout, has been told that the email is taken.
TakenEmailIsConflict ==
    \A r \in Requests :
        /\ body[r] # None /\ body[r].op = "register" /\ pc[r] = "done"
        /\ \A u \in users : u.id # r
        => resp[r].status \in {"Conflict", "RequestTimeout"}
=============================================================================
