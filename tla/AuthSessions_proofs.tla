-------------------------- MODULE AuthSessions_proofs -------------------------
(***************************************************************************)
(* Proofs about AuthSessions, for every number of requests, users,         *)
(* passwords and seconds.                                                  *)
(***************************************************************************)
EXTENDS AuthSessions, TLAPS

-----------------------------------------------------------------------------
(* What the steps have in common *)

\* Storing or clearing a session changes no row but that user's, and of that one only
\* the session.
LEMMA SetSessionKeepsRows ==
    ASSUME TypeOK, NEW id, NEW token, SetSession(id, token)
    PROVE  /\ \A u \in users : \E v \in users' :
                 v.id = u.id /\ v.email = u.email /\ v.password = u.password
           /\ \A v \in users' : \E u \in users :
                 /\ v.id = u.id /\ v.email = u.email /\ v.password = u.password
                 /\ v.role = u.role
                 /\ v.session = u.session \/ (v.session = token /\ u.id = id)
<1> DEFINE New(u) == IF u.id = id THEN [u EXCEPT !.session = token] ELSE u
<1>1. \A u \in users :
        /\ New(u).id = u.id /\ New(u).email = u.email /\ New(u).password = u.password
        /\ New(u).role = u.role
        /\ New(u).session = u.session \/ (New(u).session = token /\ u.id = id)
  <2> TAKE u \in users
  <2> u \in [id : Ids, email : Emails, password : Passwords,
             role : {"USER", "ADMIN"}, session : Tokens \cup {None}]
    BY DEF TypeOK
  <2> QED
    OBVIOUS
<1>2. users' = {New(u) : u \in users}
  BY DEF SetSession
<1> HIDE DEF New
<1> QED
  BY <1>1, <1>2

\* No account goes away or changes hands.
LEMMA AccountsStay ==
    ASSUME TypeOK, [Next]_vars
    PROVE  \A u \in users : \E v \in users' :
                 v.id = u.id /\ v.email = u.email /\ v.password = u.password
<1>1. ASSUME users' = users PROVE \A u \in users : \E v \in users' :
          v.id = u.id /\ v.email = u.email /\ v.password = u.password
  BY <1>1
<1>2. ASSUME NEW r \in Requests, InsertUser(r) PROVE users \subseteq users'
  BY <1>2 DEF InsertUser
<1>3. ASSUME NEW r \in Requests, StoreSession(r) \/ ClearSession(r)
      PROVE \E token : SetSession(sub[r], token)
  BY <1>3 DEF StoreSession, ClearSession
<1> QED
  BY <1>1, <1>2, <1>3, SetSessionKeepsRows
  DEF Next, vars, Receive, RegisterLookup, InsertTaken, LoginLookup, SignTokens,
      VerifyRefresh, ReadSession, CompareToken, Access, StatementFails, Timeout, Tick

\* A handler's request, and whom it has found to act for, stay.
LEMMA FoundUsersStay ==
    ASSUME TypeOK, PhasesMatchOps, [Next]_vars
    PROVE  \A q \in Requests : sub[q] # None => sub'[q] = sub[q] /\ body'[q] = body[q]
BY DEF TypeOK, PhasesMatchOps, Phase, Next, vars, Receive, RegisterLookup, InsertUser,
       InsertTaken, LoginLookup, SignTokens, StoreSession, VerifyRefresh, ReadSession,
       CompareToken, ClearSession, Access, StatementFails, Timeout, Tick

\* What was earned stays earned.
LEMMA EarnedStays ==
    ASSUME TypeOK, PhasesMatchOps, [Next]_vars, NEW id \in Ids, Earned(id)
    PROVE  Earned(id)'
<1>1. PICK q \in Requests, u \in users :
          /\ sub[q] = id /\ u.id = id
          /\ body[q].op \in {"register", "login"}
          /\ body[q].cred = [email |-> u.email, password |-> u.password]
  BY DEF Earned
<1>2. sub'[q] = id /\ body'[q] = body[q]
  BY <1>1, FoundUsersStay, NoneAssumption
<1>3. PICK v \in users' : v.id = u.id /\ v.email = u.email /\ v.password = u.password
  BY AccountsStay
<1> QED
  BY <1>1, <1>2, <1>3 DEF Earned

\* Only ids are ever earned.
LEMMA EarnedIsId ==
    ASSUME TypeOK, NEW id, Earned(id)
    PROVE  id \in Ids
BY DEF TypeOK, Earned

-----------------------------------------------------------------------------
(* Typing *)

\* The seeded table is well typed.
LEMMA InitTyped == Init => TypeOK
BY SeedAssumption, TtlAssumption DEF Init, TypeOK, Ids, NoAnswer, Statuses

\* Which fields a body has by its operation.
LEMMA BodiesTyped ==
    ASSUME NEW b \in Bodies
    PROVE  /\ b.op \in {"register", "login"} => b.cred \in Credentials
           /\ b.op \in {"refresh", "logout"} \cup Guarded => b.token \in Tokens \cup {None}
BY DEF Bodies, Guarded

\* A token written into a row leaves the table well typed.
LEMMA SetSessionTyped ==
    ASSUME TypeOK, NEW id, NEW token \in Tokens \cup {None}, SetSession(id, token)
    PROVE  users' \subseteq [id : Ids, email : Emails, password : Passwords,
                             role : {"USER", "ADMIN"}, session : Tokens \cup {None}]
<1>1. ASSUME NEW u \in users
      PROVE (IF u.id = id THEN [u EXCEPT !.session = token] ELSE u)
              \in [id : Ids, email : Emails, password : Passwords,
                   role : {"USER", "ADMIN"}, session : Tokens \cup {None}]
  BY <1>1 DEF TypeOK
<1> QED
  BY <1>1 DEF SetSession

\* Answers are well typed, and leave their handler in a phase.
LEMMA AnswerTyped ==
    ASSUME TypeOK, NEW r \in Requests, NEW status \in Statuses,
           NEW access \in Tokens \cup {None}, NEW refresh \in Tokens \cup {None},
           Answer(r, status, access, refresh)
    PROVE  /\ resp' \in [Requests -> [status : Statuses, access : Tokens \cup {None},
                                      refresh : Tokens \cup {None}]]
           /\ pc' \in [Requests -> {"idle", "done"} \cup InFlight]
BY DEF TypeOK, Answer

\* So are refusals.
LEMMA RefuseTyped ==
    ASSUME TypeOK, NEW r \in Requests, NEW status \in Statuses, Refuse(r, status)
    PROVE  /\ resp' \in [Requests -> [status : Statuses, access : Tokens \cup {None},
                                      refresh : Tokens \cup {None}]]
           /\ pc' \in [Requests -> {"idle", "done"} \cup InFlight]
BY AnswerTyped DEF Refuse

\* A handler goes on to a phase.
LEMMA GoTyped ==
    ASSUME TypeOK, NEW r \in Requests, NEW next \in InFlight, Go(r, next)
    PROVE  resp' = resp /\ pc' \in [Requests -> {"idle", "done"} \cup InFlight]
BY DEF TypeOK, Go

\* Every step keeps the types.
LEMMA NextTyped ==
    ASSUME IInv, [Next]_vars
    PROVE  TypeOK'
<1>a. /\ {"OK", "Unauthorized", "Forbidden", "Conflict", "InternalServerError"}
           \subseteq Statuses
      /\ {"find", "insert", "sign", "store", "verify", "read", "compare", "clear"} \subseteq InFlight
  BY DEF Statuses, InFlight
<1> USE <1>a, AnswerTyped, RefuseTyped, GoTyped
<1>0. TypeOK /\ PhasesMatchOps /\ TokensMatchHandlers
  BY DEF IInv
<1>1. CASE UNCHANGED vars
  BY <1>0, <1>1 DEF TypeOK, vars
<1>2. ASSUME NEW r \in Requests, NEW b \in Bodies, Receive(r, b)
      PROVE TypeOK'
  BY <1>0, <1>2 DEF TypeOK, Receive
<1>3. ASSUME NEW r \in Requests, RegisterLookup(r) \/ InsertTaken(r)
      PROVE TypeOK'
  BY <1>0, <1>3 DEF TypeOK, RegisterLookup, InsertTaken
<1>4. ASSUME NEW r \in Requests, InsertUser(r)
      PROVE TypeOK'
  <2>1. body[r] \in Bodies /\ body[r].op = "register" /\ r \in Ids
    BY <1>0, <1>4 DEF InsertUser, TypeOK, PhasesMatchOps, Phase, Ids
  <2>2. NewUser(r) \in [id : Ids, email : Emails, password : Passwords,
                        role : {"USER", "ADMIN"}, session : Tokens \cup {None}]
    BY <2>1, BodiesTyped DEF NewUser, Credentials
  <2> QED
    BY <1>0, <1>4, <2>1, <2>2 DEF TypeOK, InsertUser, Lost
<1>5. ASSUME NEW r \in Requests, LoginLookup(r)
      PROVE TypeOK'
  BY <1>0, <1>5 DEF TypeOK, LoginLookup, Authentic, ByEmail
<1>6. ASSUME NEW r \in Requests, SignTokens(r)
      PROVE TypeOK'
  <2>1. sub[r] \in Ids
    BY <1>0, <1>6, EarnedIsId DEF SignTokens, PhasesMatchOps, Phase
  <2> QED
    BY <1>0, <1>6, <2>1 DEF TypeOK, SignTokens, Tokens
<1>7. ASSUME NEW r \in Requests, StoreSession(r)
      PROVE TypeOK'
  <2>1. minted[r] \in Tokens
    BY <1>0, <1>7 DEF StoreSession, TokensMatchHandlers, TypeOK
  <2>2. live' \in [Requests -> BOOLEAN]
    BY <1>0, <1>7 DEF StoreSession, TypeOK
  <2> QED
    BY <1>0, <1>7, <2>1, <2>2, SetSessionTyped
    DEF TypeOK, StoreSession, Lost
<1>8. ASSUME NEW r \in Requests, VerifyRefresh(r) \/ Access(r)
      PROVE TypeOK'
  <2>1. body[r] \in Bodies /\ body[r].op \in {"refresh", "logout"} \cup Guarded
    BY <1>0, <1>8 DEF VerifyRefresh, Access, TypeOK, PhasesMatchOps, Phase
  <2>2. body[r].token # None => body[r].token.sub \in Ids
    BY <2>1, BodiesTyped DEF Tokens
  <2> QED
    BY <1>0, <1>8, <2>2 DEF TypeOK, VerifyRefresh, Access, Verified
<1>9. ASSUME NEW r \in Requests, ReadSession(r)
      PROVE TypeOK'
  BY <1>0, <1>9 DEF TypeOK, ReadSession, ById
<1>10. ASSUME NEW r \in Requests, CompareToken(r)
      PROVE TypeOK'
  <2>1. sub[r] \in Ids
    BY <1>0, <1>10, EarnedIsId DEF CompareToken, TokensMatchHandlers
  <2>2. [sub |-> sub[r], iat |-> now] \in Tokens
    BY <1>0, <2>1 DEF TypeOK, Tokens
  <2> QED
    BY <1>0, <1>10, <2>2 DEF TypeOK, CompareToken
<1>11. ASSUME NEW r \in Requests, ClearSession(r)
      PROVE TypeOK'
  BY <1>0, <1>11, SetSessionTyped DEF TypeOK, ClearSession, Lost
<1>12. ASSUME NEW r \in Requests, StatementFails(r)
      PROVE TypeOK'
  BY <1>0, <1>12 DEF TypeOK, StatementFails
<1>13. ASSUME NEW r \in Requests, Timeout(r)
      PROVE TypeOK'
  BY <1>0, <1>13 DEF TypeOK, Timeout, NoAnswer, Statuses
<1>14. CASE Tick
  BY <1>0, <1>14, TtlAssumption DEF TypeOK, Tick
<1> QED
  BY <1>1, <1>2, <1>3, <1>4, <1>5, <1>6, <1>7, <1>8, <1>9, <1>10, <1>11, <1>12, <1>13,
     <1>14 DEF Next

-----------------------------------------------------------------------------
(* Steps by whose handler takes them *)

HandlerStep(r) ==
    \/ \E b \in Bodies : Receive(r, b)
    \/ RegisterLookup(r) \/ InsertUser(r) \/ InsertTaken(r) \/ LoginLookup(r)
    \/ SignTokens(r) \/ StoreSession(r) \/ VerifyRefresh(r) \/ ReadSession(r)
    \/ CompareToken(r) \/ ClearSession(r) \/ Access(r) \/ StatementFails(r) \/ Timeout(r)

\* Every step is some handler's, or the clock's, or none.
LEMMA NextIsHandlerStep ==
    [Next]_vars => (\E r \in Requests : HandlerStep(r)) \/ Tick \/ UNCHANGED vars
BY DEF Next, HandlerStep

\* A handler's step leaves every other handler where it was.
LEMMA OthersStay ==
    ASSUME TypeOK, NEW r \in Requests, HandlerStep(r), NEW q \in Requests, q # r
    PROVE  /\ pc'[q] = pc[q] /\ body'[q] = body[q] /\ sub'[q] = sub[q]
           /\ seen'[q] = seen[q] /\ minted'[q] = minted[q] /\ resp'[q] = resp[q]
BY DEF TypeOK, HandlerStep, Receive, RegisterLookup, InsertUser, InsertTaken, LoginLookup,
       SignTokens, StoreSession, VerifyRefresh, ReadSession, CompareToken, ClearSession,
       Access, StatementFails, Timeout, Answer, Refuse, Go, Lost

-----------------------------------------------------------------------------
(* The other parts of the invariant, one step at a time *)

\* What a row's session can be after a step: what it was, or a token stored right now.
LEMMA SessionsComeFromStores ==
    ASSUME TypeOK, [Next]_vars, NEW v \in users', v.session # None
    PROVE  \/ \E u \in users : u.id = v.id /\ u.session = v.session
           \/ \E r \in Requests : StoreSession(r) /\ v.id = sub[r] /\ v.session = minted[r]
<1>1. CASE users' = users
  BY <1>1
<1>2. ASSUME NEW r \in Requests, InsertUser(r) PROVE v \in users
  BY <1>2 DEF InsertUser, NewUser
<1>3. ASSUME NEW r \in Requests, StoreSession(r)
      PROVE \E u \in users : /\ v.id = u.id
                             /\ v.session = u.session \/ (v.session = minted[r] /\ u.id = sub[r])
  BY <1>3, SetSessionKeepsRows DEF StoreSession
<1>4. ASSUME NEW r \in Requests, ClearSession(r)
      PROVE \E u \in users : u.id = v.id /\ u.session = v.session
  BY <1>4, SetSessionKeepsRows DEF ClearSession
<1> QED
  BY <1>1, <1>2, <1>3, <1>4
  DEF Next, vars, Receive, RegisterLookup, InsertTaken, LoginLookup, SignTokens,
      VerifyRefresh, ReadSession, CompareToken, Access, StatementFails, Timeout, Tick

\* New rows come from registrations.
LEMMA AccountsComeFromInserts ==
    ASSUME TypeOK, [Next]_vars, NEW v \in users', ~ \E u \in users : u.id = v.id
    PROVE  \E r \in Requests : InsertUser(r)
<1>1. ASSUME NEW id, NEW token, SetSession(id, token) PROVE FALSE
  BY <1>1, SetSessionKeepsRows
<1> QED
  BY <1>1
  DEF Next, vars, Receive, RegisterLookup, InsertTaken, LoginLookup, SignTokens,
      StoreSession, VerifyRefresh, ReadSession, CompareToken, ClearSession, Access,
      StatementFails, Timeout, Tick

\* Whom a handler has just found by the password has earned what it gets.
LEMMA FoundUsersEarn ==
    ASSUME TypeOK, PhasesMatchOps, NEW r \in Requests, InsertUser(r) \/ LoginLookup(r)
    PROVE  pc'[r] = "sign" => Earned(sub[r])'
<1>1. body[r] \in Bodies /\ body[r].cred = [email |-> body[r].cred.email,
                                           password |-> body[r].cred.password]
  <2>1. body[r] \in Bodies /\ body[r].op \in {"register", "login"}
    BY DEF TypeOK, PhasesMatchOps, Phase, InsertUser, LoginLookup
  <2> QED
    BY <2>1, BodiesTyped DEF Credentials
<1>2. CASE InsertUser(r)
  <2>1. NewUser(r) \in users' /\ sub'[r] = r /\ body' = body
    BY <1>2 DEF InsertUser, TypeOK
  <2>2. /\ NewUser(r).id = r
        /\ NewUser(r).email = body[r].cred.email
        /\ NewUser(r).password = body[r].cred.password
    BY DEF NewUser
  <2>3. body[r].op = "register"
    BY <1>2 DEF InsertUser, PhasesMatchOps, Phase
  <2> QED
    BY <1>1, <2>1, <2>2, <2>3 DEF Earned
<1>3. CASE LoginLookup(r)
  <2> HAVE pc'[r] = "sign"
  <2>1. PICK u \in Authentic(r) : sub' = [sub EXCEPT ![r] = u.id]
    BY <1>3 DEF LoginLookup, Refuse, Answer, TypeOK
  <2>2. u \in users' /\ sub'[r] = u.id /\ body' = body /\ body[r].op = "login"
    BY <1>3, <2>1 DEF LoginLookup, Authentic, ByEmail, TypeOK
  <2> QED
    BY <1>1, <2>1, <2>2 DEF Earned, Authentic, ByEmail
<1> QED
  BY <1>2, <1>3

\* A handler in a phase has set what handlers of its operation have set by then; one
\* that signs or stores has earned the user it acts for.
LEMMA NextPhases ==
    ASSUME IInv, [Next]_vars
    PROVE  PhasesMatchOps'
<1>0. TypeOK /\ PhasesMatchOps
  BY DEF IInv
<1> SUFFICES ASSUME NEW q \in Requests
             PROVE  Phase(q)'
  BY DEF PhasesMatchOps, Phase
<1>1. pc[q] \in {"sign", "store"} => Earned(sub[q])'
  <2> HAVE pc[q] \in {"sign", "store"}
  <2>1. Earned(sub[q]) /\ sub[q] \in Ids
    BY <1>0, EarnedIsId DEF PhasesMatchOps, Phase
  <2>2. sub'[q] = sub[q]
    BY <1>0, <2>1, FoundUsersStay, NoneAssumption
  <2> QED
    BY <1>0, <2>1, <2>2, EarnedStays
<1>2. \A b \in Bodies : b # None /\ b.op \in {"register", "login", "refresh", "logout"} \cup Guarded
  BY NoneAssumption DEF Bodies, Guarded
<1>3. ASSUME NEW r \in Requests, InsertUser(r) \/ LoginLookup(r), pc'[r] = "sign"
      PROVE Earned(sub[r])'
  BY <1>0, <1>3, FoundUsersEarn
<1>4. ASSUME NEW r \in Requests, r # q, HandlerStep(r)
      PROVE /\ pc'[q] = pc[q] /\ body'[q] = body[q] /\ sub'[q] = sub[q] /\ resp'[q] = resp[q]
  BY <1>0, <1>4, OthersStay
<1>5. CASE UNCHANGED vars \/ Tick
  BY <1>0, <1>1, <1>5 DEF PhasesMatchOps, Phase, vars, Tick
<1>6. ASSUME NEW r \in Requests, r # q, HandlerStep(r)
      PROVE Phase(q)'
  BY <1>0, <1>1, <1>4, <1>6 DEF PhasesMatchOps, Phase
<1>7. ASSUME HandlerStep(q)
      PROVE Phase(q)'
  <2>1. ASSUME NEW b \in Bodies, Receive(q, b) PROVE Phase(q)'
    BY <1>0, <1>2, <2>1 DEF TypeOK, PhasesMatchOps, Phase, Receive, Go, Guarded
  <2>2. CASE RegisterLookup(q) \/ InsertTaken(q) \/ ReadSession(q) \/ CompareToken(q)
               \/ ClearSession(q) \/ StatementFails(q)
    BY <1>0, <2>2 DEF TypeOK, PhasesMatchOps, Phase, RegisterLookup, InsertTaken, ReadSession,
                      CompareToken, ClearSession, StatementFails, Refuse, Answer, Go, Lost
  <2>3. CASE InsertUser(q)
    BY <1>0, <1>3, <2>3 DEF TypeOK, PhasesMatchOps, Phase, InsertUser, Go, Lost, Refuse, Answer
  <2>4. CASE LoginLookup(q)
    BY <1>0, <1>3, <2>4 DEF TypeOK, PhasesMatchOps, Phase, LoginLookup, Go, Refuse, Answer
  <2>5. CASE SignTokens(q) \/ StoreSession(q)
    BY <1>0, <1>1, <2>5 DEF TypeOK, PhasesMatchOps, Phase, SignTokens, StoreSession, Go, Lost,
                            Refuse, Answer
  <2>6. CASE VerifyRefresh(q) \/ Access(q)
    BY <1>0, <2>6 DEF TypeOK, PhasesMatchOps, Phase, VerifyRefresh, Access, Go, Refuse, Answer
  <2>7. CASE Timeout(q)
    BY <1>0, <1>1, <2>7 DEF TypeOK, PhasesMatchOps, Phase, Timeout, InFlight
  <2> QED
    BY <1>7, <2>1, <2>2, <2>3, <2>4, <2>5, <2>6, <2>7 DEF HandlerStep
<1> QED
  BY <1>5, <1>6, <1>7, NextIsHandlerStep

\* The history only grows while a request is on its way.
LEMMA LiveGrows ==
    ASSUME IInv, [Next]_vars, NEW q \in Requests, pc[q] # "idle"
    PROVE  live[q] => live'[q]
BY DEF IInv, TypeOK, Next, vars, Receive, RegisterLookup, InsertUser, InsertTaken,
       LoginLookup, SignTokens, StoreSession, VerifyRefresh, ReadSession, CompareToken,
       ClearSession, Access, StatementFails, Timeout, Tick

\* What a request was sent stays.
LEMMA BodiesStay ==
    ASSUME IInv, [Next]_vars, NEW q \in Requests, pc[q] # "idle"
    PROVE  body'[q] = body[q] /\ pc'[q] # "idle"
BY DEF IInv, TypeOK, Next, vars, Receive, RegisterLookup, InsertUser, InsertTaken,
       LoginLookup, SignTokens, StoreSession, VerifyRefresh, ReadSession, CompareToken,
       ClearSession, Access, StatementFails, Timeout, Tick, Answer, Refuse, Go, Lost

\* A handler that is over stays so.
LEMMA DoneIsDone ==
    ASSUME IInv, [Next]_vars, NEW q \in Requests, pc[q] = "done"
    PROVE  pc'[q] = "done"
<1>0. TypeOK /\ pc[q] # "idle" /\ pc[q] \notin InFlight
  BY DEF IInv, InFlight
<1>1. CASE HandlerStep(q)
  BY <1>0, <1>1
  DEF HandlerStep, Receive, RegisterLookup, InsertUser, InsertTaken, LoginLookup,
      SignTokens, StoreSession, VerifyRefresh, ReadSession, CompareToken, ClearSession,
      Access, StatementFails, Timeout, InFlight
<1> QED
  BY <1>0, <1>1, NextIsHandlerStep, OthersStay DEF vars, Tick

\* Only a handler's own insert makes its account, so a handler that inserts finds no
\* account of its id.
LEMMA NextAccountsMatch ==
    ASSUME IInv, [Next]_vars
    PROVE  AccountsMatchHandlers'
<1>0. TypeOK /\ PhasesMatchOps /\ AccountsMatchHandlers
  BY DEF IInv
<1>1. ASSUME NEW v \in users', v.id \in Requests
      PROVE pc'[v.id] \notin {"idle", "find", "insert"}
  <2>1. CASE \E u \in users : u.id = v.id
    <3>0. PICK q \in Requests : q = v.id
      BY <1>1
    <3>1. pc[q] \notin {"idle", "find", "insert"}
      <4>1. PICK u \in users : u.id = q
        BY <2>1, <3>0
      <4> QED
        BY <1>0, <4>1 DEF AccountsMatchHandlers
    <3>2. HandlerStep(q) => pc'[q] \notin {"idle", "find", "insert"}
      BY <1>0, <3>1
      DEF TypeOK, PhasesMatchOps, Phase, HandlerStep, Receive, RegisterLookup, InsertUser,
          InsertTaken, LoginLookup, SignTokens, StoreSession, VerifyRefresh, ReadSession,
          CompareToken, ClearSession, Access, StatementFails, Timeout, Answer, Refuse, Go,
          Lost
    <3>3. HandlerStep(q) \/ pc'[q] = pc[q]
      BY <1>0, NextIsHandlerStep, OthersStay DEF vars, Tick
    <3> QED
      BY <3>0, <3>1, <3>2, <3>3
  <2>2. CASE ~ \E u \in users : u.id = v.id
    <3>1. PICK r \in Requests : InsertUser(r)
      BY <1>0, <2>2, AccountsComeFromInserts
    <3>2. v.id = r
      BY <2>2, <3>1 DEF InsertUser, NewUser
    <3> QED
      BY <1>0, <3>1, <3>2 DEF TypeOK, InsertUser, Go, Lost, Refuse, Answer
  <2> QED
    BY <2>1, <2>2
<1>2. ASSUME NEW q \in Requests, pc'[q] \in {"sign", "store"}, body'[q].op = "register"
      PROVE \E v \in users' : v.id = q /\ v.email = body'[q].cred.email
                                         /\ v.password = body'[q].cred.password
  <2>1. CASE pc[q] \in {"sign", "store"}
    <3>1. body'[q] = body[q]
      BY <2>1, BodiesStay
    <3>2. PICK u \in users : u.id = q /\ u.email = body[q].cred.email
                                      /\ u.password = body[q].cred.password
      BY <1>0, <1>2, <2>1, <3>1 DEF AccountsMatchHandlers
    <3> QED
      BY <1>0, <3>1, <3>2, AccountsStay
  <2>2. CASE InsertUser(q)
    <3>1. /\ NewUser(q) \in users' /\ body' = body
          /\ NewUser(q).id = q
          /\ NewUser(q).email = body[q].cred.email
          /\ NewUser(q).password = body[q].cred.password
      BY <2>2 DEF InsertUser, NewUser
    <3> QED
      BY <3>1
  <2>3. CASE pc[q] \notin {"sign", "store"} /\ ~InsertUser(q)
    <3>1. PICK r \in Requests : HandlerStep(r)
      BY <1>2, <2>3, NextIsHandlerStep DEF vars, Tick
    <3>2. r = q
      BY <1>0, <1>2, <2>3, <3>1, OthersStay
    <3>3. LoginLookup(q)
      BY <1>0, <1>2, <2>3, <3>1, <3>2
      DEF TypeOK, HandlerStep, Receive, RegisterLookup, InsertTaken, SignTokens,
          StoreSession, VerifyRefresh, ReadSession, CompareToken, ClearSession, Access,
          StatementFails, Timeout, Answer, Refuse, Go, Lost
    <3> QED
      BY <1>2, <3>3 DEF LoginLookup
  <2> QED
    BY <2>1, <2>2, <2>3
<1> QED
  BY <1>1, <1>2 DEF AccountsMatchHandlers

\* A registration's client is answered OK by the store of its session.
LEMMA RegistersAreAnsweredByStores ==
    ASSUME TypeOK, PhasesMatchOps, [Next]_vars, NEW q \in Requests,
           body'[q] # None, body'[q].op = "register", resp'[q].status = "OK"
    PROVE  /\ pc[q] # "idle" /\ body'[q] = body[q]
           /\ resp[q].status = "OK" \/ pc[q] = "store"
<1>1. CASE resp'[q] = resp[q] /\ body'[q] = body[q]
  BY <1>1 DEF PhasesMatchOps, Phase
<1>2. CASE resp'[q] # resp[q] \/ body'[q] # body[q]
  <2>1. PICK r \in Requests : HandlerStep(r)
    BY <1>2, NextIsHandlerStep DEF vars, Tick
  <2>2. r = q
    BY <1>2, <2>1, OthersStay
  <2> QED
    BY <2>1, <2>2
    DEF TypeOK, PhasesMatchOps, Phase, HandlerStep, Receive, RegisterLookup, InsertUser,
        InsertTaken, LoginLookup, SignTokens, StoreSession, VerifyRefresh, ReadSession,
        CompareToken, ClearSession, Access, StatementFails, Timeout, Answer, Refuse, Go,
        Lost, NoAnswer, InFlight, Guarded
<1> QED
  BY <1>1, <1>2

\* The insert finds the email free, whatever the lookup saw; updates keep emails.
LEMMA NextOneAccount ==
    ASSUME IInv, [Next]_vars
    PROVE  OneAccountPerEmail'
<1>0. TypeOK /\ PhasesMatchOps /\ AccountsMatchHandlers /\ OneAccountPerEmail
  BY DEF IInv
<1>1. ASSUME NEW u \in users', NEW v \in users', u.email = v.email \/ u.id = v.id
      PROVE u = v
  <2>1. CASE users' = users
    BY <1>0, <1>1, <2>1 DEF OneAccountPerEmail
  <2>2. ASSUME NEW r \in Requests, InsertUser(r) PROVE u = v
    <3>1. \A w \in users : w.email # NewUser(r).email /\ w.id # NewUser(r).id
      BY <1>0, <2>2 DEF InsertUser, ByEmail, NewUser, AccountsMatchHandlers
    <3> QED
      BY <1>0, <1>1, <2>2, <3>1 DEF InsertUser, OneAccountPerEmail
  <2>3. ASSUME NEW id, NEW token, SetSession(id, token) PROVE u = v
    <3> DEFINE New(w) == IF w.id = id THEN [w EXCEPT !.session = token] ELSE w
    <3>1. PICK w \in users, x \in users : u = New(w) /\ v = New(x)
      BY <1>1, <2>3 DEF SetSession
    <3>2. w.id = u.id /\ w.email = u.email /\ x.id = v.id /\ x.email = v.email
      BY <1>0, <3>1 DEF TypeOK
    <3>3. w = x
      BY <1>0, <1>1, <3>2 DEF OneAccountPerEmail
    <3> QED
      BY <3>1, <3>3
  <2>4. (users' = users) \/ (\E r \in Requests : InsertUser(r)) \/ \E id, token : SetSession(id, token)
    BY DEF Next, vars, Receive, RegisterLookup, InsertTaken, LoginLookup, SignTokens,
           StoreSession, VerifyRefresh, ReadSession, CompareToken, ClearSession, Access,
           StatementFails, Timeout, Tick
  <2> QED
    BY <2>1, <2>2, <2>3, <2>4
<1>2. ASSUME NEW q \in Requests, body'[q] # None, body'[q].op = "register",
             resp'[q].status = "OK"
      PROVE \E v \in users' : v.id = q /\ v.email = body'[q].cred.email
                                         /\ v.password = body'[q].cred.password
  <2>1. /\ pc[q] # "idle" /\ body'[q] = body[q]
        /\ resp[q].status = "OK" \/ pc[q] = "store"
    BY <1>0, <1>2, RegistersAreAnsweredByStores
  <2>2. PICK u \in users : u.id = q /\ u.email = body[q].cred.email
                                    /\ u.password = body[q].cred.password
    <3>1. CASE resp[q].status = "OK"
      BY <1>0, <1>2, <2>1, <3>1 DEF OneAccountPerEmail
    <3>2. CASE pc[q] = "store"
      BY <1>0, <1>2, <2>1, <3>2 DEF AccountsMatchHandlers
    <3> QED
      BY <2>1, <3>1, <3>2
  <2> QED
    BY <1>0, <2>1, <2>2, AccountsStay
<1> QED
  BY <1>1, <1>2 DEF OneAccountPerEmail

\* An id is one row's.
LEMMA OneRowPerId ==
    ASSUME IInv, NEW u \in users, NEW v \in users, u.id = v.id
    PROVE  u = v
BY DEF IInv, OneAccountPerEmail

\* refresh compares with what some row held: if that is the request's own token, it was
\* live.
LEMMA NextTokensMatch ==
    ASSUME IInv, [Next]_vars
    PROVE  TokensMatchHandlers'
<1>0. /\ TypeOK /\ PhasesMatchOps /\ TokensMatchHandlers /\ LiveIsCurrent /\ TokensAreEarned
  BY DEF IInv
<1> DEFINE Holds(q) ==
        /\ pc[q] = "store" => minted[q] # None /\ minted[q].sub = sub[q]
        /\ pc[q] = "compare" =>
              /\ Earned(sub[q])
              /\ seen[q] # None
              /\ (seen[q] = body[q].token => live[q])
        /\ pc[q] = "verify" /\ body[q].op \in Guarded /\ body[q].token # None =>
              Earned(body[q].token.sub)
<1> SUFFICES ASSUME NEW q \in Requests PROVE Holds(q)'
  BY DEF TokensMatchHandlers
<1>1. pc[q] = "compare" => Earned(sub[q])' /\ (live[q] => live'[q])
  <2> HAVE pc[q] = "compare"
  <2>1. Earned(sub[q]) /\ sub[q] \in Ids
    BY <1>0, EarnedIsId DEF TokensMatchHandlers
  <2>2. sub'[q] = sub[q]
    BY <1>0, <2>1, FoundUsersStay, NoneAssumption
  <2> QED
    BY <1>0, <2>1, <2>2, EarnedStays, LiveGrows
<1>a. pc[q] = "verify" /\ body[q].op \in Guarded /\ body[q].token # None
        => Earned(body[q].token.sub)'
  <2> HAVE pc[q] = "verify" /\ body[q].op \in Guarded /\ body[q].token # None
  <2>1. Earned(body[q].token.sub) /\ body[q].token.sub \in Ids
    BY <1>0, EarnedIsId DEF TokensMatchHandlers
  <2> DEFINE id == body[q].token.sub
  <2>2. Earned(id) /\ id \in Ids
    BY <2>1
  <2> HIDE DEF id
  <2>3. PICK w : w = id
    OBVIOUS
  <2>4. Earned(w)'
    BY <1>0, <2>2, <2>3, EarnedStays
  <2>5. body'[q] = body[q]
    BY <1>0, BodiesStay DEF PhasesMatchOps, Phase
  <2>6. body'[q].token.sub = w
    BY <2>3, <2>5 DEF id
  <2> QED
    BY <2>4, <2>6
<1>2. CASE /\ pc'[q] = pc[q] /\ body'[q] = body[q] /\ sub'[q] = sub[q]
           /\ seen'[q] = seen[q] /\ minted'[q] = minted[q]
  BY <1>0, <1>1, <1>2, <1>a DEF TokensMatchHandlers
<1>3. ASSUME SignTokens(q) PROVE Holds(q)'
  <2>1. pc'[q] = "store" /\ minted'[q] = [sub |-> sub[q], iat |-> now] /\ sub'[q] = sub[q]
    BY <1>0, <1>3 DEF SignTokens, TypeOK, Go
  <2>2. [sub |-> sub[q], iat |-> now] \in Tokens
    <3>1. sub[q] \in Ids
      BY <1>0, <1>3, EarnedIsId DEF SignTokens, PhasesMatchOps, Phase
    <3> QED
      BY <1>0, <3>1 DEF TypeOK, Tokens
  <2> QED
    BY <2>1, <2>2, NoneAssumption
<1>4. ASSUME ReadSession(q), pc'[q] = "compare" PROVE Holds(q)'
  <2>1. PICK u \in ById(sub[q]) : seen' = [seen EXCEPT ![q] = u.session]
    BY <1>0, <1>4 DEF ReadSession, Refuse, Answer, TypeOK
  <2>2. u \in users /\ u.id = sub[q] /\ seen'[q] = u.session
    BY <1>0, <2>1 DEF ById, TypeOK
  <2>3. u.session # None
    BY <1>0, <1>4, <2>1, OneRowPerId DEF ReadSession, Refuse, Answer, TypeOK, ById, IInv
  <2>4. Earned(sub[q])'
    <3>1. Earned(sub[q]) /\ sub[q] \in Ids
      BY <1>0, <2>2, <2>3, EarnedIsId DEF TokensAreEarned
    <3> QED
      BY <1>0, <1>4, <3>1, EarnedStays DEF ReadSession
  <2>5. seen'[q] = body[q].token => live[q]
    BY <1>0, <1>4, <2>2, <2>3
    DEF LiveIsCurrent, IsSession, ReadSession, PhasesMatchOps, Phase
  <2> QED
    BY <1>4, <2>2, <2>3, <2>4, <2>5 DEF ReadSession
<1>5. ASSUME HandlerStep(q), ~SignTokens(q), ~ReadSession(q) PROVE Holds(q)'
  <2>1. \/ pc'[q] \notin {"store", "compare", "verify"}
        \/ Timeout(q)
        \/ \E b \in Bodies : Receive(q, b)
    BY <1>0, <1>5
    DEF TypeOK, HandlerStep, Receive, RegisterLookup, InsertUser, InsertTaken, LoginLookup,
        StoreSession, VerifyRefresh, CompareToken, ClearSession, Access, StatementFails,
        Answer, Refuse, Go, Lost
  <2>2. CASE Timeout(q)
    BY <1>2, <2>2 DEF Timeout
  <2>3. ASSUME NEW b \in Bodies, Receive(q, b) PROVE Holds(q)'
    <3>1. /\ body'[q] = b /\ pc'[q] \in {"find", "verify"}
          /\ b.op \in Guarded => b.token \in AccessTokens
      BY <1>0, <2>3 DEF Receive, Go, TypeOK
    <3>2. ASSUME b.op \in Guarded, b.token # None PROVE Earned(b.token.sub)'
      <4>1. PICK r \in Requests : b.token = resp[r].access
        BY <3>1, <3>2 DEF AccessTokens
      <4>2. Earned(b.token.sub) /\ b.token.sub \in Ids
        BY <1>0, <3>2, <4>1, EarnedIsId DEF TokensAreEarned
      <4> QED
        BY <1>0, <4>2, EarnedStays
    <3> QED
      BY <3>1, <3>2
  <2> QED
    BY <2>1, <2>2, <2>3
<1>6. ASSUME ReadSession(q), pc'[q] # "compare"
      PROVE pc'[q] \notin {"store", "compare", "verify"}
  BY <1>0, <1>6 DEF ReadSession, TypeOK, Refuse, Answer, Go
<1>7. \/ HandlerStep(q)
      \/ /\ pc'[q] = pc[q] /\ body'[q] = body[q] /\ sub'[q] = sub[q]
         /\ seen'[q] = seen[q] /\ minted'[q] = minted[q]
  BY <1>0, NextIsHandlerStep, OthersStay DEF vars, Tick
<1> QED
  BY <1>2, <1>3, <1>4, <1>5, <1>6, <1>7

\* A token gets into a row by being there at the start of the request, or by a store
\* that the history records.
LEMMA NextLive ==
    ASSUME IInv, [Next]_vars
    PROVE  LiveIsCurrent'
<1>0. TypeOK /\ PhasesMatchOps /\ LiveIsCurrent
  BY DEF IInv
<1> SUFFICES ASSUME NEW q \in Requests,
                    pc'[q] \notin {"idle", "done"}, body'[q].op = "refresh",
                    NEW v \in users', v.session = body'[q].token, v.session # None
             PROVE  live'[q]
  BY DEF LiveIsCurrent, IsSession
<1>1. CASE pc[q] = "idle"
  <2>1. PICK b \in Bodies : Receive(q, b)
    <3>1. HandlerStep(q)
      BY <1>0, <1>1, NextIsHandlerStep, OthersStay DEF vars, Tick
    <3> QED
      BY <1>0, <1>1, <3>1
      DEF HandlerStep, PhasesMatchOps, Phase, RegisterLookup, InsertUser, InsertTaken, LoginLookup,
          SignTokens, StoreSession, VerifyRefresh, ReadSession, CompareToken, ClearSession,
          Access, StatementFails, Timeout, InFlight
  <2> QED
    BY <1>0, <2>1 DEF Receive, TypeOK, IsSession
<1>2. CASE pc[q] # "idle"
  <2>1. body'[q] = body[q] /\ pc[q] # "done"
    BY <1>0, <1>2, BodiesStay, DoneIsDone
  <2>2. CASE \E u \in users : u.id = v.id /\ u.session = v.session
    <3>1. live[q]
      BY <1>0, <1>2, <2>1, <2>2 DEF LiveIsCurrent, IsSession
    <3> QED
      BY <1>2, <3>1, LiveGrows
  <2>3. ASSUME NEW r \in Requests, StoreSession(r), v.session = minted[r]
        PROVE live'[q]
    BY <1>0, <1>2, <2>1, <2>3 DEF StoreSession, PhasesMatchOps, Phase
  <2> QED
    BY <1>0, <2>2, <2>3, SessionsComeFromStores
<1> QED
  BY <1>1, <1>2

\* What a client has been answered is not taken back.
LEMMA AnswersStay ==
    ASSUME IInv, [Next]_vars, NEW q \in Requests
    PROVE  /\ resp'[q].status = "none" => resp'[q] = NoAnswer
           /\ resp[q].refresh # None => resp'[q] = resp[q]
<1>0. TypeOK /\ PhasesMatchOps /\ (resp[q].status = "none" => resp[q] = NoAnswer)
  BY DEF IInv, HandlersSpeakForUsers
<1>1. HandlerStep(q) => \/ resp'[q] = resp[q]
                        \/ resp[q].status = "none" /\ resp'[q].status # "none"
  BY <1>0
  DEF TypeOK, PhasesMatchOps, Phase, HandlerStep, Receive, RegisterLookup, InsertUser,
      InsertTaken, LoginLookup, SignTokens, StoreSession, VerifyRefresh, ReadSession,
      CompareToken, ClearSession, Access, StatementFails, Timeout, Answer, Refuse, Go, Lost,
      NoAnswer
<1>2. resp'[q] = resp[q] \/ (resp[q].status = "none" /\ resp'[q].status # "none")
  BY <1>0, <1>1, NextIsHandlerStep, OthersStay DEF vars, Tick
<1>3. NoAnswer.refresh = None
  BY DEF NoAnswer
<1> QED
  BY <1>0, <1>2, <1>3

\* Who speaks for a user goes on doing so.
LEMMA SpeakersStay ==
    ASSUME IInv, [Next]_vars, NEW q \in Requests, pc[q] # "idle",
           NEW u \in users, SpeaksFor(q, u)
    PROVE  \E v \in users' : v.id = u.id /\ SpeaksFor(q, v)'
<1>1. TypeOK /\ body'[q] = body[q]
  BY BodiesStay DEF IInv
<1>2. PICK v \in users' : v.id = u.id /\ v.email = u.email /\ v.password = u.password
  BY <1>1, AccountsStay
<1>3. \A p \in Requests : resp[p].refresh # None => resp'[p] = resp[p]
  BY AnswersStay
<1>4. SpeaksFor(q, v)'
  BY <1>1, <1>2, <1>3 DEF SpeaksFor
<1> QED
  BY <1>2, <1>4

\* Tokens are handed out for users the handler speaks for, and stored for users it has
\* earned.
LEMMA NextEarned ==
    ASSUME IInv, [Next]_vars
    PROVE  TokensAreEarned'
<1>0. /\ TypeOK /\ PhasesMatchOps /\ TokensMatchHandlers /\ TokensAreEarned
      /\ HandlersSpeakForUsers
  BY DEF IInv
<1>1. ASSUME NEW id, Earned(id) PROVE Earned(id)'
  BY <1>0, <1>1, EarnedIsId, EarnedStays
<1>2. ASSUME NEW r \in Requests, StoreSession(r)
      PROVE minted[r].sub = sub[r] /\ Earned(sub[r])'
  BY <1>0, <1>1, <1>2 DEF StoreSession, TokensMatchHandlers, PhasesMatchOps, Phase
<1>3. ASSUME NEW q \in Requests, NEW token \in {resp'[q].access, resp'[q].refresh} \ {None}
      PROVE Earned(token.sub)'
  <2>1. CASE resp'[q] = resp[q]
    <3>1. Earned(token.sub)
      BY <1>0, <1>3, <2>1 DEF TokensAreEarned
    <3> QED
      BY <1>1, <3>1
  <2>2. CASE StoreSession(q)
    <3>1. token = minted[q] \/ resp'[q] = resp[q]
      BY <1>0, <1>3, <2>2 DEF TypeOK, StoreSession, Lost, Refuse, Answer
    <3>2. minted[q].sub = sub[q] /\ sub' = sub /\ Earned(sub[q])'
      BY <1>2, <2>2 DEF StoreSession
    <3> QED
      BY <2>1, <3>1, <3>2
  <2>3. CASE CompareToken(q)
    <3>1. token = [sub |-> sub[q], iat |-> now] \/ resp'[q] = resp[q]
      BY <1>0, <1>3, <2>3 DEF TypeOK, CompareToken, Refuse, Answer
    <3>2. sub' = sub /\ Earned(sub[q])'
      BY <1>0, <1>1, <2>3 DEF CompareToken, TokensMatchHandlers
    <3> QED
      BY <2>1, <3>1, <3>2
  <2>4. CASE HandlerStep(q) /\ ~StoreSession(q) /\ ~CompareToken(q)
    <3>1. resp'[q] = resp[q] \/ (resp'[q].access = None /\ resp'[q].refresh = None)
      BY <1>0, <2>4
      DEF TypeOK, HandlerStep, Receive, RegisterLookup, InsertUser, InsertTaken, LoginLookup,
          SignTokens, VerifyRefresh, ReadSession, ClearSession, Access, StatementFails,
          Timeout, Answer, Refuse, Go, Lost, NoAnswer
    <3> QED
      BY <1>3, <2>1, <3>1
  <2> QED
    BY <1>0, <2>1, <2>2, <2>3, <2>4, NextIsHandlerStep, OthersStay DEF vars, Tick
<1>4. ASSUME NEW v \in users', v.session # None
      PROVE Earned(v.id)' /\ v.session.sub = v.id
  <2>1. CASE \E u \in users : u.id = v.id /\ u.session = v.session
    <3>1. Earned(v.id) /\ v.session.sub = v.id
      BY <1>0, <1>4, <2>1 DEF TokensAreEarned
    <3> QED
      BY <1>1, <3>1
  <2>2. ASSUME NEW r \in Requests, StoreSession(r), v.id = sub[r], v.session = minted[r]
        PROVE Earned(v.id)' /\ v.session.sub = v.id
    <3>1. sub' = sub
      BY <2>2 DEF StoreSession
    <3> QED
      BY <1>2, <2>2, <3>1
  <2> QED
    BY <1>0, <1>4, <2>1, <2>2, SessionsComeFromStores
<1>5. ASSUME NEW q \in Requests, NEW token \in {resp'[q].access, resp'[q].refresh} \ {None}
      PROVE \E v \in users' : v.id = token.sub /\ SpeaksFor(q, v)'
  <2>1. CASE resp'[q] = resp[q]
    <3>1. PICK u \in users : u.id = token.sub /\ SpeaksFor(q, u)
      BY <1>0, <1>5, <2>1 DEF TokensAreEarned
    <3>2. pc[q] # "idle"
      BY <1>0, <1>5, <2>1 DEF PhasesMatchOps, Phase, NoAnswer
    <3> QED
      BY <3>1, <3>2, SpeakersStay
  <2>2. CASE (StoreSession(q) \/ CompareToken(q)) /\ resp'[q] # resp[q]
    <3>1. token.sub = sub[q] /\ pc[q] \in {"store", "compare"}
      <4>1. CASE StoreSession(q)
        BY <1>0, <1>2, <1>5, <2>2, <4>1 DEF TypeOK, StoreSession, Lost, Refuse, Answer
      <4>2. CASE CompareToken(q)
        BY <1>0, <1>5, <2>2, <4>2 DEF TypeOK, CompareToken, Refuse, Answer
      <4> QED
        BY <2>2, <4>1, <4>2
    <3>2. PICK u \in users : u.id = sub[q] /\ SpeaksFor(q, u)
      BY <1>0, <3>1 DEF HandlersSpeakForUsers
    <3> QED
      BY <3>1, <3>2, SpeakersStay
  <2>3. CASE HandlerStep(q) /\ ~StoreSession(q) /\ ~CompareToken(q)
    <3>1. resp'[q] = resp[q] \/ (resp'[q].access = None /\ resp'[q].refresh = None)
      BY <1>0, <2>3
      DEF TypeOK, HandlerStep, Receive, RegisterLookup, InsertUser, InsertTaken, LoginLookup,
          SignTokens, VerifyRefresh, ReadSession, ClearSession, Access, StatementFails,
          Timeout, Answer, Refuse, Go, Lost, NoAnswer
    <3> QED
      BY <1>5, <2>1, <3>1
  <2> QED
    BY <1>0, <2>1, <2>2, <2>3, NextIsHandlerStep, OthersStay DEF vars, Tick
<1> QED
  BY <1>3, <1>4, <1>5 DEF TokensAreEarned

\* refresh answers OK only after the comparison.
LEMMA NextRefresh ==
    ASSUME IInv, [Next]_vars
    PROVE  RefreshHadSession'
<1>0. /\ TypeOK /\ PhasesMatchOps /\ TokensMatchHandlers /\ RefreshHadSession
  BY DEF IInv
<1> SUFFICES ASSUME NEW q \in Requests, body'[q] # None, body'[q].op = "refresh",
                    resp'[q].status = "OK"
             PROVE  live'[q]
  BY DEF RefreshHadSession
<1>1. CASE resp'[q] = resp[q] /\ body'[q] = body[q]
  <2>1. live[q] /\ pc[q] # "idle"
    BY <1>0, <1>1 DEF RefreshHadSession, PhasesMatchOps, Phase
  <2> QED
    BY <2>1, LiveGrows
<1>2. CASE CompareToken(q)
  <2>1. resp[q].status = "OK" \/ seen[q] = body[q].token
    BY <1>0, <1>2 DEF TypeOK, CompareToken, Refuse, Answer
  <2>2. live[q]
    BY <1>0, <1>2, <2>1
    DEF CompareToken, TokensMatchHandlers, RefreshHadSession, PhasesMatchOps, Phase
  <2> QED
    BY <1>2, <2>2 DEF CompareToken
<1>3. CASE HandlerStep(q) /\ ~CompareToken(q)
  <2>1. resp'[q] = resp[q] /\ body'[q] = body[q]
    BY <1>0, <1>3
    DEF TypeOK, PhasesMatchOps, Phase, HandlerStep, Receive, RegisterLookup, InsertUser,
        InsertTaken, LoginLookup, SignTokens, StoreSession, VerifyRefresh, ReadSession,
        ClearSession, Access, StatementFails, Timeout, Answer, Refuse, Go, Lost, NoAnswer,
        InFlight, Guarded
  <2> QED
    BY <1>1, <2>1
<1> QED
  BY <1>0, <1>1, <1>2, <1>3, NextIsHandlerStep, OthersStay DEF vars, Tick

\* No step changes a role, and registration gives the least one.
LEMMA RolesStay ==
    ASSUME TypeOK, [Next]_vars, NEW v \in users', v.role = "ADMIN"
    PROVE  \E u \in users : u.id = v.id /\ u.role = "ADMIN"
<1>1. CASE users' = users
  BY <1>1
<1>2. ASSUME NEW r \in Requests, InsertUser(r)
      PROVE  v \in users
  BY <1>2 DEF InsertUser, NewUser
<1>3. ASSUME NEW id, NEW token, SetSession(id, token)
      PROVE  \E u \in users : u.id = v.id /\ u.role = "ADMIN"
  BY <1>3, SetSessionKeepsRows
<1> QED
  BY <1>1, <1>2, <1>3
  DEF Next, vars, Receive, RegisterLookup, InsertTaken, LoginLookup, SignTokens,
      StoreSession, VerifyRefresh, ReadSession, CompareToken, ClearSession, Access,
      StatementFails, Timeout, Tick

\* Only the guards answer a guarded request, with a token that was handed out.
LEMMA NextGuards ==
    ASSUME IInv, [Next]_vars
    PROVE  GuardsAdmitTheEarned'
<1>0. /\ TypeOK /\ PhasesMatchOps /\ TokensMatchHandlers /\ GuardsAdmitTheEarned
  BY DEF IInv
<1> DEFINE Seeded(id) == \E u \in SeedUsers : u.id = id /\ u.role = "ADMIN"
<1>1. ASSUME NEW v \in users', v.role = "ADMIN" PROVE Seeded(v.id)
  BY <1>0, <1>1, RolesStay DEF GuardsAdmitTheEarned
<1>2. ASSUME NEW q \in Requests, body'[q] # None, body'[q].op \in Guarded,
             resp'[q].status = "OK"
      PROVE  Earned(sub[q])' /\ (body'[q].op = "remove" => Seeded(sub'[q]))
  <2>1. CASE resp'[q] = resp[q] /\ body'[q] = body[q]
    <3>1. Earned(sub[q]) /\ (body[q].op = "remove" => Seeded(sub[q]))
      BY <1>0, <1>2, <2>1 DEF GuardsAdmitTheEarned
    <3>2. sub[q] \in Ids
      BY <1>0, <3>1, EarnedIsId
    <3>3. sub'[q] = sub[q]
      BY <1>0, <3>2, FoundUsersStay, NoneAssumption
    <3> QED
      BY <1>0, <2>1, <3>1, <3>2, <3>3, EarnedStays
  <2>2. CASE Access(q)
    <3>1. /\ body' = body /\ users' = users
          /\ pc[q] = "verify" /\ body[q].op \in Guarded
      BY <2>2 DEF Access
    <3>2. CASE resp'[q] = resp[q]
      BY <2>1, <3>1, <3>2
    <3>3. CASE resp'[q] # resp[q]
      <4>1. /\ body[q].token # None /\ sub'[q] = body[q].token.sub
            /\ RoleSuffices(q)
        BY <1>0, <1>2, <2>2, <3>3 DEF Access, Verified, Refuse, Answer, TypeOK
      <4>2. Earned(body[q].token.sub) /\ body[q].token.sub \in Ids
        BY <1>0, <3>1, <4>1, EarnedIsId DEF TokensMatchHandlers
      <4>3. PICK id \in Ids : id = body[q].token.sub
        BY <4>2
      <4>4. Earned(id)'
        BY <1>0, <4>2, <4>3, EarnedStays
      <4>5. body[q].op = "remove" => Seeded(id)
        BY <1>1, <3>1, <4>1, <4>3 DEF RoleSuffices, ById
      <4> QED
        BY <3>1, <4>1, <4>3, <4>4, <4>5
    <3> QED
      BY <3>2, <3>3
  <2>3. CASE HandlerStep(q) /\ ~Access(q)
    <3>1. resp'[q] = resp[q] /\ body'[q] = body[q]
      BY <1>0, <1>2, <2>3
      DEF TypeOK, PhasesMatchOps, Phase, HandlerStep, Receive, RegisterLookup, InsertUser,
          InsertTaken, LoginLookup, SignTokens, StoreSession, VerifyRefresh, ReadSession,
          CompareToken, ClearSession, StatementFails, Timeout, Answer, Refuse, Go, Lost,
          NoAnswer, InFlight, Guarded
    <3> QED
      BY <2>1, <3>1
  <2> QED
    BY <1>0, <2>1, <2>2, <2>3, NextIsHandlerStep, OthersStay DEF vars, Tick
<1> QED
  BY <1>1, <1>2 DEF GuardsAdmitTheEarned

\* A handler looks its user up by the password, or by a token that was handed out.
LEMMA LookupsFindTheOwner ==
    ASSUME IInv, [Next]_vars, NEW q \in Requests,
           InsertUser(q) \/ LoginLookup(q) \/ VerifyRefresh(q),
           pc'[q] \in {"sign", "read", "clear"}
    PROVE  \E v \in users' : v.id = sub'[q] /\ SpeaksFor(q, v)'
<1>0. TypeOK /\ PhasesMatchOps /\ HandlersSpeakForUsers /\ TokensAreEarned
  BY DEF IInv
<1>1. body'[q] = body[q] /\ body[q] \in Bodies
  BY <1>0, NoneAssumption
  DEF InsertUser, LoginLookup, VerifyRefresh, TypeOK, PhasesMatchOps, Phase
<1>2. body[q].op \in {"register", "login"} =>
         body[q].cred = [email |-> body[q].cred.email, password |-> body[q].cred.password]
  BY <1>1, BodiesTyped DEF Credentials
<1>3. CASE InsertUser(q)
  <2>1. /\ NewUser(q) \in users' /\ sub'[q] = q /\ body[q].op = "register"
        /\ NewUser(q).id = q
        /\ NewUser(q).email = body[q].cred.email
        /\ NewUser(q).password = body[q].cred.password
    BY <1>0, <1>3 DEF InsertUser, NewUser, TypeOK, PhasesMatchOps, Phase
  <2> QED
    BY <1>1, <1>2, <2>1 DEF SpeaksFor
<1>4. CASE LoginLookup(q)
  <2>1. PICK u \in Authentic(q) : sub' = [sub EXCEPT ![q] = u.id]
    BY <1>0, <1>4 DEF LoginLookup, Refuse, Answer, TypeOK
  <2>2. /\ u \in users' /\ sub'[q] = u.id /\ body[q].op = "login"
        /\ u.email = body[q].cred.email /\ u.password = body[q].cred.password
    BY <1>0, <1>4, <2>1 DEF LoginLookup, Authentic, ByEmail, TypeOK
  <2> QED
    BY <1>1, <1>2, <2>2 DEF SpeaksFor
<1>5. CASE VerifyRefresh(q)
  <2>1. /\ body[q].op \in {"refresh", "logout"} /\ body[q].token # None /\ pc[q] = "verify"
        /\ sub'[q] = body[q].token.sub /\ users' = users /\ resp' = resp
    BY <1>0, <1>5 DEF VerifyRefresh, Verified, Refuse, Answer, Go, TypeOK
  <2>2. PICK p \in Requests : resp[p].refresh = body[q].token
    BY <1>0, <2>1 DEF HandlersSpeakForUsers
  <2>3. Earned(body[q].token.sub)
    BY <1>0, <2>1, <2>2 DEF TokensAreEarned
  <2>4. PICK u \in users : u.id = body[q].token.sub
    BY <2>3 DEF Earned
  <2>5. SpeaksFor(q, u)'
    BY <1>1, <2>1, <2>2, <2>4 DEF SpeaksFor
  <2> QED
    BY <2>1, <2>4, <2>5
<1> QED
  BY <1>3, <1>4, <1>5

\* Whoever is about to touch a row is entitled to.
LEMMA NextSpeakers ==
    ASSUME IInv, [Next]_vars
    PROVE  HandlersSpeakForUsers'
<1>0. TypeOK /\ PhasesMatchOps /\ HandlersSpeakForUsers
  BY DEF IInv
<1> SUFFICES ASSUME NEW q \in Requests
             PROVE  /\ (resp[q].status = "none" => resp[q] = NoAnswer)'
                    /\ (pc[q] = "verify" /\ body[q].op \in {"refresh", "logout"} /\ body[q].token # None =>
                           \E p \in Requests : resp[p].refresh = body[q].token)'
                    /\ (pc[q] \in {"sign", "store", "read", "compare", "clear"} =>
                           \E u \in users : u.id = sub[q] /\ SpeaksFor(q, u))'
  BY DEF HandlersSpeakForUsers
<1>1. resp'[q].status = "none" => resp'[q] = NoAnswer
  BY AnswersStay
<1>2. ASSUME pc'[q] = "verify", body'[q].op \in {"refresh", "logout"}, body'[q].token # None
      PROVE  \E p \in Requests : resp'[p].refresh = body'[q].token
  <2>1. CASE pc[q] = "verify"
    <3>1. body'[q] = body[q]
      BY <2>1, BodiesStay
    <3>2. PICK p \in Requests : resp[p].refresh = body[q].token
      BY <1>0, <1>2, <2>1, <3>1 DEF HandlersSpeakForUsers
    <3> QED
      BY <1>2, <3>1, <3>2, AnswersStay
  <2>2. CASE pc[q] # "verify"
    <3>1. HandlerStep(q)
      BY <1>0, <1>2, <2>2, NextIsHandlerStep, OthersStay DEF vars, Tick
    <3>2. PICK b \in Bodies : Receive(q, b)
      BY <1>0, <1>2, <2>2, <3>1
      DEF TypeOK, HandlerStep, RegisterLookup, InsertUser, InsertTaken, LoginLookup,
          SignTokens, StoreSession, VerifyRefresh, ReadSession, CompareToken, ClearSession,
          Access, StatementFails, Timeout, Answer, Refuse, Go, Lost
    <3>3. body'[q] = b /\ resp' = resp /\ (b.op \in {"refresh", "logout"} => b.token \in RefreshTokens)
      BY <1>0, <3>2 DEF Receive, Go, TypeOK
    <3> QED
      BY <1>2, <3>3 DEF RefreshTokens
  <2> QED
    BY <2>1, <2>2
<1>3. ASSUME pc'[q] \in {"sign", "store", "read", "compare", "clear"}
      PROVE  \E v \in users' : v.id = sub'[q] /\ SpeaksFor(q, v)'
  <2>1. CASE pc[q] \in {"sign", "store", "read", "compare", "clear"}
    <3>1. HandlerStep(q) => sub'[q] = sub[q]
      BY <1>0, <1>3, <2>1
      DEF TypeOK, HandlerStep, Receive, RegisterLookup, InsertUser, InsertTaken, LoginLookup,
          SignTokens, StoreSession, VerifyRefresh, ReadSession, CompareToken, ClearSession,
          Access, StatementFails, Timeout
    <3>2. sub'[q] = sub[q]
      BY <1>0, <3>1, NextIsHandlerStep, OthersStay DEF vars, Tick
    <3>3. PICK u \in users : u.id = sub[q] /\ SpeaksFor(q, u)
      BY <1>0, <2>1 DEF HandlersSpeakForUsers
    <3> QED
      BY <2>1, <3>2, <3>3, SpeakersStay
  <2>2. CASE pc[q] \notin {"sign", "store", "read", "compare", "clear"}
    <3>1. HandlerStep(q)
      BY <1>0, <1>3, <2>2, NextIsHandlerStep, OthersStay DEF vars, Tick
    <3>2. /\ InsertUser(q) \/ LoginLookup(q) \/ VerifyRefresh(q)
          /\ pc'[q] \notin {"store", "compare"}
      BY <1>0, <1>3, <2>2, <3>1
      DEF TypeOK, HandlerStep, Receive, RegisterLookup, InsertUser, InsertTaken, LoginLookup,
          SignTokens, StoreSession, VerifyRefresh, ReadSession, CompareToken, ClearSession,
          Access, StatementFails, Timeout, Answer, Refuse, Go, Lost
    <3> QED
      BY <1>3, <3>2, LookupsFindTheOwner
  <2> QED
    BY <2>1, <2>2
<1> QED
  BY <1>1, <1>2, <1>3

-----------------------------------------------------------------------------
(* Theorems *)

\* The invariant holds at first.
LEMMA InitInvariant == Init => IInv
BY InitTyped, SeedAssumption, NoneAssumption
DEF Init, IInv, PhasesMatchOps, Phase, AccountsMatchHandlers, TokensMatchHandlers, LiveIsCurrent,
    OneAccountPerEmail, TokensAreEarned, RefreshHadSession, GuardsAdmitTheEarned, NoAnswer,
    HandlersSpeakForUsers

\* Each conjunct is kept by its own lemma.
LEMMA NextInvariant == IInv /\ [Next]_vars => IInv'
BY NextTyped, NextPhases, NextAccountsMatch, NextTokensMatch, NextLive, NextOneAccount,
   NextEarned, NextRefresh, NextGuards, NextSpeakers DEF IInv

\* The inductive invariant holds in every behaviour.
THEOREM Invariance == Spec => []IInv
BY InitInvariant, NextInvariant, PTL DEF Spec

\* Every state variable keeps its type: a session of the users table is the token of a
\* user, and an answer's tokens are.
THEOREM TypeCorrect == Spec => []TypeOK
<1>1. IInv => TypeOK
  BY DEF IInv
<1> QED
  BY <1>1, Invariance, PTL

\* However many registrations race for one email, it gets one account, and the client
\* that got tokens for it is the one whose password it has.
THEOREM EmailsAreUnique == Spec => []OneAccountPerEmail
<1>1. IInv => OneAccountPerEmail
  BY DEF IInv
<1> QED
  BY <1>1, Invariance, PTL

\* A login or a registration hands out tokens only of the user whose password it was sent,
\* a refresh only of the user whose refresh token the service had handed out; and no row
\* accepts a token of a user whose password no request has presented.
THEOREM TokensFollowPasswords == Spec => []TokensAreEarned
<1>1. IInv => TokensAreEarned
  BY DEF IInv
<1> QED
  BY <1>1, Invariance, PTL

\* The read and the comparison of refresh are two steps, and any login or logout may
\* come between: still, a token replaced or logged out before the request refreshes
\* nothing.
THEOREM RefreshNeedsSession == Spec => []RefreshHadSession
<1>1. IInv => RefreshHadSession
  BY DEF IInv
<1> QED
  BY <1>1, Invariance, PTL

\* Behind a guard, somebody has presented the password of the user the request acts for,
\* and no request of the API makes anyone an administrator.
THEOREM GuardsHold == Spec => []GuardsAdmitTheEarned
<1>1. IInv => GuardsAdmitTheEarned
  BY DEF IInv
<1> QED
  BY <1>1, Invariance, PTL

\* A row of users that changes is that of the user a handler speaks for.
LEMMA RowsChangeByTheirOwner ==
    ASSUME IInv, [Next]_vars, NEW u \in users, u \notin users'
    PROVE  \E r \in Requests :
              /\ pc[r] \in {"store", "clear"} /\ pc'[r] = "done"
              /\ SpeaksFor(r, u)
              /\ [u EXCEPT !.session = IF pc[r] = "store" THEN minted[r] ELSE None] \in users'
<1>0. TypeOK /\ HandlersSpeakForUsers
  BY DEF IInv
<1>1. PICK r \in Requests : StoreSession(r) \/ ClearSession(r)
  BY DEF Next, vars, Receive, RegisterLookup, InsertUser, InsertTaken, LoginLookup,
         SignTokens, VerifyRefresh, ReadSession, CompareToken, Access, StatementFails,
         Timeout, Tick
<1> DEFINE token == IF pc[r] = "store" THEN minted[r] ELSE None
<1>2. /\ pc[r] \in {"store", "clear"} /\ pc'[r] = "done"
      /\ SetSession(sub[r], token)
  BY <1>0, <1>1 DEF StoreSession, ClearSession, TypeOK, Lost, Refuse, Answer
<1> HIDE DEF token
<1>3. u.id = sub[r] /\ [u EXCEPT !.session = token] \in users'
  BY <1>2 DEF SetSession
<1>4. PICK v \in users : v.id = sub[r] /\ SpeaksFor(r, v)
  BY <1>0, <1>2 DEF HandlersSpeakForUsers
<1>5. u = v
  BY <1>3, <1>4, OneRowPerId
<1> QED
  BY <1>2, <1>3, <1>4, <1>5 DEF token

\* No client replaces or ends the session of a user for whom it has neither the password
\* nor a token, and no step changes anything else of a user.
THEOREM SessionsBelongToOwners == Spec => SessionsEndByTheirOwner
<1>1. IInv /\ [Next]_vars =>
        [\A u \in users \ users' : \E r \in Requests :
            /\ pc[r] \in {"store", "clear"} /\ pc'[r] = "done"
            /\ SpeaksFor(r, u)
            /\ [u EXCEPT !.session = IF pc[r] = "store" THEN minted[r] ELSE None] \in users']_vars
  BY RowsChangeByTheirOwner
<1> QED
  BY <1>1, Invariance, PTL DEF Spec, SessionsEndByTheirOwner
=============================================================================
