--------------------------- MODULE OpsSessionProofs ---------------------------
(***************************************************************************)
(* For every number of browsers, passwords and changes: a password change  *)
(* ends the sessions opened before it, and the start password does not     *)
(* come back.  As long as no two changes overlap, session_version is one   *)
(* more than the number of changes, in the account as in every copy of it  *)
(* that a request or a cookie carries; so a version that is in force was   *)
(* read after the last change.                                             *)
(***************************************************************************)
EXTENDS OpsSessions, TLAPS

(* A version read when the password had been changed era of n times.       *)
Dated(ver, era, n, over) == era \in 0 .. n /\ (~over => ver = era + 1)

RequestDated(r, n, over) ==
    /\ r.step \in {"login", "loaded"} => Dated(r.row.ver, r.era, n, over)
    /\ r.step = "guarded" => Dated(r.token.ver, r.token.era, n, over)
    /\ r.step = "changed" => r.era \in 0 .. n

(* A request that may use the console has found the password changed.      *)
ReadyInv ==
    /\ changes > 0 => user # NoUser /\ ~user.must /\ user.pw # InitPassword
    /\ changes = 0 => (user # NoUser => user.must) /\ settingsBy # "ops"
    /\ \A b \in Browsers :
          request[b].step = "loaded" /\ request[b].path = "ready" => changes > 0

CopiesDated ==
    /\ user # NoUser => Dated(user.ver, changes, changes, overlapped)
    /\ \A b \in Browsers :
          cookie[b] # NoCookie => Dated(cookie[b].ver, cookie[b].era, changes, overlapped)
    /\ \A b \in Browsers : RequestDated(request[b], changes, overlapped)

IInv ==
    /\ TypeOK
    /\ user = NoUser => \A b \in Browsers : request[b] = Idle
    /\ CopiesDated
    /\ ReadyInv

-----------------------------------------------------------------------------
(* What a request carries at each step.                                    *)
LEMMA RequestShape ==
    ASSUME TypeOK, NEW b \in Browsers
    PROVE  /\ request[b].step \in {"idle", "login", "guarded", "loaded", "changed"}
           /\ request[b].step = "login" => request[b].row \in Rows /\ request[b].era \in Nat
           /\ request[b].step = "guarded" => /\ request[b].path \in {"password", "ready"}
                                             /\ request[b].token \in Cookies
           /\ request[b].step = "loaded" => /\ request[b].path \in {"password", "ready"}
                                            /\ request[b].row \in Rows /\ request[b].era \in Nat
           /\ request[b].step = "changed" => request[b].era \in Nat
           /\ request[b] # Idle => boot = "serving" /\ user \in Rows
           /\ request[b].step # "idle" => request[b] # Idle
  <1>1. request[b] \in Requests
    BY DEF TypeOK
  <1>2. request[b] # Idle => boot = "serving" /\ user \in Rows
    BY DEF TypeOK
  <1>3. request[b].step # "idle" => request[b] # Idle
    BY DEF Idle
  <1>4. CASE request[b] = Idle
    BY <1>4, <1>2, <1>3 DEF Idle
  <1>5. CASE request[b] \in [step : {"login"}, row : Rows, era : Nat]
    BY <1>2, <1>3, <1>5
  <1>6. CASE request[b] \in [step : {"guarded"}, path : {"password", "ready"}, token : Cookies]
    BY <1>2, <1>3, <1>6
  <1>7. CASE request[b] \in [step : {"loaded"}, path : {"password", "ready"}, row : Rows, era : Nat]
    BY <1>2, <1>3, <1>7
  <1>8. CASE request[b] \in [step : {"changed"}, era : Nat]
    BY <1>2, <1>3, <1>8
  <1>9. QED
    BY <1>1, <1>4, <1>5, <1>6, <1>7, <1>8 DEF Requests

(* What stays dated when changes happen or start to overlap.               *)
LEMMA DatedLasts ==
    ASSUME NEW n \in Nat, NEW m \in Nat, n <= m, NEW over \in BOOLEAN, NEW later \in BOOLEAN,
           over => later, NEW ver, NEW era, Dated(ver, era, n, over)
    PROVE  Dated(ver, era, m, later)
  <1>1. era \in 0 .. n /\ (~over => ver = era + 1)
    BY DEF Dated
  <1>2. era \in 0 .. m
    BY <1>1
  <1>3. ~later => ver = era + 1
    BY <1>1, Zenon
  <1>4. QED
    BY <1>2, <1>3 DEF Dated

LEMMA RequestDatedLasts ==
    ASSUME NEW n \in Nat, NEW m \in Nat, n <= m, NEW over \in BOOLEAN, NEW later \in BOOLEAN,
           over => later, NEW r, RequestDated(r, n, over)
    PROVE  RequestDated(r, m, later)
  BY DatedLasts DEF RequestDated

(* A step of one browser: what has to hold of the account, of its request  *)
(* and of its cookie afterwards.                                           *)
LEMMA BrowserStep ==
    ASSUME IInv, NEW b \in Browsers, UNCHANGED <<boot, envFile>>, boot = "serving",
           user' \in Rows, changes' \in Nat, changes <= changes',
           overlapped' \in BOOLEAN, overlapped => overlapped',
           Dated(user'.ver, changes', changes', overlapped'),
           changes' > 0 => ~user'.must /\ user'.pw # InitPassword,
           changes' = 0 => user'.must /\ settingsBy' # "ops",
           settingsBy' \in {"none", "env", "ops"},
           NEW r \in Requests, Asks(b, r), RequestDated(r, changes', overlapped'),
           r.step = "loaded" /\ r.path = "ready" => changes' > 0,
           NEW c \in Cookies \cup {NoCookie}, cookie' = [cookie EXCEPT ![b] = c],
           c # NoCookie => Dated(c.ver, c.era, changes', overlapped')
    PROVE  IInv'
  <1>1. /\ request' = [request EXCEPT ![b] = r]
        /\ request \in [Browsers -> Requests] /\ cookie \in [Browsers -> Cookies \cup {NoCookie}]
        /\ changes \in Nat /\ overlapped \in BOOLEAN
    BY DEF Asks, IInv, TypeOK
  <1>2. TypeOK'
    <2>1. /\ boot' = "serving" /\ envFile' \in BOOLEAN /\ user' \in Rows \cup {NoUser}
          /\ settingsBy' \in {"none", "env", "ops"}
          /\ changes' \in Nat /\ overlapped' \in BOOLEAN
      BY DEF IInv, TypeOK
    <2>2. request' \in [Browsers -> Requests]
      BY <1>1
    <2>3. cookie' \in [Browsers -> Cookies \cup {NoCookie}]
      BY <1>1
    <2>4. user' # NoUser
      BY NoUserAssumption
    <2>5. QED
      BY <2>1, <2>2, <2>3, <2>4 DEF TypeOK
  <1>3. ASSUME NEW d \in Browsers, cookie'[d] # NoCookie
        PROVE  Dated(cookie'[d].ver, cookie'[d].era, changes', overlapped')
    <2>1. CASE d = b
      BY <1>1, <1>3, <2>1
    <2>2. CASE d # b
      <3>1. Dated(cookie[d].ver, cookie[d].era, changes, overlapped) /\ cookie'[d] = cookie[d]
        BY <1>1, <1>3, <2>2 DEF IInv, CopiesDated
      <3>2. QED
        BY <1>1, <3>1, DatedLasts
    <2>3. QED
      BY <2>1, <2>2
  <1>4. ASSUME NEW d \in Browsers
        PROVE  RequestDated(request'[d], changes', overlapped')
    <2>1. CASE d = b
      BY <1>1, <2>1
    <2>2. CASE d # b
      <3>1. RequestDated(request[d], changes, overlapped) /\ request'[d] = request[d]
        BY <1>1, <2>2 DEF IInv, CopiesDated
      <3>2. QED
        BY <1>1, <3>1, RequestDatedLasts
    <2>3. QED
      BY <2>1, <2>2
  <1>5. user' # NoUser
    BY NoUserAssumption
  <1>6. CopiesDated'
    BY <1>3, <1>4 DEF CopiesDated
  <1>7. ReadyInv'
    <2>1. ASSUME NEW d \in Browsers, request'[d].step = "loaded", request'[d].path = "ready"
          PROVE  changes' > 0
      BY <1>1, <2>1 DEF IInv, ReadyInv
    <2>2. QED
      BY <1>5, <2>1 DEF ReadyInv
  <1>8. QED
    BY <1>2, <1>5, <1>6, <1>7 DEF IInv

(* A step of a browser after which its account is as it was.               *)
LEMMA AccountStays ==
    ASSUME IInv, NEW b \in Browsers, UNCHANGED <<boot, envFile, user, changes>>, boot = "serving",
           user \in Rows, overlapped' \in BOOLEAN, overlapped => overlapped',
           settingsBy' \in {"none", "env", "ops"},
           settingsBy' = "ops" => settingsBy = "ops" \/ changes > 0,
           NEW r \in Requests, Asks(b, r), RequestDated(r, changes, overlapped'),
           r.step = "loaded" /\ r.path = "ready" => changes > 0,
           NEW c \in Cookies \cup {NoCookie}, cookie' = [cookie EXCEPT ![b] = c],
           c # NoCookie => Dated(c.ver, c.era, changes, overlapped')
    PROVE  IInv'
  <1>1. changes \in Nat /\ overlapped \in BOOLEAN
    BY DEF IInv, TypeOK
  <1>2. user # NoUser
    BY NoUserAssumption
  <1>3. Dated(user'.ver, changes', changes', overlapped')
    <2>1. Dated(user.ver, changes, changes, overlapped)
      BY <1>2 DEF IInv, CopiesDated
    <2>2. QED
      BY <1>1, <2>1, DatedLasts
  <1>4. /\ changes > 0 => ~user.must /\ user.pw # InitPassword
        /\ changes = 0 => user.must /\ settingsBy' # "ops"
    BY <1>1, <1>2 DEF IInv, ReadyInv
  <1>5. /\ user' \in Rows /\ changes' \in Nat /\ changes <= changes' /\ changes' = changes
        /\ user' = user
    BY <1>1
  <1>6. RequestDated(r, changes', overlapped')
    BY <1>5
  <1>7. c # NoCookie => Dated(c.ver, c.era, changes', overlapped')
    BY <1>5
  <1>8. QED
    BY <1>3, <1>4, <1>5, <1>6, <1>7, BrowserStep

-----------------------------------------------------------------------------
(* What IInv says of the account and of what one browser holds.            *)
LEMMA InService ==
    ASSUME IInv, NEW b \in Browsers
    PROVE  /\ RequestDated(request[b], changes, overlapped)
           /\ cookie[b] \in Cookies \cup {NoCookie}
           /\ cookie[b] # NoCookie => Dated(cookie[b].ver, cookie[b].era, changes, overlapped)
           /\ user # NoUser => Dated(user.ver, changes, changes, overlapped)
           /\ boot = "serving" => user \in Rows /\ user # NoUser
           /\ changes \in Nat /\ overlapped \in BOOLEAN
           /\ settingsBy \in {"none", "env", "ops"}
           /\ cookie = [cookie EXCEPT ![b] = cookie[b]]
           /\ TypeOK
  BY DEF IInv, TypeOK, CopiesDated

LEMMA IdleDated == ASSUME NEW n, NEW over
                   PROVE  RequestDated(Idle, n, over) /\ Idle \in Requests /\ Idle.step = "idle"
  BY DEF RequestDated, Idle, Requests

LEMMA LoginStep == ASSUME IInv, NEW b \in Browsers, Login(b)
                   PROVE  IInv'
  <1> DEFINE r == [step |-> "login", row |-> user, era |-> changes]
  <1>1. user \in Rows /\ Dated(user.ver, changes, changes, overlapped)
    BY InService DEF Login
  <1>2. r \in Requests /\ r.step = "login"
    BY <1>1, InService DEF Requests
  <1>3. RequestDated(r, changes, overlapped)
    BY <1>1 DEF RequestDated
  <1>4. Asks(b, r) /\ UNCHANGED <<boot, settingsBy, envFile, user, cookie, changes, overlapped>>
    BY DEF Login, platform
  <1> HIDE DEF r
  <1>5. QED
    BY <1>1, <1>2, <1>3, <1>4, InService, AccountStays DEF Login

LEMMA IssueSessionStep == ASSUME IInv, NEW b \in Browsers, IssueSession(b)
                          PROVE  IInv'
  <1> DEFINE c == [ver |-> request[b].row.ver, era |-> request[b].era]
  <1>1. /\ boot = "serving" /\ user \in Rows
        /\ request[b].row \in Rows /\ request[b].era \in Nat
    BY InService, RequestShape DEF IssueSession
  <1>2. c \in Cookies
    BY <1>1 DEF Cookies, Rows
  <1>3. Dated(c.ver, c.era, changes, overlapped)
    BY InService DEF IssueSession, RequestDated
  <1>4. /\ Asks(b, Idle) /\ cookie' = [cookie EXCEPT ![b] = c]
        /\ UNCHANGED <<boot, settingsBy, envFile, user, changes, overlapped>>
    BY DEF IssueSession, platform, GetsCookie
  <1> HIDE DEF c
  <1>5. QED
    BY <1>1, <1>2, <1>3, <1>4, InService, IdleDated, AccountStays

LEMMA GuardStep ==
    ASSUME IInv, NEW b \in Browsers, NEW path \in {"password", "ready"}, Guard(b, path)
    PROVE  IInv'
  <1> DEFINE r == [step |-> "guarded", path |-> path, token |-> cookie[b]]
  <1>1. cookie[b] \in Cookies /\ Dated(cookie[b].ver, cookie[b].era, changes, overlapped)
    BY InService DEF Guard, Accepted
  <1>2. r \in Requests /\ r.step = "guarded"
    BY <1>1 DEF Requests
  <1>3. RequestDated(r, changes, overlapped)
    BY <1>1 DEF RequestDated
  <1>4. Asks(b, r) /\ UNCHANGED <<boot, settingsBy, envFile, user, cookie, changes, overlapped>>
    BY DEF Guard, platform
  <1> HIDE DEF r
  <1>5. QED
    BY <1>1, <1>2, <1>3, <1>4, InService, AccountStays DEF Guard

(* A request that is let through to the console finds the password         *)
(* changed, because the account says so.                                   *)
LEMMA RequireStep == ASSUME IInv, NEW b \in Browsers, Require(b)
                     PROVE  IInv'
  <1> DEFINE q == request[b]
             r == [step |-> "loaded", path |-> q.path, row |-> user, era |-> changes]
  <1>1. /\ boot = "serving" /\ user \in Rows /\ user # NoUser
        /\ q.path \in {"password", "ready"}
    BY InService, RequestShape DEF Require
  <1>2. UNCHANGED <<boot, settingsBy, envFile, user, cookie, changes, overlapped>>
    BY DEF Require, platform
  <1>3. CASE Asks(b, Idle)
    BY <1>1, <1>2, <1>3, InService, IdleDated, AccountStays
  <1>4. CASE Asks(b, r) /\ (q.path = "ready" => ~user.must)
    <2>1. r \in Requests /\ r.step = "loaded" /\ r.path = q.path
      BY <1>1, InService DEF Requests
    <2>2. RequestDated(r, changes, overlapped)
      BY <1>1, InService DEF RequestDated
    <2>3. r.path = "ready" => changes > 0
      BY <1>1, <1>4, <2>1, InService DEF IInv, ReadyInv
    <2> HIDE DEF r
    <2>4. QED
      BY <1>1, <1>2, <1>4, <2>1, <2>2, <2>3, InService, AccountStays
  <1>5. QED
    BY <1>3, <1>4 DEF Require

LEMMA OperateStep == ASSUME IInv, NEW b \in Browsers, Operate(b)
                     PROVE  IInv'
  <1>1. /\ boot = "serving" /\ user \in Rows /\ changes > 0
        /\ Asks(b, Idle) /\ settingsBy' = "ops"
        /\ UNCHANGED <<boot, envFile, user, cookie, changes, overlapped>>
    BY InService, RequestShape DEF Operate, IInv, ReadyInv
  <1>2. QED
    BY <1>1, InService, IdleDated, AccountStays

(* The one step that counts session_version up.                            *)
LEMMA ChangeStep ==
    ASSUME IInv, NEW b \in Browsers, NEW old \in Passwords, NEW new \in Passwords,
           Change(b, old, new)
    PROVE  IInv'
  <1> DEFINE q == request[b]
             r == [step |-> "changed", era |-> changes + 1]
  <1>1. /\ boot = "serving" /\ changes \in Nat /\ overlapped \in BOOLEAN
        /\ q.row \in Rows /\ q.era \in Nat
        /\ Dated(q.row.ver, q.era, changes, overlapped)
    BY InService, RequestShape DEF Change, RequestDated
  <1>2. /\ user' = [pw |-> new, must |-> FALSE, ver |-> q.row.ver + 1]
        /\ changes' = changes + 1 /\ new # InitPassword
        /\ overlapped' = (overlapped \/ changes # q.era)
        /\ Asks(b, r) /\ UNCHANGED <<boot, settingsBy, envFile, cookie>>
    BY DEF Change, platform
  <1>3. user' \in Rows
    BY <1>1, <1>2 DEF Rows
  <1>4. overlapped' \in BOOLEAN /\ (overlapped => overlapped')
    BY <1>1, <1>2
  <1>5. changes' \in Nat /\ changes <= changes' /\ changes' > 0
    BY <1>1, <1>2
  <1>6. Dated(user'.ver, changes', changes', overlapped')
    <2>1. ~overlapped' => q.row.ver = q.era + 1 /\ q.era = changes
      BY <1>1, <1>2, Zenon DEF Dated
    <2>2. user'.ver = q.row.ver + 1
      BY <1>2
    <2>3. ~overlapped' => user'.ver = changes' + 1
      BY <1>2, <2>1, <2>2
    <2>4. QED
      BY <1>5, <2>3 DEF Dated
  <1>7. r \in Requests /\ r.step = "changed"
    BY <1>1 DEF Requests
  <1>8. RequestDated(r, changes', overlapped')
    BY <1>1, <1>2 DEF RequestDated
  <1>9. cookie[b] # NoCookie => Dated(cookie[b].ver, cookie[b].era, changes', overlapped')
    BY <1>1, <1>4, <1>5, InService, DatedLasts
  <1>10. ~user'.must /\ user'.pw # InitPassword
    BY <1>2
  <1>11. /\ cookie' = [cookie EXCEPT ![b] = cookie[b]]
         /\ cookie[b] \in Cookies \cup {NoCookie}
         /\ settingsBy' \in {"none", "env", "ops"}
    BY <1>2, InService
  <1> DEFINE c == cookie[b]
  <1>12. /\ c \in Cookies \cup {NoCookie} /\ cookie' = [cookie EXCEPT ![b] = c]
         /\ c # NoCookie => Dated(c.ver, c.era, changes', overlapped')
    BY <1>9, <1>11
  <1>13. changes' = 0 => user'.must /\ settingsBy' # "ops"
    BY <1>5
  <1>14. UNCHANGED <<boot, envFile>> /\ Asks(b, r)
    BY <1>2
  <1> HIDE DEF r, c
  <1>15. QED
    BY <1>1, <1>3, <1>4, <1>5, <1>6, <1>7, <1>8, <1>10, <1>11, <1>12, <1>13, <1>14, BrowserStep

LEMMA RenewStep == ASSUME IInv, NEW b \in Browsers, Renew(b)
                   PROVE  IInv'
  <1> DEFINE c == [ver |-> user.ver, era |-> request[b].era]
  <1>1. /\ boot = "serving" /\ user \in Rows /\ user # NoUser
        /\ changes \in Nat /\ overlapped \in BOOLEAN
        /\ request[b].era \in 0 .. changes
        /\ Dated(user.ver, changes, changes, overlapped)
    BY InService, RequestShape DEF Renew, RequestDated
  <1>2. /\ Asks(b, Idle) /\ cookie' = [cookie EXCEPT ![b] = c]
        /\ overlapped' = (overlapped \/ changes # request[b].era)
        /\ UNCHANGED <<boot, settingsBy, envFile, user, changes>>
    BY DEF Renew, platform, GetsCookie
  <1>3. c \in Cookies
    BY <1>1 DEF Cookies, Rows
  <1>4. overlapped' \in BOOLEAN /\ (overlapped => overlapped')
    BY <1>1, <1>2
  <1>5. Dated(c.ver, c.era, changes, overlapped')
    <2>1. ~overlapped' => user.ver = changes + 1 /\ request[b].era = changes
      BY <1>1, <1>2, Zenon DEF Dated
    <2>2. QED
      BY <1>1, <2>1 DEF Dated
  <1>6. RequestDated(Idle, changes, overlapped')
    BY IdleDated
  <1> HIDE DEF c
  <1>7. QED
    BY <1>1, <1>2, <1>3, <1>4, <1>5, <1>6, InService, IdleDated, AccountStays

LEMMA DropStep == ASSUME IInv, NEW b \in Browsers, Drop(b)
                  PROVE  IInv'
  <1>1. /\ boot = "serving" /\ user \in Rows
        /\ Asks(b, Idle) /\ UNCHANGED <<boot, settingsBy, envFile, user, cookie, changes, overlapped>>
    BY InService, RequestShape DEF Drop, platform
  <1>2. QED
    BY <1>1, InService, IdleDated, AccountStays

(* A cookie may run out while the API is down.                             *)
LEMMA ForgetStep == ASSUME IInv, NEW b \in Browsers, Forget(b)
                    PROVE  IInv'
  <1>1. /\ cookie' = [cookie EXCEPT ![b] = NoCookie]
        /\ UNCHANGED <<boot, settingsBy, envFile, user, request, changes, overlapped>>
        /\ cookie \in [Browsers -> Cookies \cup {NoCookie}]
    BY DEF Forget, GetsCookie, platform, IInv, TypeOK
  <1>2. TypeOK'
    BY <1>1 DEF IInv, TypeOK
  <1>3. CopiesDated'
    BY <1>1 DEF IInv, CopiesDated
  <1>4. QED
    BY <1>1, <1>2, <1>3 DEF IInv, ReadyInv

-----------------------------------------------------------------------------
LEMMA StartStep == ASSUME IInv, Start \/ CheckImported \/ ImportEnv
                   PROVE  IInv'
  <1>1. /\ UNCHANGED <<envFile, user, cookie, request, changes, overlapped>>
        /\ \/ boot = "down" /\ boot' = "admin"
           \/ boot = "import" /\ boot' \in {"save", "serving"}
           \/ boot = "save" /\ boot' = "serving"
        /\ settingsBy' \in {settingsBy, "env"}
    BY DEF Start, CheckImported, ImportEnv, account
  <1>2. TypeOK'
    BY <1>1 DEF IInv, TypeOK
  <1>3. CopiesDated'
    BY <1>1 DEF IInv, CopiesDated
  <1>4. ReadyInv'
    BY <1>1 DEF IInv, ReadyInv
  <1>5. QED
    BY <1>1, <1>2, <1>3, <1>4 DEF IInv

LEMMA EnsureAdminStep == ASSUME IInv, EnsureAdmin
                         PROVE  IInv'
  <1>1. /\ boot = "admin" /\ boot' = "import"
        /\ user' = IF user = NoUser THEN FirstUser ELSE user
        /\ UNCHANGED <<settingsBy, envFile, cookie, request, changes, overlapped>>
    BY DEF EnsureAdmin
  <1>2. FirstUser \in Rows /\ FirstUser.must /\ FirstUser.ver = 1
    BY OpsSessionsAssumption DEF FirstUser, Rows
  <1>3. user' \in Rows
    BY <1>1, <1>2 DEF IInv, TypeOK
  <1>4. TypeOK' /\ user' # NoUser
    BY <1>1, <1>3, NoUserAssumption DEF IInv, TypeOK
  <1>5. user = NoUser => changes = 0
    BY DEF IInv, ReadyInv, TypeOK
  <1>6. CopiesDated'
    BY <1>1, <1>2, <1>5 DEF IInv, CopiesDated, Dated
  <1>7. ReadyInv'
    BY <1>1, <1>2, <1>5 DEF IInv, ReadyInv
  <1>8. QED
    BY <1>4, <1>6, <1>7 DEF IInv

LEMMA StopStep == ASSUME IInv, Stop
                  PROVE  IInv'
  <1>1. /\ boot' = "down" /\ request' = [b \in Browsers |-> Idle]
        /\ UNCHANGED <<user, settingsBy, envFile, cookie, changes, overlapped>>
    BY DEF Stop
  <1>2. TypeOK'
    BY <1>1, IdleDated DEF IInv, TypeOK
  <1>3. CopiesDated'
    BY <1>1, IdleDated DEF IInv, CopiesDated
  <1>4. ReadyInv'
    BY <1>1, IdleDated DEF IInv, ReadyInv
  <1>5. QED
    BY <1>1, <1>2, <1>3, <1>4 DEF IInv

LEMMA InitHolds == Init => IInv
  <1> SUFFICES ASSUME Init PROVE IInv
    OBVIOUS
  <1>1. \A b \in Browsers : request[b] = Idle /\ cookie[b] = NoCookie
    BY DEF Init
  <1>2. TypeOK
    BY IdleDated DEF Init, TypeOK
  <1>3. CopiesDated
    BY <1>1, IdleDated DEF Init, CopiesDated
  <1>4. ReadyInv
    BY <1>1, IdleDated DEF Init, ReadyInv
  <1>5. QED
    BY <1>1, <1>2, <1>3, <1>4 DEF IInv

LEMMA NextKeeps == IInv /\ [Next]_vars => IInv'
  <1> SUFFICES ASSUME IInv, [Next]_vars PROVE IInv'
    OBVIOUS
  <1>1. CASE UNCHANGED vars
    <2>1. TypeOK'
      BY <1>1 DEF IInv, TypeOK, vars
    <2>2. CopiesDated' /\ ReadyInv'
      BY <1>1 DEF IInv, CopiesDated, ReadyInv, vars
    <2>3. QED
      BY <1>1, <2>1, <2>2 DEF IInv, vars
  <1>2. CASE Start \/ EnsureAdmin \/ CheckImported \/ ImportEnv \/ Stop
    BY <1>2, StartStep, EnsureAdminStep, StopStep
  <1>3. ASSUME NEW b \in Browsers,
               \/ Login(b) \/ IssueSession(b) \/ Require(b) \/ Operate(b)
               \/ \E path \in {"password", "ready"} : Guard(b, path)
               \/ \E old, new \in Passwords : Change(b, old, new)
               \/ Renew(b) \/ Drop(b) \/ Forget(b)
        PROVE  IInv'
    BY <1>3, LoginStep, IssueSessionStep, RequireStep, OperateStep, GuardStep, ChangeStep,
       RenewStep, DropStep, ForgetStep
  <1>4. QED
    BY <1>1, <1>2, <1>3 DEF Next

(* The strengthening: the versions carried about are those of the account  *)
(* at a known number of changes.                                           *)
THEOREM SessionInvariant == Spec => []IInv
  <1>1. QED
    BY InitHolds, NextKeeps, PTL DEF Spec

(* Types, and nobody is served before there is an account.                 *)
THEOREM SessionTypes == Spec => []TypeOK
  <1>1. IInv => TypeOK
    BY DEF IInv
  <1>2. QED
    BY <1>1, SessionInvariant, PTL

(* A change of the password ends every session opened before it, a login   *)
(* under way included, as long as no two changes overlap.                  *)
THEOREM PasswordChangeEndsSessions == Spec => []SessionsEnd
  <1>1. IInv => SessionsEnd
    <2> SUFFICES ASSUME IInv, ~overlapped, NEW b \in Browsers, Accepted(cookie[b])
                 PROVE  cookie[b].era = changes
      BY DEF SessionsEnd
    <2>1. /\ Dated(cookie[b].ver, cookie[b].era, changes, overlapped)
          /\ Dated(user.ver, changes, changes, overlapped)
          /\ cookie[b].ver = user.ver
      BY InService DEF Accepted
    <2>2. cookie[b].era \in 0 .. changes /\ cookie[b].era + 1 = changes + 1 /\ changes \in Nat
      BY <2>1, InService DEF Dated
    <2>3. QED
      BY <2>2
  <1>2. QED
    BY <1>1, SessionInvariant, PTL

(* The start password never comes back, and settings are not changed while *)
(* it is in force.                                                         *)
THEOREM StartPasswordStaysGone == Spec => []StartPasswordGone
  <1>1. IInv => StartPasswordGone
    BY DEF IInv, TypeOK, ReadyInv, StartPasswordGone
  <1>2. QED
    BY <1>1, SessionInvariant, PTL
=============================================================================
