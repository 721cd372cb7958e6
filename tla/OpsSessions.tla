------------------------------ MODULE OpsSessions ------------------------------
(***************************************************************************)
(* The one operator account: how a start of the API creates it and imports *)
(* the .env file, how browsers log in, and how every request is checked    *)
(* twice, by the middleware and by the handler, each with a read of its    *)
(* own.  A session is a signed cookie that carries the session_version of  *)
(* the account; nothing of it is stored.  Changing the password reads the  *)
(* account, verifies, counts session_version up and writes it back,        *)
(* unlocked, and answers with a cookie made after one more read.           *)
(***************************************************************************)
EXTENDS Integers

CONSTANTS
    Browsers,
    Passwords,
    InitPassword,
    NoUser,
    NoCookie,
    MaxChanges    \* bound: changes of the password

VARIABLES
    boot,         \* what the API's process is doing
    user,         \* the row of ops_users
    settingsBy,   \* who wrote the settings row last: "none", "env" or "ops"
    envFile,      \* whether the .env file has settings
    cookie,       \* browser -> its session cookie
    request,      \* browser -> the request it waits for
    changes,      \* changes of the password so far
    overlapped    \* whether two changes of the password ever overlapped

vars == <<boot, user, settingsBy, envFile, cookie, request, changes, overlapped>>

ASSUME OpsSessionsAssumption ==
    /\ InitPassword \in Passwords
    /\ MaxChanges \in Nat

(* era: how many changes the bearer knew of when it proved the password;   *)
(* it is not part of the program.                                          *)
Rows == [pw : Passwords, must : BOOLEAN, ver : Nat]
Cookies == [ver : Nat, era : Nat]

Idle == [step |-> "idle"]
ASSUME NoUserAssumption == NoUser \notin Rows
ASSUME NoCookieAssumption == NoCookie \notin Cookies

Init ==
    /\ boot = "down"
    /\ user = NoUser
    /\ settingsBy = "none"
    /\ envFile \in BOOLEAN
    /\ cookie = [b \in Browsers |-> NoCookie]
    /\ request = [b \in Browsers |-> Idle]
    /\ changes = 0
    /\ overlapped = FALSE

account == <<user, cookie, request, changes, overlapped>>

-----------------------------------------------------------------------------
(* Mutant of Start: bootstrap no longer delays the serving.                *)
StartServing ==
    /\ boot = "down"
    /\ boot' \in {"admin", "serving"}
    /\ UNCHANGED <<settingsBy, envFile, account>>

(* bootstrap: the master key, then the admin, then the import; the API     *)
(* serves when all are done.                                               *)
Start ==
    /\ boot = "down"
    /\ boot' = "admin"
    /\ UNCHANGED <<settingsBy, envFile, account>>

FirstUser == [pw |-> InitPassword, must |-> TRUE, ver |-> 1]

EnsureAdmin ==
    /\ boot = "admin"
    /\ boot' = "import"
    /\ user' = IF user = NoUser THEN FirstUser ELSE user
    /\ UNCHANGED <<settingsBy, envFile, cookie, request, changes, overlapped>>

(* import_env_if_needed, a session that looks for the settings row: with    *)
(* one, or without a .env, there is nothing to import.                      *)
CheckImported ==
    /\ boot = "import"
    /\ boot' = IF envFile /\ settingsBy = "none" THEN "save" ELSE "serving"
    /\ UNCHANGED <<settingsBy, envFile, account>>

(* ... and save_vault, in a session of its own.                            *)
ImportEnv ==
    /\ boot = "save"
    /\ boot' = "serving"
    /\ settingsBy' = "env"
    /\ UNCHANGED <<envFile, account>>

(* The process ends at any point, and its requests with it.                *)
Stop ==
    /\ boot # "down"
    /\ boot' = "down"
    /\ request' = [b \in Browsers |-> Idle]
    /\ UNCHANGED <<user, settingsBy, envFile, cookie, changes, overlapped>>

-----------------------------------------------------------------------------
(* user_from_request: the signature holds, and the version is the account's *)
Accepted(c) == c # NoCookie /\ user # NoUser /\ c.ver = user.ver

Asks(b, r) == request' = [request EXCEPT ![b] = r]
GetsCookie(b, c) == cookie' = [cookie EXCEPT ![b] = c]

platform == <<boot, settingsBy, envFile>>

(* login, up to the check of the password; an attempt that is refused or   *)
(* over the rate changes nothing here.                                     *)
Login(b) ==
    /\ boot = "serving" /\ request[b] = Idle
    /\ Asks(b, [step |-> "login", row |-> user, era |-> changes])
    /\ UNCHANGED <<platform, user, cookie, changes, overlapped>>

(* Mutant of IssueSession: the version is read anew for the cookie.        *)
IssueFresh(b) ==
    /\ request[b].step = "login"
    /\ GetsCookie(b, [ver |-> user.ver, era |-> request[b].era])
    /\ Asks(b, Idle)
    /\ UNCHANGED <<platform, user, changes, overlapped>>

(* The cookie of the answer, from the row the password was checked with.   *)
IssueSession(b) ==
    /\ request[b].step = "login"
    /\ GetsCookie(b, [ver |-> request[b].row.ver, era |-> request[b].era])
    /\ Asks(b, Idle)
    /\ UNCHANGED <<platform, user, changes, overlapped>>

(* session_guard lets a request pass: with the start password still in     *)
(* force only those of PASSWORD_OK.                                        *)
Guard(b, path) ==
    /\ boot = "serving" /\ request[b] = Idle
    /\ Accepted(cookie[b])
    /\ path = "ready" => ~user.must
    /\ Asks(b, [step |-> "guarded", path |-> path, token |-> cookie[b]])
    /\ UNCHANGED <<platform, user, cookie, changes, overlapped>>

(* require_user and require_ready_user, in a database session of their own *)
Require(b) ==
    /\ request[b].step = "guarded"
    /\ LET q == request[b]
       IN  IF Accepted(q.token) /\ (q.path = "ready" => ~user.must)
           THEN Asks(b, [step |-> "loaded", path |-> q.path, row |-> user, era |-> changes])
           ELSE Asks(b, Idle)
    /\ UNCHANGED <<platform, user, cookie, changes, overlapped>>

(* A handler behind require_ready_user, such as the one that saves         *)
(* settings.                                                               *)
Operate(b) ==
    /\ request[b].step = "loaded" /\ request[b].path = "ready"
    /\ settingsBy' = "ops"
    /\ Asks(b, Idle)
    /\ UNCHANGED <<boot, envFile, user, cookie, changes, overlapped>>

(* Mutant of Change: any password will do.                                 *)
ChangeToAny(b, old, new) ==
    /\ changes < MaxChanges
    /\ request[b].step = "loaded" /\ request[b].path = "password"
    /\ LET row == request[b].row
       IN  /\ row.must \/ old = row.pw
           /\ user' = [pw |-> new, must |-> FALSE, ver |-> row.ver + 1]
    /\ changes' = changes + 1
    /\ overlapped' = (overlapped \/ changes # request[b].era)
    /\ Asks(b, [step |-> "changed", era |-> changes + 1])
    /\ UNCHANGED <<platform, cookie>>

(* change_password up to its commit: the row as it was loaded decides and  *)
(* is counted up, whatever was committed since.                            *)
Change(b, old, new) ==
    /\ changes < MaxChanges
    /\ request[b].step = "loaded" /\ request[b].path = "password"
    /\ new # InitPassword
    /\ LET row == request[b].row
       IN  /\ row.must \/ old = row.pw
           /\ user' = [pw |-> new, must |-> FALSE, ver |-> row.ver + 1]
    /\ changes' = changes + 1
    /\ overlapped' = (overlapped \/ changes # request[b].era)
    /\ Asks(b, [step |-> "changed", era |-> changes + 1])
    /\ UNCHANGED <<platform, cookie>>

(* db.refresh and the new cookie.                                          *)
Renew(b) ==
    /\ request[b].step = "changed"
    /\ GetsCookie(b, [ver |-> user.ver, era |-> request[b].era])
    /\ overlapped' = (overlapped \/ changes # request[b].era)
    /\ Asks(b, Idle)
    /\ UNCHANGED <<platform, user, changes>>

(* A request is refused or its connection lost.                            *)
Drop(b) ==
    /\ request[b] # Idle
    /\ Asks(b, Idle)
    /\ UNCHANGED <<platform, user, cookie, changes, overlapped>>

(* logout only drops the browser's cookie, and so do its eight hours.      *)
Forget(b) ==
    /\ cookie[b] # NoCookie
    /\ GetsCookie(b, NoCookie)
    /\ UNCHANGED <<platform, user, request, changes, overlapped>>

Next ==
    \/ Start \/ EnsureAdmin \/ CheckImported \/ ImportEnv \/ Stop
    \/ \E b \in Browsers :
        \/ Login(b) \/ IssueSession(b) \/ Require(b) \/ Operate(b)
        \/ \E path \in {"password", "ready"} : Guard(b, path)
        \/ \E old, new \in Passwords : Change(b, old, new)
        \/ Renew(b) \/ Drop(b) \/ Forget(b)

Spec == Init /\ [][Next]_vars

-----------------------------------------------------------------------------
Requests ==
    {Idle}
    \cup [step : {"login"}, row : Rows, era : Nat]
    \cup [step : {"guarded"}, path : {"password", "ready"}, token : Cookies]
    \cup [step : {"loaded"}, path : {"password", "ready"}, row : Rows, era : Nat]
    \cup [step : {"changed"}, era : Nat]

(* Types of the variables, and the API serves nobody before there is an    *)
(* account.                                                                *)
TypeOK ==
    /\ boot \in {"down", "admin", "import", "save", "serving"}
    /\ user \in Rows \cup {NoUser}
    /\ settingsBy \in {"none", "env", "ops"}
    /\ envFile \in BOOLEAN
    /\ cookie \in [Browsers -> Cookies \cup {NoCookie}]
    /\ request \in [Browsers -> Requests]
    /\ changes \in Nat
    /\ overlapped \in BOOLEAN
    /\ boot \in {"import", "save", "serving"} => user # NoUser
    /\ boot # "serving" => \A b \in Browsers : request[b] = Idle

(* A password change ends every session that was opened before it, those   *)
(* included whose login was under way: the bearer of an accepted cookie    *)
(* has proved the password that is in force (auth.py 34-48, 83-97).  Two   *)
(* changes that overlap may give one version twice and are excepted.       *)
SessionsEnd ==
    ~overlapped => \A b \in Browsers : Accepted(cookie[b]) => cookie[b].era = changes

(* Nobody has changed settings while the start password was in force, and  *)
(* once it has been changed neither a start nor a change brings it back.   *)
StartPasswordGone ==
    changes > 0 \/ settingsBy = "ops" => user.pw # InitPassword /\ ~user.must
=============================================================================
