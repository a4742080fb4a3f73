------------------------------ MODULE Accounts ------------------------------
(***************************************************************************)
(* Accounts, keys and sessions of the orchestrator (routers/auth.py,       *)
(* auth.py and their repositories).                                        *)
(*                                                                         *)
(* A session copies the role of its user.  A request looks first and       *)
(* writes later, in one transaction that sees what others commit in        *)
(* between.  Roles below admin are one role; passwords are their version.  *)
(***************************************************************************)
EXTENDS Naturals, FiniteSets, FiniteSetsExt

CONSTANTS UserIds,     \* ids of accounts, given out in order
          KeyIds,      \* API keys
          Tokens,      \* session tokens
          Callers,    \* requests at work at the same time
          MaxPw        \* bound on password changes of an account

ASSUME AccountsAssumption == IsFiniteSet(UserIds) /\ UserIds \subseteq Nat /\ MaxPw \in Nat

VARIABLES
    user,       \* table users
    key,        \* table api_keys
    session,    \* table user_sessions
    ask,        \* the requests that looked and did not write yet
    overlapped  \* history: a removal was carried out after somebody changed accounts

accountsVars == <<user, key, session, ask, overlapped>>

Roles == {"operator", "admin"}
NoAccount == [st |-> "none", role |-> "operator", pw |-> 0]
NoKey == [st |-> "none", role |-> "operator"]
NoSes == [of |-> 0, role |-> "operator", pw |-> 0, late |-> FALSE]
NoAsk == [op |-> "idle", who |-> 0, what |-> "", pw |-> 0, stale |-> FALSE]

(* What one request changes: a role, the access, the password.             *)
Patches == {"operator", "admin", "on", "off", "pw"}

Present == {u \in UserIds : user[u].st # "none"}
IsAdmin(a) == a.st = "on" /\ a.role = "admin"
SomeAdmin == (\E u \in UserIds : IsAdmin(user[u])) \/ (\E k \in KeyIds : IsAdmin(key[k]))

(* Some accounts exist, an administrator among them; nobody is logged in.  *)
AccountsInit ==
    /\ \E roles \in [UserIds -> Roles] :
          user = [u \in UserIds |-> [NoAccount EXCEPT !.st = "on", !.role = roles[u]]]
    /\ \E roles \in [KeyIds -> Roles] :
          key = [k \in KeyIds |-> [st |-> "on", role |-> roles[k]]]
    /\ SomeAdmin
    /\ session = [t \in Tokens |-> NoSes]
    /\ ask = [r \in Callers |-> NoAsk]
    /\ overlapped = FALSE

(* primary_id: the first account, whose role and access are protected.     *)
Primary == IF Present = {} THEN 0 ELSE Min(Present)

(* delete_for_user: all sessions of a user, but one he keeps.              *)
Revoked(u, kept) ==
    [t \in Tokens |-> IF session[t].of = u /\ t \notin kept THEN NoSes ELSE session[t]]

(* A request is answered; the others now work on what they read before.    *)
Answered(r) ==
    ask' = [q \in Callers |-> IF q = r THEN NoAsk
                               ELSE IF ask[q].op = "idle" THEN ask[q]
                               ELSE [ask[q] EXCEPT !.stale = TRUE]]
Dropped(r) == ask' = [ask EXCEPT ![r] = NoAsk]

-----------------------------------------------------------------------------
(* Mutant of Others: the account itself counts as another administrator.   *)
Anyone(u) ==
    Cardinality({v \in UserIds : IsAdmin(user[v])}) + Cardinality({k \in KeyIds : IsAdmin(key[k])})

(* _total_admins without one user.                                         *)
Others(u) ==
    Cardinality({v \in UserIds \ {u} : IsAdmin(user[v])})
        + Cardinality({k \in KeyIds : IsAdmin(key[k])})

OtherKeys(k) == Cardinality({l \in KeyIds \ {k} : IsAdmin(key[l])})

Demotes(a, what) == a.role = "admin" /\ (what = "operator" \/ (what = "off" /\ a.st = "on"))

(* login: the user is read and the password compared; the session is       *)
(* written later with the role that was read.                              *)
LoginCheck(r, u) ==
    /\ ask[r] = NoAsk /\ user[u].st = "on"
    /\ ask' = [ask EXCEPT ![r] = [op |-> "login", who |-> u, what |-> user[u].role,
                                  pw |-> user[u].pw, stale |-> FALSE]]
    /\ UNCHANGED <<user, key, session, overlapped>>

LoginCommit(r, t) ==
    LET a == ask[r]
    IN  /\ a.op = "login" /\ session[t] = NoSes
        /\ session' = IF user[a.who].st = "none" THEN session
                  ELSE [session EXCEPT ![t] = [of |-> a.who, role |-> a.what, pw |-> a.pw,
                                           late |-> a.stale]]
        /\ Dropped(r)
        /\ UNCHANGED <<user, key, overlapped>>

(* update_user: the checks, then role, access or password in one           *)
(* transaction with the end of the user's sessions.                        *)
UpdateCheck(r, u, what) ==
    /\ ask[r] = NoAsk /\ user[u].st # "none"
    /\ u = Primary => what \notin {"operator", "off"}
    /\ Demotes(user[u], what) => Others(u) > 0
    /\ ask' = [ask EXCEPT ![r] = [NoAsk EXCEPT !.op = "user", !.who = u, !.what = what]]
    /\ UNCHANGED <<user, key, session, overlapped>>

Patched(a, what) ==
    [a EXCEPT !.role = IF what \in Roles THEN what ELSE @,
              !.st = IF what \in {"on", "off"} THEN what ELSE @]
NewPw(a, what) == IF what = "pw" THEN [a EXCEPT !.pw = @ + 1] ELSE Patched(a, what)

(* Mutant of UpdateCommit: the sessions are kept.                          *)
UpdateKeeps(r) ==
    LET a == ask[r]
    IN  /\ a.op = "user" /\ user[a.who].st # "none"
        /\ a.what = "pw" => user[a.who].pw < MaxPw
        /\ user' = [user EXCEPT ![a.who] = NewPw(@, a.what)]
        /\ overlapped' = (overlapped \/ a.stale)
        /\ Answered(r)
        /\ UNCHANGED <<key, session>>

UpdateCommit(r) ==
    LET a == ask[r]
    IN  /\ a.op = "user"
        /\ a.what = "pw" => user[a.who].pw < MaxPw
        /\ IF user[a.who].st = "none"
           THEN Dropped(r) /\ UNCHANGED <<user, session, overlapped>>
           ELSE /\ user' = [user EXCEPT ![a.who] = NewPw(@, a.what)]
                /\ session' = Revoked(a.who, {})
                /\ overlapped' = (overlapped \/ a.stale)
                /\ Answered(r)
        /\ UNCHANGED key

DeleteCheck(r, u) ==
    /\ ask[r] = NoAsk /\ user[u].st # "none" /\ u # Primary
    /\ IsAdmin(user[u]) => Others(u) > 0
    /\ ask' = [ask EXCEPT ![r] = [NoAsk EXCEPT !.op = "drop", !.who = u]]
    /\ UNCHANGED <<user, key, session, overlapped>>

DeleteCommit(r) ==
    LET u == ask[r].who
    IN  /\ ask[r].op = "drop"
        /\ user' = [user EXCEPT ![u] = NoAccount]
        /\ session' = Revoked(u, {})
        /\ overlapped' = (overlapped \/ ask[r].stale)
        /\ Answered(r)
        /\ UNCHANGED key

(* create_user: a new account gets an id above all others.                 *)
CreateUser(u, role) ==
    /\ \A v \in Present : v < u
    /\ user[u].st = "none"
    /\ user' = [user EXCEPT ![u] = [NoAccount EXCEPT !.st = "on", !.role = role]]
    /\ ask' = [r \in Callers |-> IF ask[r].op = "idle" THEN ask[r]
                                  ELSE [ask[r] EXCEPT !.stale = TRUE]]
    /\ UNCHANGED <<key, session, overlapped>>

-----------------------------------------------------------------------------
(* update_key and delete_key count only the other keys.                    *)
KeyCheck(r, k, what) ==
    /\ ask[r] = NoAsk /\ key[k].st # "none"
    /\ Demotes(key[k], what) \/ (what = "drop" /\ IsAdmin(key[k])) => OtherKeys(k) > 0
    /\ ask' = [ask EXCEPT ![r] = [NoAsk EXCEPT !.op = "key", !.who = k, !.what = what]]
    /\ UNCHANGED <<user, key, session, overlapped>>

KeyCommit(r) ==
    LET a == ask[r]
    IN  /\ a.op = "key"
        /\ key' = [key EXCEPT ![a.who] = IF a.what = "drop" \/ @.st = "none" THEN NoKey
                                         ELSE Patched(@, a.what)]
        /\ overlapped' = (overlapped \/ a.stale)
        /\ Answered(r)
        /\ UNCHANGED <<user, session>>

CreateKey(k, role) ==
    /\ key[k].st = "none"
    /\ key' = [key EXCEPT ![k] = [st |-> "on", role |-> role]]
    /\ ask' = [r \in Callers |-> IF ask[r].op = "idle" THEN ask[r]
                                  ELSE [ask[r] EXCEPT !.stale = TRUE]]
    /\ UNCHANGED <<user, session, overlapped>>

-----------------------------------------------------------------------------
(* change_my_password: the session it comes from is kept.                  *)
ChangeOwnPassword(t) ==
    LET u == session[t].of
    IN  /\ u # 0 /\ user[u].st # "none" /\ user[u].pw < MaxPw
        /\ user' = [user EXCEPT ![u].pw = @ + 1]
        /\ session' = [Revoked(u, {t}) EXCEPT ![t].pw = user[u].pw + 1]
        /\ ask' = [r \in Callers |-> IF ask[r].op = "idle" THEN ask[r]
                                      ELSE [ask[r] EXCEPT !.stale = TRUE]]
        /\ UNCHANGED <<key, overlapped>>

(* logout, or a session that has expired is shown (resolve_principal).     *)
EndSession(t) ==
    /\ session[t] # NoSes
    /\ session' = [session EXCEPT ![t] = NoSes]
    /\ UNCHANGED <<user, key, ask, overlapped>>

(* revoke_my_session: one of a user's sessions, from another one of his.   *)
RevokeOne(t, other) ==
    /\ t # other /\ session[t] # NoSes
    /\ session[other].of = session[t].of /\ user[session[t].of].st # "none"
    /\ session' = [session EXCEPT ![t] = NoSes]
    /\ UNCHANGED <<user, key, ask, overlapped>>

(* revoke_other_sessions.                                                  *)
RevokeOthers(t) ==
    /\ session[t] # NoSes /\ user[session[t].of].st # "none"
    /\ session' = Revoked(session[t].of, {t})
    /\ UNCHANGED <<user, key, ask, overlapped>>

LoginStep(r) == (\E u \in UserIds : LoginCheck(r, u)) \/ \E t \in Tokens : LoginCommit(r, t)

UserStep(r) ==
    \/ \E u \in UserIds : DeleteCheck(r, u) \/ \E what \in Patches : UpdateCheck(r, u, what)
    \/ UpdateCommit(r) \/ DeleteCommit(r)

KeyStep(r) ==
    \/ \E k \in KeyIds, what \in (Patches \ {"pw"}) \union {"drop"} : KeyCheck(r, k, what)
    \/ KeyCommit(r)

Creation == \E role \in Roles :
    (\E u \in UserIds : CreateUser(u, role)) \/ \E k \in KeyIds : CreateKey(k, role)

SessionStep(t) ==
    \/ ChangeOwnPassword(t) \/ EndSession(t) \/ RevokeOthers(t)
    \/ \E other \in Tokens : RevokeOne(t, other)

AccountsNext ==
    \/ \E r \in Callers : LoginStep(r) \/ UserStep(r) \/ KeyStep(r)
    \/ Creation
    \/ \E t \in Tokens : SessionStep(t)

AccountsSpec == AccountsInit /\ [][AccountsNext]_accountsVars

-----------------------------------------------------------------------------
AccountsTypeOK ==
    /\ user \in [UserIds -> [st : {"none", "on", "off"}, role : Roles, pw : 0..MaxPw]]
    /\ key \in [KeyIds -> [st : {"none", "on", "off"}, role : Roles]]
    /\ session \in [Tokens -> [of : UserIds \union {0}, role : Roles, pw : 0..MaxPw,
                                late : BOOLEAN]]
    /\ \A r \in Callers : ask[r].op \in {"idle", "login", "user", "drop", "key"}
    /\ overlapped \in BOOLEAN

(* Somebody can always administer: of all the ways to demote, disable and  *)
(* delete accounts and keys, none takes the last enabled administrator,    *)
(* unless two such requests overlap (the counts of _total_admins and       *)
(* count_admins and the protected first account).                          *)
AdminRemains == overlapped \/ SomeAdmin

(* A session has the role of its user, who is enabled, and was opened with *)
(* his present password: every change ends the sessions that copied what   *)
(* it changed.  Only a login that was at work meanwhile is later.          *)
SessionsFollow ==
    \A t \in Tokens : session[t] # NoSes /\ ~session[t].late =>
        LET u == user[session[t].of]
        IN  u.st = "on" /\ u.role = session[t].role /\ u.pw = session[t].pw

(* Who may do what follows from the accounts there are, and there is one   *)
(* that may change them.                                                   *)
AccountsSound == AdminRemains /\ SessionsFollow
=============================================================================
