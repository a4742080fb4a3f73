------------------------ MODULE OrchestratorProofs -------------------------
(***************************************************************************)
(* Theorems about the orchestrator: accounts, keys and sessions (module    *)
(* Accounts), the alert loop (Alerts), the backups with the database they  *)
(* restore (Backups), live updates (Hub) and the registry of the engines   *)
(* (EngineRegistry); for every set of users, keys, tokens, requests,       *)
(* conditions, dumps, connections, channels and engines, and every bound.  *)
(* At the end they are put together with the parts of ClientProofs and the *)
(* totals and quotas of DatabaseProofs, as MCApi does.                     *)
(***************************************************************************)
EXTENDS MCApi, ClientProofs, DatabaseProofs

(* Accounts, keys and sessions.                                            *)

Account == [st : {"none", "on", "off"}, role : Roles, pw : 0..MaxPw]
Key == [st : {"none", "on", "off"}, role : Roles]
Ses == [of : UserIds \union {0}, role : Roles, pw : 0..MaxPw, late : BOOLEAN]
Ask == [op : {"idle", "login", "user", "drop", "key"}, who : UserIds \union KeyIds \union {0},
        what : Patches \union {"drop", ""}, pw : 0..MaxPw, stale : BOOLEAN]

(* What a request is about.                                                *)
AskOK(r) ==
    /\ ask[r].op \in {"login", "user", "drop"} => ask[r].who \in UserIds
    /\ ask[r].op = "login" => ask[r].what \in Roles
    /\ ask[r].op = "key" => ask[r].who \in KeyIds

AnotherAdmin(u) ==
    (\E v \in UserIds \ {u} : IsAdmin(user[v])) \/ \E k \in KeyIds : IsAdmin(key[k])
AnotherKey(k) == \E l \in KeyIds \ {k} : IsAdmin(key[l])

(* What a request found when it looked holds until somebody changes the    *)
(* accounts, which makes it stale.                                         *)
Guarded(r) ==
    ~ask[r].stale =>
        /\ ask[r].op = "user" /\ Demotes(user[ask[r].who], ask[r].what) => AnotherAdmin(ask[r].who)
        /\ ask[r].op = "drop" /\ IsAdmin(user[ask[r].who]) => AnotherAdmin(ask[r].who)
        /\ /\ ask[r].op = "key"
           /\ \/ Demotes(key[ask[r].who], ask[r].what)
              \/ ask[r].what = "drop" /\ IsAdmin(key[ask[r].who])
           => AnotherKey(ask[r].who)

LoginTrue(r) ==
    ask[r].op = "login" /\ ~ask[r].stale =>
        LET u == user[ask[r].who]
        IN  u.st = "on" /\ u.role = ask[r].what /\ u.pw = ask[r].pw

Follows(t) ==
    session[t] # NoSes =>
        /\ session[t].of \in UserIds
        /\ ~session[t].late =>
              LET u == user[session[t].of]
              IN  u.st = "on" /\ u.role = session[t].role /\ u.pw = session[t].pw

Typed ==
    /\ user \in [UserIds -> Account] /\ key \in [KeyIds -> Key] /\ session \in [Tokens -> Ses]
    /\ ask \in [Callers -> Ask] /\ overlapped \in BOOLEAN

Asked == \A r \in Callers : AskOK(r) /\ Guarded(r) /\ LoginTrue(r)

AccountsInv == Typed /\ Asked /\ AdminRemains /\ \A t \in Tokens : Follows(t)

-----------------------------------------------------------------------------
LEMMA Records ==
    /\ NoAccount \in Account /\ NoKey \in Key /\ NoSes \in Ses /\ NoAsk \in Ask
    /\ NoAsk.op = "idle" /\ 0 \in 0..MaxPw
<1> QED
  BY AccountsAssumption DEF NoAccount, NoKey, NoSes, NoAsk, Account, Key, Ses, Ask, Roles, Patches

(* _total_admins and count_admins count above zero only if there is one.   *)
LEMMA CountsMeanSome ==
    /\ \A u : Others(u) > 0 => AnotherAdmin(u)
    /\ \A k : OtherKeys(k) > 0 => AnotherKey(k)
<1>1. ASSUME NEW u, ~AnotherAdmin(u)
      PROVE  ~(Others(u) > 0)
  <2>1. {v \in UserIds \ {u} : IsAdmin(user[v])} = {} /\ {k \in KeyIds : IsAdmin(key[k])} = {}
    BY <1>1 DEF AnotherAdmin
  <2>2. Others(u) = 0 + 0
    BY <2>1, FS_EmptySet DEF Others
  <2> QED
    BY <2>2
<1>2. ASSUME NEW k, ~AnotherKey(k)
      PROVE  ~(OtherKeys(k) > 0)
  <2>1. {l \in KeyIds \ {k} : IsAdmin(key[l])} = {}
    BY <1>2 DEF AnotherKey
  <2>2. OtherKeys(k) = 0
    BY <2>1, FS_EmptySet DEF OtherKeys
  <2> QED
    BY <2>2
<1> QED
  BY <1>1, <1>2

LEMMA AccountsStart == AccountsInit => AccountsInv
<1> SUFFICES ASSUME AccountsInit PROVE AccountsInv
  OBVIOUS
<1>1. PICK roles \in [UserIds -> Roles] :
          user = [u \in UserIds |-> [NoAccount EXCEPT !.st = "on", !.role = roles[u]]]
  BY DEF AccountsInit
<1>2. user \in [UserIds -> Account]
  BY <1>1, Records DEF NoAccount, Account
<1>3. key \in [KeyIds -> Key]
  <2>1. PICK given \in [KeyIds -> Roles] : key = [k \in KeyIds |-> [st |-> "on", role |-> given[k]]]
    BY DEF AccountsInit
  <2> QED
    BY <2>1 DEF Key
<1>4. Typed
  BY <1>2, <1>3, Records DEF AccountsInit, Typed
<1>5. Asked
  BY Records DEF AccountsInit, Asked, AskOK, Guarded, LoginTrue
<1>6. AdminRemains /\ \A t \in Tokens : Follows(t)
  BY DEF AccountsInit, AdminRemains, Follows
<1> QED
  BY <1>4, <1>5, <1>6 DEF AccountsInv

(* Whoever changes accounts makes the other requests stale.                *)
LEMMA AllStale ==
    ASSUME Typed, Asked,
           \/ \E r \in Callers : Answered(r)
           \/ ask' = [r \in Callers |-> IF ask[r].op = "idle" THEN ask[r]
                                         ELSE [ask[r] EXCEPT !.stale = TRUE]]
    PROVE  ask' \in [Callers -> Ask] /\ Asked'
<1>1. ASSUME NEW q \in Callers
      PROVE  /\ ask'[q] \in Ask /\ (ask'[q].op = "idle" \/ ask'[q].stale)
             /\ ask'[q].op = "idle" \/ (/\ ask'[q].op = ask[q].op /\ ask'[q].who = ask[q].who
                                        /\ ask'[q].what = ask[q].what)
  <2>1. ask[q] \in Ask
    BY DEF Typed
  <2>2. ask'[q] = NoAsk \/ (ask'[q] = ask[q] /\ ask[q].op = "idle")
            \/ ask'[q] = [ask[q] EXCEPT !.stale = TRUE]
    BY DEF Answered
  <2> QED
    BY <2>1, <2>2, Records DEF Ask
<1>2. ask' \in [Callers -> Ask]
  <2>1. \E f : ask' = [q \in Callers |-> f[q]]
    BY DEF Answered
  <2> QED
    BY <1>1, <2>1
<1>3. Asked'
  BY <1>1 DEF Asked, AskOK, Guarded, LoginTrue
<1> QED
  BY <1>2, <1>3

(* A request looks, or is answered without a change.                       *)
LEMMA OneAsks ==
    ASSUME AccountsInv, NEW r \in Callers, NEW a \in Ask, ask' = [ask EXCEPT ![r] = a],
           UNCHANGED <<user, key>>, AskOK(r)', Guarded(r)', LoginTrue(r)'
    PROVE  ask' \in [Callers -> Ask] /\ Asked'
<1>1. ask' \in [Callers -> Ask] /\ \A q \in Callers \ {r} : ask'[q] = ask[q]
  BY DEF AccountsInv, Typed
<1>2. ASSUME NEW q \in Callers \ {r}
      PROVE  AskOK(q)' /\ Guarded(q)' /\ LoginTrue(q)'
  BY <1>1 DEF AccountsInv, Asked, AskOK, Guarded, LoginTrue, AnotherAdmin, AnotherKey
<1> QED
  BY <1>1, <1>2 DEF Asked

LEMMA ChecksKeep ==
    ASSUME AccountsInv, NEW r \in Callers,
           \/ \E u \in UserIds : LoginCheck(r, u) \/ DeleteCheck(r, u)
           \/ \E u \in UserIds, what \in Patches : UpdateCheck(r, u, what)
           \/ \E k \in KeyIds, what \in (Patches \ {"pw"}) \union {"drop"} : KeyCheck(r, k, what)
    PROVE  AccountsInv'
<1>1. UNCHANGED <<user, key, session, overlapped>> /\ ask \in [Callers -> Ask]
      /\ user \in [UserIds -> Account]
  BY DEF LoginCheck, DeleteCheck, UpdateCheck, KeyCheck, AccountsInv, Typed
<1>2. ask' \in [Callers -> Ask] /\ Asked'
  <2>1. ASSUME NEW u \in UserIds, LoginCheck(r, u)
        PROVE  ask' \in [Callers -> Ask] /\ Asked'
    <3> DEFINE a == [op |-> "login", who |-> u, what |-> user[u].role, pw |-> user[u].pw, stale |-> FALSE]
    <3>1. ask' = [ask EXCEPT ![r] = a] /\ user[u].st = "on" /\ user[u] \in Account
      BY <1>1, <2>1 DEF LoginCheck
    <3>2. a \in Ask
      BY <3>1 DEF Ask, Account, Roles, Patches
    <3>3. ask'[r] = a
      BY <1>1, <3>1
    <3>4. AskOK(r)' /\ Guarded(r)' /\ LoginTrue(r)'
      BY <1>1, <3>1, <3>3 DEF AskOK, Guarded, LoginTrue, Account
    <3> HIDE DEF a
    <3> QED
      BY <1>1, <3>1, <3>2, <3>4, OneAsks
  <2>2. ASSUME NEW u \in UserIds, DeleteCheck(r, u)
        PROVE  ask' \in [Callers -> Ask] /\ Asked'
    <3> DEFINE a == [NoAsk EXCEPT !.op = "drop", !.who = u]
    <3>1. ask' = [ask EXCEPT ![r] = a] /\ (IsAdmin(user[u]) => AnotherAdmin(u))
      BY <2>2, CountsMeanSome DEF DeleteCheck
    <3>2. a \in Ask /\ a.op = "drop" /\ a.who = u
      BY Records DEF NoAsk, Ask
    <3> HIDE DEF a
    <3>3. ask'[r] = a
      BY <1>1, <3>1
    <3>4. AskOK(r)' /\ Guarded(r)' /\ LoginTrue(r)'
      BY <1>1, <3>1, <3>2, <3>3 DEF AskOK, Guarded, LoginTrue, AnotherAdmin
    <3> QED
      BY <1>1, <3>1, <3>2, <3>4, OneAsks
  <2>3. ASSUME NEW u \in UserIds, NEW what \in Patches, UpdateCheck(r, u, what)
        PROVE  ask' \in [Callers -> Ask] /\ Asked'
    <3> DEFINE a == [NoAsk EXCEPT !.op = "user", !.who = u, !.what = what]
    <3>1. ask' = [ask EXCEPT ![r] = a] /\ (Demotes(user[u], what) => AnotherAdmin(u))
      BY <2>3, CountsMeanSome DEF UpdateCheck
    <3>2. a \in Ask /\ a.op = "user" /\ a.who = u /\ a.what = what
      BY Records DEF NoAsk, Ask
    <3> HIDE DEF a
    <3>3. ask'[r] = a
      BY <1>1, <3>1
    <3>4. AskOK(r)' /\ Guarded(r)' /\ LoginTrue(r)'
      BY <1>1, <3>1, <3>2, <3>3 DEF AskOK, Guarded, LoginTrue, AnotherAdmin
    <3> QED
      BY <1>1, <3>1, <3>2, <3>4, OneAsks
  <2>4. ASSUME NEW k \in KeyIds, NEW what \in (Patches \ {"pw"}) \union {"drop"}, KeyCheck(r, k, what)
        PROVE  ask' \in [Callers -> Ask] /\ Asked'
    <3> DEFINE a == [NoAsk EXCEPT !.op = "key", !.who = k, !.what = what]
    <3>1. /\ ask' = [ask EXCEPT ![r] = a]
          /\ Demotes(key[k], what) \/ (what = "drop" /\ IsAdmin(key[k])) => AnotherKey(k)
      BY <2>4, CountsMeanSome DEF KeyCheck
    <3>2. a \in Ask /\ a.op = "key" /\ a.who = k /\ a.what = what
      BY Records DEF NoAsk, Ask
    <3> HIDE DEF a
    <3>3. ask'[r] = a
      BY <1>1, <3>1
    <3>4. AskOK(r)' /\ Guarded(r)' /\ LoginTrue(r)'
      BY <1>1, <3>1, <3>2, <3>3 DEF AskOK, Guarded, LoginTrue, AnotherKey
    <3> QED
      BY <1>1, <3>1, <3>2, <3>4, OneAsks
  <2> QED
    BY <2>1, <2>2, <2>3, <2>4
<1>3. AdminRemains' /\ \A t \in Tokens : Follows(t)'
  BY <1>1 DEF AccountsInv, AdminRemains, SomeAdmin, Follows
<1> QED
  BY <1>1, <1>2, <1>3 DEF AccountsInv, Typed

-----------------------------------------------------------------------------
(* The end of sessions keeps those that follow.                            *)
LEMMA RevokedFollows ==
    ASSUME AccountsInv, NEW u, NEW kept
    PROVE  /\ Revoked(u, kept) \in [Tokens -> Ses]
           /\ \A t \in Tokens : \/ Revoked(u, kept)[t] = NoSes
                                \/ Revoked(u, kept)[t] = session[t] /\ (session[t].of # u \/ t \in kept)
<1> QED
  BY Records DEF AccountsInv, Typed, Revoked

LEMMA LoginKeeps ==
    ASSUME AccountsInv, NEW r \in Callers, NEW t \in Tokens, LoginCommit(r, t)
    PROVE  AccountsInv'
<1> DEFINE s == [of |-> ask[r].who, role |-> ask[r].what, pw |-> ask[r].pw, late |-> ask[r].stale]
<1>1. /\ ask \in [Callers -> Ask] /\ ask[r] \in Ask /\ session \in [Tokens -> Ses]
      /\ ask[r].op = "login" /\ AskOK(r) /\ LoginTrue(r)
      /\ ask' = [ask EXCEPT ![r] = NoAsk] /\ UNCHANGED <<user, key, overlapped>>
      /\ session' = session \/ session' = [session EXCEPT ![t] = s]
  BY DEF AccountsInv, Typed, Asked, LoginCommit, Dropped
<1>2. s \in Ses /\ s.of \in UserIds /\ s.of = ask[r].who /\ s.role = ask[r].what /\ s.pw = ask[r].pw
      /\ s.late = ask[r].stale
  BY <1>1 DEF AskOK, Ask, Ses
<1> HIDE DEF s
<1>3. session' \in [Tokens -> Ses]
  BY <1>1, <1>2
<1>4. ask' \in [Callers -> Ask] /\ Asked'
  <2>1. ask'[r] = NoAsk
    BY <1>1
  <2>2. AskOK(r)' /\ Guarded(r)' /\ LoginTrue(r)'
    BY <2>1, Records DEF AskOK, Guarded, LoginTrue
  <2> QED
    BY <1>1, <2>2, Records, OneAsks
<1>5. ASSUME NEW q \in Tokens
      PROVE  Follows(q)'
  <2>1. CASE session'[q] = session[q]
    BY <1>1, <2>1 DEF AccountsInv, Follows
  <2>2. CASE session'[q] = s
    BY <1>1, <1>2, <2>2 DEF Follows, LoginTrue
  <2> QED
    BY <1>1, <2>1, <2>2
<1>6. AdminRemains'
  BY <1>1 DEF AccountsInv, AdminRemains, SomeAdmin
<1> QED
  BY <1>1, <1>3, <1>4, <1>5, <1>6 DEF AccountsInv, Typed

(* A change of an account: what the request found when it looked leaves an *)
(* administrator, and the sessions of the account end.                     *)
LEMMA UserKeeps ==
    ASSUME AccountsInv, NEW r \in Callers, UpdateCommit(r) \/ DeleteCommit(r)
    PROVE  AccountsInv'
<1>1. /\ user \in [UserIds -> Account] /\ key \in [KeyIds -> Key] /\ ask \in [Callers -> Ask]
      /\ overlapped \in BOOLEAN /\ ask[r] \in Ask /\ ask[r].who \in UserIds /\ UNCHANGED key
      /\ Typed /\ Asked /\ AskOK(r) /\ Guarded(r)
  BY DEF AccountsInv, Typed, Asked, AskOK, UpdateCommit, DeleteCommit
<1> DEFINE u == ask[r].who
<1>2. CASE Dropped(r) /\ UNCHANGED <<user, session, overlapped>>
  <2>1. ask' = [ask EXCEPT ![r] = NoAsk] /\ ask'[r] = NoAsk
    BY <1>1, <1>2 DEF Dropped
  <2>2. AskOK(r)' /\ Guarded(r)' /\ LoginTrue(r)'
    BY <2>1, Records DEF AskOK, Guarded, LoginTrue
  <2>3. ask' \in [Callers -> Ask] /\ Asked'
    BY <1>1, <1>2, <2>1, <2>2, Records, OneAsks
  <2> QED
    BY <1>1, <1>2, <2>3 DEF AccountsInv, Typed, AdminRemains, SomeAdmin, Follows
<1>3. CASE /\ \/ ask[r].op = "user" /\ user' = [user EXCEPT ![u] = NewPw(@, ask[r].what)]
                 /\ (ask[r].what = "pw" => user[u].pw < MaxPw)
              \/ ask[r].op = "drop" /\ user' = [user EXCEPT ![u] = NoAccount]
           /\ session' = Revoked(u, {}) /\ overlapped' = (overlapped \/ ask[r].stale) /\ Answered(r)
  <2>1. user'[u] \in Account /\ user' \in [UserIds -> Account]
        /\ \A v \in UserIds \ {u} : user'[v] = user[v]
    <3>1. user[u] \in Account
      BY <1>1
    <3>2. ask[r].what = "pw" /\ user[u].pw < MaxPw => [user[u] EXCEPT !.pw = @ + 1] \in Account
      BY <3>1, AccountsAssumption DEF Account
    <3>3. Patched(user[u], ask[r].what) \in Account
      BY <3>1 DEF Patched, Account, Roles
    <3> QED
      BY <1>1, <1>3, <3>2, <3>3, Records DEF NewPw
  <2>2. ask' \in [Callers -> Ask] /\ Asked'
    BY <1>1, <1>3, AllStale
  <2>3. session' \in [Tokens -> Ses] /\ \A t \in Tokens : Follows(t)'
    <3>1. ASSUME NEW t \in Tokens
          PROVE  Follows(t)'
      BY <1>3, <2>1, <3>1, RevokedFollows DEF AccountsInv, Follows
    <3> QED
      BY <1>3, <3>1, RevokedFollows
  <2>4. AdminRemains'
    <3>1. SUFFICES ASSUME ~overlapped, ~ask[r].stale
                   PROVE  SomeAdmin'
      BY <1>1, <1>3 DEF AdminRemains
    <3>2. SomeAdmin
      BY <3>1 DEF AccountsInv, AdminRemains
    <3>3. CASE AnotherAdmin(u)
      BY <1>1, <2>1, <3>3 DEF AnotherAdmin, SomeAdmin
    <3>4. CASE ~AnotherAdmin(u)
      <4>1. IsAdmin(user[u])
        BY <1>1, <3>2, <3>4 DEF SomeAdmin, AnotherAdmin
      <4>2. ask[r].op = "user" /\ ~Demotes(user[u], ask[r].what)
        BY <1>1, <1>3, <3>1, <3>4, <4>1 DEF Guarded
      <4>3. IsAdmin(NewPw(user[u], ask[r].what))
        BY <1>1, <4>1, <4>2 DEF IsAdmin, NewPw, Patched, Demotes, Account, Ask, Patches, Roles
      <4>4. user'[u] = NewPw(user[u], ask[r].what)
        BY <1>1, <1>3, <4>2
      <4> QED
        BY <1>1, <4>3, <4>4 DEF SomeAdmin
    <3> QED
      BY <3>3, <3>4
  <2> QED
    BY <1>1, <1>3, <2>1, <2>2, <2>3, <2>4 DEF AccountsInv, Typed
<1>4. CASE UpdateCommit(r)
  BY <1>2, <1>3, <1>4 DEF UpdateCommit
<1>5. CASE DeleteCommit(r)
  BY <1>3, <1>5 DEF DeleteCommit
<1> QED
  BY <1>4, <1>5

LEMMA KeyKeeps ==
    ASSUME AccountsInv, NEW r \in Callers, KeyCommit(r)
    PROVE  AccountsInv'
<1> DEFINE k == ask[r].who
           new == IF ask[r].what = "drop" \/ key[k].st = "none" THEN NoKey
                  ELSE Patched(key[k], ask[r].what)
<1>1. /\ Typed /\ Asked /\ AskOK(r) /\ Guarded(r) /\ ask[r].op = "key" /\ k \in KeyIds
      /\ key \in [KeyIds -> Key] /\ overlapped \in BOOLEAN /\ ask[r] \in Ask
      /\ UNCHANGED <<user, session>> /\ Answered(r) /\ overlapped' = (overlapped \/ ask[r].stale)
  BY DEF AccountsInv, Typed, Asked, AskOK, KeyCommit
<1>2. key' = [key EXCEPT ![k] = new]
  BY <1>1 DEF KeyCommit
<1>3. new \in Key
  BY <1>1, Records DEF Patched, Key, Roles
<1>4. ask' \in [Callers -> Ask] /\ Asked'
  BY <1>1, AllStale
<1>5. AdminRemains'
  <2>1. SUFFICES ASSUME ~overlapped, ~ask[r].stale
                 PROVE  SomeAdmin'
    BY <1>1 DEF AdminRemains
  <2>2. SomeAdmin
    BY <2>1 DEF AccountsInv, AdminRemains
  <2>3. CASE AnotherKey(k) \/ \E u \in UserIds : IsAdmin(user[u])
    BY <1>1, <1>2, <2>3 DEF AnotherKey, SomeAdmin
  <2>4. CASE ~AnotherKey(k) /\ ~\E u \in UserIds : IsAdmin(user[u])
    <3>1. IsAdmin(key[k])
      BY <1>1, <2>2, <2>4 DEF SomeAdmin, AnotherKey
    <3>2. ~Demotes(key[k], ask[r].what) /\ ask[r].what # "drop"
      BY <1>1, <2>1, <2>4, <3>1 DEF Guarded
    <3>3. IsAdmin(new)
      BY <1>1, <3>1, <3>2 DEF IsAdmin, Patched, Demotes, Key, Roles
    <3> QED
      BY <1>1, <1>2, <3>3 DEF SomeAdmin
  <2> QED
    BY <2>3, <2>4
<1>6. \A t \in Tokens : Follows(t)'
  BY <1>1 DEF AccountsInv, Follows
<1> QED
  BY <1>1, <1>2, <1>3, <1>4, <1>5, <1>6 DEF AccountsInv, Typed

LEMMA CreationKeeps ==
    ASSUME AccountsInv, Creation
    PROVE  AccountsInv'
<1>1. PICK role \in Roles : (\E u \in UserIds : CreateUser(u, role)) \/ \E k \in KeyIds : CreateKey(k, role)
  BY DEF Creation
<1>2. /\ Typed /\ Asked /\ user \in [UserIds -> Account] /\ key \in [KeyIds -> Key]
      /\ UNCHANGED <<session, overlapped>>
      /\ ask' = [r \in Callers |-> IF ask[r].op = "idle" THEN ask[r] ELSE [ask[r] EXCEPT !.stale = TRUE]]
  BY <1>1 DEF AccountsInv, Typed, CreateUser, CreateKey
<1>3. ask' \in [Callers -> Ask] /\ Asked'
  BY <1>2, AllStale
<1>4. /\ user' \in [UserIds -> Account] /\ key' \in [KeyIds -> Key]
      /\ \A v \in UserIds : user'[v] = user[v] \/ user[v].st = "none"
      /\ \A l \in KeyIds : key'[l] = key[l] \/ key[l].st = "none"
  <2>1. ASSUME NEW u \in UserIds, CreateUser(u, role)
        PROVE  /\ user' \in [UserIds -> Account] /\ UNCHANGED key
               /\ \A v \in UserIds : user'[v] = user[v] \/ user[v].st = "none"
    <3>1. [NoAccount EXCEPT !.st = "on", !.role = role] \in Account
      BY Records DEF NoAccount, Account
    <3> QED
      BY <1>2, <2>1, <3>1 DEF CreateUser
  <2>2. ASSUME NEW k \in KeyIds, CreateKey(k, role)
        PROVE  /\ key' \in [KeyIds -> Key] /\ UNCHANGED user
               /\ \A l \in KeyIds : key'[l] = key[l] \/ key[l].st = "none"
    BY <1>2, <2>2 DEF CreateKey, Key
  <2> QED
    BY <1>1, <1>2, <2>1, <2>2
<1>5. AdminRemains'
  BY <1>2, <1>4 DEF AccountsInv, AdminRemains, SomeAdmin, IsAdmin
<1>6. \A t \in Tokens : Follows(t)'
  BY <1>2, <1>4 DEF AccountsInv, Follows
<1> QED
  BY <1>2, <1>3, <1>4, <1>5, <1>6 DEF AccountsInv, Typed

-----------------------------------------------------------------------------
LEMMA OwnPasswordKeeps ==
    ASSUME AccountsInv, NEW t \in Tokens, ChangeOwnPassword(t)
    PROVE  AccountsInv'
<1> DEFINE u == session[t].of
           new == [user[u] EXCEPT !.pw = @ + 1]
           kept == [session[t] EXCEPT !.pw = user[u].pw + 1]
<1>1. /\ Typed /\ Asked /\ user \in [UserIds -> Account] /\ session \in [Tokens -> Ses]
      /\ u \in UserIds /\ user[u] \in Account /\ user[u].pw < MaxPw /\ session[t] \in Ses
      /\ UNCHANGED <<key, overlapped>>
      /\ ask' = [r \in Callers |-> IF ask[r].op = "idle" THEN ask[r] ELSE [ask[r] EXCEPT !.stale = TRUE]]
  BY DEF AccountsInv, Typed, ChangeOwnPassword, Ses
<1>2. user' = [user EXCEPT ![u] = new] /\ session' = [Revoked(u, {t}) EXCEPT ![t] = kept]
  <2>1. Revoked(u, {t})[t] = session[t]
    BY <1>1 DEF Revoked
  <2> QED
    BY <1>1, <2>1 DEF ChangeOwnPassword
<1>3. /\ new \in Account /\ new.st = user[u].st /\ new.role = user[u].role /\ new.pw = user[u].pw + 1
      /\ kept \in Ses /\ kept.of = u /\ kept.role = session[t].role /\ kept.late = session[t].late
      /\ kept.pw = user[u].pw + 1
  BY <1>1, AccountsAssumption DEF Account, Ses
<1> HIDE DEF new, kept
<1>4. ask' \in [Callers -> Ask] /\ Asked'
  BY <1>1, AllStale
<1>5. AdminRemains'
  BY <1>1, <1>2, <1>3 DEF AccountsInv, AdminRemains, SomeAdmin, IsAdmin
<1>6. session' \in [Tokens -> Ses]
  BY <1>2, <1>3, RevokedFollows
<1>7. ASSUME NEW q \in Tokens
      PROVE  Follows(q)'
  <2>1. CASE q = t
    <3>1. session'[q] = kept /\ user'[u] = new
      BY <1>1, <1>2, <2>1, RevokedFollows
    <3>2. session[t] # NoSes
      BY DEF ChangeOwnPassword, NoSes
    <3> QED
      BY <1>1, <1>3, <2>1, <3>1, <3>2 DEF AccountsInv, Follows
  <2>2. CASE q # t
    <3>1. session'[q] = NoSes \/ (session'[q] = session[q] /\ session[q].of # u)
      BY <1>2, <2>2, RevokedFollows
    <3> QED
      BY <1>1, <1>2, <3>1 DEF AccountsInv, Follows
  <2> QED
    BY <2>1, <2>2
<1> QED
  BY <1>1, <1>2, <1>3, <1>4, <1>5, <1>6, <1>7 DEF AccountsInv, Typed

(* A session that ends.                                                    *)
LEMMA SessionsEnd ==
    ASSUME AccountsInv, NEW t \in Tokens,
           EndSession(t) \/ RevokeOthers(t) \/ \E other \in Tokens : RevokeOne(t, other)
    PROVE  AccountsInv'
<1>1. UNCHANGED <<user, key, ask, overlapped>> /\ session \in [Tokens -> Ses]
  BY DEF AccountsInv, Typed, EndSession, RevokeOthers, RevokeOne
<1>2. session' = [session EXCEPT ![t] = NoSes] \/ session' = Revoked(session[t].of, {t})
  BY DEF EndSession, RevokeOthers, RevokeOne
<1>3. session' \in [Tokens -> Ses] /\ \A q \in Tokens : session'[q] = NoSes \/ session'[q] = session[q]
  BY <1>1, <1>2, Records, RevokedFollows
<1>4. \A q \in Tokens : Follows(q)'
  BY <1>1, <1>3 DEF AccountsInv, Follows
<1>5. Asked' /\ AdminRemains'
  BY <1>1 DEF AccountsInv, Asked, AskOK, Guarded, LoginTrue, AnotherAdmin, AnotherKey, AdminRemains, SomeAdmin
<1> QED
  BY <1>1, <1>3, <1>4, <1>5 DEF AccountsInv, Typed

LEMMA AccountsStep == AccountsInv /\ [AccountsNext]_accountsVars => AccountsInv'
<1> SUFFICES ASSUME AccountsInv, [AccountsNext]_accountsVars PROVE AccountsInv'
  OBVIOUS
<1>1. ASSUME NEW r \in Callers, LoginStep(r) \/ UserStep(r) \/ KeyStep(r)
      PROVE  AccountsInv'
  BY <1>1, ChecksKeep, LoginKeeps, UserKeeps, KeyKeeps DEF LoginStep, UserStep, KeyStep
<1>2. ASSUME NEW t \in Tokens, SessionStep(t)
      PROVE  AccountsInv'
  BY <1>2, OwnPasswordKeeps, SessionsEnd DEF SessionStep
<1>3. CASE UNCHANGED accountsVars
  BY <1>3 DEF accountsVars, AccountsInv, Typed, Asked, AskOK, Guarded, LoginTrue, AnotherAdmin, AnotherKey,
              AdminRemains, SomeAdmin, Follows
<1> QED
  BY <1>1, <1>2, <1>3, CreationKeeps DEF AccountsNext

(* What the invariant says of the accounts and their sessions.             *)
LEMMA AccountsTyped == AccountsInv => AccountsTypeOK
  BY DEF AccountsInv, Typed, AccountsTypeOK, Account, Key, Ses, Ask

LEMMA AccountsSay == AccountsInv => AccountsSound
  BY DEF AccountsInv, Follows, SessionsFollow, AccountsSound

LEMMA AccountsHold == AccountsSpec => []AccountsInv
<1> QED
  BY AccountsStart, AccountsStep, PTL DEF AccountsSpec

(* For any number of accounts, keys and requests: as long as no removal    *)
(* was carried out on counts that somebody changed meanwhile, an enabled   *)
(* administrator remains (_total_admins, count_admins).                    *)
THEOREM AnAdminRemains == AccountsSpec => []AdminRemains
<1>1. AccountsInv => AdminRemains
  BY DEF AccountsInv
<1> QED
  BY <1>1, AccountsHold, PTL

(* For any number of sessions: each has the role and the password of a     *)
(* user who is enabled, except one whose login was at work while accounts  *)
(* changed (update_user, delete_user, change_my_password, resolve_principal). *)
THEOREM SessionsAreTrue == AccountsSpec => []SessionsFollow
<1>1. AccountsInv => SessionsFollow
  BY DEF AccountsInv, Follows, SessionsFollow
<1> QED
  BY <1>1, AccountsHold, PTL

(* For any accounts, keys, sessions and requests: both.                    *)
THEOREM AccountsAreSound == AccountsSpec => []AccountsSound
<1>1. AdminRemains /\ SessionsFollow => AccountsSound
  BY DEF AccountsSound
<1> QED
  BY AnAdminRemains, SessionsAreTrue, <1>1, PTL

(* The variables of the accounts keep their types.                         *)
THEOREM AccountsTypes == AccountsSpec => []AccountsTypeOK
  BY AccountsTyped, AccountsHold, PTL

-----------------------------------------------------------------------------
(* The alerts.                                                             *)

(* What the loop has told by now, were no message lost.                    *)
HeardByNow ==
    CASE round.at = "raise" -> known \union (round.current \ round.todo)
      [] round.at = "clear" -> round.current \union round.todo
      [] OTHER -> known

(* What is left to tell is new, or over.                                   *)
TodoOK ==
    /\ round.at = "raise" => round.todo \subseteq round.current \ known
    /\ round.at = "clear" => round.todo \cap round.current = {}

HeardOK == \A a \in Alarms \ missed : a \in HeardByNow <=> heard[a] = "raised"

AlertsInv == AlertsTypeOK /\ TodoOK /\ HeardOK

-----------------------------------------------------------------------------
LEMMA ReportsAreAlarms ==
    ASSUME NEW o \in Outages
    PROVE  o \in Alarms /\ Hidden[o] \subseteq Alarms /\ Reports(o) \subseteq Alarms
<1> QED
  BY DEF Reports, Alarms

LEMMA AlertsStart == AlertsInit => AlertsInv
<1> QED
  BY AlertsAssumption DEF AlertsInit, AlertsInv, AlertsTypeOK, TodoOK, HeardOK, HeardByNow, Sleeping

LEMMA TroubleCounts ==
    ASSUME AlertsTypeOK, Trouble \/ UNCHANGED alertFaults
    PROVE  alertFaults' \in 0..MaxAlertFaults
<1> QED
  BY AlertsAssumption DEF AlertsTypeOK, Trouble

(* Asking the sources ends with what they report and is not known yet.     *)
LEMMA AsksKeeps ==
    ASSUME AlertsInv, NEW o \in Outages, Asks(o)
    PROVE  AlertsInv'
<1> DEFINE now == round.current \union Reports(o)
<1>1. /\ AlertsTypeOK /\ round.at = "ask"
      /\ \A a \in Alarms \ missed : a \in known <=> heard[a] = "raised"
  BY DEF AlertsInv, Asks, HeardOK, HeardByNow
<1>2. now \subseteq Alarms
  BY <1>1, ReportsAreAlarms DEF AlertsTypeOK
<1>3. UNCHANGED <<wrong, known, heard, missed, alertFaults>>
  BY DEF Asks
<1>4. CASE round' = [at |-> "raise", ask |-> {}, current |-> now, todo |-> now \ known]
  <2>1. AlertsTypeOK'
    BY <1>1, <1>2, <1>3, <1>4 DEF AlertsTypeOK
  <2>2. TodoOK'
    BY <1>3, <1>4 DEF TodoOK
  <2>3. HeardOK'
    BY <1>1, <1>3, <1>4 DEF HeardOK, HeardByNow
  <2> QED
    BY <2>1, <2>2, <2>3 DEF AlertsInv
<1>5. CASE round' = [round EXCEPT !.ask = @ \ {o}, !.current = now]
  <2>1. AlertsTypeOK' /\ round'.at = "ask"
    BY <1>1, <1>2, <1>3, <1>5 DEF AlertsTypeOK
  <2>2. TodoOK' /\ HeardOK'
    BY <1>1, <1>3, <2>1 DEF TodoOK, HeardOK, HeardByNow
  <2> QED
    BY <2>1, <2>2 DEF AlertsInv
<1> QED
  BY <1>4, <1>5 DEF Asks

(* A message that comes to the readers, or does not.                       *)
LEMMA TellsKeeps ==
    ASSUME AlertsInv, NEW a \in Alarms, Tells(a)
    PROVE  AlertsInv'
<1>1. /\ AlertsTypeOK /\ TodoOK /\ HeardOK /\ round.at \in {"raise", "clear"} /\ a \in round.todo
      /\ round' = [round EXCEPT !.todo = @ \ {a}] /\ UNCHANGED <<wrong, known>>
  BY DEF AlertsInv, Tells
<1>2. /\ round'.at = round.at /\ round'.current = round.current /\ round'.todo = round.todo \ {a}
  BY <1>1 DEF AlertsTypeOK
<1>3. TodoOK'
  BY <1>1, <1>2 DEF TodoOK
<1>4. \A b \in Alarms : b # a => (b \in HeardByNow' <=> b \in HeardByNow)
  BY <1>1, <1>2 DEF HeardByNow
<1>5. a \in HeardByNow' <=> round.at = "raise"
  BY <1>1, <1>2 DEF HeardByNow, TodoOK
<1>6. CASE /\ heard' = [heard EXCEPT ![a] = IF round.at = "raise" THEN "raised" ELSE "over"]
           /\ missed' = missed \ {a} /\ UNCHANGED alertFaults
  <2>1. AlertsTypeOK'
    BY <1>1, <1>6 DEF AlertsTypeOK
  <2>2. HeardOK'
    BY <1>1, <1>4, <1>5, <1>6 DEF HeardOK, AlertsTypeOK
  <2> QED
    BY <1>3, <2>1, <2>2 DEF AlertsInv
<1>7. CASE Trouble /\ missed' = missed \union {a} /\ UNCHANGED heard
  <2>1. AlertsTypeOK'
    BY <1>1, <1>7, TroubleCounts DEF AlertsTypeOK
  <2>2. HeardOK'
    BY <1>1, <1>4, <1>7 DEF HeardOK
  <2> QED
    BY <1>3, <2>1, <2>2 DEF AlertsInv
<1> QED
  BY <1>6, <1>7 DEF Tells, Notify

(* The loop turns from what is new to what is over, and remembers both.    *)
LEMMA TurnsKeep ==
    ASSUME AlertsInv, NowClears \/ RoundOver
    PROVE  AlertsInv'
<1>1. AlertsTypeOK /\ TodoOK /\ HeardOK /\ UNCHANGED <<wrong, heard, missed, alertFaults>>
  BY DEF AlertsInv, NowClears, RoundOver
<1>2. CASE NowClears
  <2>1. /\ round.at = "raise" /\ round.todo = {} /\ UNCHANGED known
        /\ round' = [round EXCEPT !.at = "clear", !.todo = known \ round.current]
    BY <1>2 DEF NowClears
  <2>2. AlertsTypeOK'
    BY <1>1, <2>1 DEF AlertsTypeOK
  <2>3. round'.at = "clear" /\ round'.current = round.current /\ round'.todo = known \ round.current
    BY <1>1, <2>1 DEF AlertsTypeOK
  <2>4. TodoOK'
    BY <2>3 DEF TodoOK
  <2>5. HeardOK'
    BY <1>1, <2>1, <2>3 DEF HeardOK, HeardByNow
  <2> QED
    BY <2>2, <2>4, <2>5 DEF AlertsInv
<1>3. CASE RoundOver
  <2>1. /\ round.at = "clear" /\ round.todo = {}
        /\ known' = round.current /\ round' = Sleeping
    BY <1>3 DEF RoundOver, Remember
  <2>2. AlertsTypeOK'
    BY <1>1, <2>1 DEF AlertsTypeOK, Sleeping
  <2>3. TodoOK' /\ HeardOK'
    BY <1>1, <2>1 DEF TodoOK, HeardOK, HeardByNow, Sleeping
  <2> QED
    BY <2>2, <2>3 DEF AlertsInv
<1> QED
  BY <1>2, <1>3

LEMMA AlertsStep == AlertsInv /\ [AlertsNext]_alertVars => AlertsInv'
<1> SUFFICES ASSUME AlertsInv, [AlertsNext]_alertVars PROVE AlertsInv'
  OBVIOUS
<1> USE DEF AlertsInv
<1>1. ASSUME NEW a \in Alarms, Happens(a)
      PROVE  AlertsInv'
  <2>1. wrong' \subseteq Alarms
    BY <1>1 DEF Happens, AlertsTypeOK
  <2> QED
    BY <1>1, <2>1 DEF Happens, AlertsTypeOK, TodoOK, HeardOK, HeardByNow
<1>2. CASE Wakes
  BY <1>2 DEF Wakes, Sleeping, AlertsTypeOK, TodoOK, HeardOK, HeardByNow
<1>3. CASE AskFails
  BY <1>3, TroubleCounts DEF AskFails, Sleeping, AlertsTypeOK, TodoOK, HeardOK, HeardByNow
<1>4. CASE LoopRestarts
  <2>1. HeardByNow' = {}
    BY <1>4 DEF LoopRestarts, HeardByNow, Sleeping
  <2>2. HeardOK'
    BY <1>4, <2>1 DEF LoopRestarts, HeardOK
  <2>3. TodoOK'
    BY <1>4 DEF LoopRestarts, TodoOK, Sleeping
  <2>4. AlertsTypeOK'
    BY <1>4, TroubleCounts DEF LoopRestarts, AlertsTypeOK, Sleeping
  <2> QED
    BY <2>2, <2>3, <2>4
<1>5. CASE UNCHANGED alertVars
  BY <1>5 DEF alertVars, AlertsTypeOK, TodoOK, HeardOK, HeardByNow
<1> QED
  BY <1>1, <1>2, <1>3, <1>4, <1>5, AsksKeeps, TellsKeeps, TurnsKeep DEF AlertsNext, RoundStep

LEMMA AlertsHold == AlertsSpec => []AlertsInv
<1> QED
  BY AlertsStart, AlertsStep, PTL DEF AlertsSpec

(* The variables of the loop keep their types.                             *)
THEOREM AlertsTypes == AlertsSpec => []AlertsTypeOK
<1>1. AlertsInv => AlertsTypeOK
  BY DEF AlertsInv
<1> QED
  BY <1>1, AlertsHold, PTL

(* Between two rounds the readers of the webhook have heard what the loop  *)
(* takes for true, of every alert whose last message reached them; the     *)
(* safety half of AlertsTold (_alert_loop, _notify).                       *)
THEOREM ReadersAreTold == AlertsSpec => []ReadersKnow
<1>1. AlertsInv => ReadersKnow
  BY DEF AlertsInv, HeardOK, HeardByNow, ReadersKnow
<1> QED
  BY <1>1, AlertsHold, PTL

-----------------------------------------------------------------------------
(* The backups.                                                            *)

Archives == [age : 0..MaxAge, whole : BOOLEAN]

(* The newest archive is as old as the last answer of its engine, and an   *)
(* answer within the retention left one.                                   *)
NewestOK ==
    \A e \in Saved :
        /\ \A a \in archives[e] : a.whole /\ since[e] <= a.age
        /\ archives[e] # {} => \E a \in archives[e] : a.age = since[e]
        /\ since[e] <= Keep => archives[e] # {}

BackupsInv == BackupsTypeOK /\ NewestOK /\ GateHolds

-----------------------------------------------------------------------------
LEMMA OlderAges ==
    ASSUME NEW n \in 0..MaxAge
    PROVE  /\ Older(n) \in 0..MaxAge /\ n <= Older(n)
           /\ \A m \in 0..MaxAge : n <= m => Older(n) <= Older(m)
<1> QED
  BY BackupsAssumption DEF Older

LEMMA BackupsStart == BackupsInit => BackupsInv
<1> SUFFICES ASSUME BackupsInit PROVE BackupsInv
  OBVIOUS
<1>1. NoNight \in [at : {"idle", "next", "stream", "packed", "broken"}, todo : SUBSET Saved, e : Saved]
  BY BackupsAssumption DEF NoNight
<1>2. BackupsTypeOK
  <2>1. /\ archives \in [Saved -> SUBSET [age : 0..MaxAge, whole : BOOLEAN]]
        /\ dumps \in [Dumps -> {"none", "torn", "whole"}]
        /\ dumping \in [Dumps -> {"none", "half", "whole"}]
        /\ restoring \in [Restores -> {"none", "torn", "whole"}]
    BY DEF BackupsInit
  <2>2. since \in [Saved -> 0..MaxAge] /\ tonight = NoNight
    BY BackupsAssumption DEF BackupsInit
  <2>3. partials \subseteq Saved /\ gate \in BOOLEAN /\ db \in {"whole", "half"} /\ excused \in BOOLEAN
    BY DEF BackupsInit
  <2> QED
    BY <1>1, <2>1, <2>2, <2>3 DEF BackupsTypeOK
<1>3. NewestOK
  BY BackupsAssumption DEF BackupsInit, NewestOK
<1>4. GateHolds
  BY DEF BackupsInit, GateHolds
<1> QED
  BY <1>2, <1>3, <1>4 DEF BackupsInv

(* A night makes every archive and every answer older, all of them alike.  *)
LEMMA NightKeeps ==
    ASSUME BackupsInv, NEW todo \in SUBSET Saved, Night(todo)
    PROVE  BackupsInv'
<1>1. /\ archives \in [Saved -> SUBSET Archives]
      /\ since \in [Saved -> 0..MaxAge] /\ NewestOK /\ BackupsTypeOK
  BY DEF BackupsInv, BackupsTypeOK, Archives
<1>2. /\ tonight' = [NoNight EXCEPT !.at = "next", !.todo = todo]
      /\ archives' = [e \in Saved |-> {[a EXCEPT !.age = Older(@)] : a \in archives[e]}]
      /\ since' = [e \in Saved |-> Older(since[e])]
      /\ UNCHANGED <<partials, dumps, dumping, gate, restoring, db, excused>>
  BY DEF Night, dumpVars
<1>3. ASSUME NEW e \in Saved
      PROVE  /\ archives'[e] \subseteq Archives /\ since'[e] \in 0..MaxAge
             /\ \A a \in archives'[e] : a.whole /\ since'[e] <= a.age
             /\ archives'[e] # {} => \E a \in archives'[e] : a.age = since'[e]
             /\ since'[e] <= Keep => archives'[e] # {}
  <2>1. since'[e] = Older(since[e]) /\ since[e] \in 0..MaxAge
    BY <1>1, <1>2
  <2>2. archives'[e] = {[a EXCEPT !.age = Older(@)] : a \in archives[e]}
    BY <1>2
  <2>3. ASSUME NEW a \in archives[e]
        PROVE  /\ [a EXCEPT !.age = Older(@)] \in Archives
               /\ [a EXCEPT !.age = Older(@)].age = Older(a.age)
               /\ [a EXCEPT !.age = Older(@)].whole
               /\ Older(since[e]) <= Older(a.age)
    <3>1. a \in Archives /\ a.age \in 0..MaxAge /\ a.whole /\ since[e] <= a.age
      BY <1>1 DEF NewestOK, Archives
    <3>2. Older(a.age) \in 0..MaxAge /\ Older(since[e]) <= Older(a.age)
      BY <2>1, <3>1, OlderAges
    <3> QED
      BY <3>1, <3>2 DEF Archives
  <2>4. archives'[e] # {} => \E a \in archives'[e] : a.age = since'[e]
    <3>1. SUFFICES ASSUME archives'[e] # {}
                   PROVE  \E a \in archives'[e] : a.age = since'[e]
      OBVIOUS
    <3>2. PICK a \in archives[e] : a.age = since[e]
      BY <1>1, <2>2, <3>1 DEF NewestOK
    <3>3. [a EXCEPT !.age = Older(@)].age = Older(since[e])
      BY <2>3, <3>2
    <3>4. [a EXCEPT !.age = Older(@)] \in archives'[e]
      BY <2>2
    <3> QED
      BY <2>1, <3>3, <3>4
  <2>5. since'[e] <= Keep => archives'[e] # {}
    <3>1. SUFFICES ASSUME since'[e] <= Keep
                   PROVE  archives'[e] # {}
      OBVIOUS
    <3>2. since[e] <= Keep
      BY <2>1, <3>1, OlderAges, BackupsAssumption
    <3>3. PICK a \in archives[e] : TRUE
      BY <1>1, <3>2 DEF NewestOK
    <3> QED
      BY <2>2, <3>3
  <2>6. since'[e] \in 0..MaxAge
    BY <2>1, OlderAges
  <2>7. \A a \in archives'[e] : a \in Archives /\ a.whole /\ since'[e] <= a.age
    BY <2>1, <2>2, <2>3
  <2> QED
    BY <2>4, <2>5, <2>6, <2>7
<1>4. NewestOK'
  BY <1>3 DEF NewestOK
<1>5. tonight' \in [at : {"idle", "next", "stream", "packed", "broken"}, todo : SUBSET Saved, e : Saved]
  BY <1>2, BackupsAssumption DEF NoNight
<1>6. BackupsTypeOK'
  BY <1>1, <1>2, <1>3, <1>5 DEF BackupsTypeOK, Archives
<1>7. GateHolds'
  BY <1>2 DEF BackupsInv, GateHolds, Admits
<1> QED
  BY <1>4, <1>6, <1>7 DEF BackupsInv

(* The other steps of the nightly run.                                     *)
LEMMA DumpKeeps ==
    ASSUME BackupsInv,
           (\E e \in Saved : DumpBegin(e)) \/ StreamEnd \/ DumpEnd \/ Prune \/ NightGoes
    PROVE  BackupsInv'
<1>1. /\ archives \in [Saved -> SUBSET Archives]
      /\ since \in [Saved -> 0..MaxAge] /\ NewestOK /\ BackupsTypeOK
  BY DEF BackupsInv, BackupsTypeOK, Archives
<1>2. UNCHANGED <<dumps, dumping, gate, restoring, db, excused>>
  BY DEF DumpBegin, StreamEnd, DumpEnd, Prune, NightGoes, dumpVars
<1>3. GateHolds'
  BY <1>2 DEF BackupsInv, GateHolds, Admits
<1>4. NoNight \in [at : {"idle", "next", "stream", "packed", "broken"}, todo : SUBSET Saved, e : Saved]
  BY BackupsAssumption DEF NoNight
<1>5. CASE (\E e \in Saved : DumpBegin(e)) \/ StreamEnd \/ NightGoes
  <2>1. UNCHANGED <<archives, since>>
    BY <1>5 DEF DumpBegin, StreamEnd, NightGoes
  <2>2. NewestOK'
    BY <1>1, <2>1 DEF NewestOK
  <2>3. BackupsTypeOK'
    BY <1>1, <1>2, <1>4, <1>5, <2>1 DEF BackupsTypeOK, DumpBegin, StreamEnd, NightGoes
  <2> QED
    BY <1>3, <2>2, <2>3 DEF BackupsInv
<1>6. CASE DumpEnd
  <2>1. /\ tonight' = [tonight EXCEPT !.at = "next"] /\ partials' = partials \ {tonight.e}
        /\ tonight.e \in Saved
    BY <1>1, <1>6 DEF DumpEnd, BackupsTypeOK
  <2>2. CASE UNCHANGED <<archives, since>>
    <3>1. NewestOK'
      BY <1>1, <2>2 DEF NewestOK
    <3>2. BackupsTypeOK'
      BY <1>1, <1>2, <2>1, <2>2 DEF BackupsTypeOK
    <3> QED
      BY <1>3, <3>1, <3>2 DEF BackupsInv
  <2>3. CASE /\ archives' = [archives EXCEPT ![tonight.e] = @ \union {[age |-> 0, whole |-> TRUE]}]
             /\ since' = [since EXCEPT ![tonight.e] = 0]
    <3>1. [age |-> 0, whole |-> TRUE] \in Archives
      BY BackupsAssumption DEF Archives
    <3>2. /\ archives'[tonight.e] = archives[tonight.e] \union {[age |-> 0, whole |-> TRUE]}
          /\ since'[tonight.e] = 0
          /\ \A e \in Saved \ {tonight.e} : archives'[e] = archives[e] /\ since'[e] = since[e]
      BY <1>1, <2>1, <2>3
    <3>3. archives' \in [Saved -> SUBSET Archives]
      BY <1>1, <2>1, <2>3, <3>1
    <3>4. since' \in [Saved -> 0..MaxAge]
      <4>1. 0 \in 0..MaxAge
        BY BackupsAssumption
      <4> QED
        BY <1>1, <2>3, <4>1
    <3>5. BackupsTypeOK'
      BY <1>1, <1>2, <2>1, <3>3, <3>4 DEF BackupsTypeOK, Archives
    <3>6. NewestOK'
      <4>1. ASSUME NEW e \in Saved
            PROVE  /\ \A a \in archives'[e] : a.whole /\ since'[e] <= a.age
                   /\ archives'[e] # {} => \E a \in archives'[e] : a.age = since'[e]
                   /\ since'[e] <= Keep => archives'[e] # {}
        <5>1. CASE e = tonight.e
          <6>1. \A a \in archives[e] : a.whole /\ a.age \in 0..MaxAge
            BY <1>1 DEF NewestOK, Archives
          <6>2. archives'[e] = archives[e] \union {[age |-> 0, whole |-> TRUE]} /\ since'[e] = 0
            BY <3>2, <5>1
          <6>3. \A a \in archives'[e] : a.whole /\ 0 <= a.age
            <7>1. \A a \in archives[e] : a.whole /\ 0 <= a.age
              BY <6>1
            <7> QED
              BY <6>2, <7>1
          <6>4. [age |-> 0, whole |-> TRUE] \in archives'[e]
            BY <6>2
          <6> QED
            BY <6>2, <6>3, <6>4
        <5>2. CASE e # tonight.e
          BY <1>1, <3>2, <5>2 DEF NewestOK
        <5> QED
          BY <5>1, <5>2
      <4> QED
        BY <4>1 DEF NewestOK
    <3> QED
      BY <1>3, <3>5, <3>6 DEF BackupsInv
  <2> QED
    BY <1>6, <2>2, <2>3 DEF DumpEnd
<1>7. CASE Prune
  <2>1. /\ archives' = [e \in Saved |-> {a \in archives[e] : a.age <= Keep}]
        /\ tonight' = NoNight /\ UNCHANGED <<partials, since>>
    BY <1>7 DEF Prune
  <2>2. BackupsTypeOK'
    BY <1>1, <1>2, <1>4, <2>1 DEF BackupsTypeOK, Archives
  <2>3. NewestOK'
    <3>1. ASSUME NEW e \in Saved
          PROVE  /\ \A a \in archives'[e] : a.whole /\ since'[e] <= a.age
                 /\ archives'[e] # {} => \E a \in archives'[e] : a.age = since'[e]
                 /\ since'[e] <= Keep => archives'[e] # {}
      <4>1. /\ \A a \in archives[e] : a.age \in 0..MaxAge /\ since[e] <= a.age /\ a.whole
            /\ since[e] \in 0..MaxAge
        BY <1>1 DEF NewestOK, Archives
      <4>2. archives'[e] = {a \in archives[e] : a.age <= Keep} /\ since'[e] = since[e]
        BY <2>1
      <4>3. archives'[e] # {} => since[e] <= Keep
        BY <4>1, <4>2, BackupsAssumption
      <4>4. since[e] <= Keep => \E a \in archives'[e] : a.age = since[e]
        BY <1>1, <4>2 DEF NewestOK
      <4> QED
        BY <4>1, <4>2, <4>3, <4>4
    <3> QED
      BY <3>1 DEF NewestOK
  <2> QED
    BY <1>3, <2>2, <2>3 DEF BackupsInv
<1> QED
  BY <1>5, <1>6, <1>7

(* Dumps and restores leave the archives alone, and every way a restore    *)
(* begins, ends or is interrupted accounts for the gate.                   *)
LEMMA DatabaseKeeps ==
    ASSUME BackupsInv, DatabaseNext
    PROVE  BackupsInv'
<1>1. BackupsTypeOK /\ NewestOK /\ GateHolds
  BY DEF BackupsInv
<1>2. UNCHANGED nightVars
  BY DEF DatabaseNext, DumpDatabase, DumpOver, DeleteDump, RestoreBegin, RestoreEnd, GateExpires,
         ApiGoes
<1>3. NewestOK'
  BY <1>1, <1>2 DEF NewestOK, nightVars
<1>4. BackupsTypeOK' /\ GateHolds'
  <2> USE <1>1, <1>2 DEF BackupsTypeOK, GateHolds, Admits, nightVars
  <2>1. ASSUME NEW d \in Dumps, DumpDatabase(d)
        PROVE  BackupsTypeOK' /\ GateHolds'
    BY <2>1 DEF DumpDatabase
  <2>2. ASSUME NEW d \in Dumps, DumpOver(d)
        PROVE  BackupsTypeOK' /\ GateHolds'
    BY <2>2 DEF DumpOver
  <2>3. ASSUME NEW d \in Dumps, DeleteDump(d)
        PROVE  BackupsTypeOK' /\ GateHolds'
    BY <2>3 DEF DeleteDump
  <2>4. ASSUME NEW r \in Restores, NEW d \in Dumps, RestoreBegin(r, d)
        PROVE  BackupsTypeOK' /\ GateHolds'
    BY <2>4 DEF RestoreBegin
  <2>5. ASSUME NEW r \in Restores, RestoreEnd(r)
        PROVE  BackupsTypeOK' /\ GateHolds'
    BY <2>5 DEF RestoreEnd
  <2>6. CASE GateExpires
    BY <2>6 DEF GateExpires
  <2>7. CASE ApiGoes
    BY <2>7 DEF ApiGoes
  <2> QED
    BY <2>1, <2>2, <2>3, <2>4, <2>5, <2>6, <2>7 DEF DatabaseNext
<1> QED
  BY <1>3, <1>4 DEF BackupsInv

LEMMA BackupsStep == BackupsInv /\ [BackupsNext]_backupVars => BackupsInv'
<1> SUFFICES ASSUME BackupsInv, [BackupsNext]_backupVars PROVE BackupsInv'
  OBVIOUS
<1>1. CASE NightNext
  BY <1>1, NightKeeps, DumpKeeps DEF NightNext
<1>2. CASE DatabaseNext
  BY <1>2, DatabaseKeeps
<1>3. CASE UNCHANGED backupVars
  BY <1>3 DEF backupVars, BackupsInv, BackupsTypeOK, NewestOK, GateHolds, Admits
<1> QED
  BY <1>1, <1>2, <1>3 DEF BackupsNext

LEMMA BackupsHold == BackupsSpec => []BackupsInv
<1> QED
  BY BackupsStart, BackupsStep, PTL DEF BackupsSpec

(* The variables of the backups keep their types.                          *)
THEOREM BackupsTypes == BackupsSpec => []BackupsTypeOK
<1>1. BackupsInv => BackupsTypeOK
  BY DEF BackupsInv
<1> QED
  BY <1>1, BackupsHold, PTL

(* What the invariant says of the archives that are listed.                *)
LEMMA BackupsSay == BackupsInv => BackupsSound
<1> SUFFICES ASSUME BackupsInv PROVE BackupsSound
  OBVIOUS
<1>1. ASSUME NEW e \in Saved, archives[e] # {}
      PROVE  Newest(e) = since[e]
  <2> DEFINE Olds == {a.age : a \in archives[e]}
  <2>1. /\ since[e] \in Olds /\ \A n \in Olds : since[e] <= n
        /\ Olds \subseteq Nat /\ since[e] \in Nat
    BY <1>1 DEF BackupsInv, NewestOK, BackupsTypeOK
  <2>2. \A a \in archives[e] : since[e] <= a.age
    BY <2>1
  <2>3. Newest(e) \in Olds /\ \A a \in archives[e] : Newest(e) <= a.age
    BY <2>1, <2>2 DEF Newest
  <2>4. Newest(e) <= since[e] /\ since[e] <= Newest(e)
    BY <2>1, <2>3
  <2> QED
    BY <2>1, <2>3, <2>4
<1>2. ArchivesServe
  BY <1>1 DEF BackupsInv, NewestOK, ArchivesServe
<1> QED
  BY <1>2 DEF BackupsInv, BackupsSound

(* For any number of engines, nights, dumps and restores: what is listed   *)
(* can be restored and is as old as it says, and clients stay out of a     *)
(* restore that is alone (dump_engine, prune, restore_backup).             *)
THEOREM BackupsAreSound == BackupsSpec => []BackupsSound
  BY BackupsSay, BackupsHold, PTL

-----------------------------------------------------------------------------
(* Live updates (module Hub).                                              *)

Clients == [st : {"new", "open", "gone"}, subs : SUBSET Channels,
            pend : [Channels -> Values], out : [Channels -> Values],
            wake : BOOLEAN, ask : Channels \union {"no"}, snap : Values, closed : BOOLEAN]
Messages == [sub : BOOLEAN, ch : Channels]

(* EndOnItsWay is not inductive.  Nothing else is published of a pushed    *)
(* channel, of which there is no first snapshot either, and the browser's  *)
(* own connection is not closed.                                           *)
OnlyPushed ==
    /\ \A p \in Publishers, c \in Channels : pub[p][c] # None => c \in Polled
    /\ \A i \in Conns : conn[i].ask \notin Polled => conn[i].snap = None

PageOK ==
    /\ IsFiniteSet(tab.want) /\ last \subseteq tab.want
    /\ \A c \in last : world[c] = MaxWorld
    /\ tab.at # 0 => ~conn[tab.at].closed /\ conn[tab.at].st # "gone"
    /\ last # {} => tab.at # 0 /\ conn[tab.at].st = "open"
    /\ \A i \in Conns : conn[i].st = "new" => conn[i] = NewConn

HubInv == HubTypeOK /\ OnlyPushed /\ PageOK /\ EndOnItsWay

-----------------------------------------------------------------------------
(* The types, in the form the proofs use.                                  *)
LEMMA HubFacts ==
    ASSUME HubInv
    PROVE  /\ HubTypeOK /\ OnlyPushed /\ PageOK /\ EndOnItsWay
           /\ conn \in [Conns -> Clients] /\ inbox \in [Conns -> Seq(Messages)]
           /\ tab \in [at : Conns \union {0}, want : SUBSET Channels, shown : [Channels -> Values],
                       refused : BOOLEAN]
           /\ world \in [Channels -> 0..MaxWorld] /\ pub \in [Publishers -> [Channels -> Values]]
           /\ last \in SUBSET Pushed /\ toggles \in 0..MaxToggles
           /\ None \in Values /\ MaxWorld \in Values /\ MaxWorld # None /\ MaxWorld \in Nat
           /\ 0..MaxWorld \subseteq Values /\ \A v \in 0..MaxWorld : v # None
           /\ 0 \notin Conns /\ "no" \notin Channels /\ Polled \cap Pushed = {}
           /\ Pushed \subseteq Channels /\ Polled \subseteq Channels
<1>1. HubTypeOK /\ OnlyPushed /\ PageOK /\ EndOnItsWay
  BY DEF HubInv
<1>2. /\ None \in Values /\ MaxWorld \in Values /\ MaxWorld # None /\ MaxWorld \in Nat
      /\ 0..MaxWorld \subseteq Values /\ \A v \in 0..MaxWorld : v # None
  BY HubAssumption DEF Values, None
<1>3. /\ 0 \notin Conns /\ "no" \notin Channels /\ Polled \cap Pushed = {}
      /\ Pushed \subseteq Channels /\ Polled \subseteq Channels
  BY HubAssumption DEF Channels
<1> QED
  BY <1>1, <1>2, <1>3 DEF HubTypeOK, Clients, Messages

LEMMA FreshClients ==
    /\ Empty \in [Channels -> Values] /\ \A c \in Channels : Empty[c] = None
    /\ NewConn \in Clients /\ [NewConn EXCEPT !.st = "gone", !.closed = TRUE] \in Clients
    /\ [NewConn EXCEPT !.st = "gone", !.closed = TRUE].st = "gone"
    /\ [NewConn EXCEPT !.st = "gone", !.closed = TRUE].ask = "no"
    /\ [NewConn EXCEPT !.st = "gone", !.closed = TRUE].snap = None
    /\ NewConn.st = "new" /\ NewConn.subs = {} /\ NewConn.ask = "no" /\ NewConn.snap = None
    /\ ~NewConn.closed
<1>1. None \in Values
  BY HubAssumption DEF Values, None
<1>2. Empty \in [Channels -> Values] /\ \A c \in Channels : Empty[c] = None
  BY <1>1 DEF Empty
<1>3. NewConn \in Clients
  BY <1>1, <1>2 DEF NewConn, Clients
<1>4. /\ NewConn.st = "new" /\ NewConn.subs = {} /\ NewConn.ask = "no" /\ NewConn.snap = None
      /\ ~NewConn.closed
  BY DEF NewConn
<1> QED
  BY <1>2, <1>3, <1>4 DEF Clients

LEMMA HubStarts == HubInit => HubInv
<1> SUFFICES ASSUME HubInit PROVE HubInv
  OBVIOUS
<1>1. Empty \in [Channels -> Values] /\ NewConn \in Clients /\ NewConn.snap = None
  BY FreshClients
<1>2. HubTypeOK
  BY <1>1, HubAssumption DEF HubInit, HubTypeOK, Clients, Values
<1>3. OnlyPushed
  BY <1>1, FreshClients DEF HubInit, OnlyPushed
<1>4. PageOK /\ EndOnItsWay
  BY <1>1, FreshClients, FS_EmptySet DEF HubInit, PageOK, EndOnItsWay
<1> QED
  BY <1>2, <1>3, <1>4 DEF HubInv

(* offer puts one message in place of another.                             *)
LEMMA OfferPuts ==
    ASSUME NEW k \in Clients, NEW c \in Channels, NEW v \in Values
    PROVE  /\ Offered(k, c, v) \in Clients
           /\ Offered(k, c, v).st = k.st /\ Offered(k, c, v).closed = k.closed
           /\ Offered(k, c, v).ask = k.ask /\ Offered(k, c, v).snap = k.snap
           /\ Offered(k, c, v).out = k.out /\ Offered(k, c, v).subs = k.subs
           /\ k.wake => Offered(k, c, v).wake
           /\ \A d \in Channels : d # c => Offered(k, c, v).pend[d] = k.pend[d]
           /\ ~k.closed => Offered(k, c, v).pend[c] = v /\ Offered(k, c, v).wake
<1>1. CASE k.closed
  BY <1>1 DEF Offered
<1>2. CASE ~k.closed
  <2> DEFINE pend == [k.pend EXCEPT ![c] = v]
  <2>1. k.pend \in [Channels -> Values]
    BY DEF Clients
  <2>2. /\ pend \in [Channels -> Values] /\ pend[c] = v
        /\ \A d \in Channels : d # c => pend[d] = k.pend[d]
    BY <2>1
  <2>3. Offered(k, c, v) = [k EXCEPT !.pend = pend, !.wake = TRUE]
    BY <1>2 DEF Offered
  <2> HIDE DEF pend
  <2> QED
    BY <1>2, <2>2, <2>3 DEF Clients
<1> QED
  BY <1>1, <1>2

(* One connection goes on: what its client is then decides what holds.     *)
LEMMA ConnGoesOn ==
    ASSUME HubInv, NEW i \in Conns, NEW k \in Clients, conn' = [conn EXCEPT ![i] = k],
           UNCHANGED <<world, pub, last, toggles>>, tab'.at = tab.at, tab'.want = tab.want,
           tab' \in [at : Conns \union {0}, want : SUBSET Channels, shown : [Channels -> Values],
                     refused : BOOLEAN],
           inbox' \in [Conns -> Seq(Messages)],
           k.st # "new", k.ask \notin Polled => k.snap = None,
           i = tab.at => /\ k.st = "open" /\ ~k.closed
                         /\ \A c \in last : \/ k.pend[c] = MaxWorld /\ k.wake
                                            \/ k.pend[c] = None /\ k.out[c] = MaxWorld
                                            \/ /\ k.pend[c] = None /\ k.out[c] = None
                                               /\ tab'.shown[c] = MaxWorld,
           i # tab.at => tab'.shown = tab.shown
    PROVE  HubInv'
<1>1. /\ HubTypeOK /\ OnlyPushed /\ PageOK /\ EndOnItsWay /\ conn \in [Conns -> Clients]
      /\ world \in [Channels -> 0..MaxWorld] /\ pub \in [Publishers -> [Channels -> Values]]
      /\ last \in SUBSET Pushed /\ toggles \in 0..MaxToggles
      /\ 0 \notin Conns /\ tab.at \in Conns \union {0}
  BY HubFacts
<1>2. conn' \in [Conns -> Clients] /\ conn'[i] = k /\ \A j \in Conns : j # i => conn'[j] = conn[j]
  BY <1>1
<1>3. HubTypeOK'
  BY <1>1, <1>2 DEF HubTypeOK, Clients, Messages
<1>4. OnlyPushed'
  BY <1>1, <1>2 DEF OnlyPushed
<1>5. PageOK'
  BY <1>1, <1>2 DEF PageOK
<1>6. EndOnItsWay'
  <2> SUFFICES ASSUME NEW c \in last
               PROVE  \/ conn'[tab.at].pend[c] = MaxWorld /\ conn'[tab.at].wake
                      \/ conn'[tab.at].pend[c] = None /\ conn'[tab.at].out[c] = MaxWorld
                      \/ /\ conn'[tab.at].pend[c] = None /\ conn'[tab.at].out[c] = None
                         /\ tab'.shown[c] = MaxWorld
    BY DEF EndOnItsWay
  <2>1. tab.at \in Conns
    BY <1>1 DEF PageOK
  <2>2. CASE i = tab.at
    BY <1>2, <2>2
  <2>3. CASE i # tab.at
    BY <1>1, <1>2, <2>1, <2>3 DEF EndOnItsWay
  <2> QED
    BY <2>2, <2>3
<1> QED
  BY <1>3, <1>4, <1>5, <1>6 DEF HubInv

LEMMA WriterKeeps ==
    ASSUME HubInv, NEW i \in Conns,
           WriterSwap(i) \/ (\E c \in Channels : WriterSend(i, c)) \/ WriterFails(i)
    PROVE  HubInv'
<1>1. /\ OnlyPushed /\ PageOK /\ EndOnItsWay /\ conn[i] \in Clients /\ conn \in [Conns -> Clients]
      /\ inbox' \in [Conns -> Seq(Messages)] /\ MaxWorld # None /\ last \subseteq Channels
      /\ last \subseteq tab.want /\ Empty \in [Channels -> Values] /\ \A c \in Channels : Empty[c] = None
      /\ tab \in [at : Conns \union {0}, want : SUBSET Channels, shown : [Channels -> Values],
                  refused : BOOLEAN]
  BY HubFacts, FreshClients DEF WriterSwap, WriterSend, WriterFails, PageOK
<1>2. conn[i].ask \notin Polled => conn[i].snap = None
  BY <1>1 DEF OnlyPushed
<1>3. CASE WriterSwap(i)
  <2> DEFINE k == [conn[i] EXCEPT !.wake = FALSE, !.out = conn[i].pend, !.pend = Empty]
  <2>1. conn' = [conn EXCEPT ![i] = k] /\ UNCHANGED <<world, tab, pub, last, toggles>>
    BY <1>1, <1>3 DEF WriterSwap
  <2>2. /\ k \in Clients /\ k.st = conn[i].st /\ k.ask = conn[i].ask /\ k.snap = conn[i].snap
        /\ k.closed = conn[i].closed /\ k.pend = Empty /\ k.out = conn[i].pend
    BY <1>1 DEF Clients
  <2> HIDE DEF k
  <2>3. conn[i].st = "open" /\ ~conn[i].closed /\ conn[i].out = Empty
    BY <1>3 DEF WriterSwap
  <2>4. ASSUME i = tab.at, NEW c \in last
        PROVE  \/ k.pend[c] = None /\ k.out[c] = MaxWorld
               \/ k.pend[c] = None /\ k.out[c] = None /\ tab'.shown[c] = MaxWorld
    BY <1>1, <2>1, <2>2, <2>3, <2>4 DEF EndOnItsWay
  <2> QED
    BY <1>1, <1>2, <2>1, <2>2, <2>3, <2>4, ConnGoesOn
<1>4. ASSUME NEW c \in Channels, WriterSend(i, c)
      PROVE  HubInv'
  <2> DEFINE out == [conn[i].out EXCEPT ![c] = None]
             k == [conn[i] EXCEPT !.out = out]
             said == IF c \in tab.want THEN conn[i].out[c] ELSE tab.shown[c]
             shown == [tab.shown EXCEPT ![c] = said]
  <2>1. /\ conn' = [conn EXCEPT ![i] = k] /\ UNCHANGED <<world, pub, last, toggles>>
        /\ tab' = [tab EXCEPT !.shown = shown]
    BY <1>4 DEF WriterSend
  <2>2. conn[i].out \in [Channels -> Values] /\ None \in Values /\ tab.shown \in [Channels -> Values]
    BY <1>1, HubFacts DEF Clients
  <2>3. /\ out \in [Channels -> Values] /\ out[c] = None
        /\ \A d \in Channels : d # c => out[d] = conn[i].out[d]
    BY <2>2
  <2>4. said \in Values
    BY <2>2
  <2>5. /\ shown \in [Channels -> Values] /\ shown[c] = said
        /\ \A d \in Channels : d # c => shown[d] = tab.shown[d]
    <3> HIDE DEF said
    <3> QED
      BY <2>2, <2>4
  <2>6. c \in tab.want => said = conn[i].out[c]
    OBVIOUS
  <2> HIDE DEF out, shown, said
  <2>7. /\ k \in Clients /\ k.st = conn[i].st /\ k.ask = conn[i].ask /\ k.snap = conn[i].snap
        /\ k.closed = conn[i].closed /\ k.pend = conn[i].pend /\ k.out = out /\ k.wake = conn[i].wake
    BY <1>1, <2>3 DEF Clients
  <2>8. /\ tab' \in [at : Conns \union {0}, want : SUBSET Channels, shown : [Channels -> Values],
                     refused : BOOLEAN]
        /\ tab'.at = tab.at /\ tab'.want = tab.want /\ tab'.shown = shown
    BY <1>1, <2>1, <2>5
  <2> HIDE DEF k
  <2>9. conn[i].st = "open" /\ conn[i].out[c] # None /\ tab.at = i /\ ~conn[i].closed
    BY <1>1, <1>4, HubFacts DEF WriterSend, PageOK
  <2>10. ASSUME NEW d \in last
         PROVE  \/ k.pend[d] = MaxWorld /\ k.wake
                \/ k.pend[d] = None /\ k.out[d] = MaxWorld
                \/ k.pend[d] = None /\ k.out[d] = None /\ tab'.shown[d] = MaxWorld
    <3>1. \/ conn[i].pend[d] = MaxWorld /\ conn[i].wake
          \/ conn[i].pend[d] = None /\ conn[i].out[d] = MaxWorld
          \/ conn[i].pend[d] = None /\ conn[i].out[d] = None /\ tab.shown[d] = MaxWorld
      BY <1>1, <2>9 DEF EndOnItsWay
    <3>2. CASE d = c
      BY <1>1, <2>3, <2>5, <2>6, <2>7, <2>8, <2>9, <3>1, <3>2
    <3>3. CASE d # c
      BY <1>1, <2>3, <2>5, <2>7, <2>8, <3>1, <3>3
    <3> QED
      BY <3>2, <3>3
  <2>11. /\ k.st # "new" /\ (k.ask \notin Polled => k.snap = None) /\ k.st = "open" /\ ~k.closed
         /\ (i # tab.at => tab'.shown = tab.shown)
    BY <1>2, <2>7, <2>9
  <2> QED
    BY <1>1, <2>1, <2>7, <2>8, <2>10, <2>11, ConnGoesOn
<1>5. CASE WriterFails(i)
  <2> DEFINE k == [conn[i] EXCEPT !.out = Empty, !.closed = TRUE]
  <2>1. /\ conn' = [conn EXCEPT ![i] = k] /\ UNCHANGED <<world, tab, pub, last, toggles>>
        /\ tab.at # i /\ conn[i].st = "open"
    BY <1>5 DEF WriterFails
  <2>2. k \in Clients /\ k.st = conn[i].st /\ k.ask = conn[i].ask /\ k.snap = conn[i].snap
    BY <1>1 DEF Clients
  <2> HIDE DEF k
  <2> QED
    BY <1>1, <1>2, <2>1, <2>2, ConnGoesOn
<1> QED
  BY <1>3, <1>4, <1>5

(* A client that has the same messages of the pushed channels.             *)
LEMMA ConnSame ==
    ASSUME HubInv, NEW i \in Conns, NEW k \in Clients, conn' = [conn EXCEPT ![i] = k],
           UNCHANGED <<world, tab, pub, last, toggles>>, inbox' \in [Conns -> Seq(Messages)],
           conn[i].st = "open", k.st = "open", k.closed = conn[i].closed,
           k.ask \notin Polled => k.snap = None, conn[i].wake => k.wake,
           \A c \in last : k.pend[c] = conn[i].pend[c] /\ k.out[c] = conn[i].out[c]
    PROVE  HubInv'
<1>1. /\ PageOK /\ EndOnItsWay /\ i # 0
      /\ tab \in [at : Conns \union {0}, want : SUBSET Channels, shown : [Channels -> Values],
                  refused : BOOLEAN]
  BY HubFacts
<1>2. i = tab.at => /\ k.st = "open" /\ ~k.closed
                    /\ \A c \in last : \/ k.pend[c] = MaxWorld /\ k.wake
                                       \/ k.pend[c] = None /\ k.out[c] = MaxWorld
                                       \/ /\ k.pend[c] = None /\ k.out[c] = None
                                          /\ tab'.shown[c] = MaxWorld
  <2>1. i = tab.at => ~k.closed
    BY <1>1 DEF PageOK
  <2>2. ASSUME i = tab.at, NEW c \in last
        PROVE  \/ k.pend[c] = MaxWorld /\ k.wake
               \/ k.pend[c] = None /\ k.out[c] = MaxWorld
               \/ k.pend[c] = None /\ k.out[c] = None /\ tab'.shown[c] = MaxWorld
    BY <1>1, <2>2 DEF EndOnItsWay
  <2> QED
    BY <2>1, <2>2
<1> QED
  BY <1>1, <1>2, ConnGoesOn

LEMMA SocketSnapshotKeeps ==
    ASSUME HubInv, NEW i \in Conns, SnapshotCollect(i) \/ SnapshotSend(i)
    PROVE  HubInv'
<1>1. /\ OnlyPushed /\ conn[i] \in Clients /\ inbox' \in [Conns -> Seq(Messages)]
      /\ last \subseteq Channels /\ \A c \in last : c \notin Polled
      /\ conn[i].ask \in Channels \union {"no"} /\ "no" \notin Channels /\ None \in Values
      /\ conn[i].st = "open" /\ UNCHANGED <<world, tab, pub, last, toggles>>
  BY HubFacts DEF SnapshotCollect, SnapshotSend, Clients
<1>2. conn[i].ask \notin Polled => conn[i].snap = None
  BY <1>1 DEF OnlyPushed
<1>3. CASE SnapshotCollect(i)
  <2> DEFINE v == world[conn[i].ask]
             k == [conn[i] EXCEPT !.snap = v]
  <2>1. conn[i].ask \in Polled /\ v \in Values /\ conn' = [conn EXCEPT ![i] = k]
    BY <1>3, HubFacts DEF SnapshotCollect
  <2> HIDE DEF v
  <2>2. /\ k \in Clients /\ k.st = conn[i].st /\ k.ask = conn[i].ask
        /\ k.closed = conn[i].closed /\ k.pend = conn[i].pend /\ k.out = conn[i].out
        /\ k.wake = conn[i].wake
    BY <1>1, <2>1 DEF Clients
  <2> HIDE DEF k
  <2> QED
    BY <1>1, <2>1, <2>2, ConnSame
<1>4. CASE SnapshotSend(i)
  <2> DEFINE k == [conn[i] EXCEPT !.ask = "no", !.snap = None]
  <2>1. /\ k \in Clients /\ k.st = conn[i].st /\ k.ask = "no" /\ k.snap = None
        /\ k.closed = conn[i].closed /\ k.pend = conn[i].pend /\ k.out = conn[i].out
        /\ k.wake = conn[i].wake
    BY <1>1 DEF Clients
  <2>2. conn' = [conn EXCEPT ![i] = IF conn[i].snap = None THEN k
                                    ELSE Offered(k, conn[i].ask, conn[i].snap)]
    BY <1>4 DEF SnapshotSend
  <2> HIDE DEF k
  <2>3. CASE conn[i].snap = None
    BY <1>1, <2>1, <2>2, <2>3, ConnSame
  <2>4. CASE conn[i].snap # None
    <3> DEFINE o == Offered(k, conn[i].ask, conn[i].snap)
    <3>1. conn[i].ask \in Polled /\ conn[i].snap \in Values /\ conn[i].ask \in Channels
      BY <1>1, <1>2, <2>4 DEF Clients, Channels
    <3>2. /\ o \in Clients /\ o.st = k.st /\ o.closed = k.closed /\ o.ask = k.ask /\ o.snap = k.snap
          /\ o.out = k.out /\ (k.wake => o.wake)
          /\ \A d \in Channels : d # conn[i].ask => o.pend[d] = k.pend[d]
      BY <2>1, <3>1, OfferPuts
    <3>3. conn' = [conn EXCEPT ![i] = o]
      BY <2>2, <2>4
    <3> HIDE DEF o
    <3>4. \A c \in last : o.pend[c] = conn[i].pend[c] /\ o.out[c] = conn[i].out[c]
      BY <1>1, <2>1, <3>1, <3>2
    <3>5. o.st = "open" /\ o.closed = conn[i].closed /\ (conn[i].wake => o.wake) /\ o.snap = None
      BY <1>1, <2>1, <3>2
    <3> QED
      BY <1>1, <3>2, <3>3, <3>4, <3>5, ConnSame
  <2> QED
    BY <2>3, <2>4
<1> QED
  BY <1>3, <1>4

LEMMA EndpointKeeps ==
    ASSUME HubInv, NEW i \in Conns, TakeSubscribe(i) \/ TakeUnsubscribe(i)
    PROVE  HubInv'
<1>1. /\ OnlyPushed /\ conn[i] \in Clients /\ inbox \in [Conns -> Seq(Messages)]
      /\ "no" \notin Channels /\ conn[i].st = "open" /\ UNCHANGED <<world, tab, pub, last, toggles>>
      /\ inbox[i] # <<>> /\ inbox' = [inbox EXCEPT ![i] = Tail(inbox[i])] /\ conn[i].ask = "no"
      /\ Polled \subseteq Channels
  BY HubFacts DEF TakeSubscribe, TakeUnsubscribe, Busy
<1>2. Head(inbox[i]) \in Messages /\ Tail(inbox[i]) \in Seq(Messages)
  BY <1>1
<1>3. inbox' \in [Conns -> Seq(Messages)] /\ Head(inbox[i]).ch \in Channels
  BY <1>1, <1>2 DEF Messages
<1>4. conn[i].snap = None
  BY <1>1 DEF OnlyPushed
<1>5. PICK k \in Clients : /\ conn' = [conn EXCEPT ![i] = k]
                           /\ k.st = conn[i].st /\ k.snap = conn[i].snap
                           /\ k.closed = conn[i].closed /\ k.pend = conn[i].pend /\ k.out = conn[i].out
                           /\ k.wake = conn[i].wake
  <2>1. CASE TakeSubscribe(i)
    <3> DEFINE subs == conn[i].subs \union {Head(inbox[i]).ch}
               k == [conn[i] EXCEPT !.subs = subs, !.ask = Head(inbox[i]).ch]
    <3>1. conn' = [conn EXCEPT ![i] = k]
      BY <2>1 DEF TakeSubscribe
    <3>2. subs \in SUBSET Channels
      BY <1>1, <1>3 DEF Clients
    <3> HIDE DEF subs
    <3>3. /\ k \in Clients /\ k.st = conn[i].st /\ k.snap = conn[i].snap
          /\ k.closed = conn[i].closed /\ k.pend = conn[i].pend /\ k.out = conn[i].out
          /\ k.wake = conn[i].wake
      BY <1>1, <1>3, <3>2 DEF Clients
    <3> HIDE DEF k
    <3> QED
      BY <3>1, <3>3
  <2>2. CASE TakeUnsubscribe(i)
    <3> DEFINE subs == conn[i].subs \ {Head(inbox[i]).ch}
               k == [conn[i] EXCEPT !.subs = subs]
    <3>1. conn' = [conn EXCEPT ![i] = k]
      BY <2>2 DEF TakeUnsubscribe
    <3>2. subs \in SUBSET Channels
      BY <1>1 DEF Clients
    <3> HIDE DEF subs
    <3>3. /\ k \in Clients /\ k.st = conn[i].st /\ k.snap = conn[i].snap
          /\ k.closed = conn[i].closed /\ k.pend = conn[i].pend /\ k.out = conn[i].out
          /\ k.wake = conn[i].wake
      BY <1>1, <3>2 DEF Clients
    <3> HIDE DEF k
    <3> QED
      BY <3>1, <3>3
  <2> QED
    BY <2>1, <2>2
<1>6. /\ k.st = "open" /\ (k.ask \notin Polled => k.snap = None) /\ (conn[i].wake => k.wake)
      /\ \A c \in last : k.pend[c] = conn[i].pend[c] /\ k.out[c] = conn[i].out[c]
  BY <1>1, <1>4, <1>5
<1> QED
  BY <1>1, <1>3, <1>5, <1>6, ConnSame

LEMMA AcceptKeeps ==
    ASSUME HubInv, NEW i \in Conns, Accept(i)
    PROVE  HubInv'
<1>1. /\ PageOK /\ conn[i] \in Clients /\ inbox \in [Conns -> Seq(Messages)]
      /\ tab \in [at : Conns \union {0}, want : SUBSET Channels, shown : [Channels -> Values],
                  refused : BOOLEAN]
      /\ conn[i].st = "new" /\ tab.at = i /\ UNCHANGED <<world, tab, pub, last, toggles>>
      /\ Cardinality(tab.want) \in Nat /\ i # 0
  BY HubFacts, FS_CardinalityType DEF Accept, PageOK
<1>2. last = {} /\ ~conn[i].closed /\ conn[i].snap = None /\ conn[i].ask = "no"
  BY <1>1, FreshClients DEF PageOK
<1>3. inbox' \in [Conns -> Seq(Messages)]
  <2>1. PICK order \in [1..Cardinality(tab.want) -> tab.want] :
          inbox' = [inbox EXCEPT ![i] = [n \in DOMAIN order |-> [sub |-> TRUE, ch |-> order[n]]]]
    BY DEF Accept
  <2> DEFINE told == [n \in DOMAIN order |-> [sub |-> TRUE, ch |-> order[n]]]
  <2>2. \A n \in 1..Cardinality(tab.want) : [sub |-> TRUE, ch |-> order[n]] \in Messages
    BY <1>1 DEF Messages
  <2>3. told \in [1..Cardinality(tab.want) -> Messages]
    BY <2>2
  <2>4. told \in Seq(Messages)
    <3> HIDE DEF told
    <3>1. PICK m \in Nat : told \in [1..m -> Messages]
      BY <1>1, <2>3
    <3> QED
      BY <3>1
  <2>5. inbox' = [inbox EXCEPT ![i] = told]
    BY <2>1
  <2> HIDE DEF told
  <2> QED
    BY <1>1, <2>4, <2>5
<1> DEFINE k == [conn[i] EXCEPT !.st = "open"]
<1>4. /\ k \in Clients /\ k.st = "open" /\ k.snap = None /\ k.closed = conn[i].closed
  BY <1>1, <1>2 DEF Clients
<1>5. conn' = [conn EXCEPT ![i] = k]
  BY DEF Accept
<1> HIDE DEF k
<1>6. /\ k.st # "new" /\ (k.ask \notin Polled => k.snap = None) /\ ~k.closed
      /\ (i # tab.at => tab'.shown = tab.shown) /\ tab'.at = tab.at /\ tab'.want = tab.want
      /\ tab' \in [at : Conns \union {0}, want : SUBSET Channels, shown : [Channels -> Values],
                   refused : BOOLEAN]
  BY <1>1, <1>2, <1>4
<1>7. \A c \in last : \/ k.pend[c] = MaxWorld /\ k.wake
                      \/ k.pend[c] = None /\ k.out[c] = MaxWorld
                      \/ k.pend[c] = None /\ k.out[c] = None /\ tab'.shown[c] = MaxWorld
  BY <1>2
<1> QED
  BY <1>1, <1>3, <1>4, <1>5, <1>6, <1>7, ConnGoesOn

LEMMA HangUpKeeps ==
    ASSUME HubInv, NEW i \in Conns, HangUp(i)
    PROVE  HubInv'
<1> DEFINE k == [NewConn EXCEPT !.st = "gone", !.closed = TRUE]
<1>1. /\ inbox \in [Conns -> Seq(Messages)] /\ tab.at # i
      /\ tab \in [at : Conns \union {0}, want : SUBSET Channels, shown : [Channels -> Values],
                  refused : BOOLEAN]
      /\ UNCHANGED <<world, tab, pub, last, toggles>> /\ inbox' = [inbox EXCEPT ![i] = <<>>]
      /\ conn' = [conn EXCEPT ![i] = k]
  BY HubFacts DEF HangUp
<1>2. k \in Clients /\ k.st = "gone" /\ k.snap = None
  BY FreshClients
<1> HIDE DEF k
<1>3. inbox' \in [Conns -> Seq(Messages)]
  BY <1>1
<1> QED
  BY <1>1, <1>2, <1>3, ConnGoesOn

(* The browser.  Its connection ends, and with it what is to be shown on   *)
(* it, or another one begins.                                              *)
LEMMA SocketKeeps ==
    ASSUME HubInv, Connect \/ Drop \/ \E i \in Conns : Refuse(i)
    PROVE  HubInv'
<1>1. /\ HubTypeOK /\ OnlyPushed /\ PageOK /\ EndOnItsWay /\ conn \in [Conns -> Clients]
      /\ tab \in [at : Conns \union {0}, want : SUBSET Channels, shown : [Channels -> Values],
                  refused : BOOLEAN]
      /\ 0 \notin Conns /\ UNCHANGED <<world, inbox, pub, toggles>>
  BY HubFacts DEF Connect, Drop, Refuse
<1>2. \A i \in Conns : conn[i].st = "new" => ~conn[i].closed
  BY <1>1, FreshClients DEF PageOK
<1>3. CASE Connect
  <2>1. PICK i \in Conns : /\ conn[i].st = "new" /\ tab' = [tab EXCEPT !.at = i]
                           /\ tab.at = 0 /\ UNCHANGED <<conn, last>>
    BY <1>3 DEF Connect, Fresh
  <2>2. last = {} /\ tab'.at = i /\ tab'.want = tab.want
    BY <1>1, <2>1 DEF PageOK
  <2>3. HubTypeOK'
    BY <1>1, <2>1 DEF HubTypeOK
  <2>4. PageOK' /\ OnlyPushed' /\ EndOnItsWay'
    BY <1>1, <1>2, <2>1, <2>2 DEF PageOK, OnlyPushed, EndOnItsWay
  <2> QED
    BY <2>3, <2>4 DEF HubInv
<1>4. ASSUME NEW i \in Conns, conn[i].st \in {"new", "open"}, tab'.at = 0, tab'.want = tab.want,
             tab' \in [at : Conns \union {0}, want : SUBSET Channels, shown : [Channels -> Values],
                       refused : BOOLEAN],
             last' = {}, NEW st \in {"open", "gone"}, conn' = [conn EXCEPT ![i].st = st]
      PROVE  HubInv'
  <2> DEFINE k == [conn[i] EXCEPT !.st = st]
  <2>1. conn' = [conn EXCEPT ![i] = k]
    BY <1>4
  <2>2. k \in Clients /\ k.st = st /\ k.snap = conn[i].snap /\ k.ask = conn[i].ask
    BY <1>1 DEF Clients
  <2> HIDE DEF k
  <2>3. conn' \in [Conns -> Clients] /\ conn'[i] = k /\ \A j \in Conns : j # i => conn'[j] = conn[j]
    BY <1>1, <2>1, <2>2
  <2>4. HubTypeOK'
    BY <1>1, <1>4, <2>3 DEF HubTypeOK, Clients
  <2>5. OnlyPushed'
    BY <1>1, <2>2, <2>3 DEF OnlyPushed
  <2>6. PageOK' /\ EndOnItsWay'
    BY <1>1, <1>4, <2>2, <2>3 DEF PageOK, EndOnItsWay
  <2> QED
    BY <2>4, <2>5, <2>6 DEF HubInv
<1>5. CASE Drop
  <2>1. PICK i \in Conns : i = tab.at
    BY <1>1, <1>5 DEF Drop
  <2>2. /\ tab'.at = 0 /\ tab'.want = tab.want /\ last' = {}
        /\ tab' \in [at : Conns \union {0}, want : SUBSET Channels, shown : [Channels -> Values],
                     refused : BOOLEAN]
    BY <1>1, <1>5 DEF Drop
  <2>3. conn[i].st \in {"new", "open"}
    BY <1>1, <2>1 DEF PageOK, Clients
  <2>4. CASE conn[i].st = "new"
    BY <1>4, <1>5, <2>1, <2>2, <2>3, <2>4 DEF Drop
  <2>5. CASE conn[i].st = "open"
    BY <1>4, <1>5, <2>1, <2>2, <2>3, <2>5 DEF Drop
  <2> QED
    BY <2>3, <2>4, <2>5
<1>6. ASSUME NEW i \in Conns, Refuse(i)
      PROVE  HubInv'
  <2>1. /\ conn[i].st = "new" /\ tab.at = i /\ last' = last
        /\ conn' = [conn EXCEPT ![i].st = "gone"] /\ tab' = [tab EXCEPT !.at = 0, !.refused = TRUE]
    BY <1>6 DEF Refuse
  <2>2. last = {}
    BY <1>1, <2>1 DEF PageOK
  <2>3. /\ tab'.at = 0 /\ tab'.want = tab.want
        /\ tab' \in [at : Conns \union {0}, want : SUBSET Channels, shown : [Channels -> Values],
                     refused : BOOLEAN]
    BY <1>1, <2>1
  <2> QED
    BY <1>4, <2>1, <2>2, <2>3
<1> QED
  BY <1>3, <1>5, <1>6

(* The user opens and closes something.                                    *)
LEMMA TellTypes ==
    ASSUME HubInv, NEW sub \in BOOLEAN, NEW c \in Channels, Tell(sub, c)
    PROVE  inbox' \in [Conns -> Seq(Messages)]
<1>1. /\ inbox \in [Conns -> Seq(Messages)] /\ tab.at \in Conns \union {0}
      /\ [sub |-> sub, ch |-> c] \in Messages
  BY HubFacts DEF Messages
<1> DEFINE m == [sub |-> sub, ch |-> c]
<1>2. inbox' = inbox \/ (tab.at # 0 /\ inbox' = [inbox EXCEPT ![tab.at] = Append(inbox[tab.at], m)])
  BY DEF Tell
<1>3. m \in Messages
  BY <1>1
<1> HIDE DEF m
<1>4. tab.at # 0 => Append(inbox[tab.at], m) \in Seq(Messages)
  BY <1>1, <1>3
<1> QED
  BY <1>1, <1>2, <1>4

LEMMA PageKeeps ==
    ASSUME HubInv, NEW c \in Channels, Listen(c) \/ Leave(c)
    PROVE  HubInv'
<1>1. /\ HubTypeOK /\ OnlyPushed /\ PageOK /\ EndOnItsWay /\ conn \in [Conns -> Clients]
      /\ tab \in [at : Conns \union {0}, want : SUBSET Channels, shown : [Channels -> Values],
                  refused : BOOLEAN]
      /\ UNCHANGED <<world, conn, pub>> /\ toggles' \in 0..MaxToggles /\ None \in Values
      /\ inbox' \in [Conns -> Seq(Messages)]
  <2>1. /\ HubTypeOK /\ OnlyPushed /\ PageOK /\ EndOnItsWay /\ conn \in [Conns -> Clients]
        /\ tab \in [at : Conns \union {0}, want : SUBSET Channels, shown : [Channels -> Values],
                    refused : BOOLEAN]
        /\ None \in Values
    BY HubFacts
  <2>2. UNCHANGED <<world, conn, pub>> /\ toggles < MaxToggles /\ toggles' = toggles + 1
    BY DEF Listen, Leave
  <2>3. toggles \in 0..MaxToggles
    BY HubFacts
  <2>4. toggles' \in 0..MaxToggles
    BY <2>2, <2>3, HubAssumption
  <2>5. Tell(TRUE, c) \/ Tell(FALSE, c)
    BY DEF Listen, Leave
  <2>6. inbox' \in [Conns -> Seq(Messages)]
    BY <2>5, TellTypes
  <2> QED
    BY <2>1, <2>2, <2>4, <2>6
<1>2. /\ tab' \in [at : Conns \union {0}, want : SUBSET Channels, shown : [Channels -> Values],
                   refused : BOOLEAN]
      /\ tab'.at = tab.at /\ IsFiniteSet(tab'.want) /\ last' \subseteq last /\ last' \subseteq tab'.want
      /\ \A d \in last' : tab'.shown[d] = tab.shown[d]
  <2>1. CASE Listen(c)
    <3>1. tab' = [tab EXCEPT !.want = tab.want \union {c}] /\ last' = last
      BY <2>1 DEF Listen
    <3>2. IsFiniteSet(tab.want \union {c}) /\ last \subseteq tab.want \union {c}
      BY <1>1, FS_AddElement DEF PageOK
    <3> QED
      BY <1>1, <3>1, <3>2
  <2>2. CASE Leave(c)
    <3> DEFINE shown == [tab.shown EXCEPT ![c] = None]
    <3>1. tab' = [tab EXCEPT !.want = tab.want \ {c}, !.shown = shown] /\ last' = last \ {c}
      BY <2>2 DEF Leave
    <3>2. IsFiniteSet(tab.want \ {c}) /\ last \ {c} \subseteq tab.want \ {c}
      BY <1>1, FS_RemoveElement DEF PageOK
    <3>3. /\ shown \in [Channels -> Values]
          /\ \A d \in Channels : d # c => shown[d] = tab.shown[d]
      BY <1>1
    <3> HIDE DEF shown
    <3>4. last \subseteq Channels
      BY HubFacts
    <3> QED
      BY <1>1, <3>1, <3>2, <3>3, <3>4
  <2> QED
    BY <2>1, <2>2
<1>3. HubTypeOK'
  BY <1>1, <1>2 DEF HubTypeOK, Messages
<1>4. PageOK' /\ OnlyPushed' /\ EndOnItsWay'
  BY <1>1, <1>2 DEF PageOK, OnlyPushed, EndOnItsWay
<1> QED
  BY <1>3, <1>4 DEF HubInv

(* What is published of a channel changes its messages only.               *)
LEMMA PublishedTypes ==
    ASSUME HubInv, NEW c \in Channels, NEW v \in Values, conn' = Published(c, v)
    PROVE  /\ conn' \in [Conns -> Clients]
           /\ \A i \in Conns :
                /\ conn'[i].st = conn[i].st /\ conn'[i].closed = conn[i].closed
                /\ conn'[i].ask = conn[i].ask /\ conn'[i].snap = conn[i].snap
                /\ conn'[i].out = conn[i].out /\ (conn[i].wake => conn'[i].wake)
                /\ \A d \in Channels : d # c => conn'[i].pend[d] = conn[i].pend[d]
                /\ c \notin conn[i].subs => conn'[i] = conn[i]
                /\ c \in conn[i].subs /\ ~conn[i].closed => conn'[i].pend[c] = v /\ conn'[i].wake
<1>1. conn \in [Conns -> Clients]
  BY HubFacts
<1>2. \A i \in Conns : conn'[i] = IF c \in conn[i].subs THEN Offered(conn[i], c, v) ELSE conn[i]
  BY DEF Published, Subscribers
<1>3. ASSUME NEW i \in Conns
      PROVE  /\ conn'[i] \in Clients
             /\ conn'[i].st = conn[i].st /\ conn'[i].closed = conn[i].closed
             /\ conn'[i].ask = conn[i].ask /\ conn'[i].snap = conn[i].snap
             /\ conn'[i].out = conn[i].out /\ (conn[i].wake => conn'[i].wake)
             /\ \A d \in Channels : d # c => conn'[i].pend[d] = conn[i].pend[d]
             /\ c \notin conn[i].subs => conn'[i] = conn[i]
             /\ c \in conn[i].subs /\ ~conn[i].closed => conn'[i].pend[c] = v /\ conn'[i].wake
  <2>1. conn[i] \in Clients
    BY <1>1
  <2>2. CASE c \in conn[i].subs
    BY <1>2, <2>1, <2>2, OfferPuts
  <2>3. CASE c \notin conn[i].subs
    BY <1>2, <2>1, <2>3
  <2> QED
    BY <2>2, <2>3
<1>4. conn' = [i \in Conns |-> conn'[i]]
  BY DEF Published
<1>5. conn' \in [Conns -> Clients]
  BY <1>3, <1>4
<1> QED
  BY <1>3, <1>5

LEMMA PublishKeeps ==
    ASSUME HubInv, NEW c \in Channels, NEW v \in Values, conn' = Published(c, v) \/ conn' = conn,
           UNCHANGED <<tab, inbox, toggles>>, world' \in [Channels -> 0..MaxWorld],
           pub' \in [Publishers -> [Channels -> Values]],
           \A p \in Publishers, d \in Channels : pub'[p][d] # None => d \in Polled,
           \A d \in last : d # c /\ world'[d] = world[d],
           \/ last' = last
           \/ /\ last' = last \union {c} /\ c \in Pushed /\ c \in tab.want /\ tab.at \in Subscribers(c)
              /\ v = MaxWorld /\ world'[c] = MaxWorld /\ conn' = Published(c, v)
    PROVE  HubInv'
<1>1. /\ HubTypeOK /\ OnlyPushed /\ PageOK /\ EndOnItsWay /\ conn \in [Conns -> Clients]
      /\ tab.at \in Conns \union {0} /\ 0 \notin Conns /\ last \subseteq Channels /\ last \in SUBSET Pushed
  BY HubFacts
<1>2. /\ conn' \in [Conns -> Clients]
      /\ \A i \in Conns :
           /\ conn'[i].st = conn[i].st /\ conn'[i].closed = conn[i].closed
           /\ conn'[i].ask = conn[i].ask /\ conn'[i].snap = conn[i].snap
           /\ conn'[i].out = conn[i].out /\ (conn[i].wake => conn'[i].wake)
           /\ \A d \in Channels : d # c => conn'[i].pend[d] = conn[i].pend[d]
           /\ c \notin conn[i].subs => conn'[i] = conn[i]
  BY <1>1, PublishedTypes
<1>3. HubTypeOK'
  BY <1>1, <1>2 DEF HubTypeOK, Clients
<1>4. OnlyPushed'
  BY <1>1, <1>2 DEF OnlyPushed
<1>5. \A i \in Conns : conn[i].st = "new" => conn'[i] = NewConn
  BY <1>1, <1>2, FreshClients DEF PageOK
<1>6. ASSUME NEW d \in last
      PROVE  /\ \/ conn'[tab.at].pend[d] = MaxWorld /\ conn'[tab.at].wake
                \/ conn'[tab.at].pend[d] = None /\ conn'[tab.at].out[d] = MaxWorld
                \/ /\ conn'[tab.at].pend[d] = None /\ conn'[tab.at].out[d] = None
                   /\ tab.shown[d] = MaxWorld
             /\ world'[d] = MaxWorld
  <2>1. tab.at \in Conns /\ d # c /\ d \in Channels /\ world'[d] = world[d] /\ world[d] = MaxWorld
    BY <1>1 DEF PageOK
  <2>2. /\ conn'[tab.at].pend[d] = conn[tab.at].pend[d] /\ conn'[tab.at].out = conn[tab.at].out
        /\ conn[tab.at].wake => conn'[tab.at].wake
    BY <1>2, <2>1
  <2> QED
    BY <1>1, <2>1, <2>2 DEF EndOnItsWay
<1>7. CASE last' = last
  <2>1. PageOK'
    BY <1>1, <1>2, <1>5, <1>6, <1>7 DEF PageOK
  <2>2. EndOnItsWay'
    BY <1>6, <1>7 DEF EndOnItsWay
  <2> QED
    BY <1>3, <1>4, <2>1, <2>2 DEF HubInv
<1>8. CASE /\ last' = last \union {c} /\ c \in Pushed /\ c \in tab.want /\ tab.at \in Subscribers(c)
           /\ v = MaxWorld /\ world'[c] = MaxWorld /\ conn' = Published(c, v)
  <2>1. tab.at \in Conns /\ c \in conn[tab.at].subs
    BY <1>8 DEF Subscribers
  <2>2. ~conn[tab.at].closed /\ conn[tab.at].st = "open"
    BY <1>1, <2>1, FreshClients DEF PageOK, Clients
  <2>3. conn'[tab.at].pend[c] = MaxWorld /\ conn'[tab.at].wake
    <3>1. v \in Values /\ conn' = Published(c, v)
      BY <1>8
    <3>2. \A i \in Conns : c \in conn[i].subs /\ ~conn[i].closed => conn'[i].pend[c] = v /\ conn'[i].wake
      BY <3>1, PublishedTypes
    <3>3. conn'[tab.at].pend[c] = v /\ conn'[tab.at].wake
      BY <2>1, <2>2, <3>2
    <3>4. v = MaxWorld
      BY <1>8
    <3> QED
      BY <3>3, <3>4
  <2>4. PageOK'
    <3>1. /\ IsFiniteSet(tab'.want) /\ last' \subseteq tab'.want
          /\ \A d \in last' : world'[d] = MaxWorld
      BY <1>1, <1>6, <1>8 DEF PageOK
    <3>2. tab'.at = tab.at
      OBVIOUS
    <3>3. ~conn'[tab.at].closed /\ conn'[tab.at].st = "open"
      BY <1>2, <2>1, <2>2
    <3>4. \A i \in Conns : conn'[i].st = "new" => conn'[i] = NewConn
      BY <1>2, <1>5
    <3>5. tab.at # 0
      BY <1>1, <2>1
    <3> QED
      BY <3>1, <3>2, <3>3, <3>4, <3>5 DEF PageOK
  <2>5. EndOnItsWay'
    BY <1>6, <1>8, <2>3 DEF EndOnItsWay
  <2>6. HubTypeOK'
    BY <1>3
  <2> QED
    BY <1>4, <2>4, <2>5, <2>6 DEF HubInv
<1> QED
  BY <1>7, <1>8

LEMMA PublishersKeep ==
    ASSUME HubInv, NEW c \in Channels,
           Change(c) \/ Push(c) \/ \E p \in Publishers : PublisherStep(p, c)
    PROVE  HubInv'
<1>1. /\ OnlyPushed /\ PageOK /\ world \in [Channels -> 0..MaxWorld]
      /\ pub \in [Publishers -> [Channels -> Values]] /\ last \in SUBSET Pushed
      /\ 0..MaxWorld \subseteq Values /\ None \in Values /\ MaxWorld \in Nat
      /\ \A v \in 0..MaxWorld : v # None
      /\ \A d \in last : world[d] = MaxWorld /\ d \in tab.want /\ d \in Channels /\ d \notin Polled
      /\ \A p \in Publishers, d \in Channels : pub[p][d] # None => d \in Polled
  BY HubFacts DEF PageOK, OnlyPushed
<1>2. CASE Change(c)
  <2>1. /\ c \in Polled /\ world' = [world EXCEPT ![c] = world[c] + 1] /\ world[c] < MaxWorld
        /\ UNCHANGED <<tab, inbox, conn, pub, last, toggles>>
    BY <1>2 DEF Change
  <2>2. world[c] + 1 \in 0..MaxWorld
    BY <1>1, <2>1
  <2>3. world' \in [Channels -> 0..MaxWorld] /\ \A d \in last : d # c /\ world'[d] = world[d]
    BY <1>1, <2>1, <2>2
  <2> QED
    BY <1>1, <2>1, <2>3, PublishKeeps
<1>3. CASE Push(c)
  <2> DEFINE v == world[c] + 1
  <2>1. /\ c \in Pushed /\ world' = [world EXCEPT ![c] = v] /\ world[c] < MaxWorld
        /\ UNCHANGED <<tab, inbox, pub, toggles>>
    BY <1>3 DEF Push
  <2>2. v \in 0..MaxWorld
    BY <1>1, <2>1
  <2>3. /\ conn' = Published(c, v) \/ conn' = conn
        /\ \/ last' = last
           \/ /\ last' = last \union {c} /\ c \in tab.want /\ tab.at \in Subscribers(c)
              /\ v = MaxWorld /\ conn' = Published(c, v)
    BY <1>3 DEF Push
  <2> HIDE DEF v
  <2>4. /\ world' \in [Channels -> 0..MaxWorld] /\ world'[c] = v
        /\ \A d \in last : d # c /\ world'[d] = world[d]
    BY <1>1, <2>1, <2>2
  <2>5. v \in Values
    BY <1>1, <2>2
  <2> QED
    BY <1>1, <2>1, <2>3, <2>4, <2>5, PublishKeeps
<1>4. ASSUME NEW p \in Publishers, PublisherRead(p, c)
      PROVE  HubInv'
  <2>1. /\ c \in Polled /\ pub' = [pub EXCEPT ![p] = [pub[p] EXCEPT ![c] = world[c]]]
        /\ UNCHANGED <<world, tab, inbox, conn, last, toggles>>
    BY <1>4 DEF PublisherRead
  <2>2. [pub[p] EXCEPT ![c] = world[c]] \in [Channels -> Values]
    BY <1>1
  <2>3. /\ pub' \in [Publishers -> [Channels -> Values]]
        /\ \A q \in Publishers, d \in Channels : pub'[q][d] # None => d \in Polled
    BY <1>1, <2>1, <2>2
  <2>4. world' \in [Channels -> 0..MaxWorld] /\ \A d \in last : d # c /\ world'[d] = world[d]
    BY <1>1, <2>1
  <2> QED
    BY <1>1, <2>1, <2>3, <2>4, PublishKeeps
<1>5. ASSUME NEW p \in Publishers, Publish(p, c)
      PROVE  HubInv'
  <2> DEFINE v == pub[p][c]
  <2>1. /\ v # None /\ conn' = Published(c, v) /\ UNCHANGED <<world, tab, inbox, last, toggles>>
        /\ pub' = [pub EXCEPT ![p] = [pub[p] EXCEPT ![c] = None]]
    BY <1>5 DEF Publish
  <2>2. [pub[p] EXCEPT ![c] = None] \in [Channels -> Values] /\ v \in Values /\ c \in Polled
    BY <1>1, <2>1
  <2>3. /\ pub' \in [Publishers -> [Channels -> Values]]
        /\ \A q \in Publishers, d \in Channels : pub'[q][d] # None => d \in Polled
    BY <1>1, <2>1, <2>2
  <2> HIDE DEF v
  <2>4. world' \in [Channels -> 0..MaxWorld] /\ \A d \in last : d # c /\ world'[d] = world[d]
    BY <1>1, <2>1, <2>2
  <2> QED
    BY <1>1, <2>1, <2>2, <2>3, <2>4, PublishKeeps
<1> QED
  BY <1>2, <1>3, <1>4, <1>5 DEF PublisherStep

LEMMA HubStep == HubInv /\ [HubNext]_hubVars => HubInv'
<1> SUFFICES ASSUME HubInv, [HubNext]_hubVars PROVE HubInv'
  OBVIOUS
<1>1. ASSUME NEW i \in Conns, ConnStep(i)
      PROVE  HubInv'
  BY <1>1, WriterKeeps, EndpointKeeps, SocketSnapshotKeeps, AcceptKeeps, HangUpKeeps DEF ConnStep
<1>2. CASE Connect \/ Drop \/ \E i \in Conns : Refuse(i)
  BY <1>2, SocketKeeps
<1>3. ASSUME NEW c \in Channels, Listen(c) \/ Leave(c)
      PROVE  HubInv'
  BY <1>3, PageKeeps
<1>4. ASSUME NEW c \in Channels, Change(c) \/ Push(c) \/ \E p \in Publishers : PublisherStep(p, c)
      PROVE  HubInv'
  BY <1>4, PublishersKeep
<1>5. CASE UNCHANGED hubVars
  BY <1>5 DEF hubVars, HubInv, HubTypeOK, OnlyPushed, PageOK, EndOnItsWay
<1> QED
  BY <1>1, <1>2, <1>3, <1>4, <1>5 DEF HubNext

(* For any number of connections, channels and publishers: clients,        *)
(* browser and inboxes have their types (WsClient, ws_endpoint, ws.ts).    *)
THEOREM HubTypes == HubSpec => []HubTypeOK
<1>1. HubInv => HubTypeOK
  BY DEF HubInv
<1> QED
  BY HubStarts, HubStep, <1>1, PTL DEF HubSpec

(* For any number of connections, channels and publishers: the last push   *)
(* of a transfer that was offered to a page is on its way to it until it   *)
(* is shown, and no older message is shown after it (offer, run_writer,    *)
(* set_progress, ws.ts).                                                   *)
THEOREM TheEndComes == HubSpec => []EndOnItsWay
<1>1. HubInv => EndOnItsWay
  BY DEF HubInv
<1> QED
  BY HubStarts, HubStep, <1>1, PTL DEF HubSpec

-----------------------------------------------------------------------------
(* The registry of the engines and the pool of their clients.              *)

EngineRows == [st : {"none", "seen", "stale"}, url : Urls, lim : Rates]
EngineStates == [st : {"up", "cut", "down"}, url : Urls, lim : Rates, pol : Policies]
Registrations == [at : {"idle", "refresh", "apply", "policy", "send"}, lim : Rates, pol : Policies]
Pools == [Engines -> Urls \union {"none"}]

(* The engines of engines.json are in a pool.                              *)
Whole(po) == \A e \in Static : po[e] # "none"

(* RegistryTypeOK is not inductive: what a refresh has read is a whole     *)
(* pool, which it installs at once, or nothing.                            *)
RegistryInv ==
    /\ RegistryTypeOK /\ Whole(pool)
    /\ \A p \in Refreshers : rd[p] = NotReading \/ (rd[p] \in Pools /\ Whole(rd[p]))
    /\ set.on => set.who \in Engines

LEMMA RegistryFacts ==
    ASSUME RegistryInv
    PROVE  /\ rec \in [Engines -> EngineRows] /\ pool \in Pools /\ eng \in [Engines -> EngineStates]
           /\ reg \in [Engines -> Registrations]
           /\ policy \in Policies /\ cast \in SUBSET [to : Engines, pol : Policies]
           /\ rd \in [Refreshers -> [Engines -> Urls \union {"none", "idle"}]]
           /\ set \in [on : BOOLEAN, who : Engines \union {""}, lim : Rates]
           /\ sweep \in [left : SUBSET Engines, lim : Rates]
           /\ moves \in 0..MaxMoves /\ sets \in 0..MaxSets
           /\ Home \in Urls /\ 0 \in Rates /\ 0 \in Policies /\ "none" \notin Urls
           /\ Engines \subseteq Refreshers /\ Static \subseteq Engines
  BY RegistryAssumption DEF RegistryInv, RegistryTypeOK, EngineRows, EngineStates, Registrations, Pools, Refreshers

LEMMA RegistryStarts == RegistryInit => RegistryInv
<1> SUFFICES ASSUME RegistryInit PROVE RegistryInv
  OBVIOUS
<1>1. RegistryTypeOK
  <2>1. /\ NoRec \in EngineRows /\ NoReg \in Registrations
        /\ NotReading \in [Engines -> Urls \union {"none", "idle"}]
        /\ NoSet \in [on : BOOLEAN, who : Engines \union {""}, lim : Rates]
    BY RegistryAssumption DEF NoRec, NotReading, NoReg, NoSet, EngineRows, Registrations
  <2>2. rec \in [Engines -> EngineRows] /\ reg \in [Engines -> Registrations]
    BY <2>1 DEF RegistryInit
  <2>3. pool \in [Engines -> Urls \union {"none"}]
    BY RegistryAssumption DEF RegistryInit
  <2>4. [st |-> "down", url |-> Home, lim |-> 0, pol |-> 0] \in EngineStates
    BY RegistryAssumption DEF EngineStates
  <2>5. eng \in [Engines -> EngineStates]
    BY <2>4 DEF RegistryInit
  <2>6. rd \in [Refreshers -> [Engines -> Urls \union {"none", "idle"}]]
    BY <2>1 DEF RegistryInit
  <2>7. moves \in 0..MaxMoves /\ sets \in 0..MaxSets
    BY RegistryAssumption DEF RegistryInit
  <2>8. /\ set \in [on : BOOLEAN, who : Engines \union {""}, lim : Rates]
        /\ sweep \in [left : SUBSET Engines, lim : Rates]
        /\ policy \in Policies /\ cast \in SUBSET [to : Engines, pol : Policies]
    BY <2>1, RegistryAssumption DEF RegistryInit
  <2> QED
    BY <2>2, <2>3, <2>5, <2>6, <2>7, <2>8 DEF RegistryTypeOK, EngineRows, Registrations, EngineStates
<1>2. Whole(pool)
  BY RegistryAssumption DEF RegistryInit, Whole
<1> QED
  BY <1>1, <1>2 DEF RegistryInit, RegistryInv, NoSet

(* A call changes one field of the engine it reaches, or nothing.          *)
LEMMA CallsTyped ==
    ASSUME RegistryInv, NEW e \in Engines
    PROVE  /\ \A lim \in Rates : Limited(e, lim) \in [Engines -> EngineStates]
           /\ \A pol \in Policies : Ruled(e, pol) \in [Engines -> EngineStates]
<1>1. eng \in [Engines -> EngineStates] /\ eng[e] \in EngineStates
  BY RegistryFacts
<1>2. ASSUME NEW lim \in Rates
      PROVE  Limited(e, lim) \in [Engines -> EngineStates]
  <2>1. [eng[e] EXCEPT !.lim = lim] \in EngineStates
    BY <1>1 DEF EngineStates
  <2>2. Limited(e, lim) = eng \/ Limited(e, lim) = [eng EXCEPT ![e] = [eng[e] EXCEPT !.lim = lim]]
    BY <1>1 DEF Limited
  <2> QED
    BY <1>1, <2>1, <2>2
<1>3. ASSUME NEW pol \in Policies
      PROVE  Ruled(e, pol) \in [Engines -> EngineStates]
  <2>1. [eng[e] EXCEPT !.pol = pol] \in EngineStates
    BY <1>1 DEF EngineStates
  <2>2. Ruled(e, pol) = eng \/ Ruled(e, pol) = [eng EXCEPT ![e] = [eng[e] EXCEPT !.pol = pol]]
    BY <1>1 DEF Ruled
  <2> QED
    BY <1>1, <2>1, <2>2
<1> QED
  BY <1>2, <1>3

LEMMA ListedIsWhole ==
    ASSUME RegistryInv
    PROVE  Listed \in Pools /\ Whole(Listed)
<1>1. /\ \A e \in Engines : rec[e].url \in Urls
      /\ Home \in Urls /\ "none" \notin Urls /\ Static \subseteq Engines
  BY RegistryFacts DEF EngineRows
<1>2. \A e \in Engines :
         /\ Listed[e] \in {rec[e].url, Home, "none"}
         /\ e \in Static => Listed[e] \in {rec[e].url, Home}
  BY DEF Listed
<1>3. Listed = [e \in Engines |-> Listed[e]]
  BY DEF Listed
<1>4. \A e \in Engines : Listed[e] \in Urls \union {"none"}
  BY <1>1, <1>2
<1>5. Listed \in [Engines -> Urls \union {"none"}]
  BY <1>3, <1>4
<1> QED
  BY <1>1, <1>2, <1>5 DEF Whole, Pools

(* What a step may leave, and what it has to show then.                    *)
LEMMA RegistryRest ==
    ASSUME RegistryInv, UNCHANGED <<pool, rd>>,
           rec' \in [Engines -> EngineRows], eng' \in [Engines -> EngineStates],
           reg' \in [Engines -> Registrations], policy' \in Policies,
           cast' \in SUBSET [to : Engines, pol : Policies],
           set' \in [on : BOOLEAN, who : Engines \union {""}, lim : Rates],
           set'.on => set'.who \in Engines, sweep' \in [left : SUBSET Engines, lim : Rates],
           moves' \in 0..MaxMoves, sets' \in 0..MaxSets
    PROVE  RegistryInv'
<1>1. RegistryTypeOK'
  BY RegistryFacts DEF RegistryTypeOK, EngineRows, EngineStates, Registrations, Pools
<1>2. Whole(pool)' /\ \A p \in Refreshers : rd'[p] = NotReading \/ (rd'[p] \in Pools /\ Whole(rd'[p]))
  BY DEF RegistryInv, Whole
<1> QED
  BY <1>1, <1>2 DEF RegistryInv

LEMMA RefreshKeeps ==
    ASSUME RegistryInv, NEW p \in Refreshers, RefreshRead(p) \/ RefreshInstall(p)
    PROVE  RegistryInv'
<1>1. /\ rd \in [Refreshers -> [Engines -> Urls \union {"none", "idle"}]] /\ pool \in Pools
      /\ reg \in [Engines -> Registrations] /\ Whole(pool)
      /\ \A q \in Refreshers : rd[q] = NotReading \/ (rd[q] \in Pools /\ Whole(rd[q]))
  BY RegistryFacts DEF RegistryInv
<1>2. CASE RefreshRead(p)
  <2>1. /\ rd' = [rd EXCEPT ![p] = Listed]
        /\ UNCHANGED <<rec, pool, eng, policy, reg, set, sweep, cast, moves, sets>>
    BY <1>2 DEF RefreshRead
  <2>2. Listed \in Pools /\ Whole(Listed) /\ Listed \in [Engines -> Urls \union {"none", "idle"}]
    BY ListedIsWhole DEF Pools
  <2>3. \A q \in Refreshers : rd'[q] = NotReading \/ (rd'[q] \in Pools /\ Whole(rd'[q]))
    BY <1>1, <2>1, <2>2
  <2>4. RegistryTypeOK'
    BY <1>1, <2>1, <2>2 DEF RegistryInv, RegistryTypeOK
  <2> QED
    BY <1>1, <2>1, <2>3, <2>4 DEF RegistryInv, Whole
<1>3. CASE RefreshInstall(p)
  <2>1. /\ pool' = rd[p] /\ rd' = [rd EXCEPT ![p] = NotReading] /\ rd[p] # NotReading
        /\ UNCHANGED <<policy, rec, eng, set, sweep, cast, moves, sets>>
        /\ reg' = reg \/ (p \in Engines /\ reg' = [reg EXCEPT ![p] = [reg[p] EXCEPT !.at = "apply"]])
    BY <1>1, <1>3 DEF RefreshInstall
  <2>2. pool' \in Pools /\ Whole(pool')
    BY <1>1, <2>1
  <2>3. NotReading \in [Engines -> Urls \union {"none", "idle"}]
    BY DEF NotReading
  <2>4. /\ rd' \in [Refreshers -> [Engines -> Urls \union {"none", "idle"}]]
        /\ \A q \in Refreshers : rd'[q] = NotReading \/ (rd'[q] \in Pools /\ Whole(rd'[q]))
    BY <1>1, <2>1, <2>3
  <2>5. p \in Engines => [reg[p] EXCEPT !.at = "apply"] \in Registrations
    BY <1>1 DEF Registrations
  <2>6. reg' \in [Engines -> Registrations]
    BY <1>1, <2>1, <2>5
  <2>7. RegistryTypeOK'
    BY <2>1, <2>2, <2>4, <2>6 DEF RegistryInv, RegistryTypeOK, Pools, Registrations
  <2> QED
    BY <2>1, <2>2, <2>4, <2>7 DEF RegistryInv, Whole
<1> QED
  BY <1>2, <1>3

LEMMA RegistrationKeeps ==
    ASSUME RegistryInv, NEW e \in Engines, Register(e) \/ Reapply(e) \/ PolicyRead(e) \/ PolicySend(e)
    PROVE  RegistryInv'
<1>1. /\ rec[e] \in EngineRows /\ reg[e] \in Registrations /\ policy \in Policies /\ 0 \in Rates /\ 0 \in Policies
      /\ eng[e] \in EngineStates /\ rec \in [Engines -> EngineRows] /\ reg \in [Engines -> Registrations]
  BY RegistryFacts
<1>2. UNCHANGED <<pool, policy, rd, set, sweep, cast, moves, sets>>
  BY DEF Register, Reapply, PolicyRead, PolicySend
<1>3. rec' \in [Engines -> EngineRows]
  <2>1. [rec[e] EXCEPT !.st = "seen", !.url = eng[e].url] \in EngineRows
    BY <1>1 DEF EngineRows, EngineStates
  <2>2. rec' = rec \/ rec' = [rec EXCEPT ![e] = [rec[e] EXCEPT !.st = "seen", !.url = eng[e].url]]
    BY <1>1 DEF Register, Reapply, PolicyRead, PolicySend
  <2> QED
    BY <1>1, <2>1, <2>2
<1>4. reg' \in [Engines -> Registrations]
  <2>1. /\ [NoReg EXCEPT !.at = "refresh", !.lim = rec[e].lim] \in Registrations
        /\ [NoReg EXCEPT !.at = "policy"] \in Registrations
        /\ [NoReg EXCEPT !.at = "send", !.pol = policy] \in Registrations /\ NoReg \in Registrations
    BY <1>1 DEF NoReg, Registrations, EngineRows
  <2>2. \/ reg' = [reg EXCEPT ![e] = [NoReg EXCEPT !.at = "refresh", !.lim = rec[e].lim]]
        \/ reg' = [reg EXCEPT ![e] = [NoReg EXCEPT !.at = "policy"]]
        \/ reg' = [reg EXCEPT ![e] = [NoReg EXCEPT !.at = "send", !.pol = policy]]
        \/ reg' = [reg EXCEPT ![e] = NoReg]
    BY DEF Register, Reapply, PolicyRead, PolicySend
  <2> QED
    BY <1>1, <2>1, <2>2
<1>5. eng' \in [Engines -> EngineStates]
  <2>1. eng' = eng \/ eng' = Limited(e, reg[e].lim) \/ eng' = Ruled(e, reg[e].pol)
    BY DEF Register, Reapply, PolicyRead, PolicySend
  <2>2. reg[e].lim \in Rates /\ reg[e].pol \in Policies
    BY <1>1 DEF Registrations
  <2>3. eng \in [Engines -> EngineStates]
    BY RegistryFacts
  <2>4. /\ Limited(e, reg[e].lim) \in [Engines -> EngineStates]
        /\ Ruled(e, reg[e].pol) \in [Engines -> EngineStates]
    BY <2>2, CallsTyped
  <2> QED
    BY <2>1, <2>3, <2>4
<1>6. /\ set' \in [on : BOOLEAN, who : Engines \union {""}, lim : Rates] /\ (set'.on => set'.who \in Engines)
      /\ sweep' \in [left : SUBSET Engines, lim : Rates] /\ moves' \in 0..MaxMoves /\ sets' \in 0..MaxSets
      /\ policy' \in Policies /\ cast' \in SUBSET [to : Engines, pol : Policies] /\ UNCHANGED <<pool, rd>>
  BY <1>2, RegistryFacts DEF RegistryInv
<1> QED
  BY <1>3, <1>4, <1>5, <1>6, RegistryRest

(* Requests of an administrator.                                           *)
LEMMA LimitsKeep ==
    ASSUME RegistryInv,
           \/ SetApply \/ (\E lim \in Rates : SweepStart(lim))
           \/ \E e \in Engines : SweepCall(e) \/ \E lim \in Rates : SetLimits(e, lim)
    PROVE  RegistryInv'
<1>1. /\ rec \in [Engines -> EngineRows] /\ eng \in [Engines -> EngineStates] /\ pool \in Pools
      /\ reg \in [Engines -> Registrations] /\ policy \in Policies
      /\ cast \in SUBSET [to : Engines, pol : Policies] /\ moves \in 0..MaxMoves
      /\ set \in [on : BOOLEAN, who : Engines \union {""}, lim : Rates] /\ 0 \in Rates
      /\ sweep \in [left : SUBSET Engines, lim : Rates] /\ sets \in 0..MaxSets
      /\ (set.on => set.who \in Engines) /\ MaxSets \in Nat
  BY RegistryFacts, RegistryAssumption DEF RegistryInv
<1>2. sets < MaxSets => sets + 1 \in 0..MaxSets
  <2>1. sets \in 0..MaxSets /\ MaxSets \in Nat
    BY <1>1
  <2> QED
    BY <2>1
<1>3. CASE SetApply
  <2>1. /\ set.on /\ eng' = Limited(set.who, set.lim) /\ set' = NoSet
        /\ UNCHANGED <<rec, pool, policy, reg, rd, sweep, cast, moves, sets>>
    BY <1>3 DEF SetApply
  <2>2. eng' \in [Engines -> EngineStates]
    BY <1>1, <2>1, CallsTyped
  <2>3. NoSet \in [on : BOOLEAN, who : Engines \union {""}, lim : Rates] /\ ~NoSet.on
    BY <1>1 DEF NoSet
  <2> QED
    BY <1>1, <2>1, <2>2, <2>3, RegistryRest
<1>4. ASSUME NEW lim \in Rates, SweepStart(lim)
      PROVE  RegistryInv'
  <2>1. /\ sweep' = [left |-> {e \in Engines : pool[e] # "none"}, lim |-> lim] /\ sets' = sets + 1
        /\ UNCHANGED <<rec, pool, eng, policy, reg, rd, set, cast, moves>> /\ sets < MaxSets
    BY <1>4 DEF SweepStart
  <2>2. sweep' \in [left : SUBSET Engines, lim : Rates] /\ sets' \in 0..MaxSets
    BY <1>2, <2>1
  <2> QED
    BY <1>1, <2>1, <2>2, RegistryRest
<1>5. ASSUME NEW e \in Engines, SweepCall(e)
      PROVE  RegistryInv'
  <2>1. /\ eng' = Limited(e, sweep.lim) /\ UNCHANGED <<rec, pool, policy, reg, rd, set, cast, moves, sets>>
        /\ \E l \in SUBSET Engines : sweep' = [sweep EXCEPT !.left = l]
    BY <1>1, <1>5 DEF SweepCall
  <2>2. sweep' \in [left : SUBSET Engines, lim : Rates] /\ sweep.lim \in Rates
    BY <1>1, <2>1
  <2>3. eng' \in [Engines -> EngineStates]
    BY <2>1, <2>2, CallsTyped
  <2> QED
    BY <1>1, <2>1, <2>2, <2>3, RegistryRest
<1>6. ASSUME NEW e \in Engines, NEW lim \in Rates, SetLimits(e, lim)
      PROVE  RegistryInv'
  <2>1. /\ set' = [on |-> TRUE, who |-> e, lim |-> lim] /\ sets < MaxSets /\ sets' = sets + 1
        /\ UNCHANGED <<pool, eng, policy, reg, rd, sweep, cast, moves>> /\ pool[e] # "none"
    BY <1>6 DEF SetLimits
  <2>2. /\ [st |-> "seen", url |-> pool[e], lim |-> lim] \in EngineRows
        /\ [rec[e] EXCEPT !.lim = lim] \in EngineRows
    <3>1. pool[e] \in Urls
      BY <1>1, <2>1 DEF Pools
    <3>2. rec[e] \in EngineRows
      BY <1>1
    <3> QED
      BY <3>1, <3>2 DEF EngineRows
  <2>3. \/ rec' = [rec EXCEPT ![e] = [st |-> "seen", url |-> pool[e], lim |-> lim]]
        \/ rec' = [rec EXCEPT ![e] = [rec[e] EXCEPT !.lim = lim]]
    BY <1>1, <1>6 DEF SetLimits
  <2>4. rec' \in [Engines -> EngineRows]
    BY <1>1, <2>2, <2>3
  <2>5. set' \in [on : BOOLEAN, who : Engines \union {""}, lim : Rates] /\ set'.who \in Engines
    BY <2>1
  <2>6. sets' \in 0..MaxSets
    BY <1>2, <2>1
  <2> QED
    BY <1>1, <2>1, <2>4, <2>5, <2>6, RegistryRest
<1> QED
  BY <1>3, <1>4, <1>5, <1>6

LEMMA PolicyKeeps ==
    ASSUME RegistryInv, (\E pol \in Policies : SetPolicy(pol)) \/ \E e \in Engines : CastCall(e)
    PROVE  RegistryInv'
<1>1. /\ rec \in [Engines -> EngineRows] /\ eng \in [Engines -> EngineStates]
      /\ reg \in [Engines -> Registrations] /\ policy \in Policies
      /\ cast \in SUBSET [to : Engines, pol : Policies] /\ moves \in 0..MaxMoves
      /\ set \in [on : BOOLEAN, who : Engines \union {""}, lim : Rates]
      /\ sweep \in [left : SUBSET Engines, lim : Rates] /\ sets \in 0..MaxSets
      /\ (set.on => set.who \in Engines) /\ MaxSets \in Nat
  BY RegistryFacts, RegistryAssumption DEF RegistryInv
<1>2. ASSUME NEW pol \in Policies, SetPolicy(pol)
      PROVE  RegistryInv'
  <2>1. /\ policy' = pol /\ sets < MaxSets /\ sets' = sets + 1
        /\ UNCHANGED <<rec, pool, eng, reg, rd, set, sweep, moves>>
    BY <1>2 DEF SetPolicy
  <2>2. cast' \in SUBSET [to : Engines, pol : Policies]
    <3>1. \A e \in Engines : [to |-> e, pol |-> pol] \in [to : Engines, pol : Policies]
      OBVIOUS
    <3>2. \A c \in cast' : c \in cast \/ \E e \in Engines : c = [to |-> e, pol |-> pol]
      BY <1>2 DEF SetPolicy
    <3> DEFINE Sent == [to : Engines, pol : Policies]
    <3>3. cast \subseteq Sent /\ \A e \in Engines : [to |-> e, pol |-> pol] \in Sent
      BY <1>1, <3>1
    <3> HIDE DEF Sent
    <3>4. cast' \subseteq Sent
      BY <3>2, <3>3
    <3> QED
      BY <3>4 DEF Sent
  <2>3. sets' \in 0..MaxSets
    <3>1. sets \in 0..MaxSets /\ MaxSets \in Nat
      BY <1>1
    <3> QED
      BY <2>1, <3>1
  <2> QED
    BY <1>1, <2>1, <2>2, <2>3, RegistryRest
<1>3. ASSUME NEW e \in Engines, CastCall(e)
      PROVE  RegistryInv'
  <2>1. PICK c \in cast : eng' = Ruled(e, c.pol) /\ cast' = cast \ {c}
    BY <1>3 DEF CastCall
  <2>2. UNCHANGED <<rec, pool, policy, reg, rd, set, sweep, moves, sets>>
    BY <1>3 DEF CastCall
  <2>3. c.pol \in Policies
    BY <1>1
  <2>4. eng' \in [Engines -> EngineStates]
    BY <2>1, <2>3, CallsTyped
  <2>5. cast' \in SUBSET [to : Engines, pol : Policies]
    BY <1>1, <2>1
  <2> QED
    BY <1>1, <2>2, <2>4, <2>5, RegistryRest
<1> QED
  BY <1>2, <1>3

LEMMA LivesKeep ==
    ASSUME RegistryInv, NEW e \in Engines,
           \/ (\E url \in Urls : StartEngine(e, url))
           \/ Fall(e, "down") \/ Fall(e, "cut") \/ Heal(e) \/ Age(e)
    PROVE  RegistryInv'
<1>1. /\ rec \in [Engines -> EngineRows] /\ eng \in [Engines -> EngineStates]
      /\ reg \in [Engines -> Registrations] /\ policy \in Policies
      /\ cast \in SUBSET [to : Engines, pol : Policies] /\ moves \in 0..MaxMoves
      /\ set \in [on : BOOLEAN, who : Engines \union {""}, lim : Rates]
      /\ sweep \in [left : SUBSET Engines, lim : Rates] /\ sets \in 0..MaxSets
      /\ (set.on => set.who \in Engines) /\ MaxMoves \in Nat /\ 0 \in Rates /\ 0 \in Policies
  BY RegistryFacts, RegistryAssumption DEF RegistryInv
<1>2. UNCHANGED <<pool, policy, reg, rd, set, sweep, cast, sets>>
  BY DEF StartEngine, Fall, Heal, Age
<1>3. moves' \in 0..MaxMoves
  <2>1. moves' = moves \/ (moves < MaxMoves /\ moves' = moves + 1)
    BY DEF StartEngine, Fall, Heal, Age
  <2>2. moves \in 0..MaxMoves /\ MaxMoves \in Nat
    BY <1>1
  <2> QED
    BY <2>1, <2>2
<1>4. rec' \in [Engines -> EngineRows]
  <2>1. [rec[e] EXCEPT !.st = "stale"] \in EngineRows
    BY <1>1 DEF EngineRows
  <2>2. rec' = rec \/ rec' = [rec EXCEPT ![e] = [rec[e] EXCEPT !.st = "stale"]]
    BY <1>1 DEF StartEngine, Fall, Heal, Age
  <2> QED
    BY <1>1, <2>1, <2>2
<1>5. eng' \in [Engines -> EngineStates]
  <2>1. \A st \in {"up", "down", "cut"} : [eng[e] EXCEPT !.st = st] \in EngineStates
    BY <1>1 DEF EngineStates
  <2>2. \A url \in Urls : [st |-> "up", url |-> url, lim |-> 0, pol |-> 0] \in EngineStates
    BY <1>1 DEF EngineStates
  <2>3. \/ eng' = eng
        \/ \E url \in Urls : eng' = [eng EXCEPT ![e] = [st |-> "up", url |-> url, lim |-> 0, pol |-> 0]]
        \/ \E st \in {"up", "down", "cut"} : eng' = [eng EXCEPT ![e] = [eng[e] EXCEPT !.st = st]]
    BY <1>1 DEF StartEngine, Fall, Heal, Age
  <2> QED
    BY <1>1, <2>1, <2>2, <2>3
<1> QED
  BY <1>1, <1>2, <1>3, <1>4, <1>5, RegistryRest

LEMMA RegistryStep == RegistryInv /\ [RegistryNext]_registryVars => RegistryInv'
<1> SUFFICES ASSUME RegistryInv, [RegistryNext]_registryVars PROVE RegistryInv'
  OBVIOUS
<1>1. CASE OrchestratorStep
  <2>1. "loop" \in Refreshers
    BY DEF Refreshers
  <2> QED
    BY <1>1, <2>1, RefreshKeeps, LimitsKeep, PolicyKeeps DEF OrchestratorStep
<1>2. ASSUME NEW e \in Engines, EngineStep(e)
      PROVE  RegistryInv'
  <2>1. e \in Refreshers
    BY DEF Refreshers
  <2> QED
    BY <1>2, <2>1, RefreshKeeps, RegistrationKeeps, LimitsKeep, PolicyKeeps, LivesKeep DEF EngineStep
<1>3. CASE UNCHANGED registryVars
  BY <1>3 DEF registryVars, RegistryInv, RegistryTypeOK, Whole
<1> QED
  BY <1>1, <1>2, <1>3 DEF RegistryNext

LEMMA RegistryHolds == RegistrySpec => []RegistryInv
  BY RegistryStarts, RegistryStep, PTL DEF RegistrySpec

(* For any set of engines, addresses and limits: registry, pool and        *)
(* engines have their types, and a refresh installs only a whole pool      *)
(* (refresh, register_engine).                                             *)
THEOREM RegistryTypes == RegistrySpec => []RegistryTypeOK
<1>1. RegistryInv => RegistryTypeOK
  BY DEF RegistryInv
<1> QED
  BY RegistryHolds, <1>1, PTL

(* For any set of engines and addresses: an engine of engines.json has an  *)
(* address in the pool, whichever refreshes and registrations overlap      *)
(* (_evict_stale, _merge_specs).                                           *)
THEOREM StaticEnginesStay == RegistrySpec => []Whole(pool)
<1>1. RegistryInv => Whole(pool)
  BY DEF RegistryInv
<1> QED
  BY RegistryHolds, <1>1, PTL
-----------------------------------------------------------------------------
(* The orchestrator put together (MCApi).                                  *)

ApiInvs ==
    /\ UploadInv /\ AccountsInv /\ RegistryInv /\ HubInv /\ AccountingInv /\ ChartOK
    /\ DeskInv /\ BackupsInv /\ AlertsInv

(* A part's steps, of some of its actors only, are steps of its module.    *)
LEMMA AccountsPartSteps == AccountsPart => AccountsNext
<1> SUFFICES ASSUME AccountsPart PROVE AccountsNext
  OBVIOUS
<1>1. CASE AdminsNext
  BY <1>1 DEF AdminsNext, AccountsNext
<1>2. CASE LoginsNext
  BY <1>2, ApiInstance DEF LoginsNext, AccountsNext
<1> QED
  BY <1>1, <1>2 DEF AccountsPart

LEMMA RegistryPartSteps == RegistryPart => RegistryNext
  BY DEF RegistryPart, LimitsNext, PoliciesNext

LEMMA HubPartSteps == HubPart => HubNext
<1> SUFFICES ASSUME HubPart PROVE HubNext
  OBVIOUS
<1>1. Polled \subseteq Channels /\ Pushed \subseteq Channels
  BY DEF Channels
<1>2. CASE SocketStep
  BY <1>2 DEF SocketStep, HubNext
<1>3. ASSUME NEW c \in Polled,
             Listen(c) \/ Leave(c) \/ Change(c) \/ \E p \in Publishers : PublisherStep(p, c)
      PROVE  HubNext
  BY <1>1, <1>3 DEF HubNext
<1>4. ASSUME NEW c \in Pushed, Listen(c) \/ Leave(c) \/ Push(c)
      PROVE  HubNext
  BY <1>1, <1>4 DEF HubNext
<1> QED
  BY <1>2, <1>3, <1>4 DEF HubPart, PolledNext, PushedNext

LEMMA AccountingPartSteps == AccountingPart => AccountingNext
<1> SUFFICES ASSUME AccountingPart PROVE AccountingNext
  OBVIOUS
<1>1. ASSUME NEW e \in Nodes,
             Upload(e) \/ SaveCounter(e) \/ EngineDies(e) \/ MoveBegin(e) \/ UpdateEngine(e)
      PROVE  EngineMoves(e)
  BY <1>1 DEF EngineMoves
<1>2. CASE TotalsNext
  BY <1>2 DEF TotalsNext, AccountingNext
<1>3. CASE QuotaMovesNext
  BY <1>1, <1>3 DEF QuotaMovesNext, AccountingNext
<1>4. CASE QuotaDeathsNext
  BY <1>1, <1>4 DEF QuotaDeathsNext, AccountingNext
<1>5. CASE ChartNext
  BY <1>5 DEF ChartNext, AccountingNext
<1> QED
  BY <1>2, <1>3, <1>4, <1>5 DEF AccountingPart

LEMMA ApiPartSteps ==
    [ApiNext]_mcVars =>
        /\ [UploadNext]_uploadVars /\ [AccountsNext]_accountsVars /\ [RegistryNext]_registryVars
        /\ [HubNext]_hubVars /\ [AccountingNext]_accountingVars
        /\ [DeskNext]_deskVars /\ [BackupsNext]_backupVars /\ [AlertsNext]_alertVars
<1>1. UNCHANGED mcVars =>
        UNCHANGED <<uploadVars, accountsVars, registryVars, hubVars, accountingVars,
                    deskVars, backupVars, alertVars>>
  BY DEF mcVars
<1>2. DeskPart => DeskNext
  BY DEF DeskPart
<1>3. BackupPart => BackupsNext
  BY DEF BackupPart, BackupsNext
<1> QED
  BY <1>1, <1>2, <1>3, AccountsPartSteps, RegistryPartSteps, HubPartSteps, AccountingPartSteps
  DEF ApiNext

LEMMA ApiStarts == ApiInit => ApiInvs
  BY InitUpload, AccountsStart, RegistryStarts, HubStarts, AccountingStarts, ChartStarts,
     DeskStarts, BackupsStart, AlertsStart DEF ApiInit, ApiInvs

LEMMA ApiStep == ApiInvs /\ [ApiNext]_mcVars => ApiInvs'
<1> SUFFICES ASSUME ApiInvs, [ApiNext]_mcVars PROVE ApiInvs'
  OBVIOUS
<1>1. UploadInv' /\ AccountsInv' /\ RegistryInv' /\ HubInv'
  BY ApiPartSteps, StepUpload, AccountsStep, RegistryStep, HubStep DEF ApiInvs
<1>2. AccountingInv' /\ ChartOK'
  BY ApiPartSteps, ChartStep DEF ApiInvs
<1>3. DeskInv' /\ BackupsInv' /\ AlertsInv'
  BY ApiPartSteps, DeskStep, BackupsStep, AlertsStep DEF ApiInvs
<1> QED
  BY <1>1, <1>2, <1>3 DEF ApiInvs

LEMMA ApiHolds == ApiSpec => []ApiInvs
  BY ApiStarts, ApiStep, PTL DEF ApiSpec

(* The variables of the orchestrator's modules keep their types side by    *)
(* side: no part's step is outside the specification its theorems are      *)
(* about.                                                                  *)
THEOREM ApiTypes == ApiSpec => []ApiTypeOK
<1>1. ApiInvs => UploadTypeOK /\ RegistryTypeOK /\ HubTypeOK /\ AccountingTypeOK
  BY DEF ApiInvs, UploadInv, RegistryInv, HubInv, AccountingInv
<1>2. ApiInvs => DeskTypeOK /\ BackupsTypeOK /\ AlertsTypeOK
  BY DEF ApiInvs, DeskInv, BackupsInv, AlertsInv
<1>3. ApiInvs => AccountsTypeOK
  BY AccountsTyped DEF ApiInvs
<1>4. ApiInvs => ApiTypeOK
  BY <1>1, <1>2, <1>3 DEF ApiTypeOK
<1> QED
  BY <1>4, ApiHolds, PTL

(* What is promised for each part holds in the orchestrator that is put    *)
(* together of them, for every choice of the actors that are left out.     *)
THEOREM ApiIsSound ==
    ApiSpec => /\ [](AccountsSound /\ AccountingSound /\ DeskSound)
               /\ [](EndOnItsWay /\ BackupsSound)
               /\ UploadSound
<1>1. ApiInvs => AccountsSound /\ EndOnItsWay /\ BackupsSound
  BY AccountsSay, BackupsSay DEF ApiInvs, HubInv
<1>2. ApiInvs => AccountingSound
  BY CountedSays, ChartSays DEF ApiInvs, AccountingInv, ListedOK, PauseIsListed, AccountingSound
<1>3. ApiInvs => DeskSound
  BY NeverTwiceSays DEF ApiInvs, DeskInv, DeskSound
<1>4. ApiInvs => AnswersAreTrue
  BY DEF ApiInvs, UploadInv, AnswersAreTrue, Tied, DoneIsPlaced
<1>5. ApiInvs /\ [ApiNext]_mcVars =>
        [/\ final' # final /\ Exists =>
               \E u \in Uploads : client[u].over /\ client[u].req = "complete"
         /\ \A u \in Uploads : client[u].del = "heard" => (u \in placed' => u \in placed)]_uploadVars
  BY ApiPartSteps, StepIsRight DEF ApiInvs
<1>6. ApiInvs /\ [ApiNext]_mcVars =>
        [File!Next]_<<final.by, Agreed, Heard, placed, Served>>
  BY ApiPartSteps, UploadShows DEF ApiInvs
<1>7. ApiInit => File!Init
  BY UploadShowsFirst DEF ApiInit
<1> QED
  BY <1>1, <1>2, <1>3, <1>4, <1>5, <1>6, <1>7, ApiHolds, PTL
  DEF ApiSpec, UploadSound, PlacedRightly, ImplementsPlacedFile, File!Spec
=============================================================================
