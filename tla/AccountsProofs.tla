---------------------------- MODULE AccountsProofs ----------------------------
(***************************************************************************)
(* What the run of MCAccounts shows of two clients, three users and one    *)
(* code, for any clients, users and codes, and for any limits.             *)
(***************************************************************************)
EXTENDS Accounts, FiniteSetTheorems, WellFoundedInduction, TLAPS

\* One superadmin, or nobody.
Managed(U) ==
    \/ DOMAIN U = {}
    \/ \E s \in DOMAIN U : U[s].level = 2 /\ \A u \in DOMAIN U : U[u].level = 2 => u = s

UsersOK(U, m) ==
    /\ m \in 0..MaxUsers /\ DOMAIN U \subseteq 1..m
    /\ U \in [DOMAIN U -> [level : 0..2, by : DOMAIN U \cup {0}]]
    /\ Managed(U)

InvitesOK(I, U, n) ==
    /\ n \in 0..MaxInvites /\ DOMAIN I \subseteq 1..n
    /\ I \in [DOMAIN I -> [by : DOMAIN U, used : BOOLEAN, usedBy : DOMAIN U \cup {0}, open : BOOLEAN]]

SessionsOK(S, U) == S \subseteq Client \X DOMAIN U

Db(U, I, S, m, n) == [users |-> U, invites |-> I, sessions |-> S, lastUser |-> m, lastInvite |-> n]

\* What holds of either database whatever the handlers are at.
Sound(d) ==
    /\ d = Db(d.users, d.invites, d.sessions, d.lastUser, d.lastInvite)
    /\ UsersOK(d.users, d.lastUser)
    /\ InvitesOK(d.invites, d.users, d.lastInvite)
    /\ SessionsOK(d.sessions, d.users)

\* A statement that lets nobody in, makes nobody superadmin and neither takes a
\* code nor gives one back.
Quiet(d, e) ==
    /\ e.lastUser = d.lastUser /\ e.lastInvite = d.lastInvite
    /\ \A u \in DOMAIN e.users : u \in DOMAIN d.users /\ (e.users[u].level = 2 => d.users[u].level = 2)
    /\ \A k \in DOMAIN e.invites :
          /\ k \in DOMAIN d.invites /\ e.invites[k].used = d.invites[k].used
          /\ e.invites[k].usedBy # 0 => d.invites[k].usedBy # 0

-----------------------------------------------------------------------------
(* What each statement does to a database *)

LEMMA Fields ==
    ASSUME NEW U, NEW I, NEW S, NEW m, NEW n
    PROVE  /\ Db(U, I, S, m, n).users = U /\ Db(U, I, S, m, n).invites = I
           /\ Db(U, I, S, m, n).sessions = S
           /\ Db(U, I, S, m, n).lastUser = m /\ Db(U, I, S, m, n).lastInvite = n
  BY DEF Db

LEMMA DbSound ==
    ASSUME NEW U, NEW I, NEW S, NEW m, NEW n,
           UsersOK(U, m), InvitesOK(I, U, n), SessionsOK(S, U)
    PROVE  Sound(Db(U, I, S, m, n))
  BY Fields DEF Sound

\* Replacing one part of a database leaves the others.
LEMMA Replaced ==
    ASSUME NEW d, Sound(d), NEW X, NEW y
    PROVE  /\ [d EXCEPT !.users = X] = Db(X, d.invites, d.sessions, d.lastUser, d.lastInvite)
           /\ [d EXCEPT !.invites = X] = Db(d.users, X, d.sessions, d.lastUser, d.lastInvite)
           /\ [d EXCEPT !.sessions = X] = Db(d.users, d.invites, X, d.lastUser, d.lastInvite)
           /\ [d EXCEPT !.users = X, !.lastUser = y] =
                 Db(X, d.invites, d.sessions, y, d.lastInvite)
  <1>1. ASSUME NEW U, NEW I, NEW S, NEW m, NEW n, d = Db(U, I, S, m, n)
        PROVE  /\ [d EXCEPT !.users = X] = Db(X, I, S, m, n)
               /\ [d EXCEPT !.invites = X] = Db(U, X, S, m, n)
               /\ [d EXCEPT !.sessions = X] = Db(U, I, X, m, n)
    BY <1>1 DEF Db
  <1>2. ASSUME NEW U, NEW I, NEW S, NEW m, NEW n, d = Db(U, I, S, m, n)
        PROVE  [d EXCEPT !.users = X, !.lastUser = y] = Db(X, I, S, y, n)
    <2>1. [d EXCEPT !.users = X] = Db(X, I, S, m, n)
      BY <1>1, <1>2
    <2>2. [Db(X, I, S, m, n) EXCEPT !.lastUser = y] = Db(X, I, S, y, n)
      BY DEF Db
    <2> QED
      BY <2>1, <2>2
  <1> QED
    BY <1>1, <1>2 DEF Sound

LEMMA ReplacedNewest ==
    ASSUME NEW d, Sound(d), NEW X, NEW y
    PROVE  [d EXCEPT !.lastInvite = y, !.invites = X] = Db(d.users, X, d.sessions, d.lastUser, y)
  <1>1. ASSUME NEW U, NEW I, NEW S, NEW m, NEW n, d = Db(U, I, S, m, n)
        PROVE  [d EXCEPT !.lastInvite = y, !.invites = X] = Db(U, X, S, m, y)
    <2>1. [d EXCEPT !.lastInvite = y] = Db(U, I, S, m, y)
      BY <1>1 DEF Db
    <2>2. [Db(U, I, S, m, y) EXCEPT !.invites = X] = Db(U, X, S, m, y)
      BY DEF Db
    <2> QED
      BY <2>1, <2>2
  <1> QED
    BY <1>1 DEF Sound

LEMMA EmptySound == Sound(Empty)
  <1>1. Empty = Db([u \in {} |-> Gone], [k \in {} |-> NoInvite], {}, 0, 0)
    BY DEF Empty, Db
  <1> DEFINE U == [u \in {} |-> Gone]
             I == [k \in {} |-> NoInvite]
  <1>2. DOMAIN U = {} /\ DOMAIN I = {}
    OBVIOUS
  <1>3. UsersOK(U, 0)
    BY <1>2, AccountsAssumption DEF UsersOK, Managed
  <1>4. InvitesOK(I, U, 0)
    BY <1>2, AccountsAssumption DEF InvitesOK
  <1>5. SessionsOK({}, U)
    BY DEF SessionsOK
  <1> QED
    BY <1>1, <1>3, <1>4, <1>5, DbSound

LEMMA QuietSame == ASSUME NEW d PROVE Quiet(d, d)
  BY DEF Quiet

\* Other invitations, none of them new.
LEMMA InvitesReplaced ==
    ASSUME NEW d, Sound(d), NEW I, InvitesOK(I, d.users, d.lastInvite)
    PROVE  /\ Sound([d EXCEPT !.invites = I])
           /\ [d EXCEPT !.invites = I].invites = I
           /\ [d EXCEPT !.invites = I].users = d.users
           /\ [d EXCEPT !.invites = I].lastUser = d.lastUser
           /\ [d EXCEPT !.invites = I].lastInvite = d.lastInvite
  <1> DEFINE e == Db(d.users, I, d.sessions, d.lastUser, d.lastInvite)
  <1>1. [d EXCEPT !.invites = I] = e
    BY Replaced
  <1>2. Sound(e)
    BY DbSound DEF Sound
  <1>3. e.invites = I /\ e.users = d.users /\ e.lastUser = d.lastUser /\ e.lastInvite = d.lastInvite
    BY Fields
  <1> QED
    BY <1>1, <1>2, <1>3

LEMMA SessionsReplaced ==
    ASSUME NEW d, Sound(d), NEW S, SessionsOK(S, d.users)
    PROVE  Sound([d EXCEPT !.sessions = S]) /\ Quiet(d, [d EXCEPT !.sessions = S])
  <1> DEFINE e == Db(d.users, d.invites, S, d.lastUser, d.lastInvite)
  <1>1. [d EXCEPT !.sessions = S] = e
    BY Replaced
  <1>2. Sound(e)
    BY DbSound DEF Sound
  <1>3. /\ e.invites = d.invites /\ e.users = d.users
        /\ e.lastUser = d.lastUser /\ e.lastInvite = d.lastInvite
    BY Fields
  <1> QED
    BY <1>1, <1>2, <1>3 DEF Quiet

LEMMA UsersReplaced ==
    ASSUME NEW d, Sound(d), NEW U, UsersOK(U, d.lastUser), DOMAIN U = DOMAIN d.users,
           \A u \in DOMAIN U : U[u].level = 2 => d.users[u].level = 2
    PROVE  Sound([d EXCEPT !.users = U]) /\ Quiet(d, [d EXCEPT !.users = U])
  <1> DEFINE e == Db(U, d.invites, d.sessions, d.lastUser, d.lastInvite)
  <1>1. [d EXCEPT !.users = U] = e
    BY Replaced
  <1>2. Sound(e)
    BY DbSound DEF Sound, InvitesOK, SessionsOK
  <1>3. /\ e.invites = d.invites /\ e.users = U
        /\ e.lastUser = d.lastUser /\ e.lastInvite = d.lastInvite
    BY Fields
  <1> QED
    BY <1>1, <1>2, <1>3 DEF Quiet

LEMMA CodesWithout ==
    ASSUME NEW d, Sound(d), NEW K
    PROVE  Sound(WithoutCode(d, K)) /\ Quiet(d, WithoutCode(d, K))
  <1> DEFINE I == [i \in DOMAIN d.invites \ K |-> d.invites[i]]
  <1>1. WithoutCode(d, K) = [d EXCEPT !.invites = I]
    BY DEF WithoutCode
  <1>2. InvitesOK(I, d.users, d.lastInvite)
    BY DEF Sound, InvitesOK
  <1>3. \A i \in DOMAIN I : i \in DOMAIN d.invites /\ I[i] = d.invites[i]
    OBVIOUS
  <1> HIDE DEF I
  <1> QED
    BY <1>1, <1>2, <1>3, InvitesReplaced DEF Quiet

LEMMA CodeTaken ==
    ASSUME NEW d, Sound(d), NEW k \in DOMAIN d.invites
    PROVE  LET e == TakenFrom(d, k)
           IN  /\ Sound(e) /\ e.users = d.users
               /\ e.lastUser = d.lastUser /\ e.lastInvite = d.lastInvite
               /\ DOMAIN e.invites = DOMAIN d.invites
               /\ e.invites[k].used = TRUE /\ e.invites[k].usedBy = d.invites[k].usedBy
               /\ \A i \in DOMAIN d.invites \ {k} : e.invites[i] = d.invites[i]
  <1> DEFINE I == [d.invites EXCEPT ![k] = [@ EXCEPT !.used = TRUE]]
  <1>1. TakenFrom(d, k) = [d EXCEPT !.invites = I]
    BY DEF TakenFrom
  <1>2. InvitesOK(I, d.users, d.lastInvite)
    BY DEF Sound, InvitesOK
  <1>3. /\ DOMAIN I = DOMAIN d.invites
        /\ I[k].used = TRUE /\ I[k].usedBy = d.invites[k].usedBy
        /\ \A i \in DOMAIN d.invites \ {k} : I[i] = d.invites[i]
    BY DEF Sound, InvitesOK
  <1> HIDE DEF I
  <1> QED
    BY <1>1, <1>2, <1>3, InvitesReplaced

LEMMA CodeReleased ==
    ASSUME NEW d, Sound(d), NEW k, NEW e, e = Released(d, k)
    PROVE  /\ Sound(e) /\ e.users = d.users
           /\ e.lastUser = d.lastUser /\ e.lastInvite = d.lastInvite
           /\ DOMAIN e.invites = DOMAIN d.invites
           /\ k \in DOMAIN d.invites /\ d.invites[k].usedBy = 0 =>
                 ~e.invites[k].used /\ e.invites[k].usedBy = 0
           /\ k \in DOMAIN d.invites /\ d.invites[k].usedBy # 0 =>
                 e.invites[k] = d.invites[k]
           /\ \A i \in DOMAIN d.invites : i # k => e.invites[i] = d.invites[i]
  <1>1. CASE k \in DOMAIN d.invites /\ d.invites[k].usedBy = 0
    <2> DEFINE I == [d.invites EXCEPT ![k] = [@ EXCEPT !.used = FALSE]]
    <2>1. Released(d, k) = [d EXCEPT !.invites = I]
      BY <1>1 DEF Released
    <2>2. InvitesOK(I, d.users, d.lastInvite)
      BY <1>1 DEF Sound, InvitesOK
    <2>3. /\ DOMAIN I = DOMAIN d.invites
          /\ I[k].used = FALSE /\ I[k].usedBy = 0
          /\ \A i \in DOMAIN d.invites \ {k} : I[i] = d.invites[i]
      BY <1>1 DEF Sound, InvitesOK
    <2> HIDE DEF I
    <2> QED
      BY <1>1, <2>1, <2>2, <2>3, InvitesReplaced
  <1>2. CASE ~(k \in DOMAIN d.invites /\ d.invites[k].usedBy = 0)
    BY <1>2 DEF Released
  <1> QED
    BY <1>1, <1>2

LEMMA CodeUsed ==
    ASSUME NEW d, Sound(d), NEW k \in DOMAIN d.invites, NEW u \in DOMAIN d.users
    PROVE  LET e == [d EXCEPT !.invites[k].usedBy = u]
           IN  /\ Sound(e) /\ e.users = d.users
               /\ e.lastUser = d.lastUser /\ e.lastInvite = d.lastInvite
               /\ DOMAIN e.invites = DOMAIN d.invites
               /\ e.invites[k].used = d.invites[k].used
               /\ \A i \in DOMAIN d.invites \ {k} : e.invites[i] = d.invites[i]
  <1> DEFINE I == [d.invites EXCEPT ![k] = [@ EXCEPT !.usedBy = u]]
  <1>1. [d EXCEPT !.invites[k].usedBy = u] = [d EXCEPT !.invites = I]
    OBVIOUS
  <1>2. InvitesOK(I, d.users, d.lastInvite)
    BY DEF Sound, InvitesOK
  <1>3. /\ DOMAIN I = DOMAIN d.invites
        /\ I[k].used = d.invites[k].used
        /\ \A i \in DOMAIN d.invites \ {k} : I[i] = d.invites[i]
    BY DEF Sound, InvitesOK
  <1> HIDE DEF I
  <1> QED
    BY <1>1, <1>2, <1>3, InvitesReplaced

LEMMA CodeExpired ==
    ASSUME NEW d, Sound(d), NEW k
    PROVE  Sound(Expired(d, k)) /\ Quiet(d, Expired(d, k))
  <1>1. CASE k \in DOMAIN d.invites
    <2> DEFINE I == [d.invites EXCEPT ![k] = [@ EXCEPT !.open = FALSE]]
    <2>1. Expired(d, k) = [d EXCEPT !.invites = I]
      BY <1>1 DEF Expired
    <2>2. InvitesOK(I, d.users, d.lastInvite)
      BY <1>1 DEF Sound, InvitesOK
    <2>3. /\ DOMAIN I = DOMAIN d.invites
          /\ \A i \in DOMAIN I : I[i].used = d.invites[i].used /\ I[i].usedBy = d.invites[i].usedBy
      BY <1>1 DEF Sound, InvitesOK
    <2> HIDE DEF I
    <2> QED
      BY <2>1, <2>2, <2>3, InvitesReplaced DEF Quiet
  <1>2. CASE k \notin DOMAIN d.invites
    BY <1>2, QuietSame DEF Expired
  <1> QED
    BY <1>1, <1>2

LEMMA CodeMade ==
    ASSUME NEW d, Sound(d), NEW k, NEW I, InvitesOK(I, d.users, k),
           NEW e, e = Db(d.users, I, d.sessions, d.lastUser, k)
    PROVE  /\ Sound(e) /\ e.users = d.users /\ e.invites = I
           /\ e.lastUser = d.lastUser /\ e.lastInvite = k
  <1>2. Sound(e)
    BY DbSound DEF Sound
  <1>3. e.invites = I /\ e.users = d.users /\ e.lastUser = d.lastUser /\ e.lastInvite = k
    BY Fields
  <1> QED
    BY <1>2, <1>3

\* The first account is the superadmin's, and the only one that is made so.
LEMMA UserAdded ==
    ASSUME NEW d, Sound(d), d.lastUser < MaxUsers
    PROVE  LET e == WithUser(d)
           IN  /\ Sound(e) /\ e.invites = d.invites
               /\ e.lastUser = d.lastUser + 1 /\ e.lastInvite = d.lastInvite
               /\ DOMAIN e.users = DOMAIN d.users \cup {d.lastUser + 1}
               /\ \A u \in DOMAIN d.users : e.users[u] = d.users[u]
  <1> DEFINE u == d.lastUser + 1
             row == [level |-> IF DOMAIN d.users = {} THEN 2 ELSE 0, by |-> 0]
             U == [v \in DOMAIN d.users \cup {u} |-> IF v = u THEN row ELSE d.users[v]]
             e == Db(U, d.invites, d.sessions, u, d.lastInvite)
  <1>0. WithUser(d) = [d EXCEPT !.users = U, !.lastUser = u]
    BY DEF WithUser
  <1>1. WithUser(d) = e
    <2> HIDE DEF U, u
    <2> QED
      BY <1>0, Replaced
  <1>2. u \notin DOMAIN d.users /\ u \in 0..MaxUsers /\ DOMAIN d.users \subseteq 1..u /\ u \in 1..u
    BY AccountsAssumption DEF Sound, UsersOK
  <1>3. /\ DOMAIN U = DOMAIN d.users \cup {u} /\ U[u] = row
        /\ \A v \in DOMAIN d.users : U[v] = d.users[v]
    BY <1>2
  <1>4. UsersOK(U, u)
    <2>1. \A v \in DOMAIN U : U[v] \in [level : 0..2, by : DOMAIN U \cup {0}]
      <3>1. row \in [level : 0..2, by : DOMAIN U \cup {0}]
        OBVIOUS
      <3>2. \A v \in DOMAIN d.users : d.users[v] \in [level : 0..2, by : DOMAIN U \cup {0}]
        BY <1>3 DEF Sound, UsersOK
      <3> QED
        BY <1>3, <3>1, <3>2
    <2>2. U = [v \in DOMAIN U |-> U[v]]
      OBVIOUS
    <2>3. Managed(U)
      <3>1. CASE DOMAIN d.users = {}
        <4>1. DOMAIN U = {u} /\ U[u].level = 2
          BY <1>3, <3>1
        <4> QED
          BY <4>1 DEF Managed
      <3>2. CASE DOMAIN d.users # {}
        <4>1. U[u].level = 0
          BY <1>3, <3>2
        <4>2. PICK s \in DOMAIN d.users : /\ d.users[s].level = 2
                                          /\ \A v \in DOMAIN d.users : d.users[v].level = 2 => v = s
          BY <3>2 DEF Sound, UsersOK, Managed
        <4> HIDE DEF U, row, u
        <4>3. s \in DOMAIN U /\ U[s].level = 2
          BY <1>3, <4>2
        <4>4. ASSUME NEW v \in DOMAIN U, U[v].level = 2 PROVE v = s
          BY <1>3, <4>1, <4>2, <4>4
        <4> QED
          BY <4>3, <4>4 DEF Managed
      <3> QED
        BY <3>1, <3>2
    <2> HIDE DEF U
    <2> QED
      BY <1>2, <1>3, <2>1, <2>2, <2>3 DEF UsersOK
  <1> HIDE DEF U
  <1>5. Sound(e)
    BY <1>3, <1>4, DbSound DEF Sound, InvitesOK, SessionsOK
  <1>6. e.invites = d.invites /\ e.users = U /\ e.lastUser = u /\ e.lastInvite = d.lastInvite
    BY Fields
  <1> HIDE DEF e
  <1> QED
    BY <1>1, <1>3, <1>5, <1>6

LEMMA InviterSet ==
    ASSUME NEW d, Sound(d), NEW u \in DOMAIN d.users, NEW by \in DOMAIN d.users \cup {0}
    PROVE  Sound([d EXCEPT !.users[u].by = by]) /\ Quiet(d, [d EXCEPT !.users[u].by = by])
  <1> DEFINE U == [d.users EXCEPT ![u] = [@ EXCEPT !.by = by]]
  <1>1. [d EXCEPT !.users[u].by = by] = [d EXCEPT !.users = U]
    OBVIOUS
  <1>2. DOMAIN U = DOMAIN d.users /\ \A v \in DOMAIN U : U[v].level = d.users[v].level
    BY DEF Sound, UsersOK
  <1>3. UsersOK(U, d.lastUser)
    <2>1. U \in [DOMAIN U -> [level : 0..2, by : DOMAIN U \cup {0}]]
      BY DEF Sound, UsersOK
    <2>2. Managed(U)
      BY <1>2 DEF Sound, UsersOK, Managed
    <2> QED
      BY <1>2, <2>1, <2>2 DEF Sound, UsersOK
  <1> HIDE DEF U
  <1> QED
    BY <1>1, <1>2, <1>3, UsersReplaced

LEMMA LevelSet ==
    ASSUME NEW d, Sound(d), NEW u \in DOMAIN d.users, d.users[u].level # 2, NEW l \in {0, 1}
    PROVE  Sound([d EXCEPT !.users[u].level = l]) /\ Quiet(d, [d EXCEPT !.users[u].level = l])
  <1> DEFINE U == [d.users EXCEPT ![u] = [@ EXCEPT !.level = l]]
  <1>1. [d EXCEPT !.users[u].level = l] = [d EXCEPT !.users = U]
    OBVIOUS
  <1>2. DOMAIN U = DOMAIN d.users /\ \A v \in DOMAIN U : U[v].level = 2 <=> d.users[v].level = 2
    BY DEF Sound, UsersOK
  <1>3. UsersOK(U, d.lastUser)
    <2>1. U \in [DOMAIN U -> [level : 0..2, by : DOMAIN U \cup {0}]]
      BY DEF Sound, UsersOK
    <2>2. Managed(U)
      BY <1>2 DEF Sound, UsersOK, Managed
    <2> QED
      BY <1>2, <2>1, <2>2 DEF Sound, UsersOK
  <1> HIDE DEF U
  <1> QED
    BY <1>1, <1>2, <1>3, UsersReplaced

LEMMA RowsDeleted ==
    ASSUME NEW d, Sound(d), NEW u, NEW table \in DOMAIN Then
    PROVE  Sound(Deleted(d, u, table)) /\ Quiet(d, Deleted(d, u, table))
  <1>1. CASE table = "sessions"
    <2> DEFINE S == {s \in d.sessions : s[2] # u}
    <2>1. Deleted(d, u, table) = [d EXCEPT !.sessions = S]
      BY <1>1 DEF Deleted
    <2>2. SessionsOK(S, d.users)
      BY DEF Sound, SessionsOK
    <2> HIDE DEF S
    <2> QED
      BY <2>1, <2>2, SessionsReplaced
  <1>2. CASE table = "invites"
    <2>1. Deleted(d, u, table) = WithoutCode(d, {k \in DOMAIN d.invites : d.invites[k].by = u})
      BY <1>2 DEF Deleted
    <2> QED
      BY <2>1, CodesWithout
  <1>3. CASE table = "used_by"
    <2> DEFINE I == [k \in DOMAIN d.invites |->
                        IF d.invites[k].usedBy = u THEN [d.invites[k] EXCEPT !.usedBy = 0] ELSE d.invites[k]]
    <2>1. Deleted(d, u, table) = [d EXCEPT !.invites = I]
      BY <1>3 DEF Deleted
    <2>2. InvitesOK(I, d.users, d.lastInvite)
      BY DEF Sound, InvitesOK
    <2>3. /\ DOMAIN I = DOMAIN d.invites
          /\ \A k \in DOMAIN I : /\ I[k].used = d.invites[k].used
                                 /\ I[k].usedBy # 0 => d.invites[k].usedBy # 0
      BY DEF Sound, InvitesOK
    <2> HIDE DEF I
    <2> QED
      BY <2>1, <2>2, <2>3, InvitesReplaced DEF Quiet
  <1>4. CASE table = "invited_by"
    <2> DEFINE U == [v \in DOMAIN d.users |->
                        IF d.users[v].by = u THEN [d.users[v] EXCEPT !.by = 0] ELSE d.users[v]]
    <2>1. Deleted(d, u, table) = [d EXCEPT !.users = U]
      BY <1>4 DEF Deleted
    <2>2. DOMAIN U = DOMAIN d.users /\ \A v \in DOMAIN U : U[v].level = d.users[v].level
      BY DEF Sound, UsersOK
    <2>3. UsersOK(U, d.lastUser)
      <3>1. U \in [DOMAIN U -> [level : 0..2, by : DOMAIN U \cup {0}]]
        BY DEF Sound, UsersOK
      <3>2. Managed(U)
        BY <2>2 DEF Sound, UsersOK, Managed
      <3> QED
        BY <2>2, <3>1, <3>2 DEF Sound, UsersOK
    <2> HIDE DEF U
    <2> QED
      BY <2>1, <2>2, <2>3, UsersReplaced
  <1> QED
    BY <1>1, <1>2, <1>3, <1>4 DEF Then

LEMMA UserRemoved ==
    ASSUME NEW d, Sound(d), NEW u, ~Referenced(d, u) \/ u \notin DOMAIN d.users,
           u \in DOMAIN d.users => d.users[u].level # 2
    PROVE  LET e == [d EXCEPT !.users = [v \in DOMAIN d.users \ {u} |-> d.users[v]]]
           IN  Sound(e) /\ Quiet(d, e)
  <1> DEFINE U == [v \in DOMAIN d.users \ {u} |-> d.users[v]]
             e == Db(U, d.invites, d.sessions, d.lastUser, d.lastInvite)
  <1>1. [d EXCEPT !.users = U] = e
    BY Replaced
  <1>2. DOMAIN U = DOMAIN d.users \ {u} /\ \A v \in DOMAIN U : U[v] = d.users[v]
    OBVIOUS
  <1>3. UsersOK(U, d.lastUser)
    <2>1. \A v \in DOMAIN U : U[v] \in [level : 0..2, by : DOMAIN U \cup {0}]
      <3>1. \A v \in DOMAIN U : d.users[v].by # u \/ u \notin DOMAIN d.users
        BY <1>2 DEF Referenced
      <3>2. \A v \in DOMAIN U : d.users[v] \in [level : 0..2, by : DOMAIN d.users \cup {0}]
        BY <1>2 DEF Sound, UsersOK
      <3>3. ASSUME NEW v \in DOMAIN U PROVE d.users[v].by \in DOMAIN U \cup {0}
        BY <1>2, <3>1, <3>2
      <3> QED
        BY <1>2, <3>2, <3>3
    <2>2. U = [v \in DOMAIN U |-> U[v]]
      OBVIOUS
    <2>3. Managed(U)
      BY <1>2 DEF Sound, UsersOK, Managed
    <2> HIDE DEF U
    <2> QED
      BY <1>2, <2>1, <2>2, <2>3 DEF Sound, UsersOK
  <1> HIDE DEF U
  <1>4. InvitesOK(d.invites, U, d.lastInvite)
    <2>1. ASSUME NEW k \in DOMAIN d.invites
          PROVE  d.invites[k] \in [by : DOMAIN U, used : BOOLEAN, usedBy : DOMAIN U \cup {0}, open : BOOLEAN]
      <3>1. d.invites[k] \in [by : DOMAIN d.users, used : BOOLEAN, usedBy : DOMAIN d.users \cup {0},
                              open : BOOLEAN]
        BY DEF Sound, InvitesOK
      <3>2. u \in DOMAIN d.users => u # d.invites[k].by /\ u # d.invites[k].usedBy
        BY DEF Referenced
      <3> QED
        BY <1>2, <3>1, <3>2
    <2> QED
      BY <2>1 DEF Sound, InvitesOK
  <1>5. SessionsOK(d.sessions, U)
    <2>1. ASSUME NEW s \in d.sessions PROVE s \in Client \X DOMAIN U
      <3>1. s \in Client \X DOMAIN d.users
        BY DEF Sound, SessionsOK
      <3>2. u \in DOMAIN d.users => s[2] # u
        BY DEF Referenced
      <3> QED
        BY <1>2, <3>1, <3>2
    <2> QED
      BY <2>1 DEF SessionsOK
  <1>6. Sound(e)
    BY <1>3, <1>4, <1>5, DbSound
  <1>7. /\ e.invites = d.invites /\ e.users = U
        /\ e.lastUser = d.lastUser /\ e.lastInvite = d.lastInvite
    BY Fields
  <1> HIDE DEF e
  <1>8. Quiet(d, e)
    BY <1>2, <1>7 DEF Quiet
  <1> QED
    BY <1>1, <1>6, <1>8 DEF U

-----------------------------------------------------------------------------
(* The invariant *)

Holding == {"claimed", "enrol", "release"}
Targeting == {"promote", "demote", "users"} \cup DOMAIN Then

\* The codes that are out of circulation for a registration that goes on.
Held == {req[c].code : c \in {x \in Client : req[x].at \in Holding}} \ {0}

ReqTypes ==
    /\ req \in [Client -> Request] /\ invite_only \in BOOLEAN
    /\ admitted \in [Code -> 0..1] /\ burnt \subseteq Code

\* Ids are given out on both at once.
LastInv == disk.lastUser = db.lastUser /\ disk.lastInvite = db.lastInvite

\* Whoever a handler is about to promote, demote or delete is no superadmin and,
\* as ids are never given twice, will not be one.
TargetInv ==
    \A c \in Client : req[c].at \in Targeting =>
        /\ req[c].user <= db.lastUser
        /\ req[c].user \in DOMAIN db.users => db.users[req[c].user].level # 2

\* A code is held for one registration at a time, and has let nobody in yet.
HoldInv ==
    /\ \A c \in Client : req[c].code <= db.lastInvite
    /\ \A c \in Client : req[c].at \in {"claimed", "release", "assign"} => req[c].code # 0
    /\ \A c \in Client : req[c].at = "assign" => admitted[req[c].code] = 1
    /\ \A k \in Held : admitted[k] = 0
    /\ \A c, e \in Client :
          /\ req[c].at \in Holding /\ req[e].at \in Holding
          /\ req[c].code # 0 /\ req[e].code = req[c].code
          => e = c
    /\ \A k \in Code : k > db.lastInvite => admitted[k] = 0

\* What a database says of its codes, given how many accounts each has made and
\* which are held or lost.
CodesOK(d, made, held, lost) ==
    \A k \in DOMAIN d.invites :
        /\ ~d.invites[k].used => made[k] = 0 /\ k \notin held
        /\ d.invites[k].used /\ made[k] = 0 => k \in held \cup lost
        /\ d.invites[k].usedBy # 0 => made[k] = 1

Inv ==
    /\ Sound(db) /\ Sound(disk)
    /\ ReqTypes /\ LastInv /\ TargetInv /\ HoldInv
    /\ CodesOK(db, admitted, Held, burnt) /\ CodesOK(disk, admitted, Held, burnt)

LEMMA IdleIsRequest == Idle \in Request /\ Idle.code = 0 /\ Idle.at = "idle"
  BY DEF Idle, Request

LEMMA InitInv == Init => Inv
  <1> SUFFICES ASSUME Init PROVE Inv
    OBVIOUS
  <1>1. Sound(db) /\ Sound(disk)
    BY EmptySound DEF Init
  <1>2. ReqTypes
    <2>1. req \in [Client -> Request]
      BY IdleIsRequest DEF Init
    <2>2. admitted \in [Code -> 0..1] /\ burnt \subseteq Code
      BY DEF Init
    <2>3. invite_only \in BOOLEAN
      BY DEF Init
    <2> QED
      BY <2>1, <2>2, <2>3 DEF ReqTypes
  <1>3. LastInv /\ db.lastInvite = 0 /\ DOMAIN db.invites = {} /\ DOMAIN disk.invites = {}
    BY DEF Init, LastInv, Empty
  <1>4. \A c \in Client : req[c].at = "idle" /\ req[c].code = 0
    BY IdleIsRequest DEF Init
  <1>5. TargetInv
    BY <1>4 DEF TargetInv, Targeting, Then
  <1>6. Held = {}
    BY <1>4 DEF Held, Holding
  <1>7. HoldInv
    BY <1>3, <1>4, <1>6 DEF HoldInv, Holding, Init
  <1>8. CodesOK(db, admitted, Held, burnt) /\ CodesOK(disk, admitted, Held, burnt)
    BY <1>3 DEF CodesOK
  <1> QED
    BY <1>1, <1>2, <1>3, <1>5, <1>7, <1>8 DEF Inv

LEMMA CodesKept ==
    ASSUME NEW d, NEW e, NEW made, NEW held, NEW lost, NEW held2, NEW lost2,
           CodesOK(d, made, held, lost), Quiet(d, e),
           held2 \subseteq held, held \subseteq held2 \cup lost2, lost \subseteq lost2
    PROVE  CodesOK(e, made, held2, lost2)
  BY DEF CodesOK, Quiet

\* A step of one handler that lets nobody in and takes no code.
LEMMA Plain ==
    ASSUME Inv, NEW c \in Client, NEW r \in Request, req' = [req EXCEPT ![c] = r],
           admitted' = admitted, invite_only' \in BOOLEAN,
           burnt \subseteq burnt', burnt' \subseteq Code,
           Sound(db'), Quiet(db, db'), disk' = disk \/ disk' = db',
           r.at \in Targeting => /\ r.user <= db.lastUser
                                 /\ r.user \in DOMAIN db'.users => db'.users[r.user].level # 2,
           r.at = "assign" => req[c].at = "assign",
           r.at \in Holding => req[c].at \in Holding,
           r.code = req[c].code \/ (r.code = 0 /\ r.at \notin Holding \cup {"assign"}),
           r.at \in {"claimed", "release", "assign"} => r.code # 0,
           req[c].at \in Holding /\ req[c].code # 0 =>
              r.at \in Holding \/ req[c].code \in burnt'
    PROVE  Inv'
  <1>0. /\ req'[c] = r /\ \A e \in Client : e # c => req'[e] = req[e]
        /\ req' \in [Client -> Request]
    BY DEF Inv, ReqTypes
  <1>1. ReqTypes'
    BY <1>0 DEF Inv, ReqTypes
  <1>2. LastInv' /\ db'.lastUser = db.lastUser /\ db'.lastInvite = db.lastInvite
    BY DEF Inv, LastInv, Quiet
  <1>3. TargetInv'
    <2> SUFFICES ASSUME NEW e \in Client, req'[e].at \in Targeting
                 PROVE  /\ req'[e].user <= db'.lastUser
                        /\ req'[e].user \in DOMAIN db'.users => db'.users[req'[e].user].level # 2
      BY DEF TargetInv, Targeting
    <2>1. CASE e = c
      BY <1>0, <1>2, <2>1
    <2>2. CASE e # c
      BY <1>0, <1>2, <2>2 DEF Inv, TargetInv, Quiet
    <2> QED
      BY <2>1, <2>2
  <1>4. Held' \subseteq Held
    BY <1>0 DEF Held
  <1>5. Held \subseteq Held' \cup burnt'
    <2> SUFFICES ASSUME NEW k \in Held PROVE k \in Held' \cup burnt'
      OBVIOUS
    <2>1. PICK e \in Client : req[e].at \in Holding /\ req[e].code = k /\ k # 0
      BY DEF Held
    <2>2. CASE e = c
      BY <1>0, <2>1, <2>2 DEF Held
    <2>3. CASE e # c
      BY <1>0, <2>1, <2>3 DEF Held
    <2> QED
      BY <2>2, <2>3
  <1>6. HoldInv'
    <2>1. \A e \in Client : req'[e].code = req[e].code \/ req'[e].code = 0
      BY <1>0
    <2>2. \A e \in Client : req'[e].at \in {"claimed", "release", "assign"} => req'[e].code # 0
      BY <1>0 DEF Inv, HoldInv
    <2>3. \A e \in Client : req'[e].at = "assign" => admitted[req'[e].code] = 1
      BY <1>0 DEF Inv, HoldInv
    <2>4. \A x, e \in Client :
             /\ req'[x].at \in Holding /\ req'[e].at \in Holding
             /\ req'[x].code # 0 /\ req'[e].code = req'[x].code
             => e = x
      BY <1>0 DEF Inv, HoldInv
    <2>5. 0 <= db.lastInvite
      BY DEF Inv, Sound, InvitesOK
    <2> QED
      BY <1>2, <1>4, <2>1, <2>2, <2>3, <2>4, <2>5 DEF Inv, HoldInv
  <1>7. CodesOK(db', admitted, Held', burnt')
    BY <1>4, <1>5, CodesKept DEF Inv
  <1>8. CodesOK(disk', admitted, Held', burnt')
    <2>1. CASE disk' = db'
      BY <1>7, <2>1
    <2>2. CASE disk' = disk
      BY <1>4, <1>5, <2>2, CodesKept, QuietSame DEF Inv
    <2> QED
      BY <2>1, <2>2
  <1>9. Sound(disk')
    BY DEF Inv
  <1> QED
    BY <1>1, <1>2, <1>3, <1>6, <1>7, <1>8, <1>9 DEF Inv

-----------------------------------------------------------------------------
(* The steps that take a code, use it or give it back *)

LEMMA RequestParts ==
    ASSUME Inv, NEW c \in Client
    PROVE  /\ req[c] \in Request /\ req[c].code \in Code \cup {0} /\ req[c].user \in User \cup {0}
           /\ req[c].code <= db.lastInvite
  BY DEF Inv, ReqTypes, Request, HoldInv

LEMMA Numbers ==
    ASSUME Inv
    PROVE  /\ db.lastUser \in 0..MaxUsers /\ db.lastInvite \in 0..MaxInvites
           /\ DOMAIN db.users \subseteq 1..db.lastUser /\ DOMAIN db.users \subseteq User
           /\ DOMAIN db.invites \subseteq 1..db.lastInvite /\ DOMAIN db.invites \subseteq Code
  BY AccountsAssumption DEF Inv, Sound, UsersOK, InvitesOK, User, Code

\* What the others hold does not change with c.
LEMMA HeldNext ==
    ASSUME Inv, NEW c \in Client, NEW r, req' = [req EXCEPT ![c] = r]
    PROVE  /\ req'[c] = r /\ \A e \in Client : e # c => req'[e] = req[e]
           /\ r.at \in Holding /\ r.code # 0 => Held' \subseteq Held \cup {r.code} /\ r.code \in Held'
           /\ r.at \notin Holding => Held' \subseteq Held
           /\ req[c].at \in Holding /\ req[c].code # 0 => req[c].code \in Held
           /\ req[c].at \in Holding => Held \ {req[c].code} \subseteq Held'
           /\ req[c].at \notin Holding => Held \subseteq Held'
           /\ r.at \notin Holding /\ req[c].at \in Holding => req[c].code \notin Held'
  <1>1. req'[c] = r /\ \A e \in Client : e # c => req'[e] = req[e]
    BY DEF Inv, ReqTypes
  <1>2. r.at \in Holding /\ r.code # 0 => Held' \subseteq Held \cup {r.code} /\ r.code \in Held'
    BY <1>1 DEF Held
  <1>3. r.at \notin Holding => Held' \subseteq Held
    BY <1>1 DEF Held
  <1>4. req[c].at \in Holding /\ req[c].code # 0 => req[c].code \in Held
    BY DEF Held
  <1>5. req[c].at \in Holding => Held \ {req[c].code} \subseteq Held'
    BY <1>1 DEF Held
  <1>6. req[c].at \notin Holding => Held \subseteq Held'
    BY <1>1 DEF Held
  <1>7. r.at \notin Holding /\ req[c].at \in Holding => req[c].code \notin Held'
    BY <1>1 DEF Held, Inv, HoldInv
  <1> QED
    BY <1>1, <1>2, <1>3, <1>4, <1>5, <1>6, <1>7

LEMMA ClaimNext ==
    ASSUME Inv, NEW c \in Client, NEW k \in DOMAIN db.invites, ~db.invites[k].used,
           req[c].at = "idle", Committed(TakenFrom(db, k)),
           Goto(c, [Idle EXCEPT !.at = "claimed", !.code = k]),
           UNCHANGED <<invite_only, admitted, burnt>>
    PROVE  Inv'
  <1> DEFINE r == [Idle EXCEPT !.at = "claimed", !.code = k]
  <1>1. r \in Request /\ r.at = "claimed" /\ r.code = k /\ k \in Code /\ k # 0 /\ k <= db.lastInvite
    <2>1. k \in Code /\ k # 0 /\ k <= db.lastInvite
      BY Numbers DEF Code
    <2>2. r = [at |-> "claimed", me |-> 0, level |-> 0, code |-> k, user |-> 0]
      <3>1. [Idle EXCEPT !.at = "claimed"] = [at |-> "claimed", me |-> 0, level |-> 0, code |-> 0, user |-> 0]
        BY DEF Idle
      <3>2. r = [[Idle EXCEPT !.at = "claimed"] EXCEPT !.code = k]
        OBVIOUS
      <3>3. [[at |-> "claimed", me |-> 0, level |-> 0, code |-> 0, user |-> 0] EXCEPT !.code = k] =
               [at |-> "claimed", me |-> 0, level |-> 0, code |-> k, user |-> 0]
        OBVIOUS
      <3> HIDE DEF r
      <3> QED
        BY <3>1, <3>2, <3>3
    <2> HIDE DEF r
    <2>3. r \in Request
      BY <2>1, <2>2 DEF Request
    <2> QED
      BY <2>1, <2>2, <2>3
  <1>2. req' = [req EXCEPT ![c] = r]
    BY DEF Goto
  <1> HIDE DEF r
  <1>3. /\ req'[c] = r /\ \A e \in Client : e # c => req'[e] = req[e]
        /\ Held' = Held \cup {k}
    <2>1. r.at \in Holding /\ req[c].at \notin Holding
      BY <1>1 DEF Holding
    <2>2. req'[c] = r /\ \A e \in Client : e # c => req'[e] = req[e]
      BY <1>2, HeldNext
    <2>3. Held' \subseteq Held \cup {k} /\ k \in Held' /\ Held \subseteq Held'
      BY <1>1, <1>2, <2>1, HeldNext
    <2> QED
      BY <2>2, <2>3
  <1>4. /\ Sound(db') /\ db'.users = db.users
        /\ db'.lastUser = db.lastUser /\ db'.lastInvite = db.lastInvite
        /\ DOMAIN db'.invites = DOMAIN db.invites
        /\ db'.invites[k].used = TRUE /\ db'.invites[k].usedBy = db.invites[k].usedBy
        /\ \A i \in DOMAIN db.invites \ {k} : db'.invites[i] = db.invites[i]
    BY CodeTaken DEF Committed, Inv
  <1>5. disk' = db'
    BY DEF Committed
  <1>6. admitted[k] = 0 /\ k \notin Held
    BY DEF Inv, CodesOK
  <1>7. ReqTypes'
    BY <1>1, <1>2 DEF Inv, ReqTypes
  <1>8. LastInv'
    BY <1>5 DEF LastInv
  <1>9. TargetInv'
    BY <1>1, <1>3, <1>4 DEF Inv, TargetInv, Targeting, Then
  <1>10. HoldInv'
    <2>1. \A e \in Client : req'[e].code <= db'.lastInvite
      BY <1>1, <1>3, <1>4 DEF Inv, HoldInv
    <2>2. \A e \in Client : req'[e].at \in {"claimed", "release", "assign"} => req'[e].code # 0
      BY <1>1, <1>3 DEF Inv, HoldInv
    <2>3. \A e \in Client : req'[e].at = "assign" => admitted[req'[e].code] = 1
      BY <1>1, <1>3 DEF Inv, HoldInv
    <2>4. \A i \in Held' : admitted[i] = 0
      BY <1>3, <1>6 DEF Inv, HoldInv
    <2>5. \A x, e \in Client :
             /\ req'[x].at \in Holding /\ req'[e].at \in Holding
             /\ req'[x].code # 0 /\ req'[e].code = req'[x].code
             => e = x
      <3>1. \A e \in Client : e # c /\ req'[e].at \in Holding => req'[e].code # k
        BY <1>1, <1>3, <1>6 DEF Held
      <3> QED
        BY <1>1, <1>3, <3>1 DEF Inv, HoldInv
    <2> QED
      BY <1>4, <2>1, <2>2, <2>3, <2>4, <2>5 DEF Inv, HoldInv
  <1>11. CodesOK(db', admitted, Held', burnt)
    BY <1>3, <1>4, <1>6 DEF Inv, CodesOK
  <1> QED
    BY <1>4, <1>5, <1>7, <1>8, <1>9, <1>10, <1>11 DEF Inv

LEMMA EnrolNext == ASSUME Inv, NEW c \in Client, Enrol(c) PROVE Inv'
  <1> DEFINE k == req[c].code
             u == db.lastUser + 1
             next == IF k = 0 THEN "session" ELSE "assign"
             r == [req[c] EXCEPT !.at = next, !.user = u]
  <1>1. r \in Request /\ r.code = k /\ r.at = next
    <2>1. u \in User
      BY Numbers, AccountsAssumption DEF Enrol, User
    <2>2. next \in {"session", "assign"}
      OBVIOUS
    <2>3. req[c] \in Request
      BY RequestParts
    <2> HIDE DEF next, u
    <2>4. ASSUME NEW q, q = req[c]
          PROVE  LET s == [q EXCEPT !.at = next, !.user = u]
                 IN  s \in Request /\ s.code = q.code /\ s.at = next
      BY <2>1, <2>2, <2>3, <2>4 DEF Request
    <2> QED
      BY <2>4
  <1>2. req' = [req EXCEPT ![c] = r] /\ req[c].at = "enrol"
    BY DEF Enrol, Goto
  <1> HIDE DEF r
  <1>3. /\ req'[c] = r /\ \A e \in Client : e # c => req'[e] = req[e]
        /\ Held' = Held \ {k}
    <2>1. r.at \notin Holding /\ req[c].at \in Holding
      BY <1>1, <1>2 DEF Holding
    <2>2. Held' \subseteq Held /\ Held \ {k} \subseteq Held' /\ k \notin Held'
      BY <1>2, <2>1, HeldNext
    <2>3. req'[c] = r /\ \A e \in Client : e # c => req'[e] = req[e]
      BY <1>2, HeldNext
    <2> QED
      BY <2>2, <2>3
  <1>4. /\ Sound(db') /\ db'.invites = db.invites
        /\ db'.lastUser = u /\ db'.lastInvite = db.lastInvite
        /\ DOMAIN db'.users = DOMAIN db.users \cup {u}
        /\ \A v \in DOMAIN db.users : db'.users[v] = db.users[v]
        /\ disk' = db'
    BY UserAdded DEF Committed, Inv, Enrol
  <1>5. admitted' = [i \in Code |-> IF i = k THEN admitted[i] + 1 ELSE admitted[i]]
    BY DEF Enrol
  <1>6. k # 0 => k \in Held /\ k \in Code /\ admitted[k] = 0 /\ admitted'[k] = 1
    <2>1. k # 0 => k \in Held /\ k \in Code
      BY <1>2, RequestParts DEF Held, Holding
    <2> QED
      BY <1>5, <2>1 DEF Inv, HoldInv
  <1>7. \A i \in Code : i # k => admitted'[i] = admitted[i]
    BY <1>5
  <1>8. admitted' \in [Code -> 0..1]
    <2>1. \A i \in Code : admitted'[i] \in 0..1
      BY <1>6, <1>7 DEF Inv, ReqTypes, Code
    <2> QED
      BY <1>5, <2>1
  <1>9. ReqTypes'
    BY <1>1, <1>2, <1>8 DEF Inv, ReqTypes, Enrol, memory
  <1>10. LastInv'
    BY <1>4 DEF LastInv
  <1>11. TargetInv'
    <2> SUFFICES ASSUME NEW e \in Client, req'[e].at \in Targeting
                 PROVE  /\ req'[e].user <= db'.lastUser
                        /\ req'[e].user \in DOMAIN db'.users => db'.users[req'[e].user].level # 2
      BY DEF TargetInv, Targeting
    <2>1. e # c /\ req'[e] = req[e]
      BY <1>1, <1>3 DEF Targeting, Then
    <2>2. req[e].user \in User \cup {0}
      BY RequestParts
    <2>3. req[e].user <= db.lastUser /\ (req[e].user \in DOMAIN db.users => db.users[req[e].user].level # 2)
      BY <2>1 DEF Inv, TargetInv
    <2>4. req[e].user # u
      BY <2>2, <2>3, Numbers DEF User
    <2> QED
      BY <1>4, <2>1, <2>2, <2>3, <2>4, Numbers DEF User
  <1>12. HoldInv'
    <2>1. \A e \in Client : req'[e].code <= db'.lastInvite
      BY <1>1, <1>3, <1>4 DEF Inv, HoldInv
    <2>2. \A e \in Client : req'[e].at \in {"claimed", "release", "assign"} => req'[e].code # 0
      BY <1>1, <1>3 DEF Inv, HoldInv
    <2>3. \A e \in Client : req'[e].at = "assign" => admitted'[req'[e].code] = 1
      <3>1. r.at = "assign" => admitted'[r.code] = 1
        BY <1>1, <1>6
      <3>2. \A e \in Client : e # c /\ req[e].at = "assign" =>
               /\ req[e].code \in Code /\ admitted[req[e].code] = 1 /\ req[e].code # k
        BY <1>6, RequestParts DEF Inv, HoldInv
      <3> QED
        BY <1>3, <1>7, <3>1, <3>2
    <2>4. \A i \in Held' : admitted'[i] = 0
      <3>1. Held \subseteq Code
        BY RequestParts DEF Held
      <3> QED
        BY <1>3, <1>7, <3>1 DEF Inv, HoldInv
    <2>5. \A x, e \in Client :
             /\ req'[x].at \in Holding /\ req'[e].at \in Holding
             /\ req'[x].code # 0 /\ req'[e].code = req'[x].code
             => e = x
      <3>1. req'[c].at \notin Holding
        BY <1>1, <1>3 DEF Holding
      <3> QED
        BY <1>3, <3>1 DEF Inv, HoldInv
    <2>6. \A i \in Code : i > db'.lastInvite => admitted'[i] = 0
      <3>1. ~(k > db.lastInvite)
        BY RequestParts, Numbers DEF Code
      <3> QED
        BY <1>4, <1>7, <3>1 DEF Inv, HoldInv
    <2> QED
      BY <2>1, <2>2, <2>3, <2>4, <2>5, <2>6 DEF HoldInv
  <1>13. CodesOK(db', admitted', Held', burnt')
    <2>1. burnt' = burnt
      BY DEF Enrol
    <2> SUFFICES ASSUME NEW i \in DOMAIN db.invites
                 PROVE  /\ ~db.invites[i].used => admitted'[i] = 0 /\ i \notin Held'
                        /\ db.invites[i].used /\ admitted'[i] = 0 => i \in Held' \cup burnt
                        /\ db.invites[i].usedBy # 0 => admitted'[i] = 1
      BY <1>4, <2>1 DEF CodesOK
    <2>2. i \in Code /\ i # 0
      BY Numbers DEF Code
    <2>3. CASE i = k
      BY <1>6, <2>2, <2>3 DEF Inv, CodesOK
    <2>4. CASE i # k
      BY <1>3, <1>7, <2>2, <2>4 DEF Inv, CodesOK
    <2> QED
      BY <2>3, <2>4
  <1> QED
    BY <1>4, <1>9, <1>10, <1>11, <1>12, <1>13 DEF Inv

LEMMA ReleaseNext == ASSUME Inv, NEW c \in Client, Release(c) PROVE Inv'
  <1> DEFINE k == req[c].code
  <1>1. req' = [req EXCEPT ![c] = Idle] /\ req[c].at = "release" /\ k # 0 /\ k \in Code
    BY RequestParts DEF Release, Done, Goto, Inv, HoldInv
  <1>2. /\ req'[c] = Idle /\ \A e \in Client : e # c => req'[e] = req[e]
        /\ Held' = Held \ {k} /\ k \in Held
    <2>1. Idle.at \notin Holding /\ req[c].at \in Holding
      BY <1>1, IdleIsRequest DEF Holding
    <2>2. Held' \subseteq Held /\ Held \ {k} \subseteq Held' /\ k \notin Held' /\ k \in Held
      BY <1>1, <2>1, HeldNext
    <2>3. req'[c] = Idle /\ \A e \in Client : e # c => req'[e] = req[e]
      BY <1>1, HeldNext
    <2> QED
      BY <2>2, <2>3
  <1>3. /\ Sound(db') /\ db'.users = db.users
        /\ db'.lastUser = db.lastUser /\ db'.lastInvite = db.lastInvite
        /\ DOMAIN db'.invites = DOMAIN db.invites
        /\ k \in DOMAIN db.invites /\ db.invites[k].usedBy = 0 =>
              ~db'.invites[k].used /\ db'.invites[k].usedBy = 0
        /\ \A i \in DOMAIN db.invites : i # k => db'.invites[i] = db.invites[i]
    <2>1. db' = Released(db, k) /\ Sound(db)
      BY DEF Committed, Inv, Release
    <2> HIDE DEF k
    <2>2. Sound(db') /\ db'.users = db.users /\ db'.lastUser = db.lastUser /\ db'.lastInvite = db.lastInvite
      BY <2>1, CodeReleased
    <2>3. DOMAIN db'.invites = DOMAIN db.invites
      BY <2>1, CodeReleased
    <2>4. k \in DOMAIN db.invites /\ db.invites[k].usedBy = 0 =>
              ~db'.invites[k].used /\ db'.invites[k].usedBy = 0
      BY <2>1, CodeReleased
    <2>5. \A i \in DOMAIN db.invites : i # k => db'.invites[i] = db.invites[i]
      BY <2>1, CodeReleased
    <2> QED
      BY <2>2, <2>3, <2>4, <2>5
  <1>4. disk' = db' /\ invite_only' = invite_only /\ admitted' = admitted /\ burnt' = burnt
    BY DEF Committed, Release, memory
  <1>5. admitted[k] = 0 /\ (k \in DOMAIN db.invites => db.invites[k].usedBy = 0)
    BY <1>2 DEF Inv, HoldInv, CodesOK
  <1>6. ReqTypes'
    BY <1>1, <1>4, IdleIsRequest DEF Inv, ReqTypes
  <1>7. LastInv'
    BY <1>4 DEF LastInv
  <1>8. TargetInv'
    BY <1>2, <1>3, IdleIsRequest DEF Inv, TargetInv, Targeting, Then
  <1>9. HoldInv'
    <2>1. \A e \in Client : req'[e].code <= db'.lastInvite
      BY <1>2, <1>3, IdleIsRequest, Numbers DEF Inv, HoldInv
    <2>2. \A e \in Client : req'[e].at \in {"claimed", "release", "assign"} => req'[e].code # 0
      BY <1>2, IdleIsRequest DEF Inv, HoldInv
    <2>3. \A e \in Client : req'[e].at = "assign" => admitted[req'[e].code] = 1
      BY <1>2, IdleIsRequest DEF Inv, HoldInv
    <2>4. \A x, e \in Client :
             /\ req'[x].at \in Holding /\ req'[e].at \in Holding
             /\ req'[x].code # 0 /\ req'[e].code = req'[x].code
             => e = x
      BY <1>2, IdleIsRequest DEF Inv, HoldInv, Holding
    <2> QED
      BY <1>2, <1>3, <1>4, <2>1, <2>2, <2>3, <2>4 DEF Inv, HoldInv
  <1>10. CodesOK(db', admitted, Held', burnt)
    BY <1>2, <1>3, <1>5 DEF Inv, CodesOK
  <1> QED
    BY <1>3, <1>4, <1>6, <1>7, <1>8, <1>9, <1>10 DEF Inv

LEMMA AssignNext == ASSUME Inv, NEW c \in Client, AssignCode(c), req[c].user \in DOMAIN db.users PROVE Inv'
  <1> DEFINE k == req[c].code
             u == req[c].user
             r == [req[c] EXCEPT !.at = "introduce"]
  <1>1. /\ req[c].at = "assign" /\ req' = [req EXCEPT ![c] = r] /\ disk' = disk
        /\ db' = IF k \in DOMAIN db.invites THEN [db EXCEPT !.invites[k].usedBy = u] ELSE db
        /\ invite_only' = invite_only /\ admitted' = admitted /\ burnt' = burnt
    BY DEF AssignCode, Exists, Known, Uncommitted, At, Goto, memory
  <1>2. r \in Request /\ r.code = k /\ r.at = "introduce" /\ k # 0 /\ admitted[k] = 1
    <2>1. req[c] \in Request
      BY RequestParts
    <2> QED
      BY <1>1, <2>1 DEF Request, Inv, HoldInv
  <1> HIDE DEF r
  <1>3. req'[c] = r /\ \A e \in Client : e # c => req'[e] = req[e]
    BY <1>1, HeldNext
  <1>4. Held' = Held
    <2>1. req[c].at \notin Holding /\ r.at \notin Holding
      BY <1>1, <1>2 DEF Holding
    <2> QED
      BY <1>1, <2>1, HeldNext
  <1>5. /\ Sound(db') /\ db'.users = db.users
        /\ db'.lastUser = db.lastUser /\ db'.lastInvite = db.lastInvite
        /\ DOMAIN db'.invites = DOMAIN db.invites
        /\ \A i \in DOMAIN db.invites : db'.invites[i].used = db.invites[i].used
        /\ \A i \in DOMAIN db.invites : i # k => db'.invites[i] = db.invites[i]
    <2>1. Sound(db)
      BY DEF Inv
    <2>2. CASE k \in DOMAIN db.invites
      <3>1. db' = [db EXCEPT !.invites[k].usedBy = u]
        BY <1>1, <2>2
      <3> HIDE DEF k, u
      <3> QED
        BY <2>1, <2>2, <3>1, CodeUsed DEF u
    <2>3. CASE k \notin DOMAIN db.invites
      BY <1>1, <2>1, <2>3
    <2> QED
      BY <2>2, <2>3
  <1>6. ReqTypes' /\ LastInv'
    BY <1>1, <1>2, <1>5 DEF Inv, ReqTypes, LastInv
  <1>7. TargetInv'
    BY <1>2, <1>3, <1>5 DEF Inv, TargetInv, Targeting, Then
  <1>8. HoldInv'
    <2>1. \A e \in Client : req'[e].code = req[e].code
      BY <1>2, <1>3
    <2>2. \A e \in Client : req'[e].at \in Holding \cup {"assign"} => e # c /\ req'[e] = req[e]
      BY <1>2, <1>3 DEF Holding
    <2> QED
      BY <1>1, <1>4, <1>5, <2>1, <2>2 DEF Inv, HoldInv, Holding
  <1>9. CodesOK(db', admitted, Held, burnt)
    BY <1>2, <1>5 DEF Inv, CodesOK
  <1>10. Sound(disk) /\ CodesOK(disk, admitted, Held, burnt)
    BY DEF Inv
  <1> QED
    BY <1>1, <1>4, <1>5, <1>6, <1>7, <1>8, <1>9, <1>10 DEF Inv

LEMMA InviteNext ==
    ASSUME Inv, NEW c \in Client, CreateInvite(c), req[c].me \in DOMAIN db.users
    PROVE  Inv'
  <1> DEFINE k == db.lastInvite + 1
             swept == {i \in DOMAIN db.invites : ~db.invites[i].used /\ ~db.invites[i].open}
             kept == [i \in DOMAIN db.invites \ swept |-> db.invites[i]]
             new == [by |-> req[c].me, used |-> FALSE, usedBy |-> 0, open |-> TRUE]
             I == [i \in DOMAIN kept \cup {k} |-> IF i = k THEN new ELSE kept[i]]
  <1>1. /\ req[c].at = "entered" /\ req' = [req EXCEPT ![c] = Idle] /\ disk' = db' /\ k \in Code
        /\ invite_only' = invite_only /\ admitted' = admitted /\ burnt' = burnt
    BY DEF CreateInvite, Exists, Committed, Done, Goto, memory
  <1>2. /\ Sound(db') /\ db'.users = db.users
        /\ db'.lastUser = db.lastUser /\ db'.lastInvite = k
        /\ k \in DOMAIN db'.invites /\ db'.invites[k] = new
        /\ \A i \in DOMAIN db'.invites \ {k} : i \in DOMAIN db.invites /\ db'.invites[i] = db.invites[i]
    <2>1. Sound(db)
      BY DEF Inv
    <2>2. db' = [db EXCEPT !.lastInvite = k, !.invites = I]
      BY <1>1 DEF CreateInvite, Committed, Exists
    <2>3. /\ k \in DOMAIN I /\ I[k] = new
          /\ \A i \in DOMAIN I : i # k => i \in DOMAIN db.invites /\ I[i] = db.invites[i]
      OBVIOUS
    <2>4. InvitesOK(I, db.users, k)
      <3>1. k \in 0..MaxInvites /\ DOMAIN I \subseteq 1..k
        <4>1. DOMAIN I \subseteq DOMAIN db.invites \cup {k}
          BY <2>3
        <4> QED
          BY <1>1, <4>1, Numbers DEF Code
      <3>2. \A i \in DOMAIN I : I[i] \in [by : DOMAIN db.users, used : BOOLEAN,
                                          usedBy : DOMAIN db.users \cup {0}, open : BOOLEAN]
        <4>1. \A i \in DOMAIN db.invites : db.invites[i] \in [by : DOMAIN db.users, used : BOOLEAN,
                                          usedBy : DOMAIN db.users \cup {0}, open : BOOLEAN]
          BY <2>1 DEF Sound, InvitesOK
        <4>2. new \in [by : DOMAIN db.users, used : BOOLEAN, usedBy : DOMAIN db.users \cup {0}, open : BOOLEAN]
          OBVIOUS
        <4> HIDE DEF I, new
        <4> QED
          BY <2>3, <4>1, <4>2
      <3>3. I = [i \in DOMAIN I |-> I[i]]
        OBVIOUS
      <3> HIDE DEF I
      <3> QED
        BY <3>1, <3>2, <3>3 DEF InvitesOK
    <2> HIDE DEF I, k
    <2>5. db' = Db(db.users, I, db.sessions, db.lastUser, k)
      BY <2>1, <2>2, ReplacedNewest
    <2>6. /\ Sound(db') /\ db'.users = db.users /\ db'.invites = I
          /\ db'.lastUser = db.lastUser /\ db'.lastInvite = k
      BY <2>1, <2>4, <2>5, CodeMade
    <2> QED
      BY <2>3, <2>6 DEF k
  <1>3. req'[c] = Idle /\ \A e \in Client : e # c => req'[e] = req[e]
    BY <1>1, HeldNext
  <1>4. Held' = Held
    <2>1. req[c].at \notin Holding /\ Idle.at \notin Holding
      BY <1>1, IdleIsRequest DEF Holding
    <2> QED
      BY <1>1, <2>1, HeldNext
  <1>5. admitted[k] = 0 /\ k \notin Held
    <2>1. k > db.lastInvite /\ \A e \in Client : req[e].code # k
      BY Numbers, RequestParts DEF Code
    <2> QED
      BY <1>1, <2>1 DEF Inv, HoldInv, Held
  <1>6. ReqTypes' /\ LastInv'
    BY <1>1, IdleIsRequest DEF Inv, ReqTypes, LastInv
  <1>7. TargetInv'
    BY <1>2, <1>3, IdleIsRequest DEF Inv, TargetInv, Targeting, Then
  <1>8. HoldInv'
    <2>1. \A e \in Client : req'[e].code <= db'.lastInvite
      <3>1. \A e \in Client : req[e].code <= k /\ 0 <= k
        BY Numbers, RequestParts DEF Code
      <3> QED
        BY <1>2, <1>3, <3>1, IdleIsRequest
    <2>2. \A e \in Client : req'[e].at \in Holding \cup {"assign"} => e # c /\ req'[e] = req[e]
      BY <1>3, IdleIsRequest DEF Holding
    <2>3. \A i \in Code : i > k => i > db.lastInvite
      BY Numbers DEF Code
    <2> QED
      BY <1>1, <1>2, <1>4, <2>1, <2>2, <2>3 DEF Inv, HoldInv, Holding
  <1>9. CodesOK(db', admitted, Held, burnt)
    BY <1>2, <1>5 DEF Inv, CodesOK
  <1> QED
    BY <1>1, <1>2, <1>4, <1>6, <1>7, <1>8, <1>9 DEF Inv

-----------------------------------------------------------------------------
(* The other steps *)

\* A handler that ends, with what it held lost or not held at all.
LEMMA Ends ==
    ASSUME Inv, NEW c \in Client, req' = [req EXCEPT ![c] = Idle],
           req[c].at \in Holding /\ req[c].code # 0 => req[c].code \in burnt',
           Sound(db'), Quiet(db, db'), disk' = disk \/ disk' = db',
           invite_only' = invite_only, admitted' = admitted,
           burnt \subseteq burnt', burnt' \subseteq Code
    PROVE  Inv'
  <1>1. /\ Idle \in Request /\ Idle.code = 0 /\ Idle.at \notin Holding \cup Targeting
        /\ Idle.at \notin {"claimed", "release", "assign"}
    BY IdleIsRequest DEF Holding, Targeting, Then
  <1>2. invite_only' \in BOOLEAN
    BY DEF Inv, ReqTypes
  <1> QED
    BY <1>1, <1>2, Plain

LEMMA Dies == ASSUME Inv, NEW c \in Client, Die(c), req[c].at \notin {"enrol", "release"} PROVE Inv'
  <1>1. /\ req' = [req EXCEPT ![c] = Idle] /\ db' = db /\ disk' = disk
        /\ invite_only' = invite_only /\ admitted' = admitted
    BY DEF Die, Done, Goto, memory
  <1>2. burnt \subseteq burnt'
    BY DEF Die
  <1>3. burnt' \subseteq Code
    BY RequestParts DEF Die, Inv, HoldInv, ReqTypes
  <1>4. req[c].at \in Holding => req[c].code \in burnt'
    BY DEF Die, Holding
  <1>5. Sound(db') /\ Quiet(db, db')
    BY <1>1, QuietSame DEF Inv
  <1> QED
    BY <1>1, <1>2, <1>3, <1>4, <1>5, Ends

\* Steps of the databases while the handlers stay where they are.
LEMMA Stays ==
    ASSUME Inv, req' = req, invite_only' = invite_only, admitted' = admitted, burnt' = burnt,
           Sound(db'), Quiet(db, db'), Sound(disk'),
           disk' = db' \/ Quiet(disk, disk')
    PROVE  Inv'
  <1>1. ReqTypes' /\ Held' = Held
    BY DEF Inv, ReqTypes, Held
  <1>2. /\ db'.lastUser = db.lastUser /\ db'.lastInvite = db.lastInvite
        /\ LastInv'
    BY DEF Inv, LastInv, Quiet
  <1>3. TargetInv'
    BY <1>2 DEF Inv, TargetInv, Quiet
  <1>4. HoldInv'
    BY <1>1, <1>2 DEF Inv, HoldInv
  <1>5. CodesOK(db', admitted, Held, burnt)
    BY CodesKept DEF Inv
  <1>6. CodesOK(disk', admitted, Held, burnt)
    BY <1>5, CodesKept DEF Inv
  <1> QED
    BY <1>1, <1>2, <1>3, <1>4, <1>5, <1>6 DEF Inv

\* A handler that moves on holding no code, with nothing changed that matters.
LEMMA Moves ==
    ASSUME Inv, NEW c \in Client, NEW r \in Request, req' = [req EXCEPT ![c] = r],
           req[c].at \notin Holding, r.at \notin Holding \cup {"assign"}, r.code \in {0, req[c].code},
           r.at \in Targeting => /\ r.user <= db.lastUser
                                 /\ r.user \in DOMAIN db.users => db.users[r.user].level # 2,
           Sound(db'), Quiet(db, db'), disk' = disk \/ disk' = db',
           invite_only' = invite_only, admitted' = admitted, burnt' = burnt
    PROVE  Inv'
  <1>1. invite_only' \in BOOLEAN /\ burnt' \subseteq Code
    BY DEF Inv, ReqTypes
  <1>2. r.at \in Targeting => /\ r.user <= db.lastUser
                              /\ r.user \in DOMAIN db'.users => db'.users[r.user].level # 2
    BY DEF Quiet
  <1>3. r.at \notin {"claimed", "release", "assign"}
    BY DEF Holding
  <1> QED
    BY <1>1, <1>2, <1>3, Plain

Ats == {"session", "login", "entered", "promote", "demote", "sessions"}

LEMMA IdleAt ==
    ASSUME NEW at \in Ats
    PROVE  LET r == [Idle EXCEPT !.at = at] IN r \in Request /\ r.at = at /\ r.code = 0 /\ r.user = 0
  BY DEF Ats, Idle, Request, Then

LEMMA IdleAtWith ==
    ASSUME NEW at \in Ats, NEW u \in User \cup {0}
    PROVE  LET r == [Idle EXCEPT !.at = at, !.user = u]
           IN  r \in Request /\ r.at = at /\ r.code = 0 /\ r.user = u
  <1>1. [Idle EXCEPT !.at = at] = [at |-> at, me |-> 0, level |-> 0, code |-> 0, user |-> 0]
    BY DEF Idle
  <1>2. [Idle EXCEPT !.at = at, !.user = u] = [at |-> at, me |-> 0, level |-> 0, code |-> 0, user |-> u]
    <2> DEFINE r == [Idle EXCEPT !.at = at, !.user = u]
    <2>1. r = [[Idle EXCEPT !.at = at] EXCEPT !.user = u]
      OBVIOUS
    <2>2. [[at |-> at, me |-> 0, level |-> 0, code |-> 0, user |-> 0] EXCEPT !.user = u] =
             [at |-> at, me |-> 0, level |-> 0, code |-> 0, user |-> u]
      OBVIOUS
    <2> HIDE DEF r
    <2>3. r = [at |-> at, me |-> 0, level |-> 0, code |-> 0, user |-> u]
      BY <1>1, <2>1, <2>2
    <2> QED
      BY <2>3 DEF r
  <1>3. [at |-> at, me |-> 0, level |-> 0, code |-> 0, user |-> u] \in Request
    BY DEF Ats, Request, Then
  <1> QED
    BY <1>2, <1>3

LEMMA DbStays == ASSUME Inv, db' = db PROVE Sound(db') /\ Quiet(db, db')
  BY QuietSame DEF Inv

LEMMA RegisterNext == ASSUME Inv, NEW c \in Client, NEW k \in Code \cup {0}, Register(c, k) PROVE Inv'
  <1>1. /\ req[c].at = "idle" /\ invite_only' = invite_only /\ admitted' = admitted /\ burnt' = burnt
    BY DEF Register
  <1>2. CASE /\ Known(k) /\ ~db.invites[k].used /\ Committed(TakenFrom(db, k))
             /\ Goto(c, [Idle EXCEPT !.at = "claimed", !.code = k])
    BY <1>1, <1>2, ClaimNext DEF Known
  <1>3. CASE db' = db /\ (disk' = disk \/ disk' = db') /\ req' = req
    <2>1. disk' = db' \/ Quiet(disk, disk')
      BY <1>3, QuietSame
    <2>2. Sound(disk')
      BY <1>3 DEF Inv
    <2> QED
      BY <1>1, <1>3, <2>1, <2>2, DbStays, Stays
  <1>4. CASE db' = db /\ (disk' = disk \/ disk' = db') /\ Goto(c, [Idle EXCEPT !.at = "enrol"])
    <2> DEFINE r == [Idle EXCEPT !.at = "enrol"]
    <2>1. r \in Request /\ r.at = "enrol" /\ r.code = 0
      BY DEF Idle, Request
    <2>2. req' = [req EXCEPT ![c] = r]
      BY <1>4 DEF Goto
    <2> HIDE DEF r
    <2>3. /\ req'[c] = r /\ \A e \in Client : e # c => req'[e] = req[e]
      BY <2>2, HeldNext
    <2>4. Held' = Held
      BY <1>1, <2>1, <2>3 DEF Held, Holding
    <2>5. ReqTypes' /\ LastInv'
      BY <1>1, <1>4, <2>1, <2>2 DEF Inv, ReqTypes, LastInv
    <2>6. TargetInv'
      BY <1>4, <2>1, <2>3 DEF Inv, TargetInv, Targeting, Then
    <2>7. HoldInv'
      BY <1>1, <1>4, <2>1, <2>3, <2>4, Numbers DEF Inv, HoldInv, Holding
    <2>8. /\ Sound(db') /\ Sound(disk')
          /\ CodesOK(db', admitted, Held, burnt) /\ CodesOK(disk', admitted, Held, burnt)
      BY <1>4 DEF Inv
    <2> QED
      BY <1>1, <2>4, <2>5, <2>6, <2>7, <2>8 DEF Inv
  <1> QED
    BY <1>2, <1>3, <1>4 DEF Register, Committed

LEMMA FoundNext == ASSUME Inv, NEW c \in Client, Found(c) PROVE Inv'
  <1>1. CASE ~Known(req[c].code)
    BY <1>1, Dies DEF Found
  <1>2. CASE Known(req[c].code)
    <2> DEFINE r == [req[c] EXCEPT !.at = "enrol"]
    <2>1. /\ req[c].at = "claimed" /\ req' = [req EXCEPT ![c] = r]
          /\ db' = db /\ disk' = disk
          /\ invite_only' = invite_only /\ admitted' = admitted /\ burnt' = burnt
      BY <1>2 DEF Found, At, Goto, memory
    <2>2. r \in Request /\ r.at = "enrol" /\ r.code = req[c].code
      BY RequestParts DEF Request
    <2>3. r.at \in Holding /\ r.at \notin Targeting /\ req[c].at \in Holding
      BY <2>1, <2>2 DEF Holding, Targeting, Then
    <2>4. invite_only' \in BOOLEAN /\ burnt' \subseteq Code
      BY <2>1 DEF Inv, ReqTypes
    <2> HIDE DEF r
    <2> QED
      BY <2>1, <2>2, <2>3, <2>4, DbStays, Plain
  <1> QED
    BY <1>1, <1>2

LEMMA NameTakenNext == ASSUME Inv, NEW c \in Client, NameTaken(c) PROVE Inv'
  <1>1. /\ req[c].at = "enrol" /\ db' = db /\ disk' = disk
        /\ invite_only' = invite_only /\ admitted' = admitted /\ burnt' = burnt
    BY DEF NameTaken, memory
  <1>2. invite_only' \in BOOLEAN /\ burnt' \subseteq Code
    BY <1>1 DEF Inv, ReqTypes
  <1>3. CASE req[c].code = 0
    <2>1. req' = [req EXCEPT ![c] = Idle]
      BY <1>3 DEF NameTaken, Done, Goto
    <2> QED
      BY <1>1, <1>2, <1>3, <2>1, DbStays, Ends
  <1>4. CASE req[c].code # 0
    <2> DEFINE r == [req[c] EXCEPT !.at = "release"]
    <2>1. req' = [req EXCEPT ![c] = r]
      BY <1>4 DEF NameTaken, At, Goto
    <2>2. r \in Request /\ r.at = "release" /\ r.code = req[c].code
      BY RequestParts DEF Request
    <2>3. r.at \in Holding /\ r.at \notin Targeting /\ req[c].at \in Holding
      BY <1>1, <2>2 DEF Holding, Targeting, Then
    <2> HIDE DEF r
    <2> QED
      BY <1>1, <1>2, <1>4, <2>1, <2>2, <2>3, DbStays, Plain
  <1> QED
    BY <1>3, <1>4

LEMMA IntroduceNext == ASSUME Inv, NEW c \in Client, Introduce(c) PROVE Inv'
  <1> DEFINE u == req[c].user
             by == IF Known(req[c].code) THEN db.invites[req[c].code].by ELSE 0
             r == [Idle EXCEPT !.at = "session", !.user = u]
  <1>1. /\ req[c].at = "introduce" /\ req' = [req EXCEPT ![c] = r] /\ disk' = db'
        /\ db' = IF u \in DOMAIN db.users THEN [db EXCEPT !.users[u].by = by] ELSE db
        /\ invite_only' = invite_only /\ admitted' = admitted /\ burnt' = burnt
    BY DEF Introduce, Committed, Exists, Goto, memory
  <1>2. by \in DOMAIN db.users \cup {0} /\ Sound(db)
    BY DEF Inv, Sound, InvitesOK, Known
  <1>3. r \in Request /\ r.at = "session" /\ r.code = 0
    <2>1. u \in User \cup {0} /\ "session" \in Ats
      BY RequestParts DEF Ats
    <2> HIDE DEF u
    <2> QED
      BY <2>1, IdleAtWith
  <1> HIDE DEF r, u, by
  <1>4. Sound(db') /\ Quiet(db, db')
    <2>1. CASE u \in DOMAIN db.users
      BY <1>1, <1>2, <2>1, InviterSet
    <2>2. CASE u \notin DOMAIN db.users
      BY <1>1, <2>2, DbStays
    <2> QED
      BY <2>1, <2>2
  <1>5. req[c].at \notin Holding /\ r.at \notin Holding \cup Targeting \cup {"assign"}
    BY <1>1, <1>3 DEF Holding, Targeting, Then
  <1> QED
    BY <1>1, <1>3, <1>4, <1>5, Moves

LEMMA CreateSessionNext == ASSUME Inv, NEW c \in Client, CreateSession(c) PROVE Inv'
  <1>1. CASE ~Exists(req[c].user)
    BY <1>1, Dies DEF CreateSession
  <1>2. CASE Exists(req[c].user)
    <2> DEFINE S == db.sessions \cup {<<c, req[c].user>>}
    <2>1. /\ req[c].at = "session" /\ req' = [req EXCEPT ![c] = Idle]
          /\ db' = [db EXCEPT !.sessions = S] /\ disk' = db'
          /\ invite_only' = invite_only /\ admitted' = admitted /\ burnt' = burnt
      BY <1>2 DEF CreateSession, Committed, Done, Goto, memory
    <2>2. Sound(db) /\ SessionsOK(S, db.users)
      BY <1>2 DEF Inv, Sound, SessionsOK, Exists
    <2> HIDE DEF S
    <2>3. Sound(db') /\ Quiet(db, db')
      BY <2>1, <2>2, SessionsReplaced
    <2>4. burnt' \subseteq Code /\ req[c].at \notin Holding
      BY <2>1 DEF Inv, ReqTypes, Holding
    <2> QED
      BY <2>1, <2>3, <2>4, Ends
  <1> QED
    BY <1>1, <1>2

LEMMA SignupNext == ASSUME Inv, NEW c \in Client, Signup(c) PROVE Inv'
  <1>1. ASSUME AssignCode(c), req[c].user \notin DOMAIN db.users PROVE Inv'
    BY <1>1, Dies DEF AssignCode, Exists
  <1> QED
    BY <1>1, RegisterNext, FoundNext, EnrolNext, NameTakenNext, ReleaseNext, AssignNext, IntroduceNext,
       CreateSessionNext DEF Signup

LEMMA LoginNext == ASSUME Inv, NEW c \in Client, Login(c) PROVE Inv'
  <1> DEFINE r == [Idle EXCEPT !.at = "login"]
  <1>1. r \in Request /\ r.at = "login" /\ r.code = 0
    BY IdleAt DEF Ats
  <1>2. /\ req[c].at = "idle" /\ req' = [req EXCEPT ![c] = r] /\ db' = db /\ disk' = disk
        /\ invite_only' = invite_only /\ admitted' = admitted /\ burnt' = burnt
    BY DEF Login, Goto, memory
  <1> HIDE DEF r
  <1>3. req[c].at \notin Holding /\ r.at \notin Holding \cup Targeting \cup {"assign"}
    BY <1>1, <1>2 DEF Holding, Targeting, Then
  <1> QED
    BY <1>1, <1>2, <1>3, DbStays, Moves

LEMMA RefusedNext == ASSUME Inv, NEW c \in Client, Refused(c) PROVE Inv'
  <1>1. /\ req[c].at = "login" /\ req' = [req EXCEPT ![c] = Idle] /\ db' = db /\ disk' = disk
        /\ invite_only' = invite_only /\ admitted' = admitted /\ burnt' = burnt
    BY DEF Refused, Done, Goto
  <1>2. burnt' \subseteq Code /\ req[c].at \notin Holding
    BY <1>1 DEF Inv, ReqTypes, Holding
  <1> QED
    BY <1>1, <1>2, DbStays, Ends

LEMMA WelcomeNext == ASSUME Inv, NEW c \in Client, NEW u \in User, Welcome(c, u) PROVE Inv'
  <1> DEFINE r == [Idle EXCEPT !.at = "session", !.user = u]
  <1>1. r \in Request /\ r.at = "session" /\ r.code = 0
    BY IdleAtWith DEF Ats
  <1>2. /\ req[c].at = "login" /\ req' = [req EXCEPT ![c] = r] /\ db' = db /\ disk' = db'
        /\ invite_only' = invite_only /\ admitted' = admitted /\ burnt' = burnt
    BY DEF Welcome, Committed, Goto
  <1> HIDE DEF r
  <1>3. req[c].at \notin Holding /\ r.at \notin Holding \cup Targeting \cup {"assign"}
    BY <1>1, <1>2 DEF Holding, Targeting, Then
  <1> QED
    BY <1>1, <1>2, <1>3, DbStays, Moves

LEMMA SessionGone ==
    ASSUME NEW d, Sound(d), NEW s
    PROVE  Sound(WithoutSession(d, s)) /\ Quiet(d, WithoutSession(d, s))
  <1> DEFINE S == d.sessions \ {s}
  <1>1. WithoutSession(d, s) = [d EXCEPT !.sessions = S]
    BY DEF WithoutSession
  <1>2. SessionsOK(S, d.users)
    BY DEF Sound, SessionsOK
  <1> HIDE DEF S
  <1> QED
    BY <1>1, <1>2, SessionsReplaced

LEMMA LogoutNext == ASSUME Inv, NEW c \in Client, NEW s \in db.sessions, Logout(c, s) PROVE Inv'
  <1>1. /\ req' = req /\ db' = WithoutSession(db, s) /\ disk' = db'
        /\ invite_only' = invite_only /\ admitted' = admitted /\ burnt' = burnt
    BY DEF Logout, Committed, memory
  <1>2. Sound(db') /\ Quiet(db, db')
    BY <1>1, SessionGone DEF Inv
  <1> QED
    BY <1>1, <1>2, Stays

LEMMA EnterNext == ASSUME Inv, NEW c \in Client, NEW s \in db.sessions, Enter(c, s) PROVE Inv'
  <1> DEFINE u == s[2]
             level == db.users[u].level
             r == [Idle EXCEPT !.at = "entered", !.me = u, !.level = level]
  <1>1. /\ req[c].at = "idle" /\ db' = db /\ disk' = db'
        /\ invite_only' = invite_only /\ admitted' = admitted /\ burnt' = burnt
        /\ req' = req \/ req' = [req EXCEPT ![c] = r]
    BY DEF Enter, Committed, Goto, memory
  <1>2. u \in User /\ level \in 0..2
    <2>1. u \in DOMAIN db.users
      BY DEF Inv, Sound, SessionsOK
    <2> QED
      BY <2>1, Numbers DEF Inv, Sound, UsersOK
  <1>3. CASE req' = req
    BY <1>1, <1>3, DbStays, Stays
  <1>4. CASE req' = [req EXCEPT ![c] = r]
    <2> HIDE DEF u, level
    <2>1. r = [at |-> "entered", me |-> u, level |-> level, code |-> 0, user |-> 0]
      <3>1. [Idle EXCEPT !.at = "entered"] = [at |-> "entered", me |-> 0, level |-> 0, code |-> 0, user |-> 0]
        BY DEF Idle
      <3>2. r = [[[Idle EXCEPT !.at = "entered"] EXCEPT !.me = u] EXCEPT !.level = level]
        OBVIOUS
      <3>3. [[at |-> "entered", me |-> 0, level |-> 0, code |-> 0, user |-> 0] EXCEPT !.me = u] =
               [at |-> "entered", me |-> u, level |-> 0, code |-> 0, user |-> 0]
        OBVIOUS
      <3>4. [[at |-> "entered", me |-> u, level |-> 0, code |-> 0, user |-> 0] EXCEPT !.level = level] =
               [at |-> "entered", me |-> u, level |-> level, code |-> 0, user |-> 0]
        OBVIOUS
      <3> HIDE DEF r
      <3> QED
        BY <3>1, <3>2, <3>3, <3>4
    <2> HIDE DEF r
    <2>2. r \in Request /\ r.at = "entered" /\ r.code = 0
      BY <1>2, <2>1 DEF Request
    <2>3. req[c].at \notin Holding /\ r.at \notin Holding \cup Targeting \cup {"assign"}
      BY <1>1, <2>2 DEF Holding, Targeting, Then
    <2> QED
      BY <1>1, <1>4, <2>2, <2>3, DbStays, Moves
  <1> QED
    BY <1>1, <1>3, <1>4

LEMMA CreateInviteNext == ASSUME Inv, NEW c \in Client, CreateInvite(c) PROVE Inv'
  <1>1. CASE ~Exists(req[c].me)
    BY <1>1, Dies DEF CreateInvite
  <1> QED
    BY <1>1, InviteNext DEF Exists

LEMMA RevokeNext == ASSUME Inv, NEW c \in Client, NEW k \in Code, Revoke(c, k) PROVE Inv'
  <1>1. /\ req[c].at = "entered" /\ req' = [req EXCEPT ![c] = Idle] /\ disk' = db'
        /\ db' = db \/ db' = WithoutCode(db, {k})
        /\ invite_only' = invite_only /\ admitted' = admitted /\ burnt' = burnt
    BY DEF Revoke, Committed, Done, Goto, memory
  <1>2. Sound(db') /\ Quiet(db, db')
    BY <1>1, DbStays, CodesWithout DEF Inv
  <1>3. burnt' \subseteq Code /\ req[c].at \notin Holding
    BY <1>1 DEF Inv, ReqTypes, Holding
  <1> QED
    BY <1>1, <1>2, <1>3, Ends

LEMMA LookAtNext ==
    ASSUME Inv, NEW c \in Client, NEW u \in User, NEW what \in {"promote", "demote", "sessions"},
           LookAt(c, u, what)
    PROVE  Inv'
  <1> DEFINE r == [Idle EXCEPT !.at = what, !.user = u]
  <1>1. r \in Request /\ r.at = what /\ r.code = 0 /\ r.user = u
    <2>1. what \in Ats /\ u \in User \cup {0}
      BY DEF Ats
    <2> QED
      BY <2>1, IdleAtWith
  <1>2. /\ req[c].at = "entered" /\ req' = [req EXCEPT ![c] = r] /\ db' = db /\ disk' = disk
        /\ invite_only' = invite_only /\ admitted' = admitted /\ burnt' = burnt
    BY DEF LookAt, Goto, memory
  <1>3. u <= db.lastUser /\ db.users[u].level # 2
    <2>1. u \in DOMAIN db.users
      BY DEF LookAt, Exists
    <2>2. db.users[u].level \in {0, 1}
      BY DEF LookAt, MayChange
    <2> QED
      BY <2>1, <2>2, Numbers
  <1> HIDE DEF r
  <1>4. req[c].at \notin Holding /\ r.at \notin Holding \cup {"assign"}
    BY <1>1, <1>2 DEF Holding
  <1> QED
    BY <1>1, <1>2, <1>3, <1>4, DbStays, Moves

LEMMA SetAccessLevelNext == ASSUME Inv, NEW c \in Client, SetAccessLevel(c) PROVE Inv'
  <1> DEFINE u == req[c].user
             l == IF req[c].at = "promote" THEN 1 ELSE 0
  <1>1. /\ req[c].at \in {"promote", "demote"} /\ req' = [req EXCEPT ![c] = Idle] /\ disk' = db'
        /\ db' = IF u \in DOMAIN db.users THEN [db EXCEPT !.users[u].level = l] ELSE db
        /\ invite_only' = invite_only /\ admitted' = admitted /\ burnt' = burnt
    BY DEF SetAccessLevel, Committed, Exists, Done, Goto, memory
  <1>2. Sound(db) /\ l \in {0, 1}
    BY DEF Inv
  <1>3. u \in DOMAIN db.users => db.users[u].level # 2
    BY <1>1 DEF Inv, TargetInv, Targeting
  <1>4. burnt' \subseteq Code /\ req[c].at \notin Holding
    BY <1>1 DEF Inv, ReqTypes, Holding
  <1> HIDE DEF u, l
  <1>5. Sound(db') /\ Quiet(db, db')
    BY <1>1, <1>2, <1>3, LevelSet, DbStays
  <1> QED
    BY <1>1, <1>4, <1>5, Ends

LEMMA DeleteNext == ASSUME Inv, NEW c \in Client, Delete(c) PROVE Inv'
  <1> DEFINE table == req[c].at
             r == [req[c] EXCEPT !.at = Then[table]]
  <1>1. /\ table \in DOMAIN Then /\ req' = [req EXCEPT ![c] = r] /\ disk' = disk
        /\ db' = Deleted(db, req[c].user, table)
        /\ invite_only' = invite_only /\ admitted' = admitted /\ burnt' = burnt
    BY DEF Delete, Uncommitted, At, Goto, memory
  <1>2. Then[table] \in {"invites", "used_by", "invited_by", "users"}
    BY <1>1 DEF Then
  <1>3. /\ r \in Request /\ r.code = req[c].code /\ r.user = req[c].user
        /\ r.at \in {"invites", "used_by", "invited_by", "users"}
    <2>1. req[c] \in Request
      BY RequestParts
    <2>2. DOMAIN Then = {"sessions", "invites", "used_by", "invited_by"}
      BY DEF Then
    <2> QED
      BY <1>2, <2>1, <2>2 DEF Request
  <1>4. Sound(db') /\ Quiet(db, db')
    BY <1>1, RowsDeleted DEF Inv
  <1>5. /\ req[c].user <= db.lastUser
        /\ req[c].user \in DOMAIN db.users => db.users[req[c].user].level # 2
    BY <1>1 DEF Inv, TargetInv, Targeting
  <1>6. req[c].at \notin Holding
    BY <1>1 DEF Holding, Then
  <1>7. r.at \notin Holding \cup {"assign"}
    BY <1>3 DEF Holding
  <1> HIDE DEF r
  <1> QED
    BY <1>1, <1>3, <1>4, <1>5, <1>6, <1>7, Moves

LEMMA DeleteUserNext == ASSUME Inv, NEW c \in Client, DeleteUser(c) PROVE Inv'
  <1> DEFINE u == req[c].user
             U == [v \in DOMAIN db.users \ {u} |-> db.users[v]]
  <1>1. req[c].at = "users"
    BY DEF DeleteUser
  <1>2. CASE Referenced(db, u) /\ Exists(u)
    BY <1>1, <1>2, Dies DEF DeleteUser
  <1>3. CASE ~(Referenced(db, u) /\ Exists(u))
    <2>1. /\ req' = [req EXCEPT ![c] = Idle] /\ disk' = db' /\ db' = [db EXCEPT !.users = U]
          /\ invite_only' = invite_only /\ admitted' = admitted /\ burnt' = burnt
      BY <1>3 DEF DeleteUser, Committed, Done, Goto, memory
    <2>2. u \in DOMAIN db.users => db.users[u].level # 2
      BY <1>1 DEF Inv, TargetInv, Targeting
    <2>3. burnt' \subseteq Code /\ req[c].at \notin Holding
      BY <1>1, <2>1 DEF Inv, ReqTypes, Holding
    <2>4. Sound(db) /\ (~Referenced(db, u) \/ u \notin DOMAIN db.users)
      BY <1>3 DEF Inv, Exists
    <2> HIDE DEF u
    <2>5. Sound(db') /\ Quiet(db, db')
      BY <2>1, <2>2, <2>4, UserRemoved
    <2> QED
      BY <2>1, <2>3, <2>5, Ends
  <1> QED
    BY <1>2, <1>3

LEMMA ExpiryNext ==
    ASSUME Inv, (\E s \in Client \X User : SessionExpires(s)) \/ (\E k \in Code : InviteExpires(k))
    PROVE  Inv'
  <1>1. ASSUME NEW s, SessionExpires(s) PROVE Inv'
    <2>1. /\ req' = req /\ db' = WithoutSession(db, s) /\ disk' = WithoutSession(disk, s)
          /\ invite_only' = invite_only /\ admitted' = admitted /\ burnt' = burnt
      BY <1>1 DEF SessionExpires, memory
    <2>2. Sound(db') /\ Quiet(db, db') /\ Sound(disk') /\ Quiet(disk, disk')
      BY <2>1, SessionGone DEF Inv
    <2> QED
      BY <2>1, <2>2, Stays
  <1>2. ASSUME NEW k, InviteExpires(k) PROVE Inv'
    <2>1. /\ req' = req /\ db' = Expired(db, k) /\ disk' = Expired(disk, k)
          /\ invite_only' = invite_only /\ admitted' = admitted /\ burnt' = burnt
      BY <1>2 DEF InviteExpires, memory
    <2>2. Sound(db') /\ Quiet(db, db') /\ Sound(disk') /\ Quiet(disk, disk')
      BY <2>1, CodeExpired DEF Inv
    <2> QED
      BY <2>1, <2>2, Stays
  <1> QED
    BY <1>1, <1>2

LEMMA RestartNext == ASSUME Inv, Restart PROVE Inv'
  <1>1. /\ db' = disk /\ disk' = disk /\ req' = [c \in Client |-> Idle]
        /\ invite_only' \in BOOLEAN /\ admitted' = admitted
        /\ burnt' = burnt \cup {k \in Code : Holders(k) # {}}
    BY DEF Restart
  <1>2. Held' = {}
    BY <1>1, IdleIsRequest DEF Held, Holding
  <1>3. Held \subseteq burnt' /\ burnt \subseteq burnt'
    <2>1. \A k \in Held : k \in Code /\ Holders(k) # {}
      BY RequestParts DEF Held, Holders, Holding
    <2> QED
      BY <1>1, <2>1
  <1>4. ReqTypes'
    BY <1>1, IdleIsRequest DEF Inv, ReqTypes
  <1>5. LastInv' /\ db'.lastInvite = db.lastInvite
    BY <1>1 DEF Inv, LastInv
  <1>6. TargetInv'
    BY <1>1, IdleIsRequest DEF TargetInv, Targeting, Then
  <1>7. HoldInv'
    <2>1. \A c \in Client : req'[c].at = "idle" /\ req'[c].code = 0
      BY <1>1, IdleIsRequest
    <2> QED
      BY <1>1, <1>2, <1>5, <2>1, Numbers DEF Inv, HoldInv, Holding
  <1>8. CodesOK(disk, admitted, {}, burnt')
    BY <1>3 DEF Inv, CodesOK
  <1>9. Sound(disk)
    BY DEF Inv
  <1> QED
    BY <1>1, <1>2, <1>4, <1>5, <1>6, <1>7, <1>8, <1>9 DEF Inv

LEMMA InvNext == Inv /\ [Next]_vars => Inv'
  <1> SUFFICES ASSUME Inv, [Next]_vars PROVE Inv'
    OBVIOUS
  <1>1. ASSUME NEW c \in Client, Signin(c) PROVE Inv'
    BY <1>1, LoginNext, RefusedNext, WelcomeNext DEF Signin
  <1>2. ASSUME NEW c \in Client, Signedin(c) PROVE Inv'
    BY <1>2, LogoutNext, EnterNext, CreateInviteNext, SetAccessLevelNext, DeleteNext, DeleteUserNext,
       RevokeNext, LookAtNext DEF Signedin
  <1>3. CASE OthersFail \/ WindowSlides \/ UNCHANGED vars
    <2>1. /\ req' = req /\ db' = db /\ disk' = disk
          /\ invite_only' = invite_only /\ admitted' = admitted /\ burnt' = burnt
      BY <1>3 DEF OthersFail, WindowSlides, vars, memory
    <2>2. Sound(disk') /\ Quiet(disk, disk')
      BY <2>1, QuietSame DEF Inv
    <2> QED
      BY <2>1, <2>2, DbStays, Stays
  <1> QED
    BY <1>1, <1>2, <1>3, SignupNext, ExpiryNext, RestartNext DEF Next

LEMMA SpecInv == Spec => []Inv
  BY InitInv, InvNext, PTL DEF Spec

LEMMA SoundIsSound ==
    ASSUME NEW d, Sound(d)
    PROVE  /\ RowsOK(d)
           /\ Cardinality(Superadmins(d)) = IF DOMAIN d.users = {} THEN 0 ELSE 1
  <1>1. RowsOK(d)
    BY DEF Sound, UsersOK, InvitesOK, SessionsOK, RowsOK
  <1>2. CASE DOMAIN d.users = {}
    <2>1. Superadmins(d) = {}
      BY <1>2 DEF Superadmins
    <2> QED
      BY <1>1, <1>2, <2>1, FS_EmptySet
  <1>3. CASE DOMAIN d.users # {}
    <2>1. PICK s \in DOMAIN d.users : /\ d.users[s].level = 2
                                      /\ \A u \in DOMAIN d.users : d.users[u].level = 2 => u = s
      BY <1>3 DEF Sound, UsersOK, Managed
    <2>2. Superadmins(d) = {s}
      BY <2>1 DEF Superadmins
    <2> QED
      BY <1>1, <1>3, <2>2, FS_Singleton
  <1> QED
    BY <1>2, <1>3

\* A board with any account has exactly one superadmin, on disk and in the open
\* transaction, however signups, promotions, demotions and deletions that read a
\* level before they act run into each other and into crashes (register_user,
\* admin_demote); and no row refers to one that is not there.
THEOREM BoardIsManaged == Spec => []AccountsAreSound
  <1>1. Inv => AccountsAreSound
    <2> SUFFICES ASSUME Inv PROVE AccountsAreSound
      OBVIOUS
    <2>1. \A d \in {db, disk} : Sound(d)
      BY DEF Inv
    <2>2. OneSuperadmin
      BY <2>1, SoundIsSound DEF OneSuperadmin
    <2>3. RowsOK(db) /\ RowsOK(disk)
      BY <2>1, SoundIsSound
    <2>4. admitted \in [Code -> Nat]
      BY DEF Inv, ReqTypes
    <2> QED
      BY <2>2, <2>3, <2>4 DEF Inv, ReqTypes, TypeOK, AccountsAreSound
  <1> QED
    BY <1>1, SpecInv, PTL

\* One code is one account, whatever registrations race for it, are cut off or
\* give it back (invites.claim, release and assign).
THEOREM CodesAreSpentOnce == Spec => []CodeTellsTheTruth
  <1>1. Inv => CodeTellsTheTruth
    <2> SUFFICES ASSUME Inv, NEW d \in {db, disk}, NEW k \in DOMAIN d.invites
                 PROVE  /\ admitted[k] <= 1
                        /\ ~d.invites[k].used => admitted[k] = 0 /\ Holders(k) = {}
                        /\ d.invites[k].used /\ admitted[k] = 0 => Holders(k) # {} \/ k \in burnt
      BY DEF CodeTellsTheTruth
    <2>1. CodesOK(d, admitted, Held, burnt)
      BY DEF Inv
    <2>2. k \in Code /\ k # 0
      BY AccountsAssumption DEF Inv, Sound, InvitesOK, Code
    <2>3. k \in Held <=> Holders(k) # {}
      BY <2>2 DEF Held, Holders, Holding
    <2>4. admitted[k] \in 0..1
      BY <2>2 DEF Inv, ReqTypes
    <2> QED
      BY <2>1, <2>3, <2>4 DEF CodesOK
  <1> QED
    BY <1>1, SpecInv, PTL

-----------------------------------------------------------------------------
(* A limiter.  Without is a recursive function, so what it keeps is shown by *)
(* looking at the first event after which it would be wrong.                 *)

LEMMA Smallest ==
    ASSUME NEW S \in SUBSET Nat, S # {}
    PROVE  \E n \in S : \A k \in S : n <= k
  <1>1. PICK n \in S : \A k \in S : ~(<<k, n>> \in OpToRel(<, Nat))
    BY NatLessThanWellFounded, WFMin
  <1>2. \A k \in S : ~(k < n)
    BY <1>1 DEF OpToRel
  <1> QED
    BY <1>2

Kept(e, key, p, n) ==
    p = [i \in 0..n |-> IF i = 0 THEN <<>>
                        ELSE IF e[i] = key THEN p[i - 1] ELSE Append(p[i - 1], e[i])]

LEMMA KeptExists ==
    ASSUME NEW e, NEW key, NEW n \in Nat
    PROVE  \E p : Kept(e, key, p, n)
  <1> DEFINE Bad == {i \in Nat : ~\E p : Kept(e, key, p, i)}
  <1>1. SUFFICES ASSUME Bad # {} PROVE FALSE
    OBVIOUS
  <1>2. PICK m \in Bad : \A k \in Bad : m <= k
    BY <1>1, Smallest
  <1>3. m # 0
    <2>1. Kept(e, key, [i \in 0..0 |-> <<>>], 0)
      BY DEF Kept
    <2> QED
      BY <2>1
  <1>4. m - 1 \in Nat /\ m - 1 \notin Bad
    BY <1>2, <1>3
  <1>5. PICK p : Kept(e, key, p, m - 1)
    BY <1>4
  <1> DEFINE last == IF e[m] = key THEN p[m - 1] ELSE Append(p[m - 1], e[m])
             q == [i \in 0..m |-> IF i = m THEN last ELSE p[i]]
  <1>6. Kept(e, key, q, m)
    <2>1. \A i \in 0..m : q[i] = IF i = 0 THEN <<>>
                                 ELSE IF e[i] = key THEN q[i - 1] ELSE Append(q[i - 1], e[i])
      <3> TAKE i \in 0..m
      <3>1. CASE i = m
        <4>1. q[i] = last /\ q[i - 1] = p[m - 1]
          BY <3>1, <1>3, <1>4
        <4> QED
          BY <4>1, <3>1, <1>3
      <3>2. CASE i # m
        <4>1. i \in 0..(m - 1) /\ q[i] = p[i] /\ (i # 0 => q[i - 1] = p[i - 1])
          BY <3>2
        <4>2. p[i] = IF i = 0 THEN <<>>
                     ELSE IF e[i] = key THEN p[i - 1] ELSE Append(p[i - 1], e[i])
          BY <1>5, <4>1 DEF Kept
        <4> HIDE DEF q
        <4> QED
          BY <4>1, <4>2
      <3> QED
        BY <3>1, <3>2
    <2>2. DOMAIN q = 0..m /\ q = [i \in DOMAIN q |-> q[i]]
      OBVIOUS
    <2> HIDE DEF q
    <2> QED
      BY <2>1, <2>2 DEF Kept
  <1> QED
    BY <1>6

\* How many of the first n events are key's
Count(e, key, n) == Cardinality({i \in 1..n : e[i] = key})

Counting(e, key, n) ==
    /\ Count(e, key, n) \in Nat /\ Count(e, key, 0) = 0
    /\ Count(e, key, n + 1) = IF e[n + 1] = key THEN Count(e, key, n) + 1 ELSE Count(e, key, n)

LEMMA Counted == ASSUME NEW e, NEW key, NEW n \in Nat PROVE Counting(e, key, n)
  <1> DEFINE C == {i \in 1..n : e[i] = key}
             D == {i \in 1..(n + 1) : e[i] = key}
  <1>1. C \in SUBSET (1..n) /\ IsFiniteSet(1..n)
    BY FS_Interval
  <1>2. D = IF e[n + 1] = key THEN C \cup {n + 1} ELSE C
    OBVIOUS
  <1>3. n + 1 \notin C /\ {i \in 1..0 : e[i] = key} = {}
    OBVIOUS
  <1> HIDE DEF C, D
  <1>4. IsFiniteSet(C) /\ Cardinality(C) \in Nat
    BY <1>1, FS_Subset, FS_CardinalityType
  <1>5. Cardinality(D) = IF e[n + 1] = key THEN Cardinality(C) + 1 ELSE Cardinality(C)
    BY <1>2, <1>3, <1>4, FS_AddElement
  <1> QED
    BY <1>3, <1>4, <1>5, FS_EmptySet DEF Counting, Count, C, D

LEMMA FreshCounts ==
    ASSUME NEW e, NEW n \in Nat, DOMAIN e = 1..n, NEW key
    PROVE  Fresh(e, key) = Count(e, key, n) /\ Fresh(e, key) \in Nat
  <1>1. Fresh(e, key) = Count(e, key, n)
    BY DEF Fresh, Count
  <1> QED
    BY <1>1, Counted DEF Counting

LEMMA Length == ASSUME NEW S, NEW e \in Seq(S) PROVE Len(e) \in Nat /\ DOMAIN e = 1..Len(e)
  OBVIOUS

\* What an event more does.
More(e, x, key) == Fresh(e, key) + (IF x = key THEN 1 ELSE 0)

LEMMA Recording ==
    ASSUME NEW S, NEW e \in Seq(S), NEW x \in S
    PROVE  /\ Append(e, x) \in Seq(S) /\ Append(e, x) # <<>>
           /\ KeysOf(Append(e, x)) = KeysOf(e) \cup {x}
           /\ \A key : Fresh(Append(e, x), key) = More(e, x, key)
  <1>1. ASSUME NEW f, NEW a, NEW n \in Nat, DOMAIN f = 1..n, DOMAIN a = 1..(n + 1),
               a[n + 1] = x, \A i \in 1..n : a[i] = f[i]
        PROVE  /\ KeysOf(a) = KeysOf(f) \cup {x}
               /\ \A key : Fresh(a, key) = More(f, x, key)
    <2>1. KeysOf(a) = KeysOf(f) \cup {x}
      <3>1. \A k : k \in KeysOf(a) <=> \E i \in 1..(n + 1) : a[i] = k
        BY <1>1 DEF KeysOf
      <3>2. \A k : k \in KeysOf(f) <=> \E i \in 1..n : f[i] = k
        BY <1>1 DEF KeysOf
      <3>3. \A k : (\E i \in 1..(n + 1) : a[i] = k) <=> (\E i \in 1..n : f[i] = k) \/ k = x
        BY <1>1
      <3> QED
        BY <3>1, <3>2, <3>3
    <2>2. ASSUME NEW key PROVE Fresh(a, key) = More(f, x, key)
      <3>1. {i \in 1..n : a[i] = key} = {i \in 1..n : f[i] = key}
        BY <1>1
      <3>2. Count(a, key, n) = Count(f, key, n)
        BY <3>1 DEF Count
      <3>3. Counting(a, key, n)
        BY Counted
      <3>4. Fresh(f, key) = Count(f, key, n)
        BY <1>1, FreshCounts
      <3>5. Fresh(a, key) = Count(a, key, n + 1)
        BY <1>1, FreshCounts
      <3> QED
        BY <1>1, <3>2, <3>3, <3>4, <3>5 DEF Counting, More
    <2> QED
      BY <2>1, <2>2
  <1> DEFINE a == Append(e, x)
  <1>2. a \in Seq(S) /\ a # <<>>
    OBVIOUS
  <1>3. /\ Len(e) \in Nat /\ DOMAIN e = 1..Len(e) /\ DOMAIN a = 1..(Len(e) + 1)
        /\ a[Len(e) + 1] = x /\ \A i \in 1..Len(e) : a[i] = e[i]
    OBVIOUS
  <1> HIDE DEF a
  <1>4. KeysOf(a) = KeysOf(e) \cup {x} /\ \A key : Fresh(a, key) = More(e, x, key)
    BY <1>1, <1>3
  <1> QED
    BY <1>2, <1>4 DEF a

\* clear and the eviction of _prune forget one key and leave the others: as much
\* of them is kept of the first n events as there was.
Forgot(w, e, key, n) ==
    /\ KeysOf(w) = {e[i] : i \in 1..n} \ {key}
    /\ \A k : Fresh(w, k) = IF k = key THEN 0 ELSE Count(e, k, n)

LEMMA Forgetting ==
    ASSUME NEW S, NEW e \in Seq(S), NEW key
    PROVE  /\ Without(e, key) \in Seq(S) /\ KeysOf(Without(e, key)) = KeysOf(e) \ {key}
           /\ \A k : Fresh(Without(e, key), k) = IF k = key THEN 0 ELSE Fresh(e, k)
  <1> DEFINE p == CHOOSE p : Kept(e, key, p, Len(e))
  <1>1. Kept(e, key, p, Len(e))
    BY Length, KeptExists
  <1>2. Without(e, key) = p[Len(e)]
    BY DEF Without, Kept
  <1> HIDE DEF p
  <1> DEFINE Good(n) == p[n] \in Seq(S) /\ Forgot(p[n], e, key, n)
             Bad == {n \in 0..Len(e) : ~Good(n)}
  <1>3. Good(0)
    <2>1. p[0] = <<>>
      BY <1>1 DEF Kept
    <2>2. KeysOf(<<>>) = {} /\ \A k : Fresh(<<>>, k) = 0
      BY FS_EmptySet DEF KeysOf, Fresh
    <2>3. \A k : Counting(e, k, 0)
      BY Counted
    <2> QED
      BY <2>1, <2>2, <2>3 DEF Forgot, Counting
  <1>4. ASSUME NEW n \in Nat, n + 1 <= Len(e), Good(n) PROVE Good(n + 1)
    <2> DEFINE q == p[n]
               y == e[n + 1]
    <2>1. n + 1 \in 0..Len(e) /\ n + 1 # 0 /\ (n + 1) - 1 = n /\ y \in S
      BY <1>4
    <2>2. p[n + 1] = IF y = key THEN q ELSE Append(q, y)
      BY <1>1, <2>1 DEF Kept
    <2>3. {e[i] : i \in 1..(n + 1)} = {e[i] : i \in 1..n} \cup {y}
      OBVIOUS
    <2>4. q \in Seq(S) /\ Forgot(q, e, key, n)
      BY <1>4
    <2>5. \A k : Counting(e, k, n)
      BY Counted
    <2>6. \A k : Count(e, k, n) \in Nat /\ Count(e, k, n + 1) = IF y = k THEN Count(e, k, n) + 1 ELSE Count(e, k, n)
      BY <2>5 DEF Counting
    <2> HIDE DEF q, y, Good
    <2>7. CASE y = key
      <3>1. Forgot(q, e, key, n + 1)
        BY <2>3, <2>4, <2>6, <2>7 DEF Forgot
      <3> QED
        BY <2>2, <2>4, <2>7, <3>1 DEF Good
    <2>8. CASE y # key
      <3>1. /\ Append(q, y) \in Seq(S) /\ KeysOf(Append(q, y)) = KeysOf(q) \cup {y}
            /\ \A k : Fresh(Append(q, y), k) = More(q, y, k)
        BY <2>1, <2>4, Recording
      <3> DEFINE w == Append(q, y)
      <3>2. KeysOf(w) = KeysOf(q) \cup {y} /\ \A k : Fresh(w, k) = More(q, y, k)
        BY <3>1
      <3> HIDE DEF w
      <3>3. Forgot(w, e, key, n + 1)
        <4>1. KeysOf(w) = {e[i] : i \in 1..(n + 1)} \ {key}
          BY <2>3, <2>4, <2>8, <3>2 DEF Forgot
        <4>2. \A k : Fresh(q, k) = IF k = key THEN 0 ELSE Count(e, k, n)
          BY <2>4 DEF Forgot
        <4>3. \A k : Fresh(w, k) = IF k = key THEN 0 ELSE Count(e, k, n + 1)
          BY <2>6, <2>8, <3>2, <4>2 DEF More
        <4> QED
          BY <4>1, <4>3 DEF Forgot
      <3> QED
        BY <2>2, <2>8, <3>1, <3>3 DEF Good, w
    <2> QED
      BY <2>7, <2>8
  <1>5. Good(Len(e))
    <2> HIDE DEF Good
    <2>1. SUFFICES ASSUME Bad # {} PROVE FALSE
      OBVIOUS
    <2>2. PICK m \in Bad : \A k \in Bad : m <= k
      <3>1. Bad \in SUBSET Nat
        OBVIOUS
      <3> HIDE DEF Bad
      <3> QED
        BY <2>1, <3>1, Smallest
    <2>3. m # 0 /\ m - 1 \in Nat /\ (m - 1) + 1 = m /\ m <= Len(e)
      BY <2>2, <1>3
    <2>4. Good(m - 1)
      BY <2>2, <2>3
    <2> QED
      BY <1>4, <2>2, <2>3, <2>4
  <1>6. KeysOf(e) = {e[i] : i \in 1..Len(e)}
    BY DEF KeysOf
  <1>7. \A k : Fresh(e, k) = Count(e, k, Len(e))
    BY Length, FreshCounts
  <1> QED
    BY <1>2, <1>5, <1>6, <1>7 DEF Forgot

\* The oldest event leaves the window.
LEMMA Sliding ==
    ASSUME NEW S, NEW e \in Seq(S), e # <<>>
    PROVE  /\ Tail(e) \in Seq(S) /\ KeysOf(Tail(e)) \subseteq KeysOf(e)
           /\ \A key : Fresh(Tail(e), key) <= Fresh(e, key)
  <1>1. ASSUME NEW f, NEW t, NEW n \in Nat, DOMAIN f = 1..n,
               \A i \in DOMAIN t : t[i] = f[i + 1] /\ i + 1 \in 1..n /\ i \in Nat
        PROVE  /\ KeysOf(t) \subseteq KeysOf(f)
               /\ \A key : Fresh(t, key) <= Fresh(f, key)
    <2>1. KeysOf(t) \subseteq KeysOf(f)
      BY <1>1 DEF KeysOf
    <2>2. ASSUME NEW key PROVE Fresh(t, key) <= Fresh(f, key)
      <3> DEFINE T == {i \in DOMAIN t : t[i] = key}
                 F == {i \in DOMAIN f : f[i] = key}
                 g == [i \in T |-> i + 1]
      <3>1. g \in Injection(T, F)
        BY <1>1 DEF Injection, IsInjective
      <3>2. F \in SUBSET (1..n) /\ IsFiniteSet(1..n)
        BY <1>1, FS_Interval
      <3> HIDE DEF g, T, F
      <3>3. IsFiniteSet(F)
        BY <3>2, FS_Subset
      <3>4. Cardinality(T) <= Cardinality(F)
        BY <3>1, <3>3, FS_Injection
      <3> QED
        BY <3>4 DEF Fresh, T, F
    <2> QED
      BY <2>1, <2>2
  <1> DEFINE t == Tail(e)
  <1>2. /\ t \in Seq(S) /\ Len(e) \in Nat /\ DOMAIN e = 1..Len(e)
        /\ \A i \in DOMAIN t : t[i] = e[i + 1] /\ i + 1 \in 1..Len(e) /\ i \in Nat
    OBVIOUS
  <1> HIDE DEF t
  <1>3. KeysOf(t) \subseteq KeysOf(e) /\ \A key : Fresh(t, key) <= Fresh(e, key)
    BY <1>1, <1>2
  <1> QED
    BY <1>2, <1>3 DEF t

\* The key to evict is one of those remembered.
LEMMA StalestIsThere ==
    ASSUME NEW S, NEW e \in Seq(S), e # <<>>
    PROVE  Stalest(e) \in KeysOf(e)
  <1>1. ASSUME NEW f, NEW n \in Nat \ {0}, DOMAIN f = 1..n
        PROVE  Stalest(f) \in KeysOf(f)
    <2> DEFINE L == {i \in 1..n : \A j \in 1..n : f[j] = f[i] => j <= i}
               Stale(k) == \A j \in KeysOf(f) \ {k} :
                              \E i \in DOMAIN f : f[i] = j /\ \A m \in DOMAIN f : f[m] = k => m < i
    <2>1. ASSUME NEW i \in 1..n PROVE \E j \in L : f[j] = f[i]
      <3> DEFINE E == {h \in 1..n : f[h] = f[i]}
                 D == {n - j : j \in E}
      <3>1. D \in SUBSET Nat /\ D # {}
        OBVIOUS
      <3> HIDE DEF D
      <3>2. PICK d \in D : \A k \in D : d <= k
        BY <3>1, Smallest
      <3>3. PICK j \in E : d = n - j
        BY DEF D
      <3>4. \A h \in E : n - h \in D
        BY DEF D
      <3>5. \A h \in E : h <= j
        <4> TAKE h \in E
        <4>1. n - j <= n - h
          BY <3>2, <3>3, <3>4
        <4> QED
          BY <4>1
      <3> QED
        BY <3>3, <3>5
    <2>2. L \in SUBSET Nat /\ L # {}
      BY <2>1
    <2>3. PICK m \in L : \A j \in L : m <= j
      <3> HIDE DEF L
      <3> QED
        BY <2>2, Smallest
    <2>4. f[m] \in KeysOf(f)
      BY <1>1, <2>3 DEF KeysOf
    <2>5. Stale(f[m])
      <3> SUFFICES ASSUME NEW j \in KeysOf(f) \ {f[m]}
                   PROVE  \E i \in DOMAIN f : f[i] = j /\ \A k \in DOMAIN f : f[k] = f[m] => k < i
        OBVIOUS
      <3>1. PICK h \in 1..n : f[h] = j
        BY <1>1 DEF KeysOf
      <3>2. PICK i \in L : f[i] = j
        BY <2>1, <3>1
      <3>3. m <= i /\ m # i
        BY <2>3, <3>2
      <3>4. \A k \in DOMAIN f : f[k] = f[m] => k < i
        BY <1>1, <2>3, <3>2, <3>3
      <3> QED
        BY <1>1, <3>2, <3>4
    <2> HIDE DEF Stale
    <2>6. (CHOOSE k \in KeysOf(f) : Stale(k)) \in KeysOf(f)
      BY <2>4, <2>5
    <2> QED
      BY <2>6 DEF Stalest, Stale
  <1>2. Len(e) \in Nat \ {0} /\ DOMAIN e = 1..Len(e)
    OBVIOUS
  <1> QED
    BY <1>1, <1>2

\* record keeps to the ceiling and adds at most one event.
LEMMA RecordKeeps ==
    ASSUME NEW S, NEW e \in Seq(S), NEW x \in S, NEW max \in Nat, IsFiniteSet(KeysOf(e)),
           Cardinality(KeysOf(e)) <= max
    PROVE  /\ Recorded(e, x, max) \in Seq(S)
           /\ IsFiniteSet(KeysOf(Recorded(e, x, max))) /\ Cardinality(KeysOf(Recorded(e, x, max))) <= max
           /\ \A key : Fresh(Recorded(e, x, max), key) <= More(e, x, key)
  <1> DEFINE more == Append(e, x)
             k == Stalest(more)
             w == Without(more, k)
             r == Recorded(e, x, max)
             K == KeysOf(e)
  <1>1. more \in Seq(S) /\ more # <<>>
    BY Recording
  <1>2. KeysOf(more) = K \cup {x} /\ \A key : Fresh(more, key) = More(e, x, key)
    BY Recording
  <1>3. k \in KeysOf(more)
    BY <1>1, StalestIsThere
  <1>4. w \in Seq(S)
    BY <1>1, Forgetting
  <1>5. KeysOf(w) = KeysOf(more) \ {k} /\ \A key : Fresh(w, key) = IF key = k THEN 0 ELSE Fresh(more, key)
    BY <1>1, Forgetting
  <1>6. r = IF Cardinality(KeysOf(more)) > max THEN w ELSE more
    BY DEF Recorded
  <1>7. IsFiniteSet(K) /\ Cardinality(K) <= max
    OBVIOUS
  <1>8. \A key : Fresh(e, key) \in Nat
    BY Length, FreshCounts
  <1>9. \A key : More(e, x, key) \in Nat
    BY <1>8 DEF More
  <1> HIDE DEF more, k, w, r, K
  <1>10. /\ IsFiniteSet(KeysOf(more)) /\ Cardinality(KeysOf(more)) \in Nat
         /\ Cardinality(KeysOf(more)) <= max + 1
    <2>1. Cardinality(K) \in Nat
      BY <1>7, FS_CardinalityType
    <2>2. IsFiniteSet(K \cup {x}) /\ Cardinality(K \cup {x}) = IF x \in K THEN Cardinality(K) ELSE Cardinality(K) + 1
      BY <1>7, FS_AddElement
    <2> QED
      BY <1>2, <1>7, <2>1, <2>2
  <1>11. IsFiniteSet(KeysOf(w)) /\ Cardinality(KeysOf(w)) <= max
    <2>1. /\ IsFiniteSet(KeysOf(more) \ {k})
          /\ Cardinality(KeysOf(more) \ {k}) = Cardinality(KeysOf(more)) - 1
      BY <1>3, <1>10, FS_RemoveElement
    <2> QED
      BY <1>5, <1>10, <2>1
  <1>12. \A key : Fresh(w, key) <= More(e, x, key) /\ Fresh(more, key) <= More(e, x, key)
    BY <1>2, <1>5, <1>9
  <1>13. r \in {w, more} /\ IsFiniteSet(KeysOf(r)) /\ Cardinality(KeysOf(r)) <= max
    BY <1>6, <1>10, <1>11
  <1> QED
    BY <1>1, <1>4, <1>12, <1>13 DEF r

-----------------------------------------------------------------------------
(* The budgets *)

\* Who waits for the password check, having found the limiter open.
Waiting == {c \in Client : req[c].at = "login"}

Addresses == {Here, Elsewhere}

Remembers(l) ==
    /\ l \in Seq(Addresses)
    /\ IsFiniteSet(KeysOf(l)) /\ Cardinality(KeysOf(l)) <= MaxKeys

BudgetInv ==
    /\ Remembers(attempts) /\ Remembers(signups)
    /\ Fresh(attempts, Here) + Cardinality(Waiting) < MaxAttempts + Cardinality(Client)
    /\ Fresh(signups, Here) <= MaxSignups

LEMMA WaitingIsFinite ==
    ASSUME NEW W \in SUBSET Client
    PROVE  IsFiniteSet(W) /\ Cardinality(W) \in Nat /\ Cardinality(W) <= Cardinality(Client)
  BY AccountsAssumption, FS_Subset, FS_CardinalityType

LEMMA FewerWait ==
    ASSUME NEW W \in SUBSET Client, NEW V \in SUBSET W
    PROVE  Cardinality(V) \in Nat /\ Cardinality(W) \in Nat /\ Cardinality(V) <= Cardinality(W)
  <1>1. IsFiniteSet(W)
    BY WaitingIsFinite
  <1> QED
    BY <1>1, FS_Subset, FS_CardinalityType

LEMMA RememberedCounts ==
    ASSUME NEW l, Remembers(l), NEW key
    PROVE  Fresh(l, key) \in Nat
  <1>1. Len(l) \in Nat /\ DOMAIN l = 1..Len(l)
    BY Length DEF Remembers
  <1> QED
    BY <1>1, FreshCounts

LEMMA NothingRemembered == Remembers(<<>>) /\ Fresh(<<>>, Here) = 0
  <1>1. KeysOf(<<>>) = {} /\ Fresh(<<>>, Here) = 0
    BY FS_EmptySet DEF KeysOf, Fresh
  <1>2. <<>> \in Seq(Addresses)
    OBVIOUS
  <1> QED
    BY <1>1, <1>2, FS_EmptySet, AccountsAssumption DEF Remembers

LEMMA RecordedIsRemembered ==
    ASSUME NEW l, Remembers(l), NEW x \in Addresses
    PROVE  /\ Remembers(Recorded(l, x, MaxKeys))
           /\ Fresh(Recorded(l, x, MaxKeys), Here) <= Fresh(l, Here) + (IF x = Here THEN 1 ELSE 0)
  <1> DEFINE r == Recorded(l, x, MaxKeys)
  <1>1. /\ r \in Seq(Addresses) /\ IsFiniteSet(KeysOf(r)) /\ Cardinality(KeysOf(r)) <= MaxKeys
        /\ \A key : Fresh(r, key) <= More(l, x, key)
    BY RecordKeeps, AccountsAssumption DEF Remembers
  <1> HIDE DEF r
  <1>2. Remembers(r) /\ Fresh(r, Here) <= More(l, x, Here)
    BY <1>1 DEF Remembers
  <1> QED
    BY <1>2 DEF More, r

LEMMA KeysShrink ==
    ASSUME NEW l, Remembers(l), NEW r, r \in Seq(Addresses), KeysOf(r) \subseteq KeysOf(l)
    PROVE  Remembers(r)
  <1>1. /\ IsFiniteSet(KeysOf(r)) /\ Cardinality(KeysOf(r)) <= Cardinality(KeysOf(l))
        /\ Cardinality(KeysOf(r)) \in Nat /\ Cardinality(KeysOf(l)) \in Nat
    BY FS_Subset, FS_CardinalityType DEF Remembers
  <1> QED
    BY <1>1, AccountsAssumption DEF Remembers

LEMMA ForgottenIsRemembered ==
    ASSUME NEW l, Remembers(l)
    PROVE  Remembers(Without(l, Here)) /\ Fresh(Without(l, Here), Here) = 0
  <1> DEFINE w == Without(l, Here)
  <1>1. w \in Seq(Addresses) /\ KeysOf(w) = KeysOf(l) \ {Here} /\ Fresh(w, Here) = 0
    BY Forgetting DEF Remembers
  <1> HIDE DEF w
  <1>2. Remembers(w)
    BY <1>1, KeysShrink
  <1> QED
    BY <1>1, <1>2 DEF w

LEMMA SlidIsRemembered ==
    ASSUME NEW l, Remembers(l), l # <<>>
    PROVE  Remembers(Tail(l)) /\ Fresh(Tail(l), Here) <= Fresh(l, Here)
  <1> DEFINE t == Tail(l)
  <1>1. t \in Seq(Addresses) /\ KeysOf(t) \subseteq KeysOf(l) /\ Fresh(t, Here) <= Fresh(l, Here)
    BY Sliding DEF Remembers
  <1> HIDE DEF t
  <1>2. Remembers(t)
    BY <1>1, KeysShrink
  <1> QED
    BY <1>1, <1>2 DEF t

\* Whatever is done without the limiters while nobody else starts to wait.
LEMMA BudgetStays ==
    ASSUME BudgetInv, attempts' = attempts, signups' = signups, Waiting' \subseteq Waiting
    PROVE  BudgetInv'
  <1>1. /\ Cardinality(Waiting') \in Nat /\ Cardinality(Waiting) \in Nat
        /\ Cardinality(Waiting') <= Cardinality(Waiting)
    BY FewerWait DEF Waiting
  <1>2. Fresh(attempts, Here) \in Nat /\ Cardinality(Client) \in Nat
    BY RememberedCounts, WaitingIsFinite DEF BudgetInv
  <1> QED
    BY <1>1, <1>2, AccountsAssumption DEF BudgetInv

LEMMA WaitingAfter ==
    ASSUME Inv, NEW c \in Client, NEW r, req' = [req EXCEPT ![c] = r], r.at # "login"
    PROVE  Waiting' = Waiting \ {c}
  BY DEF Waiting, Inv, ReqTypes

LEMMA DieWaits == ASSUME Inv, BudgetInv, NEW c \in Client, Die(c) PROVE BudgetInv'
  <1>1. req' = [req EXCEPT ![c] = Idle] /\ attempts' = attempts /\ signups' = signups
    BY DEF Die, Done, Goto, memory
  <1>2. Waiting' = Waiting \ {c}
    BY <1>1, WaitingAfter, IdleIsRequest
  <1> QED
    BY <1>1, <1>2, BudgetStays

\* The handlers of one request after its first step, the password check aside.
Onward(c) ==
    \/ Found(c) \/ Enrol(c) \/ NameTaken(c) \/ Release(c) \/ AssignCode(c) \/ Introduce(c)
    \/ CreateSession(c) \/ CreateInvite(c) \/ SetAccessLevel(c) \/ Delete(c) \/ DeleteUser(c)
    \/ \E s \in db.sessions : Logout(c, s) \/ Enter(c, s)
    \/ \E k \in Code : Revoke(c, k)
    \/ \E u \in User, what \in {"promote", "demote", "sessions"} : LookAt(c, u, what)

Uncounted == attempts' = attempts /\ signups' = signups

GoesTo(c, r) == req' = [req EXCEPT ![c] = r] /\ r.at # "login"

Went(c) == Die(c) \/ (Uncounted /\ (req' = req \/ \E r : GoesTo(c, r)))

LEMMA OnwardGoes == ASSUME Inv, NEW c \in Client, Onward(c) PROVE Went(c)
  <1>1. req[c] \in Request
    BY RequestParts
  <1>2. \A w : [req[c] EXCEPT !.at = w].at = w
    BY <1>1 DEF Request
  <1>3. ASSUME NEW w, w # "login", At(c, w) PROVE \E r : GoesTo(c, r)
    BY <1>2, <1>3 DEF At, Goto, GoesTo
  <1>4. Done(c) => GoesTo(c, Idle)
    BY IdleIsRequest DEF Done, Goto, GoesTo
  <1>5. UNCHANGED memory => Uncounted
    BY DEF memory, Uncounted
  <1>6. CASE Found(c)
    <2>1. At(c, "enrol") => \E r : GoesTo(c, r)
      BY <1>3
    <2> QED
      BY <1>5, <1>6, <2>1 DEF Found, Went
  <1>7. CASE Enrol(c)
    <2> DEFINE r == [req[c] EXCEPT !.at = IF req[c].code = 0 THEN "session" ELSE "assign",
                                   !.user = db.lastUser + 1]
    <2>1. r.at # "login"
      BY <1>1 DEF Request
    <2>2. Uncounted /\ req' = [req EXCEPT ![c] = r]
      BY <1>5, <1>7 DEF Enrol, Goto
    <2> HIDE DEF r
    <2> QED
      BY <2>1, <2>2 DEF GoesTo, Went
  <1>8. CASE NameTaken(c)
    <2>1. At(c, "release") => \E r : GoesTo(c, r)
      BY <1>3
    <2> QED
      BY <1>4, <1>5, <1>8, <2>1 DEF NameTaken, Went
  <1>9. CASE Release(c) \/ CreateSession(c) \/ CreateInvite(c) \/ SetAccessLevel(c) \/ DeleteUser(c)
    BY <1>4, <1>5, <1>9 DEF Release, CreateSession, CreateInvite, SetAccessLevel, DeleteUser, Went
  <1>10. CASE AssignCode(c)
    <2>1. At(c, "introduce") => \E r : GoesTo(c, r)
      BY <1>3
    <2> QED
      BY <1>5, <1>10, <2>1 DEF AssignCode, Went
  <1>11. CASE Introduce(c)
    <2> DEFINE r == [Idle EXCEPT !.at = "session", !.user = req[c].user]
    <2>1. r.at # "login"
      BY DEF Idle
    <2>2. Uncounted /\ req' = [req EXCEPT ![c] = r]
      BY <1>5, <1>11 DEF Introduce, Goto
    <2> QED
      BY <2>1, <2>2 DEF GoesTo, Went
  <1>12. CASE Delete(c)
    <2>1. Then[req[c].at] # "login" /\ At(c, Then[req[c].at])
      BY <1>12 DEF Delete, Then
    <2> QED
      BY <1>3, <1>5, <1>12, <2>1 DEF Delete, Went
  <1>13. ASSUME NEW s \in db.sessions, Logout(c, s) \/ Enter(c, s) PROVE Went(c)
    <2> DEFINE r == [Idle EXCEPT !.at = "entered", !.me = s[2], !.level = db.users[s[2]].level]
    <2>1. r.at # "login"
      BY DEF Idle
    <2>2. Uncounted /\ (req' = req \/ req' = [req EXCEPT ![c] = r])
      BY <1>5, <1>13 DEF Logout, Enter, Goto, memory, Uncounted
    <2> QED
      BY <2>1, <2>2 DEF GoesTo, Went
  <1>14. ASSUME NEW k \in Code, Revoke(c, k) PROVE Went(c)
    BY <1>4, <1>5, <1>14 DEF Revoke, Went
  <1>15. ASSUME NEW u \in User, NEW what \in {"promote", "demote", "sessions"}, LookAt(c, u, what)
         PROVE  Went(c)
    <2> DEFINE r == [Idle EXCEPT !.at = what, !.user = u]
    <2>1. r.at # "login"
      BY DEF Idle
    <2>2. Uncounted /\ req' = [req EXCEPT ![c] = r]
      BY <1>5, <1>15 DEF LookAt, Goto
    <2> QED
      BY <2>1, <2>2 DEF GoesTo, Went
  <1> QED
    BY <1>6, <1>7, <1>8, <1>9, <1>10, <1>11, <1>12, <1>13, <1>14, <1>15 DEF Onward

LEMMA OnwardBudget == ASSUME Inv, BudgetInv, NEW c \in Client, Onward(c) PROVE BudgetInv'
  <1>1. CASE Die(c)
    BY <1>1, DieWaits
  <1>2. CASE attempts' = attempts /\ signups' = signups /\ req' = req
    <2>1. Waiting' = Waiting
      BY <1>2 DEF Waiting
    <2> QED
      BY <1>2, <2>1, BudgetStays
  <1>3. ASSUME attempts' = attempts, signups' = signups,
               NEW r, req' = [req EXCEPT ![c] = r], r.at # "login"
        PROVE  BudgetInv'
    <2>1. Waiting' = Waiting \ {c}
      BY <1>3, WaitingAfter
    <2> QED
      BY <1>3, <2>1, BudgetStays
  <1> QED
    BY <1>1, <1>2, <1>3, OnwardGoes DEF Went, Uncounted, GoesTo

\* A registration is counted before anything is awaited.
LEMMA RegisterBudget ==
    ASSUME Inv, BudgetInv, NEW c \in Client, NEW k, Register(c, k)
    PROVE  BudgetInv'
  <1>1. /\ Fresh(signups, Here) < MaxSignups /\ signups' = Recorded(signups, Here, MaxKeys)
        /\ attempts' = attempts
    BY RememberedCounts, AccountsAssumption DEF Register, IsLimited, BudgetInv
  <1>2. Waiting' \subseteq Waiting
    <2>1. [Idle EXCEPT !.at = "claimed", !.code = k].at # "login" /\ [Idle EXCEPT !.at = "enrol"].at # "login"
      BY DEF Idle
    <2>2. req' = req \/ \E r : req' = [req EXCEPT ![c] = r] /\ r.at # "login"
      BY <2>1 DEF Register, Goto
    <2>3. CASE req' = req
      BY <2>3 DEF Waiting
    <2> QED
      BY <2>2, <2>3, WaitingAfter
  <1>3. /\ Remembers(signups') /\ Fresh(signups', Here) <= Fresh(signups, Here) + 1
        /\ Fresh(signups, Here) \in Nat /\ Fresh(signups', Here) \in Nat
    <2>1. Here \in Addresses
      BY DEF Addresses
    <2> QED
      BY <1>1, <2>1, RecordedIsRemembered, RememberedCounts DEF BudgetInv
  <1>4. Fresh(signups', Here) <= MaxSignups
    BY <1>1, <1>3, AccountsAssumption
  <1>5. /\ Cardinality(Waiting') \in Nat /\ Cardinality(Waiting) \in Nat
        /\ Cardinality(Waiting') <= Cardinality(Waiting)
    BY <1>2, FewerWait DEF Waiting
  <1>6. Fresh(attempts, Here) \in Nat /\ Cardinality(Client) \in Nat
    BY RememberedCounts, WaitingIsFinite DEF BudgetInv
  <1> QED
    BY <1>1, <1>3, <1>4, <1>5, <1>6, AccountsAssumption DEF BudgetInv

\* Whoever finds the limiter open may find it so with all the others.
LEMMA LoginBudget == ASSUME Inv, BudgetInv, NEW c \in Client, Login(c) PROVE BudgetInv'
  <1>1. Fresh(attempts, Here) < MaxAttempts /\ attempts' = attempts /\ signups' = signups
    BY RememberedCounts, AccountsAssumption DEF Login, IsLimited, BudgetInv, memory
  <1>2. Cardinality(Waiting') \in Nat /\ Cardinality(Waiting') <= Cardinality(Client)
    BY WaitingIsFinite DEF Waiting
  <1>3. Fresh(attempts, Here) \in Nat /\ Cardinality(Client) \in Nat
    BY RememberedCounts, WaitingIsFinite DEF BudgetInv
  <1>4. Fresh(attempts', Here) + Cardinality(Waiting') < MaxAttempts + Cardinality(Client)
    BY <1>1, <1>2, <1>3, AccountsAssumption
  <1> QED
    BY <1>1, <1>4 DEF BudgetInv

\* One failure more, and one request less that waits.
LEMMA RefusedBudget == ASSUME Inv, BudgetInv, NEW c \in Client, Refused(c) PROVE BudgetInv'
  <1>1. /\ c \in Waiting /\ req' = [req EXCEPT ![c] = Idle] /\ signups' = signups
        /\ attempts' = Recorded(attempts, Here, MaxKeys)
    BY DEF Refused, Waiting, Done, Goto
  <1>2. Waiting' = Waiting \ {c}
    BY <1>1, WaitingAfter, IdleIsRequest
  <1>3. Cardinality(Waiting') = Cardinality(Waiting) - 1 /\ Cardinality(Waiting) \in Nat
    <2>1. IsFiniteSet(Waiting)
      BY WaitingIsFinite DEF Waiting
    <2> QED
      BY <1>1, <1>2, <2>1, FS_RemoveElement, FS_CardinalityType
  <1>4. /\ Remembers(attempts') /\ Fresh(attempts', Here) <= Fresh(attempts, Here) + 1
        /\ Fresh(attempts, Here) \in Nat /\ Fresh(attempts', Here) \in Nat
    <2>1. Here \in Addresses
      BY DEF Addresses
    <2> QED
      BY <1>1, <2>1, RecordedIsRemembered, RememberedCounts DEF BudgetInv
  <1>5. Fresh(attempts', Here) + Cardinality(Waiting') < MaxAttempts + Cardinality(Client)
    <2>1. Cardinality(Client) \in Nat
      BY WaitingIsFinite
    <2> QED
      BY <1>3, <1>4, <2>1, AccountsAssumption DEF BudgetInv
  <1> QED
    BY <1>1, <1>4, <1>5 DEF BudgetInv

LEMMA WelcomeBudget ==
    ASSUME Inv, BudgetInv, NEW c \in Client, NEW u, Welcome(c, u)
    PROVE  BudgetInv'
  <1> DEFINE r == [Idle EXCEPT !.at = "session", !.user = u]
  <1>1. r.at # "login"
    BY DEF Idle
  <1>2. /\ req' = [req EXCEPT ![c] = r] /\ signups' = signups /\ attempts' = Without(attempts, Here)
    BY DEF Welcome, Goto
  <1> HIDE DEF r
  <1>3. Waiting' \subseteq Waiting
    BY <1>1, <1>2, WaitingAfter
  <1>4. /\ Cardinality(Waiting') \in Nat /\ Cardinality(Waiting) \in Nat
        /\ Cardinality(Waiting') <= Cardinality(Waiting)
    BY <1>3, FewerWait DEF Waiting
  <1>5. Remembers(attempts') /\ Fresh(attempts', Here) = 0 /\ Fresh(attempts, Here) \in Nat
    BY <1>2, ForgottenIsRemembered, RememberedCounts DEF BudgetInv
  <1>6. Cardinality(Client) \in Nat
    BY WaitingIsFinite
  <1> QED
    BY <1>2, <1>4, <1>5, <1>6, AccountsAssumption DEF BudgetInv

LEMMA TimeBudget ==
    ASSUME Inv, BudgetInv, OthersFail \/ WindowSlides
    PROVE  BudgetInv'
  <1>1. Waiting' = Waiting
    BY DEF OthersFail, WindowSlides, Waiting
  <1>2. /\ Remembers(attempts') /\ Remembers(signups')
        /\ Fresh(attempts', Here) <= Fresh(attempts, Here) /\ Fresh(signups', Here) <= Fresh(signups, Here)
    <2>1. Fresh(attempts, Here) \in Nat /\ Fresh(signups, Here) \in Nat
      BY RememberedCounts DEF BudgetInv
    <2>2. CASE OthersFail
      <3>1. Elsewhere \in Addresses /\ Elsewhere # Here
        BY AccountsAssumption DEF Addresses
      <3>2. Remembers(attempts') /\ Fresh(attempts', Here) <= Fresh(attempts, Here) + 0 /\ signups' = signups
        BY <2>2, <3>1, RecordedIsRemembered DEF OthersFail, BudgetInv
      <3> QED
        BY <2>1, <3>2 DEF BudgetInv
    <2>3. CASE WindowSlides
      <3>1. Remembers(attempts) /\ Remembers(signups)
        BY DEF BudgetInv
      <3>2. CASE attempts # <<>> /\ attempts' = Tail(attempts) /\ signups' = signups
        BY <2>1, <3>1, <3>2, SlidIsRemembered
      <3>3. CASE signups # <<>> /\ signups' = Tail(signups) /\ attempts' = attempts
        BY <2>1, <3>1, <3>3, SlidIsRemembered
      <3> QED
        BY <2>3, <3>2, <3>3 DEF WindowSlides
    <2> QED
      BY <2>2, <2>3
  <1>3. /\ Fresh(attempts, Here) \in Nat /\ Fresh(signups, Here) \in Nat
        /\ Fresh(attempts', Here) \in Nat /\ Fresh(signups', Here) \in Nat
    BY <1>2, RememberedCounts DEF BudgetInv
  <1>4. Cardinality(Client) \in Nat /\ Cardinality(Waiting) \in Nat
    BY WaitingIsFinite DEF Waiting
  <1> QED
    BY <1>1, <1>2, <1>3, <1>4, AccountsAssumption DEF BudgetInv

LEMMA EmptyBudget ==
    Remembers(<<>>) /\ Fresh(<<>>, Here) + Cardinality({}) < MaxAttempts + Cardinality(Client)
      /\ Fresh(<<>>, Here) <= MaxSignups
  <1>1. Cardinality({}) = 0 /\ Cardinality(Client) \in Nat
    BY FS_EmptySet, WaitingIsFinite
  <1> QED
    BY <1>1, NothingRemembered, AccountsAssumption

LEMMA InitBudget == Init => BudgetInv
  <1> SUFFICES ASSUME Init PROVE BudgetInv
    OBVIOUS
  <1>1. Waiting = {} /\ attempts = <<>> /\ signups = <<>>
    BY IdleIsRequest DEF Init, Waiting
  <1> QED
    BY <1>1, EmptyBudget DEF BudgetInv

LEMMA BudgetNext == Inv /\ BudgetInv /\ [Next]_vars => BudgetInv'
  <1> SUFFICES ASSUME Inv, BudgetInv, [Next]_vars PROVE BudgetInv'
    OBVIOUS
  <1>1. ASSUME NEW c \in Client, Signup(c) \/ Signin(c) \/ Signedin(c) PROVE BudgetInv'
    <2>1. \/ Onward(c) \/ Login(c) \/ Refused(c)
          \/ (\E k : Register(c, k)) \/ (\E u : Welcome(c, u))
      BY <1>1 DEF Signup, Signin, Signedin, Onward
    <2> QED
      BY <2>1, OnwardBudget, LoginBudget, RefusedBudget, RegisterBudget, WelcomeBudget
  <1>2. CASE Restart
    <2>1. Waiting' = {} /\ attempts' = <<>> /\ signups' = <<>>
      BY <1>2, IdleIsRequest DEF Restart, Waiting
    <2> QED
      BY <2>1, EmptyBudget DEF BudgetInv
  <1>3. CASE (\E s \in Client \X User : SessionExpires(s)) \/ (\E k \in Code : InviteExpires(k))
             \/ UNCHANGED vars
    <2>1. Waiting' = Waiting /\ attempts' = attempts /\ signups' = signups
      BY <1>3 DEF SessionExpires, InviteExpires, vars, memory, Waiting
    <2> QED
      BY <2>1, BudgetStays
  <1> QED
    BY <1>1, <1>2, <1>3, TimeBudget DEF Next

\* The login limiter is asked before the password check and told after it, so
\* that a window may see more failures than the budget, and how many is known:
\* the failures and the requests that wait for their check stay below the budget
\* and the number of clients together.  Registrations keep to theirs, and
\* neither limiter remembers more addresses than max_keys (RateLimiter.record).
THEOREM BudgetsAreKept == Spec => []BudgetHolds
  <1>1. BudgetInv => BudgetHolds
    <2> SUFFICES ASSUME BudgetInv PROVE BudgetHolds
      OBVIOUS
    <2>1. Fresh(attempts, Here) \in Nat /\ Cardinality(Waiting) \in Nat /\ Cardinality(Client) \in Nat
      BY RememberedCounts, WaitingIsFinite DEF BudgetInv, Waiting
    <2>2. Fresh(attempts, Here) < MaxAttempts + Cardinality(Client)
      BY <2>1, AccountsAssumption DEF BudgetInv
    <2> QED
      BY <2>2 DEF BudgetInv, Remembers, Addresses, BudgetHolds
  <1> QED
    BY <1>1, SpecInv, InitBudget, BudgetNext, PTL DEF Spec

=============================================================================
