------------------------------- MODULE Accounts -------------------------------
(***************************************************************************)
(* Accounts: lib/auth.py, lib/invites.py and the routes that use them      *)
(* (auth_routes.py, and the invitations and users of admin_routes.py).     *)
(*                                                                         *)
(* All handlers share one connection to the database, and with it one      *)
(* transaction: what one has written the others see at once, and what any  *)
(* of them commits is committed for all.  db is what the connection sees   *)
(* and disk what a crash leaves.  An action is one statement, together     *)
(* with the commit where that comes next.                                  *)
(***************************************************************************)
EXTENDS Naturals, Sequences, FiniteSets, RateLimiter

CONSTANTS
    Client,         \* each has one request under way at most
    Here, Elsewhere,    \* the address they share, and another
    MaxAttempts,    \* _login_limiter's max_events, 5 in the code
    MaxSignups,     \* _register_limiter's, 10 in the code
    MaxKeys,        \* max_keys of both, 10_000 in the code
    MaxUsers,       \* bound on accounts ever made
    MaxInvites      \* bound on codes ever made

ASSUME AccountsAssumption ==
    /\ IsFiniteSet(Client) /\ Here # Elsewhere
    /\ MaxAttempts \in Nat \ {0} /\ MaxSignups \in Nat \ {0} /\ MaxKeys \in Nat \ {0}
    /\ MaxUsers \in Nat /\ MaxInvites \in Nat

VARIABLES
    db, disk,
    req,            \* where the handler of each client's request is
    invite_only,    \* the setting, read when the process starts
    attempts, signups,   \* the two limiters
    admitted,       \* how many accounts each code has made
    burnt           \* codes whose registration was cut off

memory == <<invite_only, attempts, signups>>
vars == <<db, disk, req, memory, admitted, burnt>>

User == 1..MaxUsers         \* row ids; 0 is NULL, and no row
Code == 1..MaxInvites

Gone == [level |-> 0, by |-> 0]
NoInvite == [by |-> 0, used |-> FALSE, usedBy |-> 0, open |-> FALSE]

\* sessions stands for all tables whose rows belong to a user.
Empty ==
    [users |-> [u \in {} |-> Gone], invites |-> [k \in {} |-> NoInvite],
     sessions |-> {}, lastUser |-> 0, lastInvite |-> 0]

\* at: what the handler does next; me and level: whose request it is and what
\* require_user read of them; code and user: what it has found so far.
Idle == [at |-> "idle", me |-> 0, level |-> 0, code |-> 0, user |-> 0]

Init ==
    /\ db = Empty /\ disk = Empty
    /\ req = [c \in Client |-> Idle]
    /\ invite_only = FALSE
    /\ attempts = <<>> /\ signups = <<>>
    /\ admitted = [k \in Code |-> 0]
    /\ burnt = {}

-----------------------------------------------------------------------------

Exists(u) == u \in DOMAIN db.users
Known(k) == k \in DOMAIN db.invites

Committed(d) == db' = d /\ disk' = d
Uncommitted(d) == db' = d /\ UNCHANGED disk
Goto(c, r) == req' = [req EXCEPT ![c] = r]
At(c, where) == Goto(c, [req[c] EXCEPT !.at = where])
Done(c) == Goto(c, Idle)

\* The landing page sends whoever is logged in to /home; a client logs out before
\* it logs in again.
Anonymous(c) == \A s \in db.sessions : s[1] # c

\* A foreign key, or a row that is not there, raises: the handler answers 500.
Die(c) ==
    /\ Done(c)
    /\ burnt' = IF req[c].at = "claimed" THEN burnt \cup {req[c].code} ELSE burnt
    /\ UNCHANGED <<db, disk, memory, admitted>>

-----------------------------------------------------------------------------
(* register *)

\* The slip of looking only: the code stays in circulation until it is assigned.
StillOpen(d, k) == d

\* The UPDATE of claim.
TakenFrom(d, k) == [d EXCEPT !.invites[k].used = TRUE]

\* The limiter, and invites.claim with code k; 0 is no code, or one nobody has
\* made.  A code that is not to be had lets nobody in, unless the board is open.
Register(c, k) ==
    /\ req[c].at = "idle" /\ Anonymous(c)
    /\ ~IsLimited(signups, Here, MaxSignups)
    /\ signups' = Recorded(signups, Here, MaxKeys)
    /\ \/ /\ Known(k) /\ db.invites[k].open /\ ~db.invites[k].used
          /\ Committed(TakenFrom(db, k))
          /\ Goto(c, [Idle EXCEPT !.at = "claimed", !.code = k])
       \/ /\ ~(Known(k) /\ db.invites[k].open /\ ~db.invites[k].used)
          /\ IF k = 0 THEN UNCHANGED <<db, disk>> ELSE Committed(db)
          /\ IF invite_only THEN UNCHANGED req ELSE Goto(c, [Idle EXCEPT !.at = "enrol"])
       \/ k = 0 /\ UNCHANGED <<db, disk, req>>     \* validate refuses the form
    /\ UNCHANGED <<invite_only, attempts, admitted, burnt>>

\* claim reads the id of the row it has changed.
Found(c) ==
    /\ req[c].at = "claimed"
    /\ IF Known(req[c].code)
       THEN At(c, "enrol") /\ UNCHANGED <<db, disk, memory, admitted, burnt>>
       ELSE Die(c)

WithUser(d) ==
    LET u == d.lastUser + 1
        row == [level |-> IF DOMAIN d.users = {} THEN 2 ELSE 0, by |-> 0]
    IN  [d EXCEPT !.users = [v \in DOMAIN d.users \cup {u} |-> IF v = u THEN row ELSE d.users[v]],
                  !.lastUser = u]

\* register_user: the one INSERT that looks for a first user, and for the name,
\* which somebody may have taken.
Enrol(c) ==
    /\ req[c].at = "enrol" /\ db.lastUser < MaxUsers
    /\ Committed(WithUser(db))
    /\ Goto(c, [req[c] EXCEPT !.at = IF req[c].code = 0 THEN "session" ELSE "assign",
                              !.user = db.lastUser + 1])
    /\ admitted' = [k \in Code |-> IF k = req[c].code THEN admitted[k] + 1 ELSE admitted[k]]
    /\ UNCHANGED <<memory, burnt>>

NameTaken(c) ==
    /\ req[c].at = "enrol" /\ DOMAIN db.users # {}
    /\ IF req[c].code = 0 THEN Done(c) ELSE At(c, "release")
    /\ UNCHANGED <<db, disk, memory, admitted, burnt>>

Released(d, k) ==
    IF k \in DOMAIN d.invites /\ d.invites[k].usedBy = 0
    THEN [d EXCEPT !.invites[k].used = FALSE] ELSE d

Release(c) ==
    /\ req[c].at = "release"
    /\ Committed(Released(db, req[c].code))
    /\ Done(c)
    /\ UNCHANGED <<memory, admitted, burnt>>

\* assign, the code's side.  An account gone by now has no level to return, and
\* no row for used_by to point at.
AssignCode(c) ==
    LET k == req[c].code
        u == req[c].user
    IN  /\ req[c].at = "assign"
        /\ IF Exists(u)
           THEN /\ Uncommitted(IF Known(k) THEN [db EXCEPT !.invites[k].usedBy = u] ELSE db)
                /\ At(c, "introduce")
                /\ UNCHANGED <<memory, admitted, burnt>>
           ELSE Die(c)

\* assign, the account's side: no row, no inviter.
Introduce(c) ==
    LET u == req[c].user
        by == IF Known(req[c].code) THEN db.invites[req[c].code].by ELSE 0
    IN  /\ req[c].at = "introduce"
        /\ Committed(IF Exists(u) THEN [db EXCEPT !.users[u].by = by] ELSE db)
        /\ Goto(c, [Idle EXCEPT !.at = "session", !.user = u])
        /\ UNCHANGED <<memory, admitted, burnt>>

\* authenticate's and create_session's rows; both refer to the account.
CreateSession(c) ==
    /\ req[c].at = "session"
    /\ IF Exists(req[c].user)
       THEN /\ Committed([db EXCEPT !.sessions = @ \cup {<<c, req[c].user>>}])
            /\ Done(c)
            /\ UNCHANGED <<memory, admitted, burnt>>
       ELSE Die(c)

-----------------------------------------------------------------------------
(* login and logout *)

\* Past the limiter, and waiting for the row of the name.
Login(c) ==
    /\ req[c].at = "idle" /\ Anonymous(c)
    /\ ~IsLimited(attempts, Here, MaxAttempts)
    /\ Goto(c, [Idle EXCEPT !.at = "login"])
    /\ UNCHANGED <<db, disk, memory, admitted, burnt>>

\* A name that does not exist, or the wrong password.
Refused(c) ==
    /\ req[c].at = "login"
    /\ attempts' = Recorded(attempts, Here, MaxKeys)
    /\ Done(c)
    /\ UNCHANGED <<db, disk, invite_only, signups, admitted, burnt>>

\* The right one.  What authenticate writes on the way refers to the account as
\* the session will.
Welcome(c, u) ==
    /\ req[c].at = "login" /\ Exists(u)
    /\ attempts' = Without(attempts, Here)
    /\ Committed(db)
    /\ Goto(c, [Idle EXCEPT !.at = "session", !.user = u])
    /\ UNCHANGED <<invite_only, signups, admitted, burnt>>

\* A login fails at another address; only the limiter notices.
OthersFail ==
    /\ ~IsLimited(attempts, Elsewhere, MaxAttempts)
    /\ attempts' = Recorded(attempts, Elsewhere, MaxKeys)
    /\ UNCHANGED <<db, disk, req, invite_only, signups, admitted, burnt>>

WithoutSession(d, s) == [d EXCEPT !.sessions = @ \ {s}]

Logout(c, s) ==
    /\ req[c].at = "idle" /\ s \in db.sessions /\ s[1] = c
    /\ Committed(WithoutSession(db, s))
    /\ UNCHANGED <<req, memory, admitted, burnt>>

-----------------------------------------------------------------------------
(* Requests of those who have a session *)

\* The session is looked up, and update_last_seen commits, whatever the request.
\* The ones that go on here are an admin's.
Enter(c, s) ==
    LET level == db.users[s[2]].level
    IN  /\ req[c].at = "idle" /\ s \in db.sessions /\ s[1] = c
        /\ Committed(db)
        /\ IF level = 0 THEN UNCHANGED req
           ELSE Goto(c, [Idle EXCEPT !.at = "entered", !.me = s[2], !.level = level])
        /\ UNCHANGED <<memory, admitted, burnt>>

\* invites.create, with its sweep of codes that have been expired for a month.
CreateInvite(c) ==
    LET k == db.lastInvite + 1
        Swept == {i \in DOMAIN db.invites : ~db.invites[i].used /\ ~db.invites[i].open}
        kept == [i \in DOMAIN db.invites \ Swept |-> db.invites[i]]
        new == [by |-> req[c].me, used |-> FALSE, usedBy |-> 0, open |-> TRUE]
    IN  /\ req[c].at = "entered"
        /\ IF Exists(req[c].me)
           THEN /\ k \in Code
                /\ Committed([db EXCEPT !.lastInvite = k,
                       !.invites = [i \in DOMAIN kept \cup {k} |-> IF i = k THEN new ELSE kept[i]]])
                /\ Done(c)
                /\ UNCHANGED <<memory, admitted, burnt>>
           ELSE Die(c)

WithoutCode(d, K) == [d EXCEPT !.invites = [i \in DOMAIN @ \ K |-> @[i]]]

Revoke(c, k) ==
    /\ req[c].at = "entered"
    /\ Committed(IF Known(k) /\ ~db.invites[k].used THEN WithoutCode(db, {k}) ELSE db)
    /\ Done(c)
    /\ UNCHANGED <<memory, admitted, burnt>>

\* The slip of demoting whoever is above a regular user.
MayChangeAnyone(what, mine, theirs) ==
    \/ what = "promote" /\ mine = 2 /\ theirs = 0
    \/ what = "demote" /\ mine = 2 /\ theirs >= 1
    \/ what = "sessions" /\ theirs = 0

\* What promote, demote and delete need the caller to be, and the target.
MayChange(what, mine, theirs) ==
    \/ what = "promote" /\ mine = 2 /\ theirs = 0
    \/ what = "demote" /\ mine = 2 /\ theirs = 1
    \/ what = "sessions" /\ theirs = 0

\* get_user(target): the three routes act on the level it returns.
LookAt(c, u, what) ==
    /\ req[c].at = "entered" /\ Exists(u)
    /\ MayChange(what, req[c].level, db.users[u].level)
    /\ Goto(c, [Idle EXCEPT !.at = what, !.user = u])
    /\ UNCHANGED <<db, disk, memory, admitted, burnt>>

SetAccessLevel(c) ==
    LET u == req[c].user
    IN  /\ req[c].at \in {"promote", "demote"}
        /\ Committed(IF Exists(u)
                     THEN [db EXCEPT !.users[u].level = IF req[c].at = "promote" THEN 1 ELSE 0]
                     ELSE db)
        /\ Done(c)
        /\ UNCHANGED <<memory, admitted, burnt>>

-----------------------------------------------------------------------------
(* delete_user: one statement after the other, and a commit at the end *)

Then ==
    [sessions |-> "invites", invites |-> "used_by",
     used_by |-> "invited_by", invited_by |-> "users"]

Deleted(d, u, table) ==
    CASE table = "sessions" -> [d EXCEPT !.sessions = {s \in @ : s[2] # u}]
      [] table = "invites" -> WithoutCode(d, {k \in DOMAIN d.invites : d.invites[k].by = u})
      [] table = "used_by" ->
            [d EXCEPT !.invites = [k \in DOMAIN @ |->
                IF @[k].usedBy = u THEN [@[k] EXCEPT !.usedBy = 0] ELSE @[k]]]
      [] table = "invited_by" ->
            [d EXCEPT !.users = [v \in DOMAIN @ |->
                IF @[v].by = u THEN [@[v] EXCEPT !.by = 0] ELSE @[v]]]

Delete(c) ==
    /\ req[c].at \in DOMAIN Then
    /\ Uncommitted(Deleted(db, req[c].user, req[c].at))
    /\ At(c, Then[req[c].at])
    /\ UNCHANGED <<memory, admitted, burnt>>

\* What a foreign key would miss.
Referenced(d, u) ==
    \/ \E s \in d.sessions : s[2] = u
    \/ \E k \in DOMAIN d.invites : u \in {d.invites[k].by, d.invites[k].usedBy}
    \/ \E v \in DOMAIN d.users : d.users[v].by = u

\* The last statement: it fails if the user, still logged in or logging in, has
\* added a row since; what has been deleted stays in the transaction.
DeleteUser(c) ==
    LET u == req[c].user
    IN  /\ req[c].at = "users"
        /\ IF Referenced(db, u) /\ Exists(u)
           THEN Die(c)
           ELSE /\ Committed([db EXCEPT !.users = [v \in DOMAIN @ \ {u} |-> @[v]]])
                /\ Done(c)
                /\ UNCHANGED <<memory, admitted, burnt>>

-----------------------------------------------------------------------------
(* Time and the operator *)

\* The oldest event leaves its limiter's window.
WindowSlides ==
    /\ \/ attempts # <<>> /\ attempts' = Tail(attempts) /\ UNCHANGED signups
       \/ signups # <<>> /\ signups' = Tail(signups) /\ UNCHANGED attempts
    /\ UNCHANGED <<db, disk, req, invite_only, admitted, burnt>>

SessionExpires(s) ==
    /\ s \in db.sessions
    /\ db' = WithoutSession(db, s) /\ disk' = WithoutSession(disk, s)
    /\ UNCHANGED <<req, memory, admitted, burnt>>

Expired(d, k) == IF k \in DOMAIN d.invites THEN [d EXCEPT !.invites[k].open = FALSE] ELSE d

InviteExpires(k) ==
    /\ Known(k) /\ db.invites[k].open
    /\ db' = Expired(db, k) /\ disk' = Expired(disk, k)
    /\ UNCHANGED <<req, memory, admitted, burnt>>

\* The registrations a code is out of circulation for.
Holders(k) == {c \in Client : req[c].code = k /\ req[c].at \in {"claimed", "enrol", "release"}}

\* The process dies and is started again, perhaps with another setting.
Restart ==
    /\ db' = disk /\ UNCHANGED disk
    /\ req' = [c \in Client |-> Idle]
    /\ invite_only' \in BOOLEAN
    /\ attempts' = <<>> /\ signups' = <<>>
    /\ burnt' = burnt \cup {k \in Code : Holders(k) # {}}
    /\ UNCHANGED admitted

Signup(c) ==
    \/ \E k \in Code \cup {0} : Register(c, k)
    \/ Found(c) \/ Enrol(c) \/ NameTaken(c) \/ Release(c)
    \/ AssignCode(c) \/ Introduce(c) \/ CreateSession(c)

Signin(c) ==
    \/ Login(c) \/ Refused(c)
    \/ \E u \in User : Welcome(c, u)

Signedin(c) ==
    \/ \E s \in db.sessions : Logout(c, s) \/ Enter(c, s)
    \/ CreateInvite(c) \/ SetAccessLevel(c) \/ Delete(c) \/ DeleteUser(c)
    \/ \E k \in Code : Revoke(c, k)
    \/ \E u \in User, what \in {"promote", "demote", "sessions"} : LookAt(c, u, what)

Next ==
    \/ \E c \in Client : Signup(c) \/ Signin(c) \/ Signedin(c)
    \/ OthersFail \/ WindowSlides \/ Restart
    \/ \E s \in Client \X User : SessionExpires(s)
    \/ \E k \in Code : InviteExpires(k)

Spec == Init /\ [][Next]_vars

-----------------------------------------------------------------------------
(* What is claimed of accounts *)

Request ==
    [at : {"idle", "claimed", "enrol", "release", "assign", "introduce", "session", "login",
           "entered", "promote", "demote", "users"} \cup DOMAIN Then,
     me : User \cup {0}, level : 0..2, code : Code \cup {0},
     user : User \cup {0}]

RowsOK(d) ==
    /\ DOMAIN d.users \subseteq 1..d.lastUser
    /\ \A u \in DOMAIN d.users : d.users[u] \in [level : 0..2, by : DOMAIN d.users \cup {0}]
    /\ \A k \in DOMAIN d.invites :
          d.invites[k] \in [by : DOMAIN d.users, used : BOOLEAN, usedBy : DOMAIN d.users \cup {0},
                            open : BOOLEAN]
    /\ d.sessions \subseteq Client \X DOMAIN d.users

\* Rows and requests have their types, and no row of either database
\* refers to one that is not there.
TypeOK ==
    /\ RowsOK(db) /\ RowsOK(disk)
    /\ req \in [Client -> Request]
    /\ invite_only \in BOOLEAN
    /\ admitted \in [Code -> Nat] /\ burnt \subseteq Code

Superadmins(d) == {u \in DOMAIN d.users : d.users[u].level = 2}

\* "two concurrent signups on an empty database could each be made superadmin"
\* (register_user), and "demoting the last one would leave nobody able to manage
\* admins at all" (admin_demote): a board with any account has one superadmin,
\* however registrations, promotions and deletions that act on a level read
\* earlier run into each other, and after a crash too.
OneSuperadmin ==
    \A d \in {db, disk} :
        Cardinality(Superadmins(d)) = IF DOMAIN d.users = {} THEN 0 ELSE 1

\* The rows are such as the schema and its foreign keys admit, in the open
\* transaction and on disk, and somebody manages them.
AccountsAreSound == TypeOK /\ OneSuperadmin

\* One code is one account: used_at says whether the code has let anybody in, or
\* is about to.  A code that looks open has made no account and is nobody's; one
\* that looks used has made one, is out for a registration that goes on, or was
\* lost with the handler that had claimed it.
CodeTellsTheTruth ==
    \A d \in {db, disk} : \A k \in DOMAIN d.invites :
        /\ admitted[k] <= 1
        /\ ~d.invites[k].used => admitted[k] = 0 /\ Holders(k) = {}
        /\ d.invites[k].used /\ admitted[k] = 0 => Holders(k) # {} \/ k \in burnt

\* The login limiter is asked before the awaited password check and told after
\* it: the failures in a window may exceed the budget by the other requests under
\* way, and by no more.  Registrations keep to theirs, and neither limiter ever
\* remembers more than max_keys addresses.
BudgetHolds ==
    /\ attempts \in Seq({Here, Elsewhere}) /\ signups \in Seq({Here, Elsewhere})
    /\ Fresh(attempts, Here) < MaxAttempts + Cardinality(Client)
    /\ Fresh(signups, Here) <= MaxSignups
    /\ \A l \in {attempts, signups} : Cardinality(KeysOf(l)) <= MaxKeys

\* "The whole deletion is committed as a single transaction" (delete_user): no
\* account that is still there after a step has lost what only a deletion takes.
DeletionIsWhole ==
    [][\A u \in DOMAIN disk.users \cap DOMAIN disk'.users :
          \A k \in DOMAIN disk.invites \cap DOMAIN disk'.invites :
              disk.invites[k].usedBy = u => disk'.invites[k].usedBy = u]_vars

=============================================================================
