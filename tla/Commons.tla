------------------------------- MODULE Commons -------------------------------
(***************************************************************************)
(* What members leave on the board, and how it is deleted: threads, posts  *)
(* and likes (lib/boards.py, board_routes.py), the file area (lib/files.py,*)
(* file_routes.py), the deletions of admin_routes.py, and of               *)
(* auth.delete_user the part that concerns these tables.                   *)
(*                                                                         *)
(* An action is one statement of the shared connection, with what its      *)
(* handler does before the next await.  Foreign keys are on: a statement   *)
(* that breaks one raises, changes nothing and ends its handler, while     *)
(* what the handler did before stays.                                      *)
(***************************************************************************)
EXTENDS Naturals, Sequences, FiniteSets

CONSTANTS
    Req,            \* slots for requests; one user may have several under way
    Member, Admin,  \* users: only members are ever deleted
    MaxRows,        \* bound: no request that inserts begins after so many rows
    MaxCopies       \* bound on files of one name

ASSUME CommonsAssumption == Member \cap Admin = {} /\ MaxRows \in Nat /\ MaxCopies \in Nat

User == Member \cup Admin
Copy == 1..MaxCopies        \* the path of the name itself, and of name_1, name_2...
Table == {"threads", "posts", "likes", "files"}

VARIABLES
    users,          \* who has an account
    rows,           \* of the four tables: an id, a table, whose, and on what
    last,           \* the newest id; one counter serves all tables
    stored,         \* the id of the upload each path of FILE_STORE holds, or 0
    req,            \* where the handler of each request is
    disturbed,      \* deletions under way when somebody inserted a row
    doubled         \* two deletions have read the path of one file

vars == <<users, rows, last, stored, req, disturbed, doubled>>

Id == Nat \ {0}

\* on: the thread of a post, the post of a like, the path of a file.
Row == [id : Id, table : Table, by : User, on : {0} \cup Id \cup Copy]

Ids(table) == {r.id : r \in {s \in rows : s.table = table}}

Idle == [at |-> "idle"]

Init ==
    /\ users = User /\ rows = {} /\ last = 0
    /\ stored = [p \in Copy |-> 0]
    /\ req = [c \in Req |-> Idle]
    /\ disturbed = {} /\ doubled = FALSE

-----------------------------------------------------------------------------

Goto(c, r) == req' = [req EXCEPT ![c] = r]
Done(c) == Goto(c, Idle)

Die(c) == Done(c) /\ disturbed' = disturbed \ {c} /\ UNCHANGED <<users, rows, last, stored, doubled>>

Deleting == {c \in Req : req[c].at = "delete"}

\* What a new row refers to, besides its user.
Parents(r) ==
    CASE r.table = "posts" -> r.on \in Ids("threads")
      [] r.table = "likes" -> r.on \in Ids("posts")
      [] OTHER -> TRUE

\* The slip of a like table without the UNIQUE constraint.
RepeatsNever(r) == FALSE

\* UNIQUE(post_id, user_id)
Repeats(r) == r.table = "likes" /\ \E s \in rows : s.table = "likes" /\ s.by = r.by /\ s.on = r.on

MayInsert(r) == r.by \in users /\ Parents(r) /\ ~Repeats(r)

Insert(r) ==
    /\ rows' = rows \cup {r}
    /\ disturbed' = disturbed \cup Deleting

-----------------------------------------------------------------------------
(* Threads, posts and likes *)

\* create_thread: the thread, and in a statement of its own the first post.
CreateThread(c, u) ==
    LET t == last + 1
    IN  /\ req[c] = Idle /\ u \in users /\ t <= MaxRows
        /\ Insert([id |-> t, table |-> "threads", by |-> u, on |-> 0])
        /\ last' = t
        /\ Goto(c, [at |-> "insert", by |-> u, table |-> "posts", on |-> t])
        /\ UNCHANGED <<users, stored, doubled>>

\* thread_reply has found the thread.
Reply(c, u, t) ==
    /\ req[c] = Idle /\ u \in users /\ t \in Ids("threads") /\ last < MaxRows
    /\ Goto(c, [at |-> "insert", by |-> u, table |-> "posts", on |-> t])
    /\ UNCHANGED <<users, rows, last, stored, disturbed, doubled>>

\* The INSERT of a post or of a like.
InsertRow(c) ==
    LET r == [id |-> last + 1, table |-> req[c].table, by |-> req[c].by, on |-> req[c].on]
    IN  /\ req[c].at = "insert"
        /\ IF MayInsert(r)
           THEN Insert(r) /\ last' = r.id /\ Done(c) /\ UNCHANGED <<users, stored, doubled>>
           ELSE Die(c)

\* post_like: the post is there, and toggle_like looks for the like.
Click(c, u, p) ==
    LET mine == {r \in rows : r.table = "likes" /\ r.by = u /\ r.on = p}
    IN  /\ req[c] = Idle /\ u \in users /\ p \in Ids("posts")
        /\ \/ mine = {} /\ last < MaxRows /\ Goto(c, [at |-> "insert", by |-> u, table |-> "likes", on |-> p])
           \/ \E l \in mine : Goto(c, [at |-> "unlike", id |-> l.id])
        /\ UNCHANGED <<users, rows, last, stored, disturbed, doubled>>

Unlike(c) ==
    /\ req[c].at = "unlike"
    /\ rows' = {r \in rows : r.id # req[c].id}
    /\ Done(c)
    /\ UNCHANGED <<users, last, stored, disturbed, doubled>>

-----------------------------------------------------------------------------
(* Files *)

\* The slip of an existence test that looks at the table.
Unlisted == Copy \ {r.on : r \in {s \in rows : s.table = "files"}}

\* Where open(dest, "xb") succeeds.
Free == {p \in Copy : stored[p] = 0}

\* save_upload: the first name that is free, and the file written there.
Upload(c, u) ==
    /\ req[c] = Idle /\ u \in users /\ last < MaxRows
    /\ \E p \in Free :
          /\ \A q \in Free : p <= q
          /\ stored' = [stored EXCEPT ![p] = last + 1]
          /\ Goto(c, [at |-> "add", row |-> [id |-> last + 1, table |-> "files", by |-> u, on |-> p]])
    /\ last' = last + 1
    /\ UNCHANGED <<users, rows, disturbed, doubled>>

\* add_file.  If the uploader's account has gone, the file stays without a row.
AddFile(c) ==
    /\ req[c].at = "add"
    /\ IF MayInsert(req[c].row)
       THEN Insert(req[c].row) /\ Done(c) /\ UNCHANGED <<users, last, stored, doubled>>
       ELSE Die(c)

-----------------------------------------------------------------------------
(* Deletions: one statement after the other, in the order of the plan *)

\* The slip of deleting posts before the likes on them.
PlanPostsFirst(what) ==
    CASE what = "post" -> <<"posts", "likes">>
      [] what = "thread" -> <<"posts", "likes", "threads">>
      [] what = "file" -> <<"files">>
      [] what = "user" -> <<"files", "given", "posts", "likes", "threads", "users">>

\* delete_post, delete_thread, delete_file and delete_user.
Plan(what) ==
    CASE what = "post" -> <<"likes", "posts">>
      [] what = "thread" -> <<"likes", "posts", "threads">>
      [] what = "file" -> <<"files">>
      [] what = "user" -> <<"files", "given", "likes", "posts", "threads", "users">>

ThreadsOf(what, x) ==
    {r.id : r \in {s \in rows : /\ s.table = "threads"
                              /\ \/ what = "thread" /\ s.id = x
                                 \/ what = "user" /\ s.by = x}}

PostsOf(what, x) ==
    {r.id : r \in {s \in rows : /\ s.table = "posts"
                              /\ \/ what = "post" /\ s.id = x
                                 \/ what = "user" /\ s.by = x
                                 \/ s.on \in ThreadsOf(what, x)}}

\* What the statement's WHERE finds.
Doomed(what, x, statement) ==
    CASE statement = "files" -> {r \in rows : /\ r.table = "files"
                                              /\ \/ what = "file" /\ r.id = x
                                                 \/ what = "user" /\ r.by = x}
      [] statement = "given" -> {r \in rows : r.table = "likes" /\ r.by = x}
      [] statement = "likes" -> {r \in rows : r.table = "likes" /\ r.on \in PostsOf(what, x)}
      [] statement = "posts" -> {r \in rows : r.id \in PostsOf(what, x)}
      [] statement = "threads" -> {r \in rows : r.id \in ThreadsOf(what, x)}
      [] OTHER -> {}

\* The foreign keys that the next statement of c would break.
Breaks(c) ==
    LET d == req[c]
        D == {r.id : r \in Doomed(d.what, d.of, Head(d.plan))}
        child == [threads |-> "posts", posts |-> "likes"]
    IN  \/ Head(d.plan) \in DOMAIN child
           /\ \E r \in rows : r.table = child[Head(d.plan)] /\ r.on \in D
        \/ Head(d.plan) = "users" /\ \E r \in rows : r.by = d.of

\* The paths c has read and not yet unlinked.
ToUnlink(c) == IF req[c].at = "delete" /\ Head(req[c].plan) = "files" THEN req[c].paths ELSE {}

\* An admin's request; the paths of the files to delete are read here.
BeginDelete(c, what, x) ==
    LET paths == {r.on : r \in Doomed(what, x, "files")}
    IN  /\ req[c] = Idle
        /\ Goto(c, [at |-> "delete", what |-> what, of |-> x, plan |-> Plan(what), paths |-> paths])
        /\ doubled' = (doubled \/ \E d \in Req : ToUnlink(d) \cap paths # {})
        /\ UNCHANGED <<users, rows, last, stored, disturbed>>

\* Its next statement; files are unlinked before their rows are deleted.  The two
\* are one step: the DELETE is queued before the handler that unlinked waits for
\* anything, and the one database thread takes what is queued in order, so no
\* statement made after the unlink runs before the DELETE.
Delete(c) ==
    LET d == req[c]
        table == Head(d.plan)
    IN  /\ d.at = "delete"
        /\ IF Breaks(c)
           THEN Die(c)
           ELSE /\ rows' = rows \ Doomed(d.what, d.of, table)
                /\ users' = IF table = "users" THEN users \ {d.of} ELSE users
                /\ stored' = [p \in Copy |-> IF p \in ToUnlink(c) THEN 0 ELSE stored[p]]
                /\ IF Len(d.plan) = 1
                   THEN Done(c) /\ disturbed' = disturbed \ {c}
                   ELSE Goto(c, [d EXCEPT !.plan = Tail(@)]) /\ UNCHANGED disturbed
                /\ UNCHANGED <<last, doubled>>

Next ==
    \E c \in Req :
        \/ \E u \in User :
              \/ CreateThread(c, u) \/ Upload(c, u)
              \/ \E x \in 1..last : Reply(c, u, x) \/ Click(c, u, x)
        \/ InsertRow(c) \/ Unlike(c) \/ AddFile(c) \/ Delete(c)
        \/ \E x \in Ids("posts") : BeginDelete(c, "post", x)
        \/ \E x \in Ids("threads") : BeginDelete(c, "thread", x)
        \/ \E x \in Ids("files") : BeginDelete(c, "file", x)
        \/ \E x \in users \cap Member : BeginDelete(c, "user", x)

Spec == Init /\ [][Next]_vars

-----------------------------------------------------------------------------
(* What is claimed of the commons *)

\* Rows have their types and ids of their own, refer to rows that are there, and
\* nobody likes a post twice, whatever double clicks and deletions meet.
RowsOK ==
    /\ users \subseteq User /\ rows \subseteq Row /\ last \in {0} \cup Id
    /\ stored \in [Copy -> {0} \cup Id]
    /\ DOMAIN req = Req /\ disturbed \subseteq Deleting /\ doubled \in BOOLEAN
    /\ \A r, s \in rows : r.id = s.id => r = s
    /\ \A r, s \in rows : r.table = "likes" /\ s.table = "likes" /\ r # s => <<r.by, r.on>> # <<s.by, s.on>>
    /\ \A r \in rows : r.by \in users /\ Parents(r)

\* Deletions take rows in an order that leaves nothing behind that refers to
\* them: one that a foreign key stops half way, with what it has deleted gone,
\* was met by somebody who inserted a row after it began.
DeletionsFailOnlyInARace == \A c \in Deleting : Breaks(c) => c \in disturbed

\* Every listed file is on the disk, and is the one that was uploaded: no upload
\* overwrites another, and no deletion unlinks a path that has been given to a
\* later upload, unless two deletions of one file have met.
FilesAreThere ==
    doubled \/ \A r \in rows : r.table = "files" => stored[r.on] = r.id

=============================================================================
