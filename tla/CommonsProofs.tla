---------------------------- MODULE CommonsProofs ----------------------------
(***************************************************************************)
(* What the run of MCCommons shows of two requests and three rows, for any *)
(* requests, users, rows and copies of a file.                             *)
(***************************************************************************)
EXTENDS Commons, TLAPS

What == {"post", "thread", "file", "user"}

\* A plan, or what is left of one.
Plans ==
    {<<"likes", "posts">>, <<"posts">>, <<"likes", "posts", "threads">>, <<"posts", "threads">>,
     <<"threads">>, <<"files">>, <<"files", "given", "likes", "posts", "threads", "users">>,
     <<"given", "likes", "posts", "threads", "users">>, <<"likes", "posts", "threads", "users">>,
     <<"posts", "threads", "users">>, <<"threads", "users">>, <<"users">>}

\* Those that do not end with an account.
ShortPlans ==
    {<<"likes", "posts">>, <<"posts">>, <<"likes", "posts", "threads">>, <<"posts", "threads">>,
     <<"threads">>, <<"files">>}

Inserting == [at : {"insert"}, by : User, table : {"posts", "likes"}, on : Id]
Unliking == [at : {"unlike"}, id : Id]
Adding == [at : {"add"}, row : [id : Id, table : {"files"}, by : User, on : Copy]]
Deletion == [at : {"delete"}, what : What, of : Id \cup Member, plan : Plans, paths : SUBSET Copy]
Request == {Idle} \cup Inserting \cup Unliking \cup Adding \cup Deletion

TypeInv ==
    /\ users \subseteq User /\ rows \subseteq Row /\ last \in Nat
    /\ \A r \in rows : r.table = "files" => r.on \in Copy
    /\ stored \in [Copy -> {0} \cup Id]
    /\ req \in [Req -> Request]
    /\ disturbed \subseteq Deleting /\ doubled \in BOOLEAN

-----------------------------------------------------------------------------
(* Plans *)

\* The order in which every plan takes the tables.
Nth == [files |-> 1, given |-> 2, likes |-> 3, posts |-> 4, threads |-> 5, users |-> 6]

LEMMA PlanHeads ==
    ASSUME NEW plan \in Plans
    PROVE  /\ Head(plan) \in DOMAIN Nth
           /\ Len(plan) # 1 => Tail(plan) \in Plans /\ Nth[Head(Tail(plan))] = Nth[Head(plan)] + 1
  <1>1. CASE plan = <<"likes", "posts">>
    <2>1. Head(plan) = "likes" /\ Tail(plan) = <<"posts">> /\ Head(Tail(plan)) = "posts"
      BY <1>1
    <2> QED
      BY <2>1 DEF Plans, Nth
  <1>2. CASE plan = <<"posts">>
    <2>1. Head(plan) = "posts" /\ Len(plan) = 1
      BY <1>2
    <2> QED
      BY <2>1 DEF Plans, Nth
  <1>3. CASE plan = <<"likes", "posts", "threads">>
    <2>1. Head(plan) = "likes" /\ Tail(plan) = <<"posts", "threads">> /\ Head(Tail(plan)) = "posts"
      BY <1>3
    <2> QED
      BY <2>1 DEF Plans, Nth
  <1>4. CASE plan = <<"posts", "threads">>
    <2>1. Head(plan) = "posts" /\ Tail(plan) = <<"threads">> /\ Head(Tail(plan)) = "threads"
      BY <1>4
    <2> QED
      BY <2>1 DEF Plans, Nth
  <1>5. CASE plan = <<"threads">>
    <2>1. Head(plan) = "threads" /\ Len(plan) = 1
      BY <1>5
    <2> QED
      BY <2>1 DEF Plans, Nth
  <1>6. CASE plan = <<"files">>
    <2>1. Head(plan) = "files" /\ Len(plan) = 1
      BY <1>6
    <2> QED
      BY <2>1 DEF Plans, Nth
  <1>7. CASE plan = <<"files", "given", "likes", "posts", "threads", "users">>
    <2>1. Head(plan) = "files" /\ Tail(plan) = <<"given", "likes", "posts", "threads", "users">> /\ Head(Tail(plan)) = "given"
      BY <1>7
    <2> QED
      BY <2>1 DEF Plans, Nth
  <1>8. CASE plan = <<"given", "likes", "posts", "threads", "users">>
    <2>1. Head(plan) = "given" /\ Tail(plan) = <<"likes", "posts", "threads", "users">> /\ Head(Tail(plan)) = "likes"
      BY <1>8
    <2> QED
      BY <2>1 DEF Plans, Nth
  <1>9. CASE plan = <<"likes", "posts", "threads", "users">>
    <2>1. Head(plan) = "likes" /\ Tail(plan) = <<"posts", "threads", "users">> /\ Head(Tail(plan)) = "posts"
      BY <1>9
    <2> QED
      BY <2>1 DEF Plans, Nth
  <1>10. CASE plan = <<"posts", "threads", "users">>
    <2>1. Head(plan) = "posts" /\ Tail(plan) = <<"threads", "users">> /\ Head(Tail(plan)) = "threads"
      BY <1>10
    <2> QED
      BY <2>1 DEF Plans, Nth
  <1>11. CASE plan = <<"threads", "users">>
    <2>1. Head(plan) = "threads" /\ Tail(plan) = <<"users">> /\ Head(Tail(plan)) = "users"
      BY <1>11
    <2> QED
      BY <2>1 DEF Plans, Nth
  <1>12. CASE plan = <<"users">>
    <2>1. Head(plan) = "users" /\ Len(plan) = 1
      BY <1>12
    <2> QED
      BY <2>1 DEF Plans, Nth
  <1> QED
    BY <1>1, <1>2, <1>3, <1>4, <1>5, <1>6, <1>7, <1>8, <1>9, <1>10, <1>11, <1>12 DEF Plans

LEMMA PlanBegins ==
    ASSUME NEW what \in What
    PROVE  /\ Plan(what) \in Plans
           /\ what \in {"post", "thread"} => Head(Plan(what)) = "likes"
           /\ what \in {"file", "user"} => Head(Plan(what)) = "files"
           /\ what # "user" => Plan(what) \in ShortPlans
  BY DEF Plans, ShortPlans, Plan, What

LEMMA ShortHeads ==
    ASSUME NEW plan \in ShortPlans
    PROVE  /\ Head(plan) # "users"
           /\ Len(plan) # 1 => Tail(plan) \in ShortPlans
  <1>1. CASE plan = <<"likes", "posts">>
    <2>1. Head(plan) = "likes" /\ Tail(plan) = <<"posts">>
      BY <1>1
    <2> QED
      BY <2>1 DEF ShortPlans
  <1>2. CASE plan = <<"likes", "posts", "threads">>
    <2>1. Head(plan) = "likes" /\ Tail(plan) = <<"posts", "threads">>
      BY <1>2
    <2> QED
      BY <2>1 DEF ShortPlans
  <1>3. CASE plan = <<"posts", "threads">>
    <2>1. Head(plan) = "posts" /\ Tail(plan) = <<"threads">>
      BY <1>3
    <2> QED
      BY <2>1 DEF ShortPlans
  <1>4. CASE plan \in {<<"posts">>, <<"threads">>, <<"files">>}
    <2>1. Head(plan) \in {"posts", "threads", "files"} /\ Len(plan) = 1
      BY <1>4
    <2> QED
      BY <2>1
  <1> QED
    BY <1>1, <1>2, <1>3, <1>4 DEF ShortPlans

\* What a request holds, told by where it is.
LEMMA Kinds ==
    ASSUME TypeInv, NEW c \in Req
    PROVE  /\ req[c].at = "insert" => req[c] \in Inserting
           /\ req[c].at = "unlike" => req[c] \in Unliking
           /\ req[c].at = "add" => req[c] \in Adding
           /\ req[c].at = "delete" => req[c] \in Deletion
           /\ req[c].at \in {"idle", "insert", "unlike", "add", "delete"}
  BY DEF TypeInv, Request, Idle, Inserting, Unliking, Adding, Deletion

\* What a statement finds are rows, and fewer when there are fewer rows.
LEMMA DoomedAreRows ==
    ASSUME NEW what, NEW x, NEW s
    PROVE  Doomed(what, x, s) \subseteq rows
  BY DEF Doomed

-----------------------------------------------------------------------------
(* The invariant *)

\* The row an upload is about to add has an id of its own, and what a second
\* click is about to delete is a like.
IdsInv ==
    /\ \A r \in rows : r.id <= last
    /\ \A r, s \in rows : r.id = s.id => r = s
    /\ \A c \in Req : req[c].at = "add" =>
          req[c].row.id <= last /\ \A r \in rows : r.id # req[c].row.id
    /\ \A c, d \in Req : req[c].at = "add" /\ req[d].at = "add" /\ c # d =>
          req[c].row.id # req[d].row.id
    /\ \A c \in Req : req[c].at = "unlike" =>
          /\ req[c].id <= last
          /\ \A r \in rows : r.id = req[c].id => r.table = "likes"
          /\ \A d \in Req : req[d].at = "add" => req[d].row.id # req[c].id

\* What the schema asks of the rows.
SchemaInv ==
    /\ \A r, s \in rows : r.table = "likes" /\ s.table = "likes" /\ r # s =>
          <<r.by, r.on>> # <<s.by, s.on>>
    /\ \A r \in rows : r.by \in users /\ Parents(r)

\* A deletion that nobody has disturbed finds nothing more of what it has been
\* through.
Cleared(c) ==
    \A s \in DOMAIN Nth :
        Nth[s] < Nth[Head(req[c].plan)] /\ (s = "given" => req[c].what = "user") =>
            Doomed(req[c].what, req[c].of, s) = {}

RaceInv == \A c \in Deleting \ disturbed : Cleared(c)

\* Only the plan that deletes an account ends with one.
PlanInv == \A c \in Deleting : req[c].what # "user" => req[c].plan \in ShortPlans

\* A path a deletion is about to unlink is the one of a file it deletes, or of
\* one whose row is gone, and no other deletion is about to unlink it.
FileInv ==
    \/ doubled
    \/ /\ \A r \in rows : r.table = "files" => stored[r.on] = r.id
       /\ \A c \in Req : req[c].at = "add" => stored[req[c].row.on] = req[c].row.id
       /\ \A c, d \in Req : c # d => ToUnlink(c) \cap ToUnlink(d) = {}
       /\ \A c \in Req : \A p \in ToUnlink(c) :
             /\ stored[p] # 0
             /\ \A r \in rows : r.table = "files" /\ r.on = p =>
                   r \in Doomed(req[c].what, req[c].of, "files")
             /\ \A d \in Req : req[d].at = "add" => req[d].row.on # p

Inv == TypeInv /\ IdsInv /\ SchemaInv /\ RaceInv /\ PlanInv /\ FileInv

LEMMA InitInv == Init => Inv
  <1> SUFFICES ASSUME Init PROVE Inv
    OBVIOUS
  <1>1. TypeInv
    BY DEF Init, TypeInv, Deleting, Idle, Request, Id
  <1>2. IdsInv /\ SchemaInv
    BY DEF Init, IdsInv, SchemaInv, Idle
  <1>3. RaceInv /\ PlanInv
    BY DEF Init, RaceInv, PlanInv, Deleting, Idle
  <1>4. FileInv
    BY DEF Init, FileInv, ToUnlink, Idle
  <1> QED
    BY <1>1, <1>2, <1>3, <1>4 DEF Inv

-----------------------------------------------------------------------------
(* Types *)

LEMMA MayInsertTypes ==
    ASSUME TypeInv, NEW c \in Req
    PROVE  /\ req[c].at = "insert" => 
                 [id |-> last + 1, table |-> req[c].table, by |-> req[c].by, on |-> req[c].on] \in Row
           /\ req[c].at = "insert" => req[c].table # "files"
           /\ req[c].at = "add" => req[c].row \in Row /\ req[c].row.on \in Copy
  BY Kinds DEF TypeInv, Row, Inserting, Adding, Table, Id, Copy

LEMMA TypeNext == TypeInv /\ Next => TypeInv'
  <1> SUFFICES ASSUME TypeInv, NEW c \in Req,
                 \/ \E u \in User :
                       \/ CreateThread(c, u) \/ Upload(c, u)
                       \/ \E x \in 1..last : Reply(c, u, x) \/ Click(c, u, x)
                 \/ InsertRow(c) \/ Unlike(c) \/ AddFile(c) \/ Delete(c)
                 \/ \E x \in Ids("posts") : BeginDelete(c, "post", x)
                 \/ \E x \in Ids("threads") : BeginDelete(c, "thread", x)
                 \/ \E x \in Ids("files") : BeginDelete(c, "file", x)
                 \/ \E x \in users \cap Member : BeginDelete(c, "user", x)
               PROVE  TypeInv'
    BY DEF Next
  <1>1. ASSUME NEW u \in User, CreateThread(c, u) PROVE TypeInv'
    <2>1. [id |-> last + 1, table |-> "threads", by |-> u, on |-> 0] \in Row
      BY DEF TypeInv, Row, Table, Id
    <2>2. [at |-> "insert", by |-> u, table |-> "posts", on |-> last + 1] \in Inserting
      BY DEF TypeInv, Inserting, Id
    <2> QED
      BY <1>1, <2>1, <2>2 DEF CreateThread, Insert, Goto, TypeInv, Deleting, Idle, Request
  <1>2. ASSUME NEW u \in User, Upload(c, u) PROVE TypeInv'
    <2>1. ASSUME NEW p \in Copy
          PROVE  [at |-> "add", row |-> [id |-> last + 1, table |-> "files", by |-> u, on |-> p]] \in Adding
      BY DEF TypeInv, Adding, Id
    <2> QED
      BY <1>2, <2>1 DEF Upload, Goto, Free, TypeInv, Deleting, Idle, Request, Id
  <1>3. ASSUME NEW u \in User, NEW x \in 1..last, Reply(c, u, x) PROVE TypeInv'
    <2>1. [at |-> "insert", by |-> u, table |-> "posts", on |-> x] \in Inserting
      BY DEF TypeInv, Inserting, Id
    <2> QED
      BY <1>3, <2>1 DEF Reply, Goto, TypeInv, Deleting, Idle, Request
  <1>4. ASSUME NEW u \in User, NEW x \in 1..last, Click(c, u, x) PROVE TypeInv'
    <2>1. [at |-> "insert", by |-> u, table |-> "likes", on |-> x] \in Inserting
      BY DEF TypeInv, Inserting, Id
    <2>2. ASSUME NEW l \in rows PROVE [at |-> "unlike", id |-> l.id] \in Unliking
      BY DEF TypeInv, Unliking, Row
    <2> QED
      BY <1>4, <2>1, <2>2 DEF Click, Goto, TypeInv, Deleting, Idle, Request
  <1>5. ASSUME InsertRow(c) PROVE TypeInv'
    BY <1>5, MayInsertTypes DEF InsertRow, Insert, Done, Die, Goto, TypeInv, Deleting, Idle, Request
  <1>6. ASSUME Unlike(c) PROVE TypeInv'
    BY <1>6 DEF Unlike, Done, Goto, TypeInv, Deleting, Idle, Request
  <1>7. ASSUME AddFile(c) PROVE TypeInv'
    BY <1>7, MayInsertTypes DEF AddFile, Insert, Done, Die, Goto, TypeInv, Deleting, Idle, Request
  <1>8. ASSUME NEW what \in What, NEW x \in Id \cup Member, BeginDelete(c, what, x) PROVE TypeInv'
    <2> DEFINE paths == {r.on : r \in Doomed(what, x, "files")}
               new == [at |-> "delete", what |-> what, of |-> x, plan |-> Plan(what), paths |-> paths]
    <2>1. paths \subseteq Copy
      BY DEF Doomed, TypeInv
    <2>2. new \in Deletion
      BY <2>1, PlanBegins DEF Deletion
    <2> QED
      BY <1>8, <2>2 DEF BeginDelete, Goto, TypeInv, Deleting, Idle, Request
  <1>9. ASSUME Delete(c) PROVE TypeInv'
    <2>1. req[c] \in Deletion
      BY <1>9, Kinds DEF Delete
    <2>2. Len(req[c].plan) # 1 => [req[c] EXCEPT !.plan = Tail(@)] \in Deletion
      BY <2>1, PlanHeads DEF Deletion
    <2>3. CASE Breaks(c)
      BY <1>9, <2>3 DEF Delete, Die, Done, Goto, TypeInv, Deleting, Idle, Request
    <2>4. CASE ~Breaks(c)
      <3>1. rows' \subseteq rows /\ users' \subseteq users /\ last' = last /\ doubled' = doubled
        BY <1>9, <2>4 DEF Delete
      <3>2. stored' \in [Copy -> {0} \cup Id]
        BY <1>9, <2>4 DEF Delete, TypeInv
      <3>3. req' \in [Req -> Request]
        BY <1>9, <2>2, <2>4 DEF Delete, Done, Goto, TypeInv, Request
      <3>4. disturbed' \subseteq Deleting'
        BY <1>9, <2>1, <2>4 DEF Delete, Done, Goto, TypeInv, Deleting, Deletion, Idle
      <3> QED
        BY <3>1, <3>2, <3>3, <3>4 DEF TypeInv
    <2> QED
      BY <2>3, <2>4
  <1>10. \A x \in Ids("posts") \cup Ids("threads") \cup Ids("files") : x \in Id \cup Member
    BY DEF Ids, TypeInv, Row
  <1> QED
    BY <1>1, <1>2, <1>3, <1>4, <1>5, <1>6, <1>7, <1>8, <1>9, <1>10 DEF What

-----------------------------------------------------------------------------
(* The steps *)

Step(c) ==
    \/ \E u \in User : CreateThread(c, u)
    \/ \E u \in User : Upload(c, u)
    \/ \E u \in User, x \in 1..last : Reply(c, u, x)
    \/ \E u \in User, x \in 1..last : Click(c, u, x)
    \/ InsertRow(c)
    \/ Unlike(c)
    \/ AddFile(c)
    \/ Delete(c)
    \/ \E what \in What, x \in Id \cup Member : BeginDelete(c, what, x)

LEMMA Steps == TypeInv /\ Next => \E c \in Req : Step(c)
  <1> SUFFICES ASSUME TypeInv, Next PROVE \E c \in Req : Step(c)
    OBVIOUS
  <1>1. \A x \in Ids("posts") \cup Ids("threads") \cup Ids("files") : x \in Id \cup Member
    BY DEF Ids, TypeInv, Row
  <1> QED
    BY <1>1 DEF Next, Step, What

\* Only the request that takes the step moves.
LEMMA OthersStay ==
    ASSUME TypeInv, NEW c \in Req, Step(c), NEW d \in Req, d # c
    PROVE  req'[d] = req[d]
  BY DEF Step, CreateThread, Upload, Reply, Click, InsertRow, Unlike, AddFile, Delete, BeginDelete,
         Goto, Done, Die, TypeInv

-----------------------------------------------------------------------------
(* Ids *)

LEMMA IdsNext == TypeInv /\ IdsInv /\ Next => IdsInv'
  <1> SUFFICES ASSUME TypeInv, IdsInv, NEW c \in Req, Step(c) PROVE IdsInv'
    BY Steps
  <1>0. /\ last \in Nat
        /\ \A r \in rows : r.id \in Nat
        /\ \A d \in Req : req[d].at = "add" => req[d].row.id \in Nat
        /\ \A d \in Req : req[d].at = "unlike" => req[d].id \in Nat
    BY Kinds DEF TypeInv, Row, Adding, Unliking, Id
  <1>o. \A d \in Req : d # c => req'[d] = req[d]
    BY OthersStay
  <1>1. ASSUME NEW u \in User, CreateThread(c, u) PROVE IdsInv'
    <2>1. req'[c].at = "insert" /\ last' = last + 1
      BY <1>1 DEF CreateThread, Goto, TypeInv
    <2>2. \A r \in rows' : r \in rows \/ r.id = last + 1
      BY <1>1 DEF CreateThread, Insert
    <2>3. \A r, s \in rows' : r.id = last + 1 /\ s.id = last + 1 => r = s
      BY <1>0, <1>1 DEF CreateThread, Insert, IdsInv
    <2> QED
      BY <1>0, <1>o, <2>1, <2>2, <2>3 DEF IdsInv
  <1>2. ASSUME NEW u \in User, Upload(c, u) PROVE IdsInv'
    <2>1. /\ req'[c].at = "add" /\ req'[c].row.id = last + 1
          /\ last' = last + 1 /\ rows' = rows
      BY <1>2 DEF Upload, Goto, TypeInv
    <2> QED
      BY <1>0, <1>o, <2>1 DEF IdsInv
  <1>3. ASSUME NEW u \in User, NEW x \in 1..last, Reply(c, u, x) PROVE IdsInv'
    <2>1. req'[c].at = "insert" /\ last' = last /\ rows' = rows
      BY <1>3 DEF Reply, Goto, TypeInv
    <2> QED
      BY <1>0, <1>o, <2>1 DEF IdsInv
  <1>4. ASSUME NEW u \in User, NEW x \in 1..last, Click(c, u, x) PROVE IdsInv'
    <2>1. last' = last /\ rows' = rows
      BY <1>4 DEF Click
    <2>2. \/ req'[c].at = "insert"
          \/ req'[c].at = "unlike" /\ \E l \in rows : l.table = "likes" /\ req'[c].id = l.id
      BY <1>4 DEF Click, Goto, TypeInv
    <2> QED
      BY <1>0, <1>o, <2>1, <2>2 DEF IdsInv
  <1>5. ASSUME InsertRow(c) PROVE IdsInv'
    <2>1. req'[c].at = "idle"
      BY <1>5 DEF InsertRow, Done, Die, Goto, Idle, TypeInv
    <2>2. \/ last' = last /\ rows' = rows
          \/ last' = last + 1 /\ \E r : r.id = last + 1 /\ rows' = rows \cup {r}
      BY <1>5 DEF InsertRow, Insert, Die
    <2>3. CASE last' = last /\ rows' = rows
      BY <1>0, <1>o, <2>1, <2>3 DEF IdsInv
    <2>4. ASSUME last' = last + 1, NEW r, r.id = last + 1, rows' = rows \cup {r} PROVE IdsInv'
      BY <1>0, <1>o, <2>1, <2>4 DEF IdsInv
    <2> QED
      BY <2>2, <2>3, <2>4
  <1>6. ASSUME Unlike(c) PROVE IdsInv'
    <2>1. req'[c].at = "idle" /\ last' = last /\ rows' \subseteq rows
      BY <1>6 DEF Unlike, Done, Goto, Idle, TypeInv
    <2> QED
      BY <1>0, <1>o, <2>1 DEF IdsInv
  <1>7. ASSUME AddFile(c) PROVE IdsInv'
    <2>1. req'[c].at = "idle" /\ req[c].at = "add" /\ last' = last
      BY <1>7 DEF AddFile, Done, Die, Goto, Idle, TypeInv
    <2>2. rows' = rows \/ rows' = rows \cup {req[c].row}
      BY <1>7 DEF AddFile, Insert, Die
    <2> QED
      BY <1>0, <1>o, <2>1, <2>2 DEF IdsInv
  <1>8. ASSUME Delete(c) PROVE IdsInv'
    <2>1. req'[c].at \in {"idle", "delete"} /\ last' = last /\ rows' \subseteq rows
      BY <1>8, Kinds DEF Delete, Done, Die, Goto, Idle, TypeInv, Deletion
    <2> QED
      BY <1>0, <1>o, <2>1 DEF IdsInv
  <1>9. ASSUME NEW what \in What, NEW x \in Id \cup Member, BeginDelete(c, what, x) PROVE IdsInv'
    <2>1. req'[c].at = "delete" /\ last' = last /\ rows' = rows
      BY <1>9 DEF BeginDelete, Goto, TypeInv
    <2> QED
      BY <1>0, <1>o, <2>1 DEF IdsInv
  <1> QED
    BY <1>1, <1>2, <1>3, <1>4, <1>5, <1>6, <1>7, <1>8, <1>9 DEF Step

-----------------------------------------------------------------------------
(* The schema *)

\* The rows a statement finds are of the table it names, whatever shares their ids.
LEMMA DoomedTables ==
    ASSUME IdsInv, NEW what, NEW x, NEW r \in rows
    PROVE  /\ r \in Doomed(what, x, "files") => r.table = "files"
           /\ r \in Doomed(what, x, "given") => r.table = "likes"
           /\ r \in Doomed(what, x, "likes") => r.table = "likes"
           /\ r \in Doomed(what, x, "posts") => r.table = "posts"
           /\ r \in Doomed(what, x, "threads") => r.table = "threads"
           /\ r \notin Doomed(what, x, "users")
  BY DEF Doomed, PostsOf, ThreadsOf, IdsInv

\* Adding a row that may be added keeps the schema.
LEMMA InsertKeepsSchema ==
    ASSUME SchemaInv, NEW r, MayInsert(r), rows' = rows \cup {r}, users' = users
    PROVE  SchemaInv'
  <1>1. \A s \in rows' : s.by \in users
    BY DEF SchemaInv, MayInsert
  <1>2. \A s \in rows' : Parents(s)
    BY DEF SchemaInv, MayInsert
  <1>3. \A t : Ids(t) \subseteq Ids(t)'
    BY DEF Ids
  <1>4. \A s \in rows' : Parents(s)'
    BY <1>2, <1>3 DEF Parents
  <1>5. \A s, t \in rows' : s.table = "likes" /\ t.table = "likes" /\ s # t => <<s.by, s.on>> # <<t.by, t.on>>
    BY DEF SchemaInv, MayInsert, Repeats
  <1> QED
    BY <1>1, <1>4, <1>5 DEF SchemaInv

\* Removing rows keeps it if those that stay have what they refer to.
LEMMA RemoveKeepsSchema ==
    ASSUME SchemaInv, rows' \subseteq rows,
           \A r \in rows' : r.by \in users',
           \A r \in rows', s \in rows :
              /\ r.table = "posts" /\ s.table = "threads" /\ r.on = s.id => s \in rows'
              /\ r.table = "likes" /\ s.table = "posts" /\ r.on = s.id => s \in rows'
    PROVE  SchemaInv'
  <1>1. ASSUME NEW r \in rows' PROVE Parents(r)'
    <2>1. r \in rows /\ Parents(r)
      BY DEF SchemaInv
    <2>2. r.table = "posts" => r.on \in Ids("threads")'
      BY <2>1 DEF Parents, Ids
    <2>3. r.table = "likes" => r.on \in Ids("posts")'
      BY <2>1 DEF Parents, Ids
    <2> QED
      BY <2>2, <2>3 DEF Parents
  <1> QED
    BY <1>1 DEF SchemaInv

LEMMA SchemaNext == TypeInv /\ IdsInv /\ SchemaInv /\ Next => SchemaInv'
  <1> SUFFICES ASSUME TypeInv, IdsInv, SchemaInv, NEW c \in Req, Step(c) PROVE SchemaInv'
    BY Steps
  <1>0. ASSUME rows' = rows, users' = users PROVE SchemaInv'
    BY <1>0 DEF SchemaInv, Parents, Ids
  <1>1. ASSUME NEW u \in User, CreateThread(c, u) PROVE SchemaInv'
    <2>1. MayInsert([id |-> last + 1, table |-> "threads", by |-> u, on |-> 0])
      BY <1>1 DEF CreateThread, MayInsert, Parents, Repeats
    <2> QED
      BY <1>1, <2>1, InsertKeepsSchema DEF CreateThread, Insert
  <1>2. ASSUME \/ \E u \in User : Upload(c, u)
               \/ \E u \in User, x \in 1..last : Reply(c, u, x) \/ Click(c, u, x)
               \/ \E what \in What, x \in Id \cup Member : BeginDelete(c, what, x)
        PROVE  SchemaInv'
    BY <1>0, <1>2 DEF Upload, Reply, Click, BeginDelete
  <1>3. ASSUME InsertRow(c) PROVE SchemaInv'
    <2> DEFINE r == [id |-> last + 1, table |-> req[c].table, by |-> req[c].by, on |-> req[c].on]
    <2>1. \/ rows' = rows /\ users' = users
          \/ MayInsert(r) /\ rows' = rows \cup {r} /\ users' = users
      BY <1>3 DEF InsertRow, Insert, Die
    <2> QED
      BY <1>0, <2>1, InsertKeepsSchema
  <1>4. ASSUME AddFile(c) PROVE SchemaInv'
    <2>1. \/ rows' = rows /\ users' = users
          \/ MayInsert(req[c].row) /\ rows' = rows \cup {req[c].row} /\ users' = users
      BY <1>4 DEF AddFile, Insert, Die
    <2> QED
      BY <1>0, <2>1, InsertKeepsSchema
  <1>5. ASSUME Unlike(c) PROVE SchemaInv'
    <2>1. \A s \in rows : s.table # "likes" => s \in rows'
      BY <1>5 DEF Unlike, IdsInv
    <2>2. rows' \subseteq rows /\ users' = users
      BY <1>5 DEF Unlike
    <2>3. \A r \in rows' : r.by \in users'
      BY <2>2 DEF SchemaInv
    <2> QED
      BY <2>1, <2>2, <2>3, RemoveKeepsSchema
  <1>6. ASSUME Delete(c) PROVE SchemaInv'
    <2>1. CASE Breaks(c)
      BY <1>0, <1>6, <2>1 DEF Delete, Die
    <2>2. CASE ~Breaks(c)
      <3> DEFINE head == Head(req[c].plan)
                 gone == Doomed(req[c].what, req[c].of, head)
      <3>1. rows' = rows \ gone /\ users' = IF head = "users" THEN users \ {req[c].of} ELSE users
        BY <1>6, <2>2 DEF Delete
      <3>2. head \in DOMAIN Nth
        BY <1>6, Kinds, PlanHeads DEF Delete, Deletion
      <3>3. \A r \in rows' : r.by \in users'
        BY <2>2, <3>1 DEF Breaks, SchemaInv
      <3>4. ASSUME NEW r \in rows', NEW s \in rows, r.table = "posts", s.table = "threads", r.on = s.id
            PROVE  s \in rows'
        <4>1. CASE head = "threads"
          BY <2>2, <3>1, <3>4, <4>1 DEF Breaks
        <4>2. CASE head # "threads"
          BY <3>1, <3>2, <3>4, <4>2, DoomedTables DEF Nth
        <4> QED
          BY <4>1, <4>2
      <3>5. ASSUME NEW r \in rows', NEW s \in rows, r.table = "likes", s.table = "posts", r.on = s.id
            PROVE  s \in rows'
        <4>1. CASE head = "posts"
          BY <2>2, <3>1, <3>5, <4>1 DEF Breaks
        <4>2. CASE head # "posts"
          BY <3>1, <3>2, <3>5, <4>2, DoomedTables DEF Nth
        <4> QED
          BY <4>1, <4>2
      <3> QED
        BY <3>1, <3>3, <3>4, <3>5, RemoveKeepsSchema
    <2> QED
      BY <2>1, <2>2
  <1> QED
    BY <1>1, <1>2, <1>3, <1>4, <1>5, <1>6 DEF Step

-----------------------------------------------------------------------------
(* Deletions *)

LEMMA DoomedShrinks ==
    ASSUME rows' \subseteq rows, NEW what, NEW x, NEW s
    PROVE  Doomed(what, x, s)' \subseteq Doomed(what, x, s)
  <1>1. ThreadsOf(what, x)' \subseteq ThreadsOf(what, x)
    BY DEF ThreadsOf
  <1>2. PostsOf(what, x)' \subseteq PostsOf(what, x)
    BY <1>1 DEF PostsOf
  <1> QED
    BY <1>1, <1>2 DEF Doomed

\* A deletion stays cleared while rows only go and it does not move.
LEMMA ClearedStays ==
    ASSUME NEW d, Cleared(d), req'[d] = req[d], rows' \subseteq rows
    PROVE  Cleared(d)'
  BY DoomedShrinks DEF Cleared

LEMMA RaceNext == TypeInv /\ RaceInv /\ Next => RaceInv'
  <1> SUFFICES ASSUME TypeInv, RaceInv, NEW c \in Req, Step(c),
                      NEW d \in Req, req'[d].at = "delete", d \notin disturbed'
               PROVE  Cleared(d)'
    BY Steps DEF RaceInv, Deleting
  <1>0. d # c => req'[d] = req[d]
    BY OthersStay
  <1>1. ASSUME rows' \subseteq rows, d # c, disturbed \ {c} \subseteq disturbed' PROVE Cleared(d)'
    BY <1>0, <1>1, ClearedStays DEF RaceInv, Deleting
  <1>2. ASSUME Deleting \subseteq disturbed', req'[c].at # "delete" PROVE FALSE
    BY <1>0, <1>2 DEF Deleting
  <1>3. ASSUME NEW u \in User, CreateThread(c, u) PROVE Cleared(d)'
    <2>1. Deleting \subseteq disturbed' /\ req'[c].at # "delete"
      BY <1>3 DEF CreateThread, Insert, Goto, TypeInv
    <2> QED
      BY <1>2, <2>1
  <1>4. ASSUME NEW u \in User, Upload(c, u) PROVE Cleared(d)'
    <2>1. rows' = rows /\ disturbed' = disturbed /\ req'[c].at # "delete"
      BY <1>4 DEF Upload, Goto, TypeInv
    <2> QED
      BY <1>1, <2>1
  <1>5. ASSUME NEW u \in User, NEW x \in 1..last, Reply(c, u, x) \/ Click(c, u, x) PROVE Cleared(d)'
    <2>1. rows' = rows /\ disturbed' = disturbed /\ req'[c].at # "delete"
      BY <1>5 DEF Reply, Click, Goto, TypeInv
    <2> QED
      BY <1>1, <2>1
  <1>6. ASSUME InsertRow(c) \/ AddFile(c) PROVE Cleared(d)'
    <2>1. req'[c].at # "delete"
      BY <1>6 DEF InsertRow, AddFile, Done, Die, Goto, TypeInv, Idle
    <2>2. \/ Deleting \subseteq disturbed'
          \/ rows' = rows /\ disturbed' = disturbed \ {c}
      BY <1>6 DEF InsertRow, AddFile, Insert, Die
    <2> QED
      BY <1>1, <1>2, <2>1, <2>2
  <1>7. ASSUME Unlike(c) PROVE Cleared(d)'
    <2>1. rows' \subseteq rows /\ disturbed' = disturbed /\ req'[c].at # "delete"
      BY <1>7 DEF Unlike, Done, Goto, TypeInv, Idle
    <2> QED
      BY <1>1, <2>1
  <1>8. ASSUME Delete(c) PROVE Cleared(d)'
    <2>1. rows' \subseteq rows /\ disturbed \ {c} \subseteq disturbed'
      BY <1>8 DEF Delete, Die
    <2>2. CASE d # c
      BY <1>1, <2>1, <2>2
    <2>3. CASE d = c
      <3> DEFINE head == Head(req[c].plan)
      <3>1. req[c] \in Deletion
        BY <1>8, Kinds DEF Delete
      <3>2. ~Breaks(c) /\ Len(req[c].plan) # 1
        BY <1>8, <2>3 DEF Delete, Die, Done, Goto, TypeInv, Idle
      <3>3. /\ req'[c] = [req[c] EXCEPT !.plan = Tail(@)]
            /\ disturbed' = disturbed
            /\ rows' = rows \ Doomed(req[c].what, req[c].of, head)
        BY <1>8, <3>2 DEF Delete, Goto, TypeInv
      <3>4. /\ req'[c].what = req[c].what /\ req'[c].of = req[c].of
            /\ req'[c].plan = Tail(req[c].plan)
        BY <3>1, <3>3 DEF Deletion
      <3>5. head \in DOMAIN Nth /\ Nth[Head(Tail(req[c].plan))] = Nth[head] + 1
        BY <3>1, <3>2, PlanHeads DEF Deletion
      <3>6. Cleared(c)
        BY <1>8, <2>3, <3>3 DEF RaceInv, Deleting, Delete
      <3>7. ASSUME NEW s \in DOMAIN Nth, Nth[s] < Nth[head] + 1, s = "given" => req[c].what = "user"
            PROVE  Doomed(req[c].what, req[c].of, s)' = {}
        <4>1. Doomed(req[c].what, req[c].of, s)' \subseteq Doomed(req[c].what, req[c].of, s)
          <5>1. ASSUME NEW what, NEW x PROVE Doomed(what, x, s)' \subseteq Doomed(what, x, s)
            BY <2>1, DoomedShrinks
          <5> QED
            BY <3>4, <5>1
        <4>2. CASE s = head
          <5>1. Doomed(req[c].what, req[c].of, s)' \subseteq rows'
            BY DEF Doomed
          <5> QED
            BY <3>3, <4>1, <4>2, <5>1
        <4>3. CASE s # head
          <5>1. Nth[s] < Nth[head]
            BY <3>5, <3>7, <4>3 DEF Nth
          <5> QED
            BY <3>6, <3>7, <4>1, <5>1 DEF Cleared
        <4> QED
          BY <4>2, <4>3
      <3> QED
        BY <2>3, <3>4, <3>5, <3>7 DEF Cleared
    <2> QED
      BY <2>2, <2>3
  <1>9. ASSUME NEW what \in What, NEW x \in Id \cup Member, BeginDelete(c, what, x) PROVE Cleared(d)'
    <2>1. rows' = rows /\ disturbed' = disturbed
      BY <1>9 DEF BeginDelete
    <2>2. CASE d # c
      BY <1>1, <2>1, <2>2
    <2>3. CASE d = c
      <3>1. req'[c].what = what /\ req'[c].of = x /\ req'[c].plan = Plan(what)
        BY <1>9 DEF BeginDelete, Goto, TypeInv
      <3>2. CASE what \in {"file", "user"}
        BY <2>3, <3>1, <3>2, PlanBegins DEF Cleared, Nth
      <3>3. CASE what \in {"post", "thread"}
        <4>1. Head(Plan(what)) = "likes"
          BY <3>3, PlanBegins
        <4>2. Doomed(what, x, "files")' = {}
          BY <3>3 DEF Doomed
        <4> QED
          BY <2>3, <3>1, <3>3, <4>1, <4>2 DEF Cleared, Nth
      <3> QED
        BY <3>2, <3>3 DEF What
    <2> QED
      BY <2>2, <2>3
  <1> QED
    BY <1>3, <1>4, <1>5, <1>6, <1>7, <1>8, <1>9 DEF Step

LEMMA PlanNext == TypeInv /\ PlanInv /\ Next => PlanInv'
  <1> SUFFICES ASSUME TypeInv, PlanInv, NEW c \in Req, Step(c),
                      NEW d \in Req, req'[d].at = "delete", req'[d].what # "user"
               PROVE  req'[d].plan \in ShortPlans
    BY Steps DEF PlanInv, Deleting
  <1>1. CASE d # c
    BY <1>1, OthersStay DEF PlanInv, Deleting
  <1>2. CASE d = c /\ Delete(c)
    <2>1. req[c] \in Deletion
      BY <1>2, Kinds DEF Delete
    <2>2. ~Breaks(c) /\ Len(req[c].plan) # 1
      BY <1>2 DEF Delete, Die, Done, Goto, TypeInv, Idle
    <2>m. req'[c] = [req[c] EXCEPT !.plan = Tail(@)]
      BY <1>2, <2>2 DEF Delete, Goto, TypeInv
    <2>3. req'[c].what = req[c].what /\ req'[c].plan = Tail(req[c].plan)
      BY <2>1, <2>m DEF Deletion
    <2>4. req[c].plan \in ShortPlans
      BY <1>2, <2>3 DEF PlanInv, Deleting, Delete
    <2>5. Tail(req[c].plan) \in ShortPlans
      BY <2>2, <2>4, ShortHeads
    <2> QED
      BY <1>2, <2>3, <2>5
  <1>3. CASE d = c /\ \E what \in What, x \in Id \cup Member : BeginDelete(c, what, x)
    <2>1. PICK what \in What, x \in Id \cup Member : BeginDelete(c, what, x)
      BY <1>3
    <2>2. req'[c].what = what /\ req'[c].plan = Plan(what)
      BY <2>1 DEF BeginDelete, Goto, TypeInv
    <2> QED
      BY <1>3, <2>2, PlanBegins
  <1>4. CASE d = c /\ ~Delete(c) /\ ~\E what \in What, x \in Id \cup Member : BeginDelete(c, what, x)
    <2>1. req'[c].at # "delete"
      <3>1. ASSUME NEW u \in User, CreateThread(c, u) PROVE req'[c].at # "delete"
        BY <3>1 DEF CreateThread, Goto, TypeInv
      <3>2. ASSUME NEW u \in User, Upload(c, u) PROVE req'[c].at # "delete"
        BY <3>2 DEF Upload, Goto, TypeInv
      <3>3. ASSUME NEW u \in User, NEW x \in 1..last, Reply(c, u, x) \/ Click(c, u, x)
            PROVE  req'[c].at # "delete"
        BY <3>3 DEF Reply, Click, Goto, TypeInv
      <3>4. ASSUME InsertRow(c) \/ Unlike(c) \/ AddFile(c) PROVE req'[c].at # "delete"
        BY <3>4 DEF InsertRow, Unlike, AddFile, Done, Die, Goto, TypeInv, Idle
      <3> QED
        BY <1>4, <3>1, <3>2, <3>3, <3>4 DEF Step
    <2> QED
      BY <1>4, <2>1
  <1> QED
    BY <1>1, <1>2, <1>3, <1>4

-----------------------------------------------------------------------------
(* Files on the disk *)

\* Whether a deletion concerns the file of a row does not depend on other rows.
FileOf(what, x, r) == r.table = "files" /\ ((what = "file" /\ r.id = x) \/ (what = "user" /\ r.by = x))

Listed == \A r \in rows : r.table = "files" => stored[r.on] = r.id
Written == \A c \in Req : req[c].at = "add" => stored[req[c].row.on] = req[c].row.id
Apart == \A c, d \in Req : c # d => ToUnlink(c) \cap ToUnlink(d) = {}
Owned == 
    \A c \in Req : \A p \in ToUnlink(c) :
        /\ stored[p] # 0
        /\ \A r \in rows : r.table = "files" /\ r.on = p => FileOf(req[c].what, req[c].of, r)
        /\ \A d \in Req : req[d].at = "add" => req[d].row.on # p

LEMMA FileInvParts == FileInv <=> doubled \/ (Listed /\ Written /\ Apart /\ Owned)
  BY DEF FileInv, Listed, Written, Apart, Owned, FileOf, Doomed

\* A request that is not about to unlink anything, while the others stay.
LEMMA FilesStay ==
    ASSUME Listed, Written, Apart, Owned,
           NEW c \in Req, \A d \in Req : d # c => req'[d] = req[d],
           ToUnlink(c)' = {}, req'[c].at # "add",
           \A r \in rows' : r.table = "files" => r \in rows,
           stored' = stored
    PROVE  Listed' /\ Written' /\ Apart' /\ Owned'
  <1>1. \A d \in Req : d # c => ToUnlink(d)' = ToUnlink(d)
    BY DEF ToUnlink
  <1>2. Listed'
    BY DEF Listed
  <1>3. Written'
    BY DEF Written
  <1>4. Apart'
    BY <1>1 DEF Apart
  <1>5. Owned'
    <2> SUFFICES ASSUME NEW d \in Req, NEW p \in ToUnlink(d)'
                 PROVE  /\ stored'[p] # 0
                        /\ \A r \in rows' : r.table = "files" /\ r.on = p => FileOf(req'[d].what, req'[d].of, r)
                        /\ \A e \in Req : req'[e].at = "add" => req'[e].row.on # p
      BY DEF Owned, FileOf
    <2>1. d # c /\ p \in ToUnlink(d) /\ req'[d] = req[d]
      BY <1>1
    <2> QED
      BY <2>1 DEF Owned
  <1> QED
    BY <1>2, <1>3, <1>4, <1>5

LEMMA DoubledStays == TypeInv /\ Next => (doubled => doubled')
  <1> SUFFICES ASSUME NEW c \in Req, Step(c) PROVE doubled => doubled'
    BY Steps
  <1> QED
    BY DEF Step, CreateThread, Upload, Reply, Click, InsertRow, Unlike, AddFile, Delete, BeginDelete, Die

LEMMA FileNext == TypeInv /\ IdsInv /\ FileInv /\ Next => FileInv'
  <1> SUFFICES ASSUME TypeInv, IdsInv, Listed, Written, Apart, Owned, ~doubled', NEW c \in Req, Step(c)
               PROVE  Listed' /\ Written' /\ Apart' /\ Owned'
    <2>1. TypeInv /\ Next => (doubled => doubled')
      BY DoubledStays
    <2>2. (doubled \/ (Listed /\ Written /\ Apart /\ Owned))' => FileInv'
      BY FileInvParts, PTL
    <2> QED
      BY <2>1, <2>2, FileInvParts, Steps
  <1>o. \A d \in Req : d # c => req'[d] = req[d]
    BY OthersStay
  <1>0. /\ last \in Nat /\ stored \in [Copy -> {0} \cup Id]
        /\ \A r \in rows : r.id \in Id
        /\ \A d \in Req : req[d].at = "add" => req[d].row.id \in Id /\ req[d].row.on \in Copy
        /\ \A d \in Req : ToUnlink(d) \subseteq Copy
    BY Kinds DEF TypeInv, Row, Adding, Deletion, ToUnlink
  <1>t. \A d \in Req : d # c => ToUnlink(d)' = ToUnlink(d)
    BY <1>o DEF ToUnlink
  <1>1. ASSUME NEW u \in User, CreateThread(c, u) PROVE Listed' /\ Written' /\ Apart' /\ Owned'
    <2>1. req'[c].at = "insert" /\ stored' = stored
      BY <1>1 DEF CreateThread, Goto, TypeInv
    <2>2. \A r \in rows' : r.table = "files" => r \in rows
      BY <1>1 DEF CreateThread, Insert
    <2>3. ToUnlink(c)' = {}
      BY <2>1 DEF ToUnlink
    <2> QED
      BY <1>o, <2>1, <2>2, <2>3, FilesStay
  <1>2. ASSUME NEW u \in User, NEW x \in 1..last, Reply(c, u, x) \/ Click(c, u, x)
        PROVE  Listed' /\ Written' /\ Apart' /\ Owned'
    <2>1. req'[c].at \in {"insert", "unlike"} /\ stored' = stored /\ rows' = rows
      BY <1>2 DEF Reply, Click, Goto, TypeInv
    <2>2. ToUnlink(c)' = {}
      BY <2>1 DEF ToUnlink
    <2> QED
      BY <1>o, <2>1, <2>2, FilesStay
  <1>3. ASSUME InsertRow(c) \/ Unlike(c) PROVE Listed' /\ Written' /\ Apart' /\ Owned'
    <2>1. req'[c].at = "idle" /\ stored' = stored
      BY <1>3 DEF InsertRow, Unlike, Done, Die, Goto, TypeInv, Idle
    <2>2. \A r \in rows' : r.table = "files" => r \in rows
      <3>1. CASE InsertRow(c)
        BY <3>1, MayInsertTypes DEF InsertRow, Insert, Die
      <3>2. CASE Unlike(c)
        BY <3>2 DEF Unlike
      <3> QED
        BY <1>3, <3>1, <3>2
    <2>3. ToUnlink(c)' = {}
      BY <2>1 DEF ToUnlink
    <2> QED
      BY <1>o, <2>1, <2>2, <2>3, FilesStay
  <1>4. ASSUME NEW u \in User, Upload(c, u) PROVE Listed' /\ Written' /\ Apart' /\ Owned'
    <2>1. PICK p \in Copy : /\ stored[p] = 0 /\ stored' = [stored EXCEPT ![p] = last + 1]
                            /\ req'[c] = [at |-> "add", row |-> [id |-> last + 1, table |-> "files", by |-> u, on |-> p]]
                            /\ rows' = rows
      BY <1>4 DEF Upload, Free, Goto, TypeInv
    <2>2. stored'[p] = last + 1 /\ \A q \in Copy : q # p => stored'[q] = stored[q]
      BY <1>0, <2>1
    <2>3. req'[c].at = "add" /\ req'[c].row.id = last + 1 /\ req'[c].row.on = p
      BY <2>1
    <2>4. ToUnlink(c)' = {}
      BY <2>3 DEF ToUnlink
    <2>5. Listed'
      BY <1>0, <2>1, <2>2 DEF Listed, TypeInv, Id
    <2>6. Written'
      BY <1>0, <1>o, <2>1, <2>2, <2>3 DEF Written, Id
    <2>7. Apart'
      BY <1>t, <2>4 DEF Apart
    <2>8. Owned'
      <3> SUFFICES ASSUME NEW d \in Req, NEW q \in ToUnlink(d)'
                   PROVE  /\ stored'[q] # 0
                          /\ \A r \in rows' : r.table = "files" /\ r.on = q => FileOf(req'[d].what, req'[d].of, r)
                          /\ \A e \in Req : req'[e].at = "add" => req'[e].row.on # q
        BY DEF Owned, FileOf
      <3>1. d # c /\ q \in ToUnlink(d) /\ req'[d] = req[d] /\ q \in Copy
        BY <1>0, <1>o, <1>t, <2>4
      <3>2. q # p
        BY <2>1, <3>1 DEF Owned
      <3> QED
        BY <1>o, <2>1, <2>2, <2>3, <3>1, <3>2 DEF Owned
    <2> QED
      BY <2>5, <2>6, <2>7, <2>8
  <1>5. ASSUME AddFile(c) PROVE Listed' /\ Written' /\ Apart' /\ Owned'
    <2>1. req[c].at = "add" /\ req'[c].at = "idle" /\ stored' = stored
      BY <1>5 DEF AddFile, Done, Die, Goto, TypeInv, Idle
    <2>2. rows' = rows \/ rows' = rows \cup {req[c].row}
      BY <1>5 DEF AddFile, Insert, Die
    <2>3. ToUnlink(c)' = {}
      BY <2>1 DEF ToUnlink
    <2>4. Listed'
      BY <2>1, <2>2 DEF Listed, Written
    <2>5. Written'
      BY <1>o, <2>1 DEF Written
    <2>6. Apart'
      BY <1>t, <2>3 DEF Apart
    <2>7. Owned'
      <3> SUFFICES ASSUME NEW d \in Req, NEW q \in ToUnlink(d)'
                   PROVE  /\ stored'[q] # 0
                          /\ \A r \in rows' : r.table = "files" /\ r.on = q => FileOf(req'[d].what, req'[d].of, r)
                          /\ \A e \in Req : req'[e].at = "add" => req'[e].row.on # q
        BY DEF Owned, FileOf
      <3>1. d # c /\ q \in ToUnlink(d) /\ req'[d] = req[d]
        BY <1>o, <1>t, <2>3
      <3>2. req[c].row.on # q
        BY <2>1, <3>1 DEF Owned
      <3> QED
        BY <1>o, <2>1, <2>2, <3>1, <3>2 DEF Owned
    <2> QED
      BY <2>4, <2>5, <2>6, <2>7
  <1>6. ASSUME Delete(c) PROVE Listed' /\ Written' /\ Apart' /\ Owned'
    <2>1. req[c] \in Deletion /\ req[c].at = "delete"
      BY <1>6, Kinds DEF Delete
    <2>2. rows' \subseteq rows
      BY <1>6 DEF Delete, Die
    <2>3. req'[c].at # "add"
      BY <1>6, <2>1 DEF Delete, Done, Die, Goto, TypeInv, Idle, Deletion
    <2>4. ToUnlink(c)' = {}
      <3>1. CASE Breaks(c) \/ Len(req[c].plan) = 1
        BY <1>6, <3>1 DEF Delete, Done, Die, Goto, TypeInv, Idle, ToUnlink
      <3>2. CASE ~Breaks(c) /\ Len(req[c].plan) # 1
        <4>1. req'[c] = [req[c] EXCEPT !.plan = Tail(@)]
          BY <1>6, <3>2 DEF Delete, Goto, TypeInv
        <4>2. req'[c].plan = Tail(req[c].plan)
          BY <2>1, <4>1 DEF Deletion
        <4>3. Head(req'[c].plan) # "files"
          <5>1. /\ Head(req[c].plan) \in DOMAIN Nth
                /\ Nth[Head(req'[c].plan)] = Nth[Head(req[c].plan)] + 1
            BY <2>1, <3>2, <4>2, PlanHeads DEF Deletion
          <5>2. Nth[Head(req[c].plan)] >= 1 /\ Nth["files"] = 1
            BY <5>1 DEF Nth
          <5> QED
            BY <5>1, <5>2 DEF Nth
        <4> QED
          BY <4>3 DEF ToUnlink
      <3> QED
        BY <3>1, <3>2
    <2>5. CASE ToUnlink(c) = {} \/ Breaks(c)
      <3>1. stored' = stored
        BY <1>0, <1>6, <2>5 DEF Delete, Die
      <3> QED
        BY <1>o, <2>2, <2>3, <2>4, <3>1, FilesStay
    <2>6. CASE ToUnlink(c) # {} /\ ~Breaks(c)
      <3>1. Head(req[c].plan) = "files"
        BY <2>6 DEF ToUnlink
      <3>2. /\ rows' = rows \ Doomed(req[c].what, req[c].of, "files")
            /\ stored' = [p \in Copy |-> IF p \in ToUnlink(c) THEN 0 ELSE stored[p]]
        BY <1>6, <2>6, <3>1 DEF Delete
      <3>3. \A r \in rows' : ~FileOf(req[c].what, req[c].of, r)
        BY <3>2 DEF FileOf, Doomed
      <3>4. \A p \in Copy \ ToUnlink(c) : stored'[p] = stored[p]
        BY <3>2
      <3>5. \A r \in rows' : r.table = "files" => r.on \in Copy \ ToUnlink(c)
        BY <2>2, <3>3 DEF Owned, TypeInv
      <3>6. Listed'
        BY <2>2, <3>4, <3>5 DEF Listed
      <3>7. Written'
        <4> SUFFICES ASSUME NEW d \in Req, req'[d].at = "add"
                     PROVE  stored'[req'[d].row.on] = req'[d].row.id
          BY DEF Written
        <4>1. d # c /\ req'[d] = req[d] /\ req[d].at = "add"
          BY <1>o, <2>3
        <4>2. req[d].row.on \in Copy \ ToUnlink(c)
          BY <1>0, <4>1 DEF Owned
        <4> QED
          BY <3>4, <4>1, <4>2 DEF Written
      <3>8. Apart'
        BY <1>t, <2>4 DEF Apart
      <3>9. Owned'
        <4> SUFFICES ASSUME NEW d \in Req, NEW q \in ToUnlink(d)'
                     PROVE  /\ stored'[q] # 0
                            /\ \A r \in rows' : r.table = "files" /\ r.on = q => FileOf(req'[d].what, req'[d].of, r)
                            /\ \A e \in Req : req'[e].at = "add" => req'[e].row.on # q
          BY DEF Owned, FileOf
        <4>1. d # c /\ q \in ToUnlink(d) /\ req'[d] = req[d]
          BY <1>o, <1>t, <2>4
        <4>2. q \in Copy \ ToUnlink(c)
          BY <1>0, <4>1 DEF Apart
        <4> QED
          BY <1>o, <2>2, <2>3, <3>4, <4>1, <4>2 DEF Owned
      <3> QED
        BY <3>6, <3>7, <3>8, <3>9
    <2> QED
      BY <2>5, <2>6
  <1>7. ASSUME NEW what \in What, NEW x \in Id \cup Member, BeginDelete(c, what, x)
        PROVE  Listed' /\ Written' /\ Apart' /\ Owned'
    <2> DEFINE paths == {r.on : r \in Doomed(what, x, "files")}
    <2>1. /\ req'[c].at = "delete" /\ req'[c].what = what /\ req'[c].of = x /\ req'[c].paths = paths
          /\ rows' = rows /\ stored' = stored
          /\ \A d \in Req : ToUnlink(d) \cap paths = {}
      BY <1>7 DEF BeginDelete, Goto, TypeInv
    <2>2. ToUnlink(c)' \subseteq paths
      BY <2>1 DEF ToUnlink
    <2>3. Listed'
      BY <2>1 DEF Listed
    <2>4. Written'
      BY <1>o, <2>1 DEF Written
    <2>5. Apart'
      BY <1>t, <2>1, <2>2 DEF Apart
    <2>6. Owned'
      <3> SUFFICES ASSUME NEW d \in Req, NEW q \in ToUnlink(d)'
                   PROVE  /\ stored'[q] # 0
                          /\ \A r \in rows' : r.table = "files" /\ r.on = q => FileOf(req'[d].what, req'[d].of, r)
                          /\ \A e \in Req : req'[e].at = "add" => req'[e].row.on # q
        BY DEF Owned, FileOf
      <3>1. CASE d # c
        BY <1>o, <1>t, <2>1, <3>1 DEF Owned
      <3>2. CASE d = c
        <4>1. PICK r \in rows : FileOf(what, x, r) /\ q = r.on /\ stored[q] = r.id
          BY <2>2, <3>2 DEF Doomed, FileOf, Listed
        <4>2. \A s \in rows : s.table = "files" /\ s.on = q => s = r
          BY <4>1 DEF Listed, IdsInv
        <4>3. \A e \in Req : req[e].at = "add" => req[e].row.on # q
          BY <4>1 DEF Written, IdsInv
        <4> QED
          BY <1>0, <1>o, <2>1, <3>2, <4>1, <4>2, <4>3 DEF Id
      <3> QED
        BY <3>1, <3>2
    <2> QED
      BY <2>3, <2>4, <2>5, <2>6
  <1> QED
    BY <1>1, <1>2, <1>3, <1>4, <1>5, <1>6, <1>7 DEF Step

-----------------------------------------------------------------------------
(* The theorems *)

LEMMA InvStutter == Inv /\ UNCHANGED vars => Inv'
  <1> SUFFICES ASSUME Inv, UNCHANGED vars PROVE Inv'
    OBVIOUS
  <1> USE DEF Inv, vars
  <1>1. TypeInv'
    BY DEF TypeInv, Deleting
  <1>2. IdsInv' /\ SchemaInv'
    BY DEF IdsInv, SchemaInv, Parents, Ids
  <1>3. RaceInv' /\ PlanInv'
    BY DEF RaceInv, PlanInv, Cleared, Deleting, Doomed, PostsOf, ThreadsOf
  <1>4. FileInv'
    BY DEF FileInv, ToUnlink, Doomed
  <1> QED
    BY <1>1, <1>2, <1>3, <1>4

LEMMA InvNext == Inv /\ [Next]_vars => Inv'
  BY TypeNext, IdsNext, SchemaNext, RaceNext, PlanNext, FileNext, InvStutter DEF Inv

LEMMA SpecInv == Spec => []Inv
  BY InitInv, InvNext, PTL DEF Spec

LEMMA InvImpliesRowsOK == Inv => RowsOK
  <1> SUFFICES ASSUME Inv PROVE RowsOK
    OBVIOUS
  <1>1. TypeInv /\ IdsInv /\ SchemaInv
    BY DEF Inv
  <1>2. DOMAIN req = Req /\ last \in {0} \cup Id
    BY <1>1 DEF TypeInv, Id
  <1> QED
    BY <1>1, <1>2 DEF RowsOK, TypeInv, IdsInv, SchemaInv

\* The schema holds at every step: rows have ids of their own and refer to rows
\* and users that are there (lib/db.py's tables), for any number of requests.
THEOREM SchemaIsKept == Spec => []RowsOK
  BY SpecInv, InvImpliesRowsOK, PTL

\* The order of delete_post, delete_thread and delete_user is right: a foreign
\* key stops only a deletion during which somebody inserted a row.
THEOREM OrderIsRight == Spec => []DeletionsFailOnlyInARace
  <1>1. Inv => DeletionsFailOnlyInARace
    <2> SUFFICES ASSUME Inv, NEW c \in Deleting, Breaks(c), c \notin disturbed PROVE FALSE
      BY DEF DeletionsFailOnlyInARace
    <2> DEFINE what == req[c].what
               x == req[c].of
               head == Head(req[c].plan)
    <2>1. c \in Req /\ req[c] \in Deletion /\ Cleared(c)
      BY Kinds DEF Inv, Deleting, RaceInv
    <2>2. ASSUME head = "posts" PROVE FALSE
      <3>1. Doomed(what, x, "likes") = {}
        BY <2>1, <2>2 DEF Cleared, Nth
      <3>2. PICK r \in rows : r.table = "likes" /\ r.on \in {s.id : s \in Doomed(what, x, "posts")}
        BY <2>2 DEF Breaks
      <3>3. r.on \in PostsOf(what, x)
        BY <3>2 DEF Doomed
      <3> QED
        BY <3>1, <3>2, <3>3 DEF Doomed
    <2>3. ASSUME head = "threads" PROVE FALSE
      <3>1. Doomed(what, x, "posts") = {}
        BY <2>1, <2>3 DEF Cleared, Nth
      <3>2. PICK r \in rows : r.table = "posts" /\ r.on \in {s.id : s \in Doomed(what, x, "threads")}
        BY <2>3 DEF Breaks
      <3>3. r.on \in ThreadsOf(what, x)
        BY <3>2 DEF Doomed
      <3>4. r.id \in PostsOf(what, x)
        BY <3>2, <3>3 DEF PostsOf
      <3> QED
        BY <3>1, <3>2, <3>4 DEF Doomed
    <2>4. ASSUME head = "users" PROVE FALSE
      <3>1. what = "user"
        BY <2>1, <2>4, ShortHeads DEF Inv, PlanInv, Deleting
      <3>2. \A s \in {"files", "given", "likes", "posts", "threads"} : Doomed(what, x, s) = {}
        BY <2>1, <2>4, <3>1 DEF Cleared, Nth
      <3>3. PICK r \in rows : r.by = x
        BY <2>4 DEF Breaks
      <3>4. r.table \in Table
        BY DEF Inv, TypeInv, Row
      <3>5. r.table # "files"
        BY <3>1, <3>2, <3>3 DEF Doomed
      <3>6. r.table # "likes"
        BY <3>1, <3>2, <3>3 DEF Doomed
      <3>7. r.table # "posts"
        <4>1. r.table = "posts" => r.id \in PostsOf(what, x)
          BY <3>1, <3>3 DEF PostsOf
        <4> QED
          BY <3>2, <4>1 DEF Doomed
      <3>8. r.table # "threads"
        <4>1. r.table = "threads" => r.id \in ThreadsOf(what, x)
          BY <3>1, <3>3 DEF ThreadsOf
        <4> QED
          BY <3>2, <4>1 DEF Doomed
      <3> QED
        BY <3>4, <3>5, <3>6, <3>7, <3>8 DEF Table
    <2> QED
      BY <2>2, <2>3, <2>4 DEF Breaks
  <1> QED
    BY <1>1, SpecInv, PTL

\* Whatever uploads and deletions meet, a listed file is on the disk and is the
\* one its row was written for, unless two deletions of one file have met.
THEOREM UploadsAreKept == Spec => []FilesAreThere
  <1>1. Inv => FilesAreThere
    BY DEF Inv, FileInv, FilesAreThere
  <1> QED
    BY <1>1, SpecInv, PTL

=============================================================================
