# A model of Sisyphus BBS

Sisyphus BBS is one Python process: FastAPI handlers on one asyncio loop, one
shared SQLite connection, and a few tables kept in memory.  Its bugs do not
hide in what one handler computes but in what two handlers do to each other:
each `await` of the database lets every other request run, a handler may be cut
off at any of them, and most of what is remembered between two requests lives
in plain dictionaries.  This directory models those parts in TLA+, checks them
with TLC and proves the statements that matter most with TLAPS.

`PROJECT.json` lists every run, every definition with the lines it was
translated from, every hazard with the properties that cover it, the mutants
that show the properties have teeth, and the theorems.

## 1. The system

| part | source | state | operations | what makes it correct |
|---|---|---|---|---|
| Mille Bornes rules | `lib/mille.py` | two players and a deck | `can_play`, `do_play`, `apply_coup_fourre`, `cpu_choose`, `calc_score` | a safety protects for good; a coup fourre undoes exactly its hazard |
| Mille Bornes between users | `lib/mille.py`, `lib/routes/game_routes.py` | `PvpGameState` | play, discard, answer a coup fourre, quit | no stall, no double turn, no card twice, an end |
| Mille Bornes against the computer | same | `GameState` | play, discard, coup, page view | the same, with the computer's turn in every request |
| Mille Bornes lobby | same | `_invites`, `_games`, `_pvp_games`, `_user_pvp`, `game_scores` | invite, accept, decline, cancel, expire, new, quit, page view | links and registry agree; a score is stored once; nobody loses a game or a result screen |
| Long Climb store | `lib/climb/store.py` | `climb_players` | load, create, save, change, delete | a save happens on top of what it has read, or not at all |
| Long Climb hearts | `lib/climb/scenes.py`, `lib/routes/climb_routes.py`, `store.py`, `rules.py` | a climber's heart, `climb_hearts`, `climb_doors` | open and close, flirt, propose, accept, decline, shut and open a door, court, part, divorce | marriage is mutual and between two who asked; a shut door is shut |
| Long Climb camp | same | purses, `climb_robberies` | rob, fight, flee, settle | coin is never made; one attempt on a victim a day; spouses are safe |
| Long Climb rules | `lib/climb/rules.py`, `scenes.py` | one climber | fights, shops, events, dawn, the ascent | one climber's day, applied once |
| Nine Fjords | `lib/fjords/` | realms and a market, given and returned by pure functions; nothing stores them yet | the household, the market, voyages, errands, dawn, Yule; the habits of computer jarls; the simulator's day and year | nothing is made out of nothing, nobody is erased by another |
| Accounts | `lib/auth.py`, `lib/invites.py`, `lib/routes/auth_routes.py`, `admin_routes.py` | `users`, `sessions`, `invites` | register, log in and out, promote, demote, delete, invite, claim, release, assign, revoke | exactly one superadmin, one account a code, no row of a deleted user |
| Rate limiter | `lib/ratelimit.py` | events by key | is_limited, record, clear | memory bounded; no more than the budget |
| Chat | `lib/chat.py`, `lib/routes/chat_routes.py` | subscribers' queues, `chat_messages` | connect, switch, send, announce, ping, leave | every message of a room reaches who is in it, by history or live; queues are bounded and leave with their socket |
| Boards | `lib/boards.py`, `lib/routes/board_routes.py` | threads, posts, likes | open a thread, reply, like, delete | no reply outlives its thread; nobody likes a post twice |
| Files | `lib/files.py`, `lib/routes/file_routes.py` | a directory and a table | upload, download, delete | a row has its file |
| Plumbing | `web_server`, `csrf`, `bodylimit`, `deps`, `templating`, ... | none of interest | | |

How they interact.  Everything is called from a route.  The lobby creates and
drops the games; the games tell the lobby only that they are over.  The climb
routes call the store for the request's own climber (load, act, save) and,
after that save, for somebody else's (`change`), for the bonds and doors, for
the Herald and for `game_scores`.  Deleting an account reaches into nearly
every table, but not into the memory of the games or of the chat.  Only the
chat keeps connections open: a socket lives on three loops that share its queue,
and posts of all sockets meet in the manager's table of subscribers.  All of
them share one database connection and therefore one transaction: a commit by
one handler commits what any other has done so far.

What is hard here:

* a handler that checks, awaits, and acts on what it had checked
  (`mille_invite`, `_settle_heart`, `login`);
* two requests of the same user (double click, second tab) and of two users on
  the same row (`save`, `change`);
* several awaited writes that belong together, cut off half way or committed
  half way by somebody else (marriage, robbery, the two scores of a game,
  `delete_user`, an invite code and the account it makes);
* a queue that is left while a loop waits on it, a history read while messages
  are being broadcast, a full queue, a session that ends under an open socket;
* rows and files deleted in several statements while others insert;
* long sequences of harmless requests that end where nobody has a move
  (uneven hands when the deck is gone, a spouse who never returns);
* what was shown against what is true when the button is pressed.

## 2. Modules

| module | models | checked by | proved in |
|---|---|---|---|
| `MilleRules` | the pure rules, as operators on players | `MCMillePvp`, `MCMilleCpu` | |
| `MillePvp` | a game between two users | `MCMillePvp` | `MilleProofs` |
| `MilleCpu` | a game against the computer | `MCMilleCpu` | `MilleProofs` |
| `MilleLobby` | invites, the registry of games, scores | `MCMilleLobby` | `MilleProofs` |
| `ClimbRow` | the promise: one climber's row, changed atomically | as a property of `ClimbStore` | |
| `ClimbStore` | load, compare and save | `MCClimbStore` | `ClimberProofs` |
| `ClimbHearts` | courtship and marriage across two rows | `MCClimbHearts` | `ClimbHeartsProofs` |
| `ClimbCamp` | robbery: two purses and the list of the day's attempts | `MCClimbCamp` | `ClimbCampProofs` |
| `ClimbDay` | one climber's day: screens, fights, shops, dawn | `MCClimbDay` | `ClimberProofs` |
| `RateLimiter` | the sliding window and its ceiling, as operators on a sequence of events | within `Accounts` | `AccountsProofs` |
| `Accounts` | users, sessions, codes and levels on the shared connection; two limiters | `MCAccounts` | `AccountsProofs` |
| `Chat` | sockets and their loops, queues, channels, posts | `MCChat` | `ChatProofs` |
| `Commons` | threads, posts, likes, files, and what deletes them | `MCCommons` | `CommonsProofs` |
| `Fjords` | the rules, habits, days and year of Nine Fjords | `MCFjords` | `FjordsProofs` |

**What is a step.**  A handler is atomic up to its first `await` that leaves
the process's own memory, because asyncio never preempts.  `MillePvp` and
`MilleCpu` therefore have one action per route.  `MilleLobby` splits
`mille_invite` around `auth.get_user` and `mille_page` around the two
`save_score` calls.  `ClimbStore` splits every request into `Load` and `Save`.
`ClimbHearts` has one action per awaited call of `_settle_heart`, builds on
`ClimbStore` by taking `change` and a save as one step each, and lets a handler
die between any two (`Interrupt`); `ClimbCamp` does the same with
`_tell_the_town` and `_settle_robbery`.  In `ClimbDay` a request is a step:
`ClimbStore` shows that one climber's requests take effect one after another.
`Accounts` and `Commons` take one statement of the database a step, with the
commit where that comes next; `Chat` takes what a loop of a socket does between
two awaits that matter; `Fjords` takes one turn of the simulator's loop.  A
request refused by its guard changes nothing and is a stuttering step.

**Mille Bornes.**  A card is an identity with a printed face, so that two equal
cards stay two.  A hand is a set; its order only decides which of two equal
cards the computer takes, and either may be.  The deck is the set of cards not
yet drawn, any of which may come next.  `messages` are left out.  The
computer's `_worst_card` and the order of preference of `cpu_choose` are kept.
A game between users is `on`, `over` or `forfeited` to the lobby.

**The lobby.**  `_invites`, `_games`, `_pvp_games` and `_user_pvp` are
`invites`, `cpu`, `registry` and `link`.  `games` holds every `PvpGameState`
ever made, since a suspended handler may still hold one that is out of the
registry.  An invite's age is not kept: any may have expired by the time of a
page view.  The flash messages are left out.  `SaveFails` is the insert refused
because the account was deleted.

**The store.**  A row is a turn and the set of requests whose change it holds;
a save writes back what it loaded and its own change, which is what makes a
lost update visible.  `life` tells one climber from the next one begun in the
same row: `create` starts again at turn 0, and a save that loaded the old one
at an equal turn is then not stale to `WHERE turn = ?`.  `ClimbRow` says that a
request answered "saved" has changed the row in one step on top of all that was
saved before; that one exception is its action `Revive`.

**Hearts.**  `heart` and `open` are fields of a climber's row; `bonds` is
`climb_hearts` with affinity reduced to whether it suffices to propose; `doors`
is `climb_doors`.  A request is `Ask` (everything read and decided), `Save`
(the own row, unless it was written in between), and then the steps of
`_settle_heart`.  Nothing keeps a climber from sending a second form while the
handler of the first is under way (`climb_act` compares only the turn,
`climb_routes.py:318-334`), so any number of handlers of one climber may be;
`no` tells two of the same kind apart.  `pending` is one request a climber, since
of several made at one turn at most one is saved.  `_settle_heart` does not look
at what its own climber has done since: the properties claim nothing of a climber
who has proposed, accepted or divorced while an earlier one of these three was
still under way, nor of whom such a climber then weds or leaves.  `muddled`
remembers them, as `asked` remembers proposals; no action reads either.  What
happens to them is among the disagreements below.  The reads of `Ask` are taken
together, days and charm are left to chance, and an admin's reset of a climber
is left out.

**The Camp.**  A robbery is `Ask` (the list of sleepers, read and decided),
`Rob` (the save that spends the duel and opens the fight), any number of `Blow`
(again `Ask` and a save each), and what the handler does after a save:
`NoteRobbery`, then `Debit` and `Credit` of a robbery won, or `Reward` of one
lost.  Everything else that moves coin runs between these, with its real effect
on purse and Vault; so do midnight, a climber's dawn and the gift it may bring,
death, an ascent, a reset by an admin and a climber begun anew.  `coin` is a ledger of what was brought down from the
mountain or left there, and `attempted` remembers every duel ever spent: neither
is read by an action.  A wedding, two writes in `ClimbHearts`, is one step here.
A climber sends one request at a time here (`Idle`), which the code does not ask
for either.  It hides nothing of `EachDuelAnotherSleeper`: the note of an attempt
is the first call after the save, the one database thread takes calls in order,
and a second form has to load its climber before it reads who was robbed today.
Nor of `CoinIsOnlyMoved`: `Debit` and `Credit` change whatever a purse holds by
then, and everybody else's writes to it do run between them.
How a blow is decided is left to chance, and hit points are in `ClimbDay`.

**The day.**  `Doors` is the graph of screens, `OpenFight`, `FoeStrikes` and
`AfterBlows` are what the code has under these names, and every choice of `act`
that changes the climber is an action.  Hit points are counted, since the
properties are about them; damage, prices, earnings and chances are any of a few.
`event` holds the event that waits for an answer or the suitor being looked at,
as the row's one column does.  What a heart does to another is in `ClimbHearts`.
Experience is whether it suffices for the gatekeeper.  The screens that only
speak (Stele, Herald, wall and the like) are one.  A stake the satyr refuses
leaves all as it was and is a stuttering step.  The route gives the dead only
what the screen of the dead offers, which is `Doors` with the guard of `Go`.

**Accounts.**  `db` is what the shared connection sees and `disk` what a crash
leaves: a statement writes `db`, a commit copies it whole, `Restart` goes back.
A user is an id with its level and who invited it; ids are never reused, as
AUTOINCREMENT has it.  A session is a browser and a user, and `sessions` stands
for every table whose rows belong to a user.  Names are not kept (`NameTaken` is
the insert refused by UNIQUE), nor are passwords: a login is right or not.
`Enter` is `require_user`, after which the handler goes on with the user and the
level it has read, whatever happens to them.  `invite_only` is a setting read at
start and may differ after it.  `admitted` counts the accounts each code has
made and `burnt` the codes whose handler died holding them; no action reads
either.  A limiter is the sequence of the keys of its events; `WindowSlides` is
the clock, `OthersFail` a failed login from another address.

**Chat.**  A switch makes a new queue, into the room the socket is in as well
(`chat_routes.py:220-233`; the page sends one when it goes back after a refused
switch, `chat.js:117-129`).  A socket has two of them in the model: the one its
state names, `<<s, "now">>`, and the one it has left, `<<s, "left">>`, where
`_send` may still be waiting; that it needs no third is part of `SenderIsWoken`.
A queue left on which `_send` does not wait is never read again, and is empty.
`Check`, `Swap` and `History` are the three parts of a switch, `Store` and
`Deliver` the two of a post, `Take` and `Written` what `_send` does with one
payload.  Two promises of asyncio and the database thread are relied on, and
stated at the head of the module: reading a history and sending it is one step,
since a row inserted after that SELECT is offered, two round trips later, when
the history is written; and a `_send` woken on a queue runs before a `_recv`
that waits for the database (`SenderFirst`).  `screen` is what the client shows,
replaced by a history as the page does; `dropped` and `unsent` record what a
full queue refused and what a sender that died had stored and not offered.
`Asks` bounds the rooms a client asks for.
Error frames, the limiter of frames and the seen-marks of direct messages are
left out; a direct message is a room some may not read.

**Commons.**  The rows of four tables are one set of records, with one counter
for their ids: only that they are not reused matters.  `Plan` is the order in
which a deletion takes the tables; foreign keys are on, so a statement that
would leave a row without its parent raises (`Breaks`), its handler ends, and
what the handler did before stays.  A file is
unlinked and its row deleted in one step: the DELETE is queued before the handler
waits for anything, and the one database thread takes calls in order, so no later
statement finds the one done and the other not.  `stored` is FILE_STORE: which upload is
under a name, the same name with `_1`, and so on.  `disturbed` and `doubled`
remember which deletions met an insert, and whether two deletions have read the
path of one file; no action reads them.  A crash is left out here: what it does to a
half-done deletion is in `Accounts`.

**Nine Fjords.**  A rule is the set of what it may make of a realm, empty where
the code raises `NotAllowed`.  Silver, grain and timber are floats in the code
and whole numbers here, rounded down; shares and prices are in ten-thousandths
and tenths.  The habits of `npc.py` play by themselves; a *surprise* is what
they do not foresee: an event at dawn, a day away, another order, luck or
weather at sea, Yule, or one move of a player, who may do whatever the rules
allow.  Nothing but the simulator and the tests calls these rules yet, so the
simulator's loop is the system here.

## 3. Runs

| run | instance | what it shows |
|---|---|---|
| `pvp` | ten cards: a breakdown, its remedy and safety, Stop, Speed Limit, Right of Way, two rolls, a 200 and a 50; hands of two; 250 miles | `TableIsSound` (no card in two places, no safety in vain), `TurnHolderHasCard`, `CoupIsSound`, `TurnPasses`, `EveryMoveSpends` |
| `cpu` | nine cards, hands of two | `CpuTableIsSound` (the same with the computer's turn inside each request), `StrandedGameFinishes`, `EveryRequestSpends` |
| `lobby` | three users, two games, one invite being sent, two outstanding | `LobbyIsSound`, `BothPlayersStay`, `OneGameAtATime`, `ScorePostedOnce`, `ResultNotTakenAway` |
| `climb_store` | two forms, one page view, two changes with two tries each, two lives | `RequestsAreSound`, and `ClimbStore` implements `ClimbRow` (`ChangesAreAtomic`) |
| `hearts` | three climbers, three requests, from any rest with open hearts: proposals on the table, two of them married perhaps | `HeartsAreSound` (nobody is wed unasked, whatever handlers die or overlap); `MutualWhenQuiet` and `EndedByTheTwo` as long as none has died, of those who have not got ahead of a handler of their own |
| `camp` | three climbers, two days, two duels a day, four requests after an evening's start | `CampIsSound` (no fight outlives its day), `CoinIsOnlyMoved`, `EachDuelAnotherSleeper` |
| `day` | three levels of two, three and four hit points, blows of one and two, two coins | `ClimberIsSound`, `SceneHasItsMatter`, `EveryRoundCounts`, `MercySaves`, over any number of days |
| `chat` | two sockets, the lobby and a channel; one socket goes to either, also to the one it is in, the other stays; queues of one, a history of one, two broadcasts, one ended session | `ChatIsSound` (the subscribers of a room are the queues of who is in it), `SenderIsWoken`, `NothingMissed`, `OneRoomOnScreen`; under fairness `BacklogIsSent` and `EndedSessionCloses` |
| `accounts` | two browsers at one address, three accounts, one code, limits of one | `AccountsAreSound` (one superadmin, on the connection and on disk), `CodeTellsTheTruth`, `BudgetHolds` |
| `accounts_deletion` | the same | a violation of `DeletionIsWhole`: half a deletion is committed |
| `commons` | two requests, a member and an admin, three rows, two paths | `RowsOK` (nothing refers to what is gone, no like twice), `DeletionsFailOnlyInARace`, `FilesAreThere` |
| `fjords` | two jarls of each habit in one of three years, a year and the first day of the next, one surprise | `RealmsOK`, `NothingIsMadeAtSea`, `NobodyIsErased` |

**Why the bounds are enough.**  The ten cards hold at least one card for every
branch of `can_play`, `do_play` and `apply_coup_fourre` that is not the twin of
another (the three breakdowns differ in name only), the deck runs out in every
game that is not won first, and the goal can be reached with the 200 and the
50 and with nothing less.  Three users are the two of a game and one who takes
one of them away; two games are the one left and the next.  `MCMilleLobby`'s
view forgets what nobody can read any more of a dropped game, and its symmetry
is over users and games, which no action tells apart.  On a row, two forms, a
page and two changes are every pair of kinds of request and a third party, two
tries are one more than none, and two lives are a reset.  `hearts` begins at
rest, with open hearts, two of three pairs well acquainted, any proposals those
may have made, and a married couple or none, since the way there takes more
requests and no more care.  Three requests are then two answers that would marry
one climber twice and a divorce that crosses them, or a marriage ended from both
sides and a yes of one of the two before the other's divorce has arrived.  The run `camp` begins on an
evening when one climber may already be in a fight, a state the first request
of any evening can lead to; four more requests are two robberies that cross, or
one robbery and three things its victim does about it, and the second day lets a
dawn fall between any two steps.  Two duels instead of three are one to spend
and one to spend wrongly.  In `day` there is a first level, a last, and one
between; foes of up to three hit points outlast a blow of two; a purse of two
can be spent in halves; and the days are not bounded.

In `chat` a queue of one is full after one message, the second broadcast is the
one refused, and the history of one can hold the first message or the second
but not both; connections, switches and disconnections are not bounded, so a
socket may leave and come back any number of times while a message is on its
way.  In `accounts` two requests are any two that meet; three accounts are the
superadmin, one to be promoted, demoted or deleted, and one whom the other has
invited; the address of the two browsers and the one of everybody else are one
more than the limiters may remember.  In `commons` three rows are a thread, its
opening post and a reply, a like or a file, two paths a name and its first
replacement; four rows pass as well, in a minute or so.  In `fjords` thirty days
are the game's year and pass through all three of its seasons, the levies are
one a new realm can send and one it cannot, and a single surprise in a year is
followed by all the days that are left.  Two surprises at once are beyond the
run's five minutes; what it does not reach for that reason is a realm that
cannot pay its huscarls.

**Fairness.**  `Chat` states weak fairness of three actions of every socket, all
of them the server's own: `Take` (a `_send` with something in its queue is
scheduled by asyncio), `Written` (a frame being written is written, or the
write fails and the connection with it) and `Ping` (the loop wakes every
`_PING_INTERVAL` and looks the session up).  What users do (connecting,
switching, posting, leaving) is under no fairness, nor need it be.  All other
properties are safety properties and their modules state none.  Each run that
may stop says so with `CHECK_DEADLOCK FALSE` (users may go away, and the
requests of the bounded runs come to an end); elsewhere deadlock is checked: a
game may not stop, nor may a day, which ends in a dawn, nor the chat or the
accounts, where somebody can always come or go.  That games end if their
players go on playing follows from `EveryMoveSpends` (a natural number falls
with every move) with `TurnHolderHasCard` or `StrandedGameFinishes` (there is a
move).

**What the violation shows.**  `delete_user` says that "the whole deletion is
committed as a single transaction" (`auth.py:216`).  It runs a dozen statements
and commits at the end (`auth.py:292`), but on the connection all handlers
share: a request that commits between two of its statements, as any request of
a logged-in user does in `update_last_seen`, commits what is done so far.  If
the process dies then, or a foreign key stops the last statement because the
user has written meanwhile, the account is still there and part of what was its
own is not.  `AccountsAreSound` shows that no row is left without its user all
the same.

**Other disagreements met while modelling**, which no run is spent on:

* `mille_invite` says one cannot invite from within a game
  (`game_routes.py:471-487`); the check is made before an await and the invite
  after it.  It does no harm: `mille_invite_accept` checks again, and `lobby`
  and `MilleProofs` show that both players stay and nobody has two games.
* A door is asked, then awaited, then the proposal is stored
  (`climb_routes.py:115-124`): shutting the door in between withdraws the
  proposal before it is there, against `DESIGN.md:389-392` of the Long Climb.
* The only screen that offers a divorce lists climbers seen within `IDLE_DAYS`
  (`store.py:314`), against `DESIGN.md:393-395`: a marriage to somebody who has
  been away for a fortnight cannot be ended until they return.
* Whether the two are married is asked when a sleeper is chosen
  (`climb_routes.py:172`); the fight goes on over later requests, and a victim
  who wakes may say yes to a proposal the robber has made, against
  `DESIGN.md:393`.
* A handler that dies between marrying one climber and telling the other leaves
  a one-sided marriage, and the proposal on the table
  (`climb_routes.py:138-152`).  If the one who was married asks for a divorce,
  and the left-over proposal is accepted again before the divorce has reached
  the other row, that divorce ends the second marriage, which nobody asked to
  end.  It takes five requests of two climbers, two more than `hearts` has, and
  was met in proving `EndedByTheTwo`, which therefore claims nothing once a
  handler has died.
* A second form of a climber may get ahead of the handler of the first
  (`climb_routes.py:318-334`), and `_settle_heart` does not look back.  A climber
  who says yes to another and, while the handler's `change(them, wed)` is still
  trying, divorces them leaves the other married alone: `part` finds nothing to
  end, and the `wed` that follows does not ask whether the yes still holds
  (`climb_routes.py:131-141`).  And an `undo` that comes late clears whatever heart
  it finds (`climb_routes.py:143-147`), which may be of another marriage by then.
  The model has these steps; `MutualWhenQuiet` and `EndedByTheTwo` claim nothing
  of the `muddled`.
* `offer` says that what a full queue refuses "is still in the database"; an
  announcement is not in it.  And a post whose row a joining socket reads in its
  history, but which is offered after it, is shown twice.
* The taking is said never to take the last of anything (`data.py:85`,
  `DESIGN.md:311` of Nine Fjords); the code lets the last wild steading go, as the
  tests do.  `NobodyIsErased` names what does hold: farms, woods and longhouses.
* Nobody's folk are to fall below `FOLK_FLOOR` by another's doing (`data.py:45`,
  `DESIGN.md:311-312` of Nine Fjords).  `NobodyIsErased` shows it of raids and
  takings; the wedding event, and the roofs that bound the folk of a jarl whose
  own whisper has succeeded, may bring them lower.
* Two deletions of one file that meet may unlink an upload that has taken its
  name in between (`files.py:74`): `FilesAreThere` excludes exactly that case.

## 4. Proofs

A run shows a property on one small instance; the theorems below state the
same property for every value of the constants their modules declare.  The
proofs about components that share no name are kept in one module:
`MilleProofs` is about the lobby and both kinds of game, `ClimberProofs` about
the store and the day.

**The lobby.**  `MilleProofs` proves every property of the run `lobby` for all
sets of users and games and all bounds, from `NobodyAssumption` alone.
`LobbyTypeOK` and the statements themselves are not inductive.  `LobbyInv` is
their conjunction with what the routes rely on without saying so:

* `LinkInv`: who is linked to a registered game is one of its players, and
  those who are still there are all of them (the three properties of the run);
* `PlayersInv`: a registered game is on or over, never forfeited; nobody
  challenges themselves, in the table or in a suspended handler; so a game has
  two different players;
* `ScoreInv`: a game whose score is not marked saved has no handler in the
  inserts and nothing posted; one that is marked is over; while a handler is in
  the inserts the second player's score is not posted, nor is the first's if it
  is at the first; and nothing is posted twice.

The steps that need care are `mille_page`, where a user may be shown a result,
leave, or have a game against the computer dropped, and `SaveScore`, where the
two inserts of one handler meet nothing but that handler's own record.

**Mille Bornes.**  `MilleProofs` proves all five properties of `pvp` for any deck with a card of
each safety, any hand size and any goal, from `DeckAssumption` and
`HandSizeAssumption`.  Three of them, with one fact more, are inductive: a Stop is
played on a player who moves (`StopOnTheMove`), so the coup fourre that answers it
lifts no breakdown with it.  `TurnGiven` is the lemma about `_give_turn`: as long
as a card is left somewhere, which `_check_pvp_game_over` has seen to (`GoesOn`),
whoever is given the turn has a card, and it is the one it was meant for unless
they have none.  `EveryMoveSpends` counts the cards that are in the deck or in a
hand: drawing keeps them, playing and discarding remove one.

It also proves all three properties of `cpu`, from the same assumptions.  Here
a request is a composition of functions on the game, and so are the lemmas:
`Good` (types, cards in one place, no safety in vain, a row exactly for a
stored score) is kept by every one of them.  `Settled` adds what holds between
two draws: nobody has won a race that is still on, and what the human is asked
can be answered.  The race has to be in it: the page view that ends a game
would otherwise end one with a question open, which `_run_cpu_turn` leaves
without the check for the end.  `Fed` says that a human without cards faces an
empty deck, as every request that passes the turn draws.  `PlayedOut` is a
recursive function on games.  That there is such a function is proved first: a
least hand size for which there is none would have one below it, since each move
of the computer spends a card (`MovesShorten`).  `StrandedFinishes` follows the
same way: a least hand whose playing-out does not end the game is not empty,
for then the check finds deck and hands empty, and not longer either.

**The Long Climb.**  `ClimberProofs` proves `StoreTypeOK`, `OneActionPerScreen` and
the refinement `StoreSpec => Promise!Spec` for any number of requests and tries, from
`StoreAssumption`.  The invariant orders a life's saved requests by the turn
they were made from: the row's turn is above every turn saved into the current
life, what a request has loaded is not newer than the row of the same life, and
a copy taken at the row's own turn in the row's own life is the row.  From the
last, a save that passes `WHERE turn = ?` in the same life puts its change on
top of all that was there (`Apply`), and one that passes it in a later life is
the exception the promise names (`Revive`).

`ClimberProofs` proves all four properties of `day` for a mountain of
any height, with any blows, prices, purses and gifts, from `DayAssumption` (every
level has hit points, a dawn brings no more fights than the bound) and
`NoneAssumption`.  `HpFits` is carried by `Living`, which each rule of
`lib/climb/rules.py` is shown to preserve in a lemma of its own, and by
`DeadIsSound`; a blow that kills leaves, for the length of `_after_blows`, a
climber without hit points who is not dead, and `AfterBlowsInv` is the lemma that
says how that ends.  Two strengthenings are needed.  A fight with a gatekeeper is
fought below the last level (`GateHasAnotherSide`), or `LevelUp` would leave the
mountain.  And in a fight that can kill, the blessing is on the fight and no
longer on the climber (`BlessingIsInTheFight`), from which `MercySaves` follows:
the `...Tells` lemmas say which requests can end in the cot.  `EveryRoundCounts`
needs no more: a use of a skill weighs one more than it can heal, so a round that
heals leaves less of the fight as one that strikes does.

`ClimbHeartsProofs` proves all of `hearts` for any number of climbers and
requests, from `HeartAssumption`.  What a handler of one climber finds in the
other's row depends on what others have done since it was started, so the
invariant says what can have been done.  A climber may have any number of handlers,
but a calm one, who is not muddled, has one about something weighty (a proposal, a
yes or a divorce) and no weighty request beside it (`TaskInv`); nobody stops being
muddled (`MuddleGrows`), and whom the muddled reach are muddled too, so what is
claimed of the calm rests on the calm alone.  A request that is pending was made
of the row as it still is (`PendInv`); every proposal and every yes has been asked
for (`AskedInv`); two of the calm do not say yes to each other, because one of them proposed, and nobody says yes to
a proposal of their own (`AcceptInv`).  `MarriageInv` then is what
`MutualWhenQuiet` needs when handlers are under way: who has said yes is married;
a marriage that is not mutual has a handler that will see to it, of the one who
is still to be answered or of the one who has left; and nobody who has been left
says yes to the one who left before hearing of it.  The last is what fails after
an interruption, and all of `MarriageInv` is claimed without one only.

`ClimbCampProofs` proves all three of `camp` for any finite set of climbers, any
number of requests, days and duels and any first purse, from `CampAssumption` and
the module's `NoneAssumption`.  `PendingInv` says that what a request has read
still holds of its row, or the save will find the turn advanced; `TaskInv` what a
handler under way carries, one of a climber at a time; `DayInv` that nothing is
from a day to come.  `CoinIsOnlyMoved` is a sum over the climbers and over the
handlers.  Three lemmas about sums carry it (a sum is a natural number, changes
by what one member changes by, and grows by what a new member brings), each
by a smallest set for which it fails, since the sum is a recursive function on
sets.  `EachDuelAnotherSleeper` needs two facts about time:
an attempt of the day is written down or its handler is about to
(`AttemptInv`), and a robbery that was decided on is of a sleeper not yet tried
that day (`RobInv`), because the handler that would have to write it down is the
climber's own, and a climber with a handler under way has no request.  Both are
claimed until a handler dies, as the property is.

**The chat.**  `ChatProofs` proves the four invariants of `chat` for any sockets, rooms and
bounds.  To three of them it adds where the loops of one socket can be
(`LoopInv`: a socket that is not open has no loops and is in the Lobby; a switch
goes to a room its user may read, which may be the one it is in; outside a switch
`_send` waits on the current queue or is writing) and that the current queue holds
posts of the socket's own room, and one left behind those of a room its user may
read (`QueueInv`).  `OneRoomOnScreen` follows where a switch ends, since
a history of one room replaces the screen, and where a payload is sent, since it
comes from the current queue.  `NothingMissed` is proved on top of these with
`FeedInv`: the rows and the screens are finite, and no sentinel is on the queue
a socket is to read.  Two steps carry it.  Where a broadcast is offered, the post
goes to the queue of everyone settled in the room, or to their `dropped`.  Where
a history is read, a row that is not in it has `HistoryLimit` newer ones that
are: the newest row left out of it was left out for as many newer rows of its
room, and all of those were kept.

**Boards and files.**  `CommonsProofs` proves all three of `commons` for any users, requests and
copies, from `CommonsAssumption`.  Its invariant adds to the types: ids belong
to one row each and do not exceed `last` (`IdsInv`); a deletion under way has
cleared the tables its plan has passed of everything it must, or somebody has
inserted meanwhile (`RaceInv`), from which `DeletionsFailOnlyInARace` follows;
the longest plan, that ends with the account, is only for an account (`PlanInv`);
and the paths a deletion has still to unlink are those of rows that are doomed
or gone, and no other deletion's (`FileInv`), from which `FilesAreThere` does.

**Accounts.**  `AccountsProofs` proves `AccountsAreSound` and `CodeTellsTheTruth` for any number
of clients, accounts and codes, from `AccountsAssumption`.  The rows, the one
superadmin and the truth of the codes are claimed of `db` and of `disk` alike, so
that neither a commit nor a crash needs an argument of its own.  Two facts
the routes rely on are made explicit.  The target of a promotion, demotion or
deletion that is still to be executed is no superadmin and, as ids are given
once, will not be one (`TargetInv`, with `LastInv`: an insert of an account or a code is
committed with it).  And a claimed code is held by one registration,
which has let nobody in yet (`HoldInv`).

`BudgetHolds` is proved there too, for any limits and any ceiling of the
limiter.  Its operators are recursive functions on the sequence of events, so
what `Without` keeps and what `Stalest` finds is shown by the first event after
which it would be wrong.  The argument then is a count: the failures this window
remembers of an address, and the requests that have passed `is_limited` and may
still fail, are together fewer than the budget and the number of clients
(`BudgetInv`), because between the check and the record of one request others
pass the same check.

**Nine Fjords.**  `FjordsProofs` proves all three properties of `fjords` for any set of jarls,
any casts, levies and loads, any number of surprises and any last day in Yule's
month, from `FjordsAssumption`.  The invariant is what `RealmsOK` says with what it
leaves out: a realm has all its fields and a known habit, has lived through no
day later than today's (`Sound`), and the prices are whole numbers between the
floor and the base price (`Fair`).  The last is needed because what a sale
brings is a product with the price, and the days because a dawn is reckoned from
`last` and a jarl may come after another has played.

There is a lemma for each rule, which says that what it makes of a realm is a
realm with the same days and sailings behind it.  A dawn goes debt, hunger,
the rest, and each of them is shown to leave nothing overdrawn; the dawns that
are caught up with are a recursive function on days, and `EveryDawn` follows by
the first day for which it would fail.  A meeting of two gets one lemma more
(`Settlement`, `Sailed`, `Watching`): it is `Dealt`, what the mover has more of
the other has less of, and the other keeps a steading of each kind, the floor of
folk and 27 strips of land, or what they had.  This rests on quotients, which
the provers do not reckon with unaided; the lemmas (`Losses` is the first) say of
them that a share of a number is no more than the number.  `StepsAreTurns` then says that every step of a day changes one realm
that has met nobody, or two that have `Dealt`, or none.  `Meets` tells the two
apart by the turns spent, and so which of the two was the mover.

Only model-checked: the two liveness properties of the chat, since liveness under
fairness is out of the provers' reach, and of course the violation of
`DeletionIsWhole`, which is a behaviour.  Every other property of a run is a
theorem.

## 5. Not modelled

* The web plumbing: CSRF, body limits, proxies, templates, validation.  It keeps
  no state the parts above depend on.
* The prose and the balance simulations of the Long Climb, the front end, and
  the scripts of the operator.
* The migration of the schema in `db.py`, which runs before anything else does.
* Of modelled parts: the posting, upload and frame limiters, which only refuse;
  `can_upload`; profiles; counts of downloads; the Herald, the wall and the
  rankings, which are appended to and read; an admin's reset as far as hearts
  are concerned (the spouse's row still names the climber who is gone; nothing
  in the repository says what should become of it).
* The federation protocol, which is a document without code.

The wedding of `ClimbCamp` and the robbery left out of `ClimbHearts` could be
one composition on the rows they share; each takes the other's part as one step
or leaves it out, since the properties of neither relate the two.  A crash
between `os.unlink` and the commit of `Commons` would leave a row without its
file; the code makes no provision for it, and `Commons` has no disk.
