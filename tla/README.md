# Verification of arc-battles-back

TLA+ models of the backend of a tournament site (`src/`, Go over PostgreSQL), model-checked with TLC and, for the
queue, the tokens, the matches, their rounds, their scores and the accounts with what belongs to them, proved with
TLAPS. The site runs matches between players and pairs: they apply or line up in a performance queue, an organizer
puts a match on air, a judge keeps its maps, rounds, tasks and score, and ratings, the belt, patches and champions
follow from its result.

## 1. The system

One Go process (`cmd/server`) serves HTTP; every handler runs in a goroutine of its own. All state that matters is in
PostgreSQL, read committed; a pool of ten connections is shared by all requests. In memory there are only the websocket
hub, the limiters and copies that expire. Almost no handler is one transaction: it is a row of statements, with the
rest of the server in between, and when its client goes away the context ends and what is left of it is not done. Two
checks of every minute (news of the belt, champions) repeat; nothing else repeats failed work.

| Component | State | Operations | Interacts with | Correct when |
| --- | --- | --- | --- | --- |
| Queue order (`store/queue_order.go`) | none, a computation over a list | place a new, skipped, called, privileged entry; move; who is next | queue session | every placement permutes the list; nobody is passed without a reason of the rules |
| Queue session (`store/queue_ops.go`, `queue.go`, `queue_stats.go`, migration 0047) | sessions, entries, members, queue matches | join, leave, confirm, call, start, finish, cancel, skip, return, move, remove, settle, promote, modes, finish session | site matches, tokens, accounts | order = who stands; one place per player; match, sides and statuses agree; a confirmation belongs to one call; a match on air is not taken down by a late request |
| Queue API, hub | limiter of self-service; clients with a buffer of 8 | JSON around the above, settling after a console request, frames to pages | pages | who misses a frame learns it from the revision |
| Site match and registrations (`store/matches.go`, `tournaments.go`, `participants.go`, `registrations.go`) | `tournaments`, `participants`, `registrations` | create, plan, start, PATCH, finish, cancel, delete; seats; apply, accept, decide | all below | one match on air; who is accepted plays; a finished match keeps its participants |
| Vetoes, rounds, tasks (`store/veto.go`, `bonus_tasks.go`, `round_penalties.go`) | moves, rounds, dealt tasks, protocols, raids | pick, ban, undo, start a round, deal, reroll, assign, mark | score | rounds one by one on the maps of their picks; a task once a match |
| Score and undo (`store/matchstate.go`, `round_entries.go`, `legendary.go`) | counters of sides and players, marks, `match_log`, totals | points, knocks, marks, contracts, undo, finish, rescore | rating | the log explains the score; the result follows from it |
| Rating (`store/mmr.go`) | history and cache, for players and pairs; seasons' rules | apply, correct, void, reopen, delete, reset, recount | site match, tokens, seasons | each match counts once; the cache is the history; the history is a replay |
| Tokens (`store/tokens.go`) | the ledger | grant, take back, day without queueing, doubled match, reset | queue, rating | no debt; uses apart; a token per side |
| Belt and its news (`store/belt.go`, `belt_news.go`) | none but a copy in memory; `belt_news` | compute, cache, tell | finished matches | it is the belt of the calendar; news once, in the end, and true |
| Patches (`store/patches.go`) | `player_patches`, honoured, the overlay's list | count for every season, replace, show | finished matches, belt | earned ones stay; the table is current; counts end |
| Seasons and champions (`store/seasons.go`, `tags.go`) | seasons, tags | start, move the end, give the tag | rating | who leads a finished season has its tag |
| Accounts (`store/users.go`, `claim.go`, `user_admin.go`, `api/auth_handlers.go`) | users, former nicks, links, sessions | register, enter a player from the form of a match, log in, role, rename, link, claim, reset, delete, organizer at start | everything | every name leads to one player; somebody can appoint |
| Teams (`store/teams.go`) | pairs and their names | make, change, drop, match of pairs | accounts, matches | matches keep who played and his name |
| Highlights and stat claims (`store/highlights.go`, `profile_extras.go`) | clips, claims, files on disk | download, upload, recode, moderate, submit, decide, delete | accounts | what is listed is on disk; no clip is processed for ever |
| Imports (`cmd/importhistory`, `cmd/importseason3`) | none of their own | write history, drop unused imported accounts | accounts, hence the queue | |
| Limiter, statistics, recap, win chance, overlays, news, site content, configuration | counters in memory; rows and reports | | | see 6 |

What is hard: statements of two requests in between each other; state read before it is used; the end of a client
between two statements; two systems of record for one match (queue and site); copies kept under a version; dates and
midnights; a lock held while another connection of the pool is needed. `PROJECT.json` lists each hazard at its line
with the properties that catch it.

## 2. Modules

| Module | What it models | Extended or used by |
| --- | --- | --- |
| `QueueOrder` | the functions of `queue_order.go` on sequences of entry ids | `QueueSession` |
| `QueueSession` | one session of the queue with what reaches it from outside | `MCQueueSession`, proofs |
| `SiteMatch` | matches, seats and applications, statement by statement | `MCSiteMatch`, proofs |
| `OnAir` | the abstract promise: planned, one on air, over or called off | `SiteMatch` implements it |
| `MatchRounds` | veto, rounds, tasks, protocols, raids of one match | `MCMatchRounds`, proofs |
| `MatchScore` | counters, marks, log, undo, totals, outcome of one round | `MCMatchScore`, proofs |
| `Rating` | history and cache of ratings over matches, resets, seasons | `MCRating`, proofs |
| `Tokens` | the ledger under row locks | `MCTokens`, proofs |
| `Belt` | `computeBelt` over the matches 1x1, and these matches | `BeltNews`, `Patches`, `Champions` |
| `BeltNews`, `Patches`, `Champions` | who reads the matches: the copy and the news, the count of patches, the tags | composed in `League` |
| `Accounts` | accounts, sessions, links | `Teams` |
| `Teams` | pairs, their matches, renaming | `Media` |
| `Media` | clips, claims and files | composed in `People` |
| `QueueSessionProofs` | theorems about the order, the rows and the steps of a queue | extends `QueueSession` |
| `TokensProofs`, `SiteMatchProofs`, `MatchRoundsProofs`, `MatchScoreProofs`, `RatingProofs`, `PeopleProofs` | theorems about the tokens, the site's matches, their rounds, scores and ratings, the players | |
| `MC*` | model values, loads, symmetry and views for TLC | the `.cfg` files |

Interaction is modelled where it changes what is true: `QueueSession` has the console, tokens, days and imports;
`League` has the belt, its news, patches and champions over the same matches; `People` has accounts, teams, matches
and media over the same deletions and new nicks. The modules of one match (`SiteMatch`, `MatchRounds`, `MatchScore`,
`Rating`) each keep what the others need of it in an abstract form: a match that is finished while a round begins, an
outcome the rating was computed from.

### The queue: one operation, one action

`queueTx` (queue_ops.go:47) locks the session row, sweeps ghosts, runs the operation, moves `rev` and commits. Two
operations of one session never interleave, so one operation is one action. What it changes is a record `q`, each
helper of `qtx` an operator from one record to the next; the operation composes them in the order of the code. A
refused call changes nothing and is no step. Outside the lock, each an action of its own: the console finishes,
deletes or reopens the site match; a request settles or is lost; a token is spent, promoted, lost, taken back; the day
turns; an import drops an account.

| Model | Code |
| --- | --- |
| `session` | `queue_sessions`: status, format, registration_open, paused, rev |
| `q.status`, `q.performed`, `q.members`, `q.ready`, `q.order` | entries, their members and who of them is ready; `writeOrder` writes positions as a whole |
| `q.match`, `q.matchId`, `q.side`, `q.site` | the open queue match, its entries, and the linked site match: none, open, finished |
| `q.finished` | the entries of finished queue matches, for `performed_count` at a new join |
| `played`, `prioAt`, `siteToday` | who has played this Moscow day, ranks of token times, whether the linked match is of this day |
| `settling`, `promoting` | requests between reading the live match and settling; `PromotePriority` between its transactions |

### Everything else: one statement, one step

A request `p` is a program counter or the list of its statements (`req[p]`), a statement or a transaction that locks
what it reads is one action, and several requests are served at once. `ClientGone` ends a request between two
statements where the code hands the request's context to the store. A transaction that reads first and writes later
under read committed is two steps; row locks and the advisory locks (registration, patches, tags) are state.

**Loads.** A variable `load`, chosen by `Init` from the constant `Loads` and never changed, says what kinds of
requests come, how many at a time and in all, whether clients leave, and which matches, players or tasks there are.
One run checks several such loads, each made for one question, and a property can say for which of them it is meant:
`load.at = 1` is a console of one judge. That is where most of the code's guarantees end (section 4), so a property
that says "one request at a time" states the guarantee the code gives, and what two requests break is listed in 4.
What the code does guarantee under any interleaving (`KnocksKeepTheirPoints`, `TimedIsPersonal`, `PicksAreMaps`,
`TimesApart`, `NeverInDebt`, `NamesApart`, `FilesAreThere`, the belt and its news, the patches) is checked so.

**Dates.** A use of a token is dated `DEFAULT now()`, the beginning of its transaction (0045_tokens.sql:15), and the
transaction may wait for the row of its player before it looks and writes. `Tokens` keeps both moments (`begun`, `now`);
so two dates are a day apart only less that wait, which is what `PriorityDayApart` says. The clocks of the
program (`time.Since`) and of the database are taken to be the same. A show keeps the time it is planned for,
whenever it is played, and the recount of the rating orders by it; other matches stand where they began.

### Abstractions

Names, titles, texts, pictures and JSON are left out or values of a small set. Points, tasks and maps are what the
properties tell apart. The rating is a table of gains of three steps (what matters is what it depends on). Reads by
one request of actor and target are one read. A count of patches and a belt are computed in one step from one state,
under the version read before. Row ids are fresh.

## 3. Runs

Nine runs pass, three find the violation of what a comment says. Each property has a mutant of the code in
`PROJECT.json` (a dropped guard, a missing reset, a swapped order, written as an operator next to the original) under
which TLC finds it violated. Properties that are read together are one conjunction; its parts are named in the module.

| Run | Instance | Properties |
| --- | --- | --- |
| `queue_1x1` | 3 players, 3 entries, cap 3, one token, two players with other matches. Three entries are what a placement needs: one moved, one it passes, one between or behind | `OrderIsQueue`: the order lists who stands, once each, within the cap. `OvertakingHasReason`: nobody gets past another without a reason of the rules |
| `queue_settle` | 3 players, two teams that share one, both formats, 3 entries, cap 2, 2 match ids, 2 console requests, pause, an account that may vanish: players perform, leave, join and perform again while requests of the first match are still under way | `MatchAgrees`: match, sides and statuses tell the same. `PerformedCounts`: performances counted over re-joins. `OnePlacePerPlayer`; `ConfirmedForThisCall`: ready means all players, for this call. `ClosedStaysClosed`, `LiveMatchIsSafe`: late settlings revive nobody and take no later match down |
| `called_first`, `token_order` | as `queue_1x1`, the second with two tokens | violated: `CalledStandFirst`, `OlderTokenFirst` (4) |
| `former_nick` | as `people`: one new nick, one player entered from the form of a match | violated: `FormerNicksStay` (4) |
| `site` | 3 matches, 3 players; five requests one by one over the life of matches; four over seats and applications; four with clients that leave; three, two at a time, while everybody has applied | `AirPromise`: implements `OnAir`. `SeatsAgree`: who is accepted plays the match that took him. `FinishedClosed`: participants of a finished match stay. `LeavesPool` (liveness): who is placed leaves the pool |
| `rounds` | a match of three rounds, 5 maps, 8 tasks: the whole veto by one judge, two judges in the veto with a client that leaves, rounds dealt from enough tasks, from too few with rerolls and without, with a client that leaves, the hand of the judge with protocols | `RouteIsPlayed`: moves in order, rounds on the maps of their picks, one by one. `TasksOnce`, `FullDeal`: three tasks a side, none twice in a match, unless they run out. `SidesShare`: protocols and raids. `NothingUndone`: maps once play began, done tasks, a finished match |
| `score` | a team of two against one player, an ordinary task and one on time, a contract; four requests of one judge, with and without the old console's routes; three of two judges over counters, over marks | `LogExplainsScore`: every edit once, every undo its inverse. `ResultFollows`: totals, winner and rated outcome are those of the tables. `RowsFit`: a side is the sum of its players; nobody has less than his knocks are worth. `OwnerKeepsTask` |
| `rating` | 3 players, a guest and 2 pairs, 2 to 3 matches, 2 seasons, shows with planned times, tokens x2 of players and pairs, imported matches; three to six requests in a row; a recount from every state in which earlier requests may have left history and cache; clients that leave | `ResultsCount`: a match counts once, for what it ended with: with the token of each side, and as it was imported. `RatingsAgree`: the cache is what the history adds up to. `HistoryIsReplay`: the history is what counting everything in the order of time gives, unless something was counted out of its turn since the last full recount (4) |
| `tokens` | two requests at a time: over one player and two days, over resets around a match and two seasons, over a match of teams; one at a time over that match while it starts, ends, is cancelled and made again | `TimesApart`: of two days without queueing the later one is written a day or more after the date of the other; one reset a season. `NeverInDebt`. `SpentIsPlaced`: a cancelled match gives its tokens back. `OneTokenASide` |
| `league` | 4 players, one a guest, up to 4 matches, 4 days, 2 seasons; two news checks and a page; two counts of patches; one check of champions; crashes, voided and deleted matches, resets and corrections of the rating with the recount after them, clients that leave | `BeltSound`: the belt read off the matches is that of a calendar kept day by day, its reigns link, the copy is never stale, news come once. `PatchesAgree`: the table is what a count gives now, belt patches are reigns, a patch is shown once. `ToldStaysTrue`: further matches make no news false and take no patch away. Liveness: `NewsInTheEnd`, `SyncEnds`, `ChampionInTheEnd` |
| `people` | 3 or 4 accounts, 5 names, 2 teams, 2 clips, 3 screenshots; 20 loads of one and two requests at a time, restarts, clients that leave; players entered from the form of a match, sides of matches written by hand | `AccountsSound`: names apart, but for nicks the form of a match gave; an organizer left, links that serve, sessions that end. `NamesLead`: whatever a player has entered the site by goes on leading to him, unless that form gave it away. `HistoryKept`: players of matches stay, teams of those that nobody wrote into by hand, and they are called right. `MediaSound`: what is listed is on disk, one claim to check. Liveness: `ClipsEnd` |

**Bounds.** Two requests at a time show every pair of statements in between each other; hazards listed need no third.
The number of requests in all lets each kind follow each other kind, with the undo or the second start that the
question is about; where a load asks more (six requests over ratings, five over matches on air) the case needs it: a
match ends, a season begins, the match is corrected, everything is counted anew. Two matches are needed for "one on
air", two results for a rating that depends on an earlier one, three days for a belt that falls and is picked up, a
fourth where it rusts for two. What a load leaves out, another has.

**State reductions.** Symmetry only over values that no load and no constant tells apart. The view `Essence` of the
queue forgets the revision, on which only the refusal of a stale move depends, and what nothing reads again of a
closed entry; `Seen` of the score forgets sums that are only read to decide an outcome no property looks at when two
judges are at work.

**Deadlock** is not checked: when the requests of a load are used up the system stops.

**Fairness.** Weak fairness of the steps of a request that has begun (`SiteMatch`), of readers, counts and checks
(`League`: goroutines and tickers of `cmd/server/main.go`) and of the work on a clip (`People`). The code justifies it:
a goroutine that can run runs, and a lock that is given back is given to somebody. No fairness is assumed of players,
judges or restarts. `NewsInTheEnd` assumes that the server is not restarted for ever and `ChampionInTheEnd` that checks
do not fail for ever; `SyncEnds` that the pool has a connection more than counts at a time, without which they wait
for each other for ever (4).

**Refinement.** `SiteMatch` implements `OnAir` (`AirPromise`): the matches planned, on air and over are the abstract
state, and each statement is a step of the promise or none; while requests come one by one and a planned match begins
by its start. `OnAir` is told by no request, guard or table, so the run shows that demoting the live match, refusing a
second one and PATCH together keep the promise.

## 4. Where code and words differ

Three comments are refuted by runs (`findings`):

1. *A called entry is not always at the head.* `qFreshEnd` (queue_order.go:72) looks for the last entry that has not
   played today in the whole list. Call an entry whose player has played; a newcomer who has not is inserted before
   it. `queue_order.go:29` and `QUEUE.md:18` say the called stand at the head, and `qInflight` then finds none.
2. *A younger token may pass an older one.* `qPrioIndex` stops at the first entry without a token. An older holder who
   stands behind such an entry (a lost promotion, a cancelled call, a move by hand) is passed, against
   queue_order.go:104 and 114.
3. *A newcomer may take a former nick.* `CreatePlaceholderUser` (matches.go:747), behind the form of a match, looks only
   at logins, and takes no lock of names. The player it makes gets a nick that another had before, and since a login
   goes before a former nick, that nick leads to the newcomer from then on, against user_admin.go:18. In the same
   way two players may get one name on the site.

Three more are plain from the text: performers leave the queue (`finishMatch` closes their entries) though
queue_ops.go:1116 and QUEUE.md:12 and 24 say they go to the end; the token moves its owner though QUEUE.md:40 says it
does not change the order; one protocol for a side in a whole match, and none that the opponent has, is what the head
of round_penalties.go says (line 11), while `SetParticipantProtocol` clears and compares within the round only
(line 40), so that `OneProtocol` is about one round: in the next one a side may get another protocol, or the
opponent's.

What a property excludes because the code does not give it, so that a reader knows where each guarantee ends:

- *Site match.* Two creations at once both find nothing on air; the first round of a planned match puts it on air
  beside another one; an application is accepted for a match between the two statements that delete it; a client that
  leaves after the match is committed leaves its players in the pool; a participant replaced by an update keeps his
  accepted application; a decision by hand keeps the match of an application. The table of participants has no
  limit; the model tries as many in a match as `Seat` has members.
- *Rounds.* Two starts at once deal twice, a round is set live again after the match was finished, a map changes
  under a round that has begun. Two presses of the side of the raid begin one raid twice; two assignments of
  protocols give one side two, or both sides the same.
- *Score.* Two edits of one counter lose one of them; two undos take the same entry and undo it twice; two first edits
  of a player find no row to lock; an edit in flight while the match ends leaves a winner that is not ahead. The
  routes of the old console write no log.
- *Rating.* Requests beside each other lose rows or count a match twice (`RecomputeAllMmr` truncates and fills in
  statements of their own), hence one request at a time; a client that leaves leaves half a recount, which the next
  full one repairs. A match is counted when it ends, but the recount orders shows by the time they were planned for: a
  show played before or after that time is counted from other ratings than the recount counts it from (`inTurn`), and
  the same goes for PATCH and DELETE of an earlier match, which do not recount later ones; DELETE leaves the cache. The
  winner set by PATCH leaves the imported changes of a match in force, so that they no longer go with who has won; only
  `RescoreFinishedMatch` gives them up (matches.go:572). With a token x2, or imported, what one side wins is not
  what the other loses.
- *Tokens.* Two teammates put a doubling token each on one match: each transaction locks its own player's row. The
  rule of a reset is read before the lock. A day without queueing is dated before the wait for the lock, so the dates
  of two may be less than a day apart.
- *Patches.* The patch of the executor is given at the next knock. A request lists the seasons before it waits for the
  lock, so a count may miss one that has begun meanwhile. The count holds a connection while it waits for the
  lock, and the one with the lock needs more (patches.go:805): with as many counts as connections everybody waits.
  `flashPatches` (patches_handlers.go:87) reads and writes the overlay's list without a lock.
- *Belt news.* The news of a fall are decided by a belt read before; a match that keeps the belt may begin or end
  between. `NewsStand` is about further matches; a match that is voided or deleted may belie what was told.
  `SetMatchVoided` and the recount after it are two steps, and so the belt may be read in between; a reset counts no
  patches anew.
- *Accounts.* Two requests at once may take the roles of the last two organizers; a claim link used twice at once, or
  beside a reset, serves both; a password or a link read before a reset may give a session after it; a logout keeps
  the tokens of the same second, though `handleLogout` says all earlier ones end. Accounts from before the names were
  unique, with one name in common or a nick that is another's login, may lose a name by new nicks. An organizer who was
  demoted and renamed gets a second account with the login of the settings at the next start.
- *Names.* What the form of a match gave a player (`stub`) may be another's name or former nick: `NamesApart` and
  `NamesLead` are about all others.
- *Teams.* The routes of participants write sides into a match and rewrite those it has, with any name and players,
  and ask no team (tournaments_handlers.go:179-274). Such a match (`hand`) keeps its players, but they need be no team,
  as teams.go:146 says, nor be called as their accounts: `TeamsStay` and `NamesAgree` leave it out.
  A pair may be dropped or changed between `CreateMatch` reading it and inserting the match, and a nick
  likewise (members of pairs have no foreign key); `RenameUser` does not write titles anew; a match reopened keeps the
  old name of its team.
- *Media.* A clip approved while it is processed goes back to pending; a download or a recoding that is under way
  while the clip is deleted leaves its file; two submissions at once leave two pending claims; a client that leaves
  after the commit of a claim has its screenshot removed by the error path (profile_extras_handlers.go:61-66); a
  client that leaves during an upload, or a restart, leaves the clip processing for ever.

## 5. Proofs

TLAPS checks the following for every value of the constants that satisfies the named assumptions of the modules:
`ConstantsAssumption` and `TeamsAreApart` (no team is part of another) of the queue, `TokensAssumption`,
`RatingAssumption` (players are not pairs, the matches of a load are finitely many), `SiteAssumption`,
`RoundsAssumption` and `ScoreAssumption` (a load is a record of its kind and bounds; requests, accounts, tasks and
contracts are finitely many; the two sides of a draw are two), `AccountsAssumption`, `LoadsAssumption`,
`TeamsAssumption` and `MediaAssumption` (accounts and requests are finitely many, files of clips and of claims are
apart; the site starts with an organizer, with accounts that have no name in common, and with each pair once - what
the program keeps from then on; section 4 says what older tables may hold). TLC evaluates each on its runs.

- `QueueSessionProofs`, on `queue_order.go`. `Lists(items, S)`: `items` is a sequence of the elements of `S`, each
  once. Every placement of the code takes a list of `S` to a list of the right set (`MovesKeep`). The argument that is
  not local is `AllButKeeps`: the ranks of the kept places are an injection into 1..n with n their number, hence onto,
  by the theorems on finite sets and without induction.
- `QueueSessionProofs`, on the rows. `IInv` is the conjunction of the invariants (`TypeOK`, `OrderIsQueue`,
  `OnePlacePerPlayer`, `MatchAgrees`, `ConfirmedForThisCall`) with two facts no property says: `q.finished` is finite,
  and an id that is not used has no confirmations (`Blank`; `JoinQueue` clears none). The parts need each other: a
  call is safe for the order because a callable entry is standing; closing an entry keeps the match in agreement
  because an entry that is not performing is on no side of a live match. One lemma per helper of `qtx`, one step per
  action, then `Spec => []IInv` and the theorems.
- `QueueSessionProofs`, on the steps. `ClosedTheorem` and `LiveTheorem`: what no step may do, from `IInv` and one fact
  more, `Over`: a finished session has no open match. Without it a session that is created anew would end a match on
  air. `CountTheorem`: the number of performances is an invariant only with two facts more: the entries of finished
  matches are closed (`Past`; one that joins under a fresh id adds to no old match), and a standing entry is of a
  party or of a part of one (`Whole`, from `TeamsAreApart`). Counting rests on `OnePlacePerPlayer`: whoever stands
  beside a match that ends has no player in it.
- `TokensProofs`. `NobodyInDebt`: the balance is inductive only with what a transaction knows: between its look and
  its write it holds the row of its player, and what it read still holds, because others may only return uses, and
  corrections take the same lock. `UsesStayApart`: the same argument for times (`Timed`): what is written while the
  row is held was written a day after the date of each use that was seen, though its own date is that of the beginning
  of the transaction; no use is dated after it was written, and time does not run back. `TokensArePlaced` and
  `SideHasOneToken`: a use of a match stands for a player of a match that is to come, and a second one of his side is
  refused, because while one request is served the match and the side it read stay free (`FreeSide`). Two teammates
  lock different rows, so that needs `load.at = 1`.
- `SiteMatchProofs`. `SeatsTheorem`, `FinishedTheorem`, and the refinement `AirTheorem`: `SiteMatch` implements
  `OnAir`, step by step, for any number of matches. The invariant lists what may be left of a request, statement by
  statement (`Left`), and, while requests come one by one, what it then knows of the tables (`Knows`): that nothing is
  on air when the statement that puts a match on air comes, that whoever is accepted has a seat.
- `MatchRoundsProofs`. `Inv` says of any number of requests how far each is in its course (`Course`, `Shape`), and of
  one judge's console that what it saw is still so (`Saw`). On it stand five layers: the route (`RouteTheorem`: the
  moves are 1..n, the rounds begun are 1..k, each on the map of its pick), what is not undone (`KeptTheorem`, an
  action property), tasks (`OnceTheorem`: the draw leaves out what the match has seen), protocols and raids
  (`SharesTheorem`; `Raids` also says what the request that begins a raid has read), and the deal (`DealTheorem`: a
  side that has fewer than three tasks in a round that is on is still being dealt to, or the tasks have run out; it
  follows a deal slot by slot). That the lowest free number exists is `LeastNat`, from well-foundedness of the natural
  numbers.
- `MatchScoreProofs`. The invariant `Sound` has layers: what the tables, the log and the requests hold (`Typed`), and
  whose a task may be, in the tables, in the log and with a request (`MarksRight`, for any requests at once); then, for
  the console of one judge, what a request read that is still so (`Known`), what the log tells of the marks while the
  last mark is not logged or not erased yet (`Told`), and which totals and which outcome are still to be written
  (`Settled`: a sum is followed source by source, `SumSoFar`). One lemma per statement says what it leaves of each
  layer; at rest nothing is owed, which is `ResultTheorem`. `OwnerTheorem` needs that the mark a request found is still
  there when it writes.
- `MatchScoreProofs`, on the rows. `RowsTheorem`, for any requests at once: what a correction read of a player is his
  row, which it locks, or nothing when he had none (`Locks`), and what it read has the points of its knocks
  (`SeenFair`). So player and side keep theirs, and the side gains what the player gained, or more, when a row that
  appeared in between is overwritten (`Within`); on the console of one judge nothing appears in between, and it gains
  just that (`Exactly`). Totals stay natural numbers (`Natural`) because each of their sources is.
- `MatchScoreProofs`, on the log. `LogTheorem`, for the console of one judge: `LogExplainsScore` speaks of moments of
  rest; its invariant (`Explained`, which TLC checked first) of every statement in between, by counting a row that is
  still to be written as written and one that is still to be erased as gone (`Books`). Then each counter of a side and
  of a player is the sum of what the rows applied (`Balanced`), and no player's counter was below zero after any of
  them (`NeverBelow`): that is why an undo meets no lower bound and takes back all that was given (`UndoneInFull`).
  Contracts need that no two rows name the same one (`Contracts`), marks that the first of a task found it nobody's
  (`FirstMarks`) and what `Told` knows of the last.
- `RatingProofs`. A request is a list of statements, so what it will still do is in its state. `TypeTheorem`, for any
  requests at once: the shapes such a list can have (`Listed`: a match is loaded, its rows are listed and wiped, then
  it is awarded, by eight statements that come together; a recount is these for every match in the order of time, then
  three for the cache), each kept by taking the head or by putting other statements in its place. `AgreeTheorem` and
  `CountTheorem`: while no two requests overlap (`OneServed`, an assumption on behaviours: the code has nothing that
  keeps them apart, and section 4 says what they lose when they meet). The invariant (`Sound`, which TLC checked
  first, on the run's loads) is about the one that is served (`Course`): which matches have no rows yet or wrong ones
  (`Due`, `Tally`), which sides have an entry of the cache that is still to be written (`Excused`, `Renews`), that the
  outcome it has read is the match's (`Statuses`), and what the next statement needs, such as that whoever had a row
  that is wiped is on the list to be summed anew (`Heads`). A client may leave at any statement; then `Quiet` waits
  for a full recount, and that one starts from nothing (`Fresh`, `Honest`). `Counts` says of each row what it gives:
  the gain, twice for a side with a token, or what was imported, and no row where a guest plays; a match that is
  planned has none, and its tokens change only before it ends. That a recount meets all the matches there are is that
  the order of time names every event (`TimeOrders`, `OrderNamesAll`), from bijections of finite sets; that flattening
  a list of lists keeps their slices (`Flattened`) is by the least index at which it would not. The sum of a season
  and its start stay uninterpreted but for `TotalInt` and that equal rows have equal sums.
- `SumTheorems`. Sums are folds of the community modules, defined by recursion on a set. Induction over a finite set is
  here the least member of a set of its subsets (`Least`, from the well-foundedness of inclusion); from it, for the sum
  of any function over any finite set: what it is without one member (`SumTakes`), where it differs at one place, and
  that it grows with the function.
- `PeopleProofs`. The invariant has layers, each resting on those before it. For any requests at once: what the tables
  and the requests hold (`Tables`); that whoever waits with a name for the lock of names has made sure that it is
  free, and waits alone, while the form of a match asks nobody (`Apart`, hence `NamesTheorem`, for all nicks that form
  did not give); that a deletion that has looked for matches finds no new ones, however they come to have the player
  (`Kept`); that each screenshot belongs to one claim or to one request (`Filed`). For one request at a time: what it
  saw of roles, links and passwords is so when it writes (`Managed`, hence `AccountsTheorem`), what it saw of teams
  and names (`Called`, hence `HistoryTheorem`), and what a claim's transaction found (`Claimed`, hence
  `MediaTheorem`). None of these follows from the properties: a rename keeps names apart only because of what a
  registration beside it has looked up and still holds.

Three statements had to be corrected on the way, each after a state TLC reached once a load let it come: `PicksAreMaps`
is about matches of more than one round (the map of a single round is random and no move picks it); `RaidsAlternate` is
not true when a client leaves between the aim of a raid and its record; `FullDeal` leaves out the requests that set
tasks by hand (`ByHand`).

Only model-checked: `OvertakingHasReason` (it would need the positions of every placement, not only that it is one);
`HistoryIsReplay`, which compares the history with a fold over a sequence, so that its proof is an induction over
data; and the properties of `League`, which compare folds over the matches. Out of the prover's reach: liveness and
fairness (`LeavesPool`, `NewsInTheEnd`, `SyncEnds`, `ChampionInTheEnd`, `ClipsEnd`).

## 6. Not modelled

- *Rating arithmetic and win chance*: floating point. *Statistics, recap, listings*: SQL reports over finished matches
  that write nothing the rest reads. *Overlays, news, site content, configuration*: rows each request writes in one
  statement. *Hub*: a frame is dropped when a buffer is full; what pages do then is not in this repository.
- *Limiter*: check and increment take the lock apart, so n attempts at once pass n - 1 beyond the limit; nothing else
  depends on it. The limits on attempts, and reads of the profile, are left out of the accounts.
- *Pool of connections*: where `StartQueueMatch` needs a second one while it holds the session row; the same shape is
  modelled for the counts of patches. A crash between its two transactions leaves a site match of which the queue
  does not know.
- *In the rating*: several matches of one pair and several games in a match, `multiplier` and K, which multiply a
  gain; the corrections of `mmr_corrections`, which are rows of their own like resets (they are in `Belt`); PATCH of
  `startsAt`, of the multiplier and of the status live; two shows planned for the same moment, which count in the
  order they were created; one pair on both sides. *In the belt*: the planned times of shows, which have no part in it
  but for the order of ratings. *In the teams*: the captain of a side of two, the removal of a side, matches created
  without sides. *Deletion of a season*: its matches lose it. *Embark ID*, `updateMe`: nothing depends on them.
  *Contracts completed outside a match*, and the list of contracts.
- *Torn reads*: a count of patches or a belt reads several tables in several statements; they are one step here.
- *Imports* beyond the deletion of unused accounts: they convert files once, in a process of their own.
