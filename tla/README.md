# A TLA+ development of the ISURIDE service

The service (`src/webapp/go`) dispatches chairs to users: users request rides, a matching loop gives
waiting rides to free chairs, chairs drive, users pay and evaluate. One Go process keeps all state in
memory under one mutex (`st.mu`, `state.go`), answers from memory, and writes to MySQL, partly in
transactions and partly behind the answers. Clients learn of changes from SSE streams. The front end
(`src/webapp/public`, built and minified) has a page that plays a chair and a page for a user.

This directory models the parts of it in which steps of several actors interleave or fail, checks them
with TLC on small instances, and proves the central invariants with TLAPS for all instances.

## 1. Inventory

| Component | State | Operations | Hard because |
|---|---|---|---|
| Dispatcher (`state.go`, app and chair handlers) | `rides`, `userLatestRide`, `chairLatestRide`, `waitingRides`, `freeChairs`, `chairStats` | `appPostRides`, `chairPostRideStatus`, `chairPostCoordinate`, `chairPostActivity`, `appPostRideEvaluatation` | handlers unlock between reading and writing; two lists are maintained step by step by different handlers |
| Matching (`internal_handlers.go`) | none of its own | `internalGetMatching`, called serially by a shell loop (`etc/isu3/systemd/isuride-matcher.service`) | it plans on an unlocked copy; memory is changed before the database, whose UPDATE may fail |
| Hungarian method, candidates, greedy (`internal_handlers.go`) | local | `hungarian`, `minCostAssign` | potentials, ties, negative costs, more rides than chairs |
| Notification streams (`appGetNotification`, `chairGetNotification`) | `AppSent`, `ChairSent`, `userWake`, `chairWake` | subscribe, send, wait, end | lost wake-ups, replaced and dead connections, flags set before sending, flags lost by a restart |
| Ride writer (`writer.go`) | `rideWriter.q`, `.gen` | enqueue, take, write, discard | rows are queued outside `st.mu`; batches fail; initialization throws them away; crashes |
| Chair writer, distance flusher (`writer.go`, `state.go`) | `chairWriter`, `dirtyChairs` | the same for registrations, activity and distances | the same; the dirty set is emptied before writing |
| Initialize and start (`main.go`, `loadState`) | everything | rebuild database and memory | it runs beside handlers and writers that began earlier |
| Payment (`payment_gateway.go`) | `paymentTokens`, `Completing` | evaluation, retry loop | requests are repeated without knowing what the last one did |
| Registration, invitations, coupons (`app_handlers.go`) | `inviteUsed`, tables, fares | `appPostUsers`, `appPostRides` | a reservation outside the transaction, row and gap locks, failed and ambiguous commits |
| Simulator page and client page (`webapp/public/assets`) | React state, timers, an `EventSource` | drive a chair, request and evaluate rides | timers repeat calls; a probe takes over the page's own stream; calls are not awaited |
| Nearby chairs, owner endpoints, authentication | read-only views, caches | look-ups | a grace period; sums that must agree after a restart |

How they interact: handlers, matcher and streams share memory through `st.mu`; handlers hand rows to
the writers through queues with their own mutexes; writers, flusher and initialization exclude each
other by `flushMu`; handlers wake streams through channels of capacity one; evaluations call the payment
service without holding any lock; the pages call the handlers and follow the streams.

What makes each part correct:

* *Dispatcher*: rides take their six statuses in order, if chairs do not overlap or repeat their calls; a chair has one ride until it was told the end
  of it; the two lists are what they stand for; plans fit when carried out; statistics agree with rides.
* *Streams*: every status is sent, in order, and only by the newest connection; nobody sleeps on news.
* *Stores*: what memory says is stored, once and in order, or visibly refused; nothing that was queued
  before an initialization is written after it; a restart restores what memory said.
* *Payment*: a ride is paid once, before it completes, and nothing afterwards; it completes in the end.
* *Matching*: the plans are a cheapest (or greedy) assignment and leave no ride beside a free chair.
* *Campaign*: a code is used three times, a coupon once, and a fare is the same after a restart.
* *Pages*: the chair drives its ride to the end although a call is lost, and the pages show the truth.

## 2. Modules

| Module | Models | Code it stands for |
|---|---|---|
| `RideStatus` | the statuses of a ride, in the order of the manual | the ENUM of `1-schema.sql` |
| `RideContract` | abstract: phases of rides, drivers, released rides | the manual, `app_manual.md:49-73` |
| `Dispatch` | the dispatcher between two initializations | `state.go`, app, chair and internal handlers |
| `FlushLock` | `flushMu` | `state.go`, `writer.go` |
| `RideWriter` | write-behind of statuses, with the handlers that feed it | `writer.go`, `loadState` |
| `ChairWriter` | write-behind of registrations and activity, flusher of distances | `writer.go`, `state.go`, chair handlers |
| `Stores` | both of them with `flushMu`, initialization and restart | `postInitialize`, `init.sh`, `loadState` |
| `Stream` | connections and wake channel of one user or chair | both notification handlers |
| `Payment` | overlapping evaluations, retry loop, external service | `payment_gateway.go`, `appPostRideEvaluatation` |
| `Campaign` | registrations with one code, rides with coupons, their transactions | `appPostUsers`, `appPostRides`, `loadState` |
| `Hungarian` | the method, one pass of a loop per action | `hungarian` |
| `Matching` | candidates, choice of method, greedy assignment, with the steps of `Hungarian` | `internalGetMatching`, `minCostAssign` |
| `Simulator` | the two pages against the server | `route-Bu9MIazC.js`, `route-CNt_mqIX.js`, the contexts, `isuride.conf` |
| `DispatchProofs` (with the refinement of `RideContract`), `WriterProofs`, `StoresProofs`, `StreamProofs`, `PaymentProofs`, `CampaignProofs`, `MatchingProofs` (with those of `Hungarian`), `SimulatorProofs` | theorems | |
| `MC...` | symmetry sets, starts, cost functions and places for TLC | |

`Stores` extends `RideWriter` and `ChairWriter`, which share `FlushLock`; `Matching` extends `Hungarian`;
`Dispatch` instantiates `RideContract`. Definitions carry the names of the source where they can. Above
several definitions stands a *mutant*: the definition with a plausible bug. `PROJECT.json` pairs each
property of a run with a mutant that breaks it, which shows that the property says something of the code.

### Dispatch

Each section between `st.mu.Lock()` and `st.mu.Unlock()` is one action; the local variables that a
handler carries from one section to the next are state:

| Code | Actions | Carried over |
|---|---|---|
| `appPostRides` | `PostRideCheck`, then `AddRide` or `PostRideAbort` | `posting` |
| `internalGetMatching` | `MatcherSnapshot`, `MatcherAssign`, `MatcherUpdate`, `MatcherFinish` | `mpc`, `plan` |
| `chairPostRideStatus`, `chairPostCoordinate` | `PostRideStatus` or `PostCoordinate`, then `AddStatus` | `req` |
| `appPostRideEvaluatation` | `BeginEvaluation`, then `Complete` or `AbortEvaluation` | `evals` |
| `setChairActive` | `SetActive` | |
| `next...NotificationLocked` | `AppNotify`, `ChairNotify` | (module `Stream`) |

`Statuses` is the sequence `log[r]`; the sent flags, which are set from the front, are counters. The
database appears only as the outcome of the matcher's UPDATE. The constant `Retries` says how clients
behave: if it is FALSE a chair waits for an answer before its next call (`MayCall`), posts statuses of
rides that it was told of and accepts each once (`MayPost`), and a user has one ride request under way;
if TRUE none of this is asked of them, and the guards are those of the handlers. Evaluations may overlap
in either case. `Retries = FALSE` is a real assumption: the status and coordinate handlers unlock between
reading the last status and appending the next, and what keeps the order then is that nobody else may
append to that ride meanwhile. All runs have it; what happens without it is in section 4, and
`TypeCorrect` is proved for both.

`KeepsContract` states that `Dispatch` implements `RideContract`, with the last recorded status as
phase, `ChairID` as driver, and as released the completed rides whose chair was told so.

### RideWriter, ChairWriter, Stores

Rides here have a chair; matching is left out. `RecordStatus` (`addStatus`) and `EnqueueStatus` are two
actions, as no lock spans them, and so are `EnqueueCompleted` and `RecordCompleted`, which come in the
opposite order (queue first, then state), as in the code; likewise `RegisterChair` and `AddChair` (queue
first) and `SwitchChair` and `EnqueueActivity` (state first). The goroutines are `TakeBatch`,
`LockFlush` (with the generation check), `WriteChunk` or `WriteFails`, `UnlockFlush`;
`TakeChairBatch`, `LockChairs`, `InsertChairs`, `UpdateOn`, `UpdateOff` or `ChairWriteFails`; and
`TakeDistances`, `WriteDistances` or `FlushFails`.

`Stores` puts the parts of an initialization together: `InitLock` takes `flushMu`, `Discard` empties
both queues, `Rebuild` is `init.sh`, `Load` is `loadState`; `InitFails` is any of the error paths after
the discard, among them an `init.sh` that has dropped some of the tables and not the others, and leaves
the old memory beside whatever is in the database. `CrashAndRestart` forgets everything but the
database. History variables serve the properties only: `lost` and `chairLost` (refused or thrown away),
`gone` (rides of a run before an initialization), `late` (statuses of these that a handler has queued
after the discard), `strays` (what was stored of them) and `wiped` (chairs of the run before). A chair or user sends its next call after the answer to the previous one; a movement
adds one to the distance. No ride is requested, and the process does not crash, during an initialization.

### Stream

One client with several connections. `steps` is the list of statuses of the latest ride and `sent` how
many of them are marked; other handlers append to the list (`NewRide`, `Assign`, `FinishAssign`, `AddStatus`); a connection goes through
`loop`, `sending`, `waiting`, `done`. `token` holds the connections whose channel has its one token.
`Break` loses a connection at any time; the handler may notice late or never. `Restart` ends all
connections and forgets the sent flags. It finds any list of statuses that begins with MATCHING and has
the others in order (`Lists`): what was still queued is missing at the end, and what was in a refused
batch, or was overtaken by COMPLETED, is missing in the middle.

### Payment

Rides that have arrived, evaluation calls and payment requests in `Slots`. The service looks the key up
when it starts (`StartPayment`, `AnswerRepeated`), records it when it pays (`Pay`) and may fail before
(`Refuse`) or after. That is what the code and `docs/journal.md:279` say of it; the measurement beside it
(line 278) also had answers 422 beside the two payments: to the loop they are errors like any other. The server may stop
waiting for an answer at any time (`Abandon`: client gone, time-out, broken connection); the history
variable `abandoned` holds the rides with such a request.

### Campaign

A registration reserves a slot in memory (`Reserve`), inserts its coupons in a transaction
(`InsertReward`) and commits; `FailRegistration` stands for every error in between, and `CommitUnheard`
for a commit that the database carried out and the client library reported as failed. A ride request
counts the user's rides (`BeginRide`), chooses a coupon (`ChooseCoupon`), commits, and adds the ride to
memory with its fare. MySQL is external: inserted rows keep a locking scan waiting, and a scan locks what
it has read and the gaps, until its transaction ends. `CrashAndRestart` counts slots and fares again.

### Hungarian and Matching

Costs are integers; rounding of `float64` is not modelled. In `Hungarian` column 0 stands for the row
being added, as in the code. `Matching` takes the cost function as input, numbers rides by age and
chairs by name as the code sorts them, builds the matrix as `minCostAssign` does and takes the steps of
`Hungarian` on it.

### Simulator

The handlers are atomic here; what interleaves inside them is `Dispatch` and `Stream`. The page of the
chair has a timer of one second (`Tick`: post the coordinate, move, accept or carry) and timers of 30 and
60 seconds that repeat what may have been lost (`Fallback`). Before it accepts or carries it asks for the
status with a second request for the stream (`Probe`), which replaces its own `EventSource`. The page of
the user requests and evaluates. Time is reduced to an order: a call is answered before the next tick,
and the timers are over before the proxy ends a silent stream (`ProxyTimeout`, 600 s).

## 3. Runs that pass

| Run | Instance | Properties |
|---|---|---|
| `dispatch` | 2 users, 2 chairs, 2 rides, 2 chair handlers; 458,534 states | `TypeOK`, `LifecycleOrder`, `ListsAreRight`, `ChairMovesOnWhenTold`, `PlansStayValid`, `ToldAfterUpdate`, `StatsMatchCompleted`, `KeepsContract` |
| `dispatch_live` | 2 users, 1 chair, 2 rides; 98,334 states | `AssignedRideEnds`, `WaitingRideIsServed` |
| `stores` | five starts: a ride from its creation, two rides that arrive, a chair from its registration, two chairs, a ride near its end beside a chair; one initialization, transactions of 2 rows; 792,920 states | `TypeOK`, `RidesAgree`, `OnceAndInOrder`, `ChairsCatchUp`, `NoStrays`, `EventuallyStored` |
| `stream` | a chair or a user, 2 connections, 2 rides with 3 statuses; 699,182 states | `TypeOK`, `NothingMissed`, `NoGaps`, `MarkedWasWritten`, `UnsentIsSent` |
| `payment` | 1 ride, 2 calls, 3 requests; 19,778 states | `TypeOK`, `ChargedOnce`, `CompletedWasPaid`, `RideIsCompleted` |
| `campaign` | 4 registrations, 2 requests; 405,420 states | `TypeOK`, `SlotsAreCounted`, `InviteLimit`, `FareSurvives`, `CouponUsedOnce` |
| `matching` | up to 4 rides and 3 chairs, two budgets; 43,844 states | `TypeOK`, `GreedyNeedsNoMore`, `CheapestOfAll`, `ProvedCheapest`, `Terminates` |
| `simulator` | 2 rides, 3 places on a line, 1 loss; 59,971 states | `TypeOK`, `RideInOrder`, `HearsLatest`, `OfferedWhenFree`, `RideIsDriven` |

What they show: that the properties named hold on these instances under every interleaving, failure and
restart of the modules. The comment above each property states it in words and names the lines of code.

Why the bounds suffice. Two rides and two chairs let a ride compete for a chair, a chair change rides,
a user request again and plans concern two pairs at once; two handler slots let two requests be between
their sections. A ride has five transitions after its creation, so with chunks of two a batch can take
three transactions, and an initialization meets a batch taken before it; rides and chairs share only
`flushMu` and the initialization, so the starts exercise one beside the other instead of all at full
length (`Starts`, and `MaxCalls` calls of a chair). Two connections let one be replaced while it is
sending, waiting or about to wait. Rides are paid independently of each other, so one is enough; two
requests of it overlap, and a third lets a late one meet a later call. Four registrations exceed the
limit of three by one; of the two rides one is so short that a coupon reduces it to the base fare. The
matching budgets (12 and 27 instead of 20,000,000) send inputs of several shapes to both methods; three
rows make augmenting paths of every length there is for them. With three chairs and four rides the
first chair's costs ascend with the age of the rides, which halves the time. Two rides let the simulator's chair be told
the end of one when the next waits, and one loss may hit any call or connection. The names of these
bounds are the constants of the modules (`ChunkSize`, `MaxInits`, `MaxCalls`, `Starts`, `LastStep`,
`MaxRides`, `Places`, `MaxLost`, `Inputs`, `Budgets`, and the sizes of the sets). The proofs of section 5
remove the bounds for the invariants.

The runs of `Stream`, `Payment`, `Campaign` and `Matching` do not check for deadlock, since these
systems do stop: connections are used up, rides are completed, requests are over, functions return.

### Fairness

* `Dispatch`: weak fairness of the matcher (its loop never ends), of `ChairNotify` (a connected chair's
  goroutine runs) and of `AddStatus` (a handler that has unlocked goes on); the remaining conditions are
  about clients: a chair accepts, drives and picks up (weak fairness), a user evaluates again after a
  failure, and payments do not fail for ever (strong fairness of `Complete`). Nothing is assumed of
  ride requests, activity or `AppNotify`. `WaitingRideIsServed` also assumes that the chairs stay
  active from some time on.
* `Stores`: handlers that have begun end, and an initialization goes on (weak fairness). The writers and
  the flusher are strongly fair, as they compete for `flushMu`: a Go mutex, once a waiter has waited a
  millisecond, goes to the one that has waited longest. Neither crashes nor initializations nor new calls
  are fair. A failed write is a step of its writer: success is not assumed.
* `Stream`: the goroutine of each connection runs. Clients need not connect.
* `Payment`: the server goes on; the service answers and does not refuse for ever (strong fairness of a
  successful `Pay`); users register a payment method and evaluate again. `RideIsCompleted` also assumes
  that from some time on answers are waited for.
* `Matching`: the function runs.
* `Simulator`: page, browser and server go on, the user is not fair, and a silent stream is ended.

## 4. Where the code and its documents differ

Each of these is a run with one property that TLC refutes.

| Run | Statement | What the code does |
|---|---|---|
| `dispatch_notify` | all transitions are sent, in order (`app_manual.md:159-169`) | the stream looks at the latest ride only |
| `stores_column` | `rides.status` is the latest status (`4-derived-data.sql:24`), which rests on transitions being queued in order (`writer.go:18-19`) | a status is visible before it is queued; COMPLETED can overtake ARRIVED, and the column stays ARRIVED; a restart then leaves the ride out of the statistics (`state.go:356`) |
| `payment_twice` | the key makes repeated payments harmless (`app_handlers.go:507`) | not while the first request is still being handled (`docs/journal.md:279`) |
| `simulator_stalls` | a change is notified within three seconds (`app_manual.md:95`) | the page's own probe replaces its `EventSource` (`state.go:454`), which stays open and silent until the proxy ends it after 600 s (`isuride.conf:63`) |

Other statements that the modules make visible and no run is spent on:

* Two overlapping ride requests of one user both pass the check (`app_handlers.go:298`), which is not
  repeated when the ride is added; `app_manual.md:49` has one ride in progress. It takes a client that
  overlaps its calls.
* A repeated ENROUTE is appended whatever the last status is (`chair_handlers.go:302`, against the state
  diagram). Of two calls of a chair that overlap, both handlers read the same last status and append the
  same one (`chair_handlers.go:116-134`, 280-316): with `Retries = TRUE` TLC refutes
  `LifecycleOrder` by two ENROUTEs. Both are why `LifecycleOrder` and its proof assume chairs that do not repeat or overlap calls;
  those of the benchmark wait for the answer before they move (`app_manual.md:40`).
* A handler that was past `addStatus`, or its payment, when an initialization emptied the queues queues
  its row in the new generation (`writer.go:42`), and the row is stored, although `writer.go:49` says that
  no transition of the run before is written to the new database. It belongs to no ride, and `loadState`
  leaves it out (`state.go:335-338`). `NoStrays` excepts exactly these rows (`late`); TLC finds a
  behaviour of eleven states that ends with `strays # {}`.
* A refused batch leaves a hole in the stored statuses (`writer.go:88`), and so does a COMPLETED that
  overtook ARRIVED when the process ends before ARRIVED is stored. A restart loads the list as it is, and
  the streams go from the status before the hole to the one after it, against `app_manual.md:159`.
  `NoGaps` speaks of the statuses that memory has.
* Statuses are in memory, and evaluations answered, before their rows are committed (`state.go:16` and
  `writer.go:18` say otherwise).
* A status is marked as sent before it is written, so a connection that is lost just then loses it
  (`app_manual.md:159` asks for at least once).
* A commit that is carried out but reported as failed lets a code be used a fourth time
  (`app_manual.md:84` has three); `InviteLimit` says by how much. The slot number does not make the key
  of a reward unique (`app_handlers.go:117-118`): after slots 1 and 2 and the return of 1, slot 2 is given
  again, and only the time in the key tells the two apart.
* An initialization that fails keeps the old memory and its dirty set, and the flusher then writes the
  distances of the run before into the rebuilt database (against `state.go:690-691`); `NoStrays` speaks of
  initializations that succeed, and of failed ones while they last.
* A chair that is registered while the service initializes may be stored but missing from memory until
  the next restart.
* The simulator page does not repeat an acceptance that was lost: `RideIsDriven` excepts such rides.

## 5. What is proved

| Theorem | Property | Assumption |
|---|---|---|
| `DispatchProofs!TypeCorrect` | `TypeOK` | none |
| `LifecycleCorrect`, `ListsCorrect`, `ChairMovesOnCorrect`, `PlansCorrect`, `ToldAfterUpdateCorrect` | `LifecycleOrder`, `ListsAreRight`, `ChairMovesOnWhenTold`, `PlansStayValid`, `ToldAfterUpdate` | `~Retries` |
| `DispatchProofs!ContractCorrect`, `StatsCorrect` | `KeepsContract`, `StatsMatchCompleted` | `~Retries` |
| `StoresProofs!TypeCorrect`, `NoStraysCorrect`, `OnceAndInOrderCorrect`, `RidesAgreeCorrect`, `ChairsCatchUpCorrect` | `TypeOK`, `NoStrays`, `OnceAndInOrder`, `RidesAgree`, `ChairsCatchUp` | none |
| `StreamProofs!TypeCorrect`, `NothingMissedCorrect`, `NoGapsCorrect`, `MarkedWasWrittenCorrect` | `TypeOK`, `NothingMissed`, `NoGaps`, `MarkedWasWritten` | none |
| `PaymentProofs!TypeCorrect`, `CompletedWasPaidCorrect`, `ChargedOnceCorrect`, `NoPaymentAfterwardsCorrect` | `TypeOK`, `CompletedWasPaid`, `ChargedOnce`, and that nothing is paid after the completion | none |
| `CampaignProofs!TypeCorrect`, `SlotsAreCountedCorrect`, `InviteLimitCorrect`, `FareSurvivesCorrect`, `CouponUsedOnceCorrect` | `TypeOK`, `SlotsAreCounted`, `InviteLimit`, `FareSurvives`, `CouponUsedOnce` | none |
| `MatchingProofs!HungarianTypeCorrect`, `ProvedCheapestCorrect` | the types, `ProvedCheapest` | a matrix of integers, no more rows than columns |
| `MatchingProofs!TypeCorrect`, `GreedyNeedsNoMoreCorrect`, `CheapestOfAllCorrect`, `CheapestProvedCorrect` | `TypeOK`, `GreedyNeedsNoMore`, `CheapestOfAll`, `ProvedCheapest` inside the matching | `MatchingAssumption`: integer costs, one chair and one ride at least (without, the code finds no candidates and plans nothing) |
| `SimulatorProofs!TypeCorrect`, `RideInOrderCorrect`, `HearsLatestCorrect`, `OfferedWhenFreeCorrect` | `TypeOK`, `RideInOrder`, `HearsLatest`, `OfferedWhenFree` | none |

All hold for arbitrary sets of users, chairs, rides, handlers, connections, calls, requests and
registrations, for every matrix of integers, for any number of chairs and waiting rides with any costs
and any budget, for any number of restarts, initializations, lost calls and lost connections, and for
every interval of places, under the named assumptions on the constants.

*Dispatch.* None of the invariants is inductive alone: that a status may be appended depends on no other
request for the same ride being under way, which depends on the chair having one call at a time, on the
ride being its latest, on the chair having been told of it, and on the matcher not planning a chair that
has a ride. The inductive invariant is `TypeOK` and `CoreInv`, whose named parts relate `req`, `evals`
and `completing` to the last status, `chairLatest` to `chairOf`, `plan` to `waiting` and `ChairIdle`,
and `pending` to `dbAssign`. Its preservation has one lemma per group of actions; each theorem follows
from it.

*Contract.* From the same invariant: `addRide` is a request of the contract, `assignChairs` a round of
matching, a recorded status or an evaluation an advance, the notice of COMPLETED a release, and every
other step stutters. The statistics need in addition that the completed rides of a chair are finite in
number, and that only `Complete` makes a ride COMPLETED.

*Stores.* For `NoStrays`: `flushMu` is held by whoever is past it, in the generation of its queue
(`LockInv`); after a discard a queue, and a batch that is not stale, hold nothing of a ride of the run
before but what was queued since (`GenerationInv`, `LoadInv`). An initialization holds `flushMu` while
it discards, so no batch is half written and no distance is copied at that time, and every batch taken
before is stale afterwards. A chair of the run before is in no queue and no batch that is not stale, is
in memory only until the reload, and the flusher takes only chairs that are in memory.

The other theorems rest on two more invariants (module `WriterProofs`), since what the properties say of
the time when nothing is on its way says nothing of the steps in between. Both speak of the *pipe*, the
batch followed by the queue.

* `RideInv`: nothing is in the pipe twice, or both there and in the table (`OnceInv`); a status that a
  handler has recorded and not queued yet is in neither (`RecordedInv`), nor is COMPLETED while it is
  being paid for, and what an evaluation has queued before it records it is accounted for
  (`EvaluationInv`); what is in the pipe or stored is in memory, or is that COMPLETED (`RowInv`), and
  what is in memory is stored, in the pipe, refused, or about to be queued (`PlaceInv`); before a
  status of the chair its predecessors are stored, ahead of it in the pipe, or refused (`OrderInv`).
  `OnceAndInOrder` follows from `OnceInv` and `OrderInv`, `RidesAgree` from `PlaceInv` and `RowInv` and
  from the count of completed rides that goes with them (`CountInv`). A restart keeps all this because
  the reload reads the stored statuses in order (`InOrder`, about which a few lemmas say what it keeps).
* `ChairInv`: a chair is inserted before it is switched (`BatchInv`); it is stored or its insertion is
  in the pipe (`RegisteredInv`); the last word of its calls and of the pipe on its activity is that of
  memory, and without such a word the row is (`ActivityInv`), which needs that each of the three
  statements of a batch leaves the rows as that batch says; a distance that is not marked in the dirty
  set is stored or copied (`DistanceInv`). Chairs whose batch is stale count as excused beforehand.
* `LoadInv` says what an initialization knows between rebuild and reload.

Each has one lemma per step, and `StoresProofs` puts them together with the lock of `LockInv`. TLC
checked the conjunction on the instance of run `stores` before it was proved.

*Stream.* `NothingMissed` needs that a waiting handler of the current connection either has a token or
has seen everything, and that each step that creates something unsent leaves a token. `NoGaps` and
`MarkedWasWritten` rest on the list of statuses ascending from MATCHING (`StepsInv`), which lists with
holes do too, so that the status after the marked ones is the next that memory has. A connection marks
only while it is the current one; what it carried last is then the last that is marked (`Position`), or
its ride is over. Neither theorem says that memory has every status: after a restart it may not
(section 4).

*Payment.* The invariant says that a call past its check holds `Completing` alone; that a call in state
`paid`, and a request answered `ok`, belong to a ride whose key is recorded and that was charged; and,
for a ride none of whose requests was abandoned, that each request is waited for by a call, that a
request that is paying finds the key not recorded yet, and that there was at most one charge. Double
charging needs two requests of one ride, and those need two calls or an abandoned request.

*Campaign.* The slots that may still be returned, those stored and the counter are related by
cardinalities of finite sets (`SlotInv`); the lock on the coupons belongs to the request that has chosen
one, whose coupon is unused until it commits (`CouponInv`).

*Hungarian.* In every pass the matched columns have one row each, the potentials are feasible, and
`minv` of an unused column is the least slack seen from the tree (`IInv`); the tree's edges are tight and
ranked by the order in which its columns were used, so that the path back to column 0 ends (`TightInv`).
At the end each row has a column of its own along a tight edge, potentials of columns are at most zero,
and zero if unmatched (`ProvedCheapest`). That such an assignment is cheapest is linear programming
duality, a statement about sums: `CheapestByPotentials` bounds the sum of any assignment from below by
the sum of all potentials, and the assignment found meets the bound.

*Matching.* The inductive invariant (`MatchingInv`) is that of the Hungarian method on the matrix of the
candidates, and what the plans are at the end (`PlanInv`).

* Greedy: whatever the number of candidates, `Greedy` returns a set of pairs in which a pair is planned
  exactly if no planned pair before it takes its ride or its chair (`GreedyIs`), and there is only one such
  set (`GreedyUnique`). A pair that a chair did not keep could only be missed if all the pairs that the
  chair kept, as many as there are chairs, were refused because other chairs have those rides, and there
  are too few others (`PrunedAlike`). By the same count no ride is left over beside a chair
  (`GreedyCovers`).
* Cheapest: any assignment of all the rides becomes one of candidates at no higher cost, by giving one
  chair after the other a ride that it keeps and nobody has (`Exchange`; there is one, by the count above,
  and it costs no more than one that was not kept). If chairs outnumber rides every pair is a candidate.
  An assignment of candidates is one of rows to columns with the same sum (`PlansByCost`), and of those
  none is cheaper than what `hungarian` found (`NoneCheaper`).

Both need induction over numbers and finite sets, and sums over sets of any size. The library's induction
theorems take an operator, which the provers cannot instantiate; but its theorem on well-founded relations
takes a set, so that a number, or a subset, for which a claim fails would be a least one. `NumberInduction`
and `SetInduction` say that; from them the equation that the library's sum satisfies is derived
(`SumEquation`), and the laws of sums that duality and exchange need.

*Simulator.* The server takes ENROUTE in every status and trusts the page for the order, so that
`RideInOrder` rests on what the page knows. Only the latest ride of the user is under way, and it waits
when the chair does not have it (`LogInv`). What the page knows of its ride was marked as sent before
(`DataInv`); the server answers with the first status that is not marked, or else with the latest, so a
probe that answers MATCHING when MATCHING is marked answers with the latest status, and nobody but the
page can change that until its acceptance is posted (`ActInv`). For `HearsLatest`: a connection that was told something told the page the status marked last
(`StreamInv`). For `OfferedWhenFree`: what the client page shows is what it was told last or what it did
since, and it shows COMPLETED of a ride that has arrived only if its evaluation is under way, failed, or
completed the ride (`ClientInv`). Each part has a lemma per action; TLC checked the conjunction on the
instance of run `simulator` before it was proved.

*Only model-checked*: liveness, which is out of the prover's reach. Every invariant and every safety
property of a step that a passing run checks is stated by a theorem.

## 6. Not modelled

* Nearby chairs: a query of memory whose one rule with a state of its own, the time a chair stays visible
  after COMPLETED, needs a clock. Owner endpoints: sums over memory; that what they sum survives a
  restart is `RidesAgree`. The authentication cache, which is filled and never invalidated. Routing and
  JSON. `payment_mock`, a stand-in for local runs.
* Of the dispatcher: the reload of a single ride from the database when memory has none (`rideLocked`,
  reached only for rides of before an initialization), and with it the error path of `assignChairs`.
  Coordinates and distances but for their effect, and evaluations, are data that no property tells apart.
* Of the stores: rides requested, and crashes, during an initialization (`DROP TABLE` waits for open
  transactions; a restart in the middle ends with the next initialization); overlapping activity calls of
  one chair.
* Of payments: the error path after a successful payment (`app_handlers.go:560-563`), which takes an
  initialization while the payment is under way; `RecordCompleted` of `RideWriter` has it.
* Of registrations and rides: estimates, and registrations without a code.
* Of the front end: polling mode, loading a page, moving the chair by hand, the activity switch, several
  messages in one chunk of a stream, forms, drawing and the owner pages. The larger files of the bundle
  are React, React Router and a confetti library, third-party code in minified form.
* Tools, host configuration and measurements, but for the unit of the matcher, which makes its calls
  serial, and the time-out of the proxy.

## 7. Plan

Done: `Dispatch` with `RideContract`, its proofs and the refinement; `Stream` with restarts and proofs;
`Payment` with proofs; `Hungarian` inside `Matching`, with the proofs of both; `RideWriter` and
`ChairWriter` under `Stores`, with the proofs of all their invariants; `Campaign` with proofs; `Simulator` with proofs.

Open:

1. Nearby chairs with a clock for the grace after COMPLETED.
2. A matching call that an initialization overtakes: `assignChairs` fails after some plans were carried
   out, and `AssignPending` stays set.
3. Rides requested, and crashes, during an initialization.
