# TLA+ specifications of the IM service

These modules specify the instant-messaging service of this repository: the RPC
service that stores and returns messages (`rpc-server/`), its use of PostgreSQL,
and the clients that reach it through the HTTP server (`http-server/`). TLC checks
them on small instances; TLAPS proves the main invariants for every instance.

## The system

| Part | State it keeps | Operations | Talks to |
| --- | --- | --- | --- |
| Message and chat-id rules, `rpc-server/utils.go` | none | `ValidateMessage`, `ValidateChatID`, `GetNormalisedChatID`, `GetSenderReceiver`, `Min` | called by the handlers |
| Tables, `rpc-server/models.go` | `chat_messages` (no primary key), `chat_cursor_caches` (primary key chat, reverse, cursor), the connection pool (50) | `InitDatabase`, `GetDatabase`, `ToResponse`, `ToChatCursor` | PostgreSQL through GORM |
| Handlers, `rpc-server/handler.go` | the variables of each goroutine | `Send`, `Pull`, `getMessages`, `getChatCacheCursor`, `createChatCursorCache` | the tables, nothing else: handlers of one or of several processes meet only in the database |
| RPC glue, `kitex_gen/rpc/imservice` (generated) | none | `sendHandler`, `pullHandler`, the client stubs | Kitex; a handler that returns an error loses its response |
| Thrift codec, `kitex_gen/rpc` (generated) | none | read and write of each struct | Kitex |
| HTTP server, `http-server/main.go`, `proto_gen/api` | the RPC client, with a timeout of 1 s | `sendMessage` (sets `SendTime`), `pullMessage`, the binding of parameters, the JSON of the answer | the RPC service, found through etcd |
| Start-up and deployment, `main.go` of both, `models.go`, `docker-compose.yml` | connection settings, `databaseConn`, which tables exist, the registration in etcd | start of the containers, `InitDatabase`, the address checks, registration, exit and restart of `rpc-server` | Docker, PostgreSQL, etcd |
| A client that pages through a chat | its cursor and what it received | pull from 0, then from `next_cursor` while `has_more` | the HTTP server |

### What makes each part correct

* *Rules.* A message is stored under one key whatever way round its chat id is
  spelled, between the two members of the chat, with a text that is not blank.
* *Tables and handlers.* `Send` stores the message and invalidates what it makes
  stale in one transaction (README.md:58-59). `Pull` returns the same page whether
  it finds its cursor in the cache or not (README.md:69). The cache never names a
  message that was rolled back and never runs ahead of the position it stands for.
  Every request is answered.
* *Client.* Following `next_cursor` while `has_more` is set
  (`idl_http.proto:32-33`) reads every message, once and in order, and ends.
* *HTTP server.* A success reported to the sender means the message is stored, once;
  an error says nothing, because of the timeout and of a COMMIT whose answer is
  lost. Messages sent one after the other are stored with growing times. A pull
  shows what was acknowledged before it began, and no two pulls disagree on the
  history of a chat. The JSON of a page tells an empty page, `has_more` false and a
  missing `next_cursor` apart.
* *Deployment.* What etcd lists and renews is a service that can be reached and has
  its database. A send takes effect as a whole or not at all, with whatever tables
  there are. With the defaults everything is up from some time on.
* *Codec and glue.* Whichever of the generated writers and readers are used at the
  two ends, the handler gets the request that was made and the caller the response
  that was given; an error means that the connection broke or the handler failed.

### What makes it hard

* A `Pull` reads the cache, then the messages, then writes the cache, each in a
  transaction of its own. A `Send` that commits between two of them changes the
  positions the `Pull` computes with.
* `Send` deletes only reverse cursors. Forward cursors are right only if messages
  commit in the order of `SendTime`, which the HTTP server sets before the RPC.
* A cursor is a position for the client, a send time in the cache. Send times are
  not unique, and `ORDER BY sent_at` leaves the order of equal ones open.
* `createChatCursorCache` ignores duplicate keys and forgets every other error:
  the first value stays, and correctness may not depend on any being there.
* Any statement may fail, the process may die between two statements and is
  restarted (`restart: unless-stopped`), COMMIT may take effect and be reported as
  failed.
* The containers start in an order that promises less than it seems: the health
  check of `db` asks on the socket, where the server that initialises an empty
  volume answers too, and etcd need only be started. A process that ends stays
  registered until its lease runs out, and its successor may have another address.

`PROJECT.json` lists each of these hazards at its line with the properties that
watch over it.

## The modules

| Module | Models | EXTENDS |
| --- | --- | --- |
| `ChatId` | `utils.go`: the checks and helpers, as operators | |
| `ChatStore` | `models.go` and the queries: rows, cursors, what ORDER BY / OFFSET / LIMIT may return | `ChatId` |
| `IMService` | `handler.go`: `Send` and `Pull` as steps of concurrent handlers on the shared tables | `ChatStore` |
| `Pagination` | a client's paging session running against `IMService` | `IMService` |
| `MessageLog` | the abstract promise to a sender: stored at most once, a success means stored, a failure leaves it open | |
| `HttpGateway` | `http-server/main.go`: `sendMessage` and `pullMessage` as concurrent calls with a timeout, in front of `IMService`; refines `MessageLog` | `IMService` |
| `CacheRaces` | `IMService` with two history variables: which races make a reverse cursor stale | `IMService` |
| `Deployment` | `docker-compose.yml`, `main` of `rpc-server` and `InitDatabase`: from `docker-compose up` to a service that is registered, with crashes and restarts | |
| `ThriftCodec` | `idl_rpc.go` and `k-idl_rpc.go`: both writers, both readers, the lengths and the equality of each struct, as operators | |
| `RpcCall` | `imservice.go`: one RPC from the client stub to the handler and back through the codec | `ThriftCodec` |
| `HttpApi` | `http-server/main.go` and `idl_http.pb.go`: parameters to RPC structs, the response to JSON, around `RpcCall` | `RpcCall` |
| `MCIMService`, `MCCacheRaces`, `MCPagination`, `MCHttpGateway`, `MCHttpApi`, `MCDeployment` | the instances TLC checks | |
| `IMService_proofs` | theorems: types, soundness of the cache | `IMService`, `TLAPS` |
| `IMServiceCache_proofs` | theorems: where cached cursors stand among the messages | `IMService_proofs` |
| `Transparency_proofs` | theorems: pulls through exact cursors return the same page; with one handler reverse cursors are exact | `IMServiceCache_proofs` |
| `CacheRaces_proofs` | theorems: reverse cursors that no race has touched are exact | `CacheRaces`, `Transparency_proofs` |
| `Pagination_proofs` | theorems: a paging session misses nothing, in order, once, and has_more is true | `Pagination`, `Transparency_proofs` |
| `HttpGateway_proofs` | theorems: the service behind the gateway behaves as `IMService` says, and implements `MessageLog`; what the gateway's clients see of each other's calls | `HttpGateway`, `IMServiceCache_proofs` |
| `RpcCall_proofs` | theorems: what goes through codec, glue and JSON arrives, lengths are exact, calls fail for a cause, a broken struct is never read | `HttpApi`, `TLAPS` |
| `Deployment_proofs` | theorems: types, what a registration leads to, sends without all tables | `Deployment`, `TLAPS` |

### Correspondence with the code

*Data.* A chat id is the sequence of parts `strings.Split(id, ":")` returns; a
part is a number, 0 for the empty string, ordered as `sort.Strings` orders the
names. A text is a body and whether spaces surround it. A message row carries an
`id`, its place in the table: without primary key two equal rows are two rows.
`SentAt` is `uint64(SendTime)` of a value checked to be non-negative, hence the
same number.

*Handlers.* `pc[h]` is the statement goroutine `h` runs next. The frames `row`,
`req`, `hit`, `page` and `code` are the variables `chatMessage`, `req` (after
`SetChat` and `SetLimit`), `cachedCursor`, `messages` and `resp.Code`.

| Code | Action |
| --- | --- |
| `Send`: validation fails (handler.go:25-30) | `SendRejected` |
| `Send`: validation, the row is built (25-39) | `SendAccepted` |
| BEGIN and `tx.Create` (42-45) | `SendCreate` |
| `tx...Delete` (47) | `SendScan` (the snapshot), `SendLock` (one of its row locks), `SendDelete` (all are taken) |
| COMMIT, code 0 (51, 59) | `SendCommit` |
| COMMIT done, its answer lost (52-57) | `SendCommitLost` |
| a statement fails, rollback (52-57) | `SendFailed`; `SendDeadlock` when PostgreSQL makes it fail |
| `Pull`: checks (66-86) | `PullRejected`, `PullAccepted` |
| `getChatCacheCursor` (126-144) | `PullLookup`; skipped for cursor 0 |
| the query of `getMessages` (160-170) | `PullQuery` |
| either read fails (88-93) | `PullFailed` |
| `createChatCursorCache` from `getMessages` (173) and from `Pull` (103) | at `pc` `"Own"` and `"Next"`: `CursorStored`, `CursorDuplicate` (23505), `CursorBlocked`, `CursorFailed` |
| the response leaves | `Return` |
| the process dies and is restarted | `Crash` |

The loop of `Pull` (95-107) inserts the next cursor before the response is
complete; the only statement in it that reaches the database is that insert, so
the step `"Next"` stands for the loop and the page is what it copies.

*PostgreSQL* is external. Its default isolation, READ COMMITTED, is modelled by
what the statements see: a read sees the rows committed when it runs; DELETE finds
its rows in such a snapshot, locks them one by one in any order (`locks[h]`), waits
for a transaction that has one of them and skips those that are gone; an INSERT whose
key is being deleted waits and then succeeds or fails according to the outcome. When
transactions wait for each other in a circle (`Deadlocked`), PostgreSQL aborts one of
them: `SendDeadlock`. Inserts of cursors commit by themselves, hold nothing another
could wait for, and are one step. A connection of the pool is held from `Create` to the
end of the transaction, and by an INSERT that waits.

*Clock.* What is known of `SendTime` is the constant `Clock`. `"any"`: nothing,
ties included. `"distinct"`: no two messages of a chat have the same time, in
whatever order they commit. `"ordered"`: moreover the sends of a chat follow one
another and their times grow. The code guarantees only `"any"`; the other two are
what the properties that need them assume, and the violation runs show what
happens without.

*Races.* `CacheRaces` adds to each step what it means for staleness. `raced[h]`: a
message of the chat was committed after the `Pull` of `h` read its cursor or page,
or its cursor was tainted. `tainted`: cached cursors inserted by such a `Pull`, or
while a `Send` to the chat stands between its DELETE and its COMMIT (47-51), when
the row is neither seen nor blocked by it. The variables observe and never guard.

*Session.* `Pagination` adds one client. Its pulls are accepted by `IMService`'s
own `Accept`, served by its handlers next to the other clients' requests, and may
fail or be lost in a crash; the client repeats a failed pull up to `MaxRetries`
times.

*HTTP calls.* In `HttpGateway` a call is the goroutine of one HTTP request,
`status` what its user knows: 200 is `"ok"`, 400 `"refused"`, 500 `"failed"`.

| Code | Action |
| --- | --- |
| `Bind` fails (http-server/main.go:53-58, 77-82) | `Refuse` |
| `time.Now` and `cli.Send` (59-66) | `Post` |
| `cli.Pull` (84-89) | `Get` |
| `sendHandler`, `pullHandler` call the handler (imservice.go:39-66) | `ArriveSend`, `ArrivePull`, which conjoin `IMService`'s own actions |
| the statements of the handlers | `Run` |
| the response and the status (67-73, 90-110), if its caller still waits | `Reply` |
| the timeout of 1 s (36) or a broken connection | `GiveUp`; the handler goes on |
| the request is lost | `Lose` |
| the service dies and is restarted | `Die` |

A request may reach the service after its caller has given up. The RPC client
repeats none: Kitex retries only when `NewClient` is given a retry policy, and
main.go:34-38 gives none. `SendTime` is a reading of one clock
that does not go back, the clock of a single HTTP server; an RPC takes more than
the clock's microsecond, so a call that begins after another was answered reads a
later time. Codes other than 0 never reach the HTTP server: the handlers return
them with an error, `sendHandler` and `pullHandler` then drop the response, and the
branch `resp.Code != 0` (70, 93) is not taken. Its status is the same 500, so
`HttpStatus` stands for both.

*Codec.* A struct in memory is a record and a nil pointer is `Nil`; on the wire it is
the sequence of its fields with ids, types and values, and a stop. The model keeps which
fields are written and in which order, which are required, which are skipped and what
every step counts of the bytes; the bytes themselves are counted, not spelled. Kitex
chooses the writer and the reader at each end, `RpcCall` takes any. The loops of the
readers are generated alike for every struct (k-idl_rpc.go:26-137, 300-391, 927-1067 ...)
but for what they do with each field, so there is one operator for the loop, and the
steps it takes are those of the struct. It is modelled by what it leaves behind:
`ReadLoop` gives each field the value read last for it or its zero value. `FastReadLoop`
finds each field at `buf[offset:]`, where the steps before say it begins; if one of them
has counted a byte too few or too many, what is read there is no field and the struct
is lost. `Newer` inserts a field the reader does not know, at any place in any struct
under way: the arguments or the result, the request or the response, its message or one
of its list. It does so up to `MaxNewer` times in a call. `Break` cuts the bytes before
any field or stop of the arguments or the result, or of the struct in them.

*JSON.* `HttpApi` begins where Hertz has split the request into parameters:
`Bind` leaves the zero value for one that is missing (http-server/main.go:53, 78),
`RpcSendRequest` and `RpcPullRequest` are the literals of 59-66 and 84-89, and
`PullResponseRest` is 97-110 with the tags of 22-26: `Json` drops the fields with
`omitempty` that are zero. The fields of each message have the tags of `api.Message`,
all `omitempty`.

*Deployment.* The state is what the containers are doing (`db`, `health`, `etcd`,
`http`), where `main` of `rpc-server` stands (`pc`), and what outlives a process
(`tables`, `registered`).

| Code | Action |
| --- | --- |
| `depends_on` (docker-compose.yml:16-20, 28-30) | `StartRpc`, `StartHttp` |
| `healthcheck`, retries 3 (38-42) | `Probe` |
| the environment of both containers (8-15, 34-37), the defaults of `constructDatabaseURL` (models.go:112-136) | `Settings`, `Provided` |
| `gorm.Open`, `log.Panicf` (56-63) | `Connect` |
| `AutoMigrate`, `databaseConn = db` (65-78) | `Migrate`; `MigrationFails` logs and goes on with the tables there are |
| hostname, loopback and unspecified (rpc-server/main.go:26-38) | `Resolve` |
| `svr.Run` (40-47) | `Register`; `RegistrationFails` ends the process with status 0 |
| a panic, a signal | `Crash`; every end is `Exit`, the registration stays until `LeaseEnds` |
| `restart: unless-stopped` (docker-compose.yml:4) | `Restart`, at any address of the network |
| one send through the HTTP server to an instance etcd lists (http-server/main.go:52-66) | `SendArrives`, `SendUnserved` |
| its transaction, statement by statement (handler.go:42-51) | `SendCreate` needs the first table, `SendDelete` the second; `SendFails` if it is not there; `SendCommit` |
| its answer (67-73) | `SendAnswered`; a process that ends breaks it off (`BrokenOff`) |

Docker, the postgres image and etcd are external: `DbStep` is the image's way from
an empty volume over the initialising server to the real one, `EtcdStep` etcd's
start, `LeaseEnds` the end of a lease. The send follows the handler between the other
steps of the process: `pending` is what its open transaction has done, `kept` what is
committed, `told` what its user knows. Its answer comes in time; what the timeout adds
is in `HttpGateway`.

The operators introduced by the comment "Variant" are plausible mistakes in the
definition that follows them. No action uses them: they are put in the place of
that definition, one at a time, to see that the properties notice.

## What the runs check

| Run | Instance | Properties |
| --- | --- | --- |
| `distinct` | 2 handlers, 3 sends, 3 pulls from cursors 0 to 2, pages of 1, good and bad requests, 1 crash, `"distinct"` | `TypeOK`, `CursorsSound`, `CursorsNotAhead`, `StaleOnlyByRace`, `UnracedExact` |
| `answered` | 3 handlers and 2 connections, three messages and two cached cursors to start from, 2 more good sends and any number of bad ones, 1 pull in reverse, 1 crash, `"any"` | `AllAnswered` |
| `session_forward` | forward session, 2 handlers, 3 sends, 1 other pull in either direction, limits 1 and 2, 1 crash, 1 retry, `"ordered"` | `PTypeOK`, `ForwardCursorsExact`, `ForwardTransparent`, `NothingMissed`, `InOrderOnce`, `MoreToCome` |
| `session_reverse` | reverse session, 1 handler, 3 sends, 2 other pulls, 1 crash, 1 retry, `"distinct"` | `ReverseCursorsExact`, `ReverseTransparent`, `NothingMissed`, `MoreToCome` |
| `session_ends` | session in either direction, 2 handlers, 2 sends, 1 other pull, `"distinct"` | `SessionEnds` |
| `gateway` | 3 HTTP calls, 2 handlers, good and bad bodies, 2 times, 2 sends stored, 1 crash | `GTypeOK`, `AckedStored`, `CausalOrder`, `ReadsAcked`, `PullsAgree`, `Promised` |
| `rpc_call` | one HTTP request and its RPC, one parameter or all missing, strings of 0 to 2 bytes, lists of 0 to 2 messages, optional fields set and not, up to 2 fields of newer peers | `RequestArrives`, `ResponseArrives`, `BufferFits`, `FailsForCause`, `BreakNoticed`, `PageShown` |
| `deployment` | empty or filled database, 2 addresses and the loopback one, `POSTGRES_DB` unset or one of 2 names, 3 probes, 2 crashes, 1 failed migration or registration, 1 send | `DTypeOK`, `RegisteredReaches`, `WholeOrNothing`, `Up` |

`Promised` is the refinement: `HttpGateway` implements `MessageLog` with the rows of
`chat_messages`, each with the call that sent it, as its log. The call of a row is
a history variable, `origin`, as is `prior`, the calls over when another began.
`ReadsAcked` and `PullsAgree` are about pulls of a whole chat from its start; what
paging adds is the business of `Pagination`.

Four runs show where the code and its documents part:

* `override`: `UpWhateverName` fails. docker-compose.yml:14-15 take the host and the
  port of the database from `POSTGRES_DB`, which names it (13, 37): once it is set,
  `gorm.Open` fails and the process is restarted for ever. `Up` is the same promise
  with the variable unset, and holds.
* `stale_reverse`: `ReverseCursorsExact` fails with two handlers. A `Pull` reads
  its page, a `Send` commits and deletes the stale reverse cursors, then the `Pull`
  inserts the cursor it computed before. README.md:58 says stale cache information
  is deleted. The row lasts until the next `Send` to the chat, and until then a
  reverse pull through it skips a message. `StaleOnlyByRace` and `UnracedExact` say
  that races of this kind are the only way to get there.
* `stale_forward`: `ForwardCursorsExact` fails when a message commits after one
  with a later send time: the forward cursors behind it are stale and no code
  deletes them.
* `ties`: `MoreToCome` fails when more messages share a send time than fit a page.
  The cached cursor leads back to the first of them, `has_more` stays set, and the
  client goes round the same messages while `next_cursor` grows.

Three places that read differently from the code are not the business of a run.
`idl_rpc.thrift:22` calls the cursor the "starting position of message's
send_time": the code uses it as an offset, and the model follows the code.
README.md:20 has the health check wait until the database is "properly started": it may
pass while the volume is still being initialised, and `Up` holds because the process
that then fails to connect is restarted. models.go:66 logs a failed migration: nothing
repairs it before the next restart, which `Up` allows (`unmigrated`), and until then
no send is half stored (`WholeOrNothing`).

### Bounds

`MaxSends`, `MaxPulls` and `MaxCrashes` bound the requests a behaviour accepts and
the crashes in it, `MaxRetries` the repeated pulls of a session. Three messages are
the least with which a cursor exists (two rows), and one more message can arrive
on either side of it; two handlers are the least for every race between a `Send`
and a `Pull` or two of one kind, and in `ChatStore` no operation reads more than
one chat, so one chat suffices. Rejected requests are unbounded: they leave no
trace in the counters. The default limit is 1 or 2 in place of 10, so that pages fill.
The pool has 2 connections in place of 50; in `answered` three handlers want them,
so that it runs out while two `Send`s delete the same cursors and a `Pull` inserts the
key of one. Two cursors are what two `Send`s need to lock in opposite orders: without
`SendDeadlock` the run finds them waiting for each other for ever. To keep that within
reach the run starts from a state that three sends and two pulls lead to (`Stocked`), and
has one bad request of each kind in place of all. The theorems hold for any of these
values. `HandlerSymmetry` is used for safety only: handlers differ in nothing but
their names.

The three calls of `gateway` are two sends of which one overtakes the other and a
pull that may see either or none, or two pulls around a send; two times are as many
as an order needs, and a limit of 2 is room for every message. In `rpc_call` the
structs have the shapes the two servers give them: `Reverse` set to either value,
`NextCursor` nil or set, lists empty and longer, strings empty and not. A nil
`Messages` or `HasMore` occurs only in responses that an error drops. `MaxNewer` is 2, so
that two new fields meet in one struct, in a struct and one within it, or one on the
way there and one on the way back.

In `deployment` a second address is as many as a stale registration needs, the
probes have the number of docker-compose.yml:42, and two crashes are one more than leaves
a registration behind. `http-server`, `db` and etcd do not crash: compose has no
restart policy for them, so that nothing of this code handles it.

Deadlock is not checked in `deployment` and `override`, where compose gives up for
good when `db` is unhealthy, nor where clients run out of requests (`answered`, the
sessions, the calls of the gateway, the one call of `rpc_call`): there the system is
at rest, and `AllAnswered` and `SessionEnds` say that it rests only with every
request answered.

### Fairness

`FairSpec` assumes weak fairness of `Work(h)` for each handler: the Go scheduler
runs every goroutine, the pool hands freed connections on, PostgreSQL answers a
statement that does not wait for a lock. Weak fairness is enough, as a handler that
waits for a lock is only asked to proceed once it stays free. Nothing forces
clients to call, statements to fail, the process to crash. `PFairSpec` adds that a
session's client, once begun, asks for its next page and takes the answer; Kitex
gives every request a goroutine, so a request is not left without a handler. In
`session_ends` requests are finitely many, so this too is weak fairness.

`DFairness` is weak fairness of what Docker, the images and etcd do by themselves
(start what may start, probe, restart an exited container, end a lease) and of
`main`. Nothing forces a crash, a failed migration or registration, or a send.

## What is proved

`IMService_proofs` holds, for every set of handlers and requests and all values of
the bounds:

* `TypeCorrect`: `Spec => []TypeOK`. `TypeOK` alone is not inductive: that the
  cursor a `Pull` inserts is well-formed needs its page to have the row it is
  taken from. `TypeInv` adds what the frame of a handler holds at each step
  (`FramesReady`) and that the table is finite, without which the cardinality in
  the definition of ORDER BY means nothing. The step is proved action by action
  from lemmas on the data: a valid chat id normalises to a key, an accepted
  message makes a row, an accepted pull a request with a positive limit, a query
  returns a sequence of rows of the table.
* `CursorsAreSound`: `Spec => []CursorsSound`. The strengthening `PagesStored` says
  that the page of a `Pull` that is about to write the cache consists of committed
  messages; it lasts because no step removes a message.

`IMServiceCache_proofs` relates cached cursors to positions, under what is assumed
of the senders' clocks:

* `CursorsAreNotAhead`: `Clock # "any"` implies `Spec => []CursorsNotAhead`. The
  argument has three parts. About data: among rows with distinct times, the one
  ORDER BY puts at place k has exactly k - 1 before it (`RankInOrdering`, by
  counting: an ordering is an injection between finite sets of one size, hence a
  bijection), so the rows of a page stand where the cursor and the offset say
  (`RankInFind`, `RankSplits`, `RankInAnswer`). About clocks: `TimesInv`, stored and
  pending rows of a chat have different times. About handlers: `HitsFit`, the
  cursor a `Pull` found has the key it looked for, and `NotAheadInv`, which extends
  the property to the cursors in the frames, found or about to be inserted; it
  lasts between the query and the insert because ranks only grow as messages are
  added.
* `ForwardCursorsAreExact`: `Clock = "ordered"` implies
  `Spec => []ForwardCursorsExact`. `OrderInv` adds that a pending row is the only
  one of its chat and later than the stored ones, so a commit leaves the place of
  every forward cursor as it is (`ForwardPlaceStays`), which needs each of them to
  name a committed message, `SoundInv`.

`Transparency_proofs` goes from cursors to pages. Rows with distinct times have one
order, which exists because their ranks fill the places (`RankDistinct`,
`OrderingExists`: by counting, no induction over the rows). So the page from a time
on is the page behind the rows before that time (`SamePages`):

* `ForwardPullsAreTransparent`: `Clock = "ordered"` implies `Spec => ForwardTransparent`.
* `ReverseCursorsAreExact` and `ReversePullsAreTransparent`: `Clock # "any"` and
  `OneAtATime` (one handler) imply `Spec => []ReverseCursorsExact` and
  `Spec => ReverseTransparent`. `ReverseInv` says that cursors in the table stand at
  their positions (`AtPlace`), that so does what the handler holds
  (`HeldAtPlace`), and that a `Send` between DELETE and COMMIT has found every
  reverse cursor of its chat (`AllFound`), so that its commit moves none that stays.
  Failures and crashes at every step are included: what makes reverse cursors stale
  is concurrency alone, and `stale_reverse` shows that two handlers are enough.

`Pagination_proofs` is about the session, beside any other clients. A step of `PNext`
is a step of `Next`, or a handler accepts the session's request, which keeps
`CacheInv`, all that is known of the cache (`SessionCache`); so the theorems on cursors
and pages hold under `PSpec` too (`SessionForwardExact`, `SessionReverseExact`,
`SessionForwardTransparent`, `SessionReverseTransparent`). While the session waits, its
handler has its request and either has not queried or holds one page, which does not
change (`PageMoves`):

* `SessionTypes`: `PSpec => []PTypeOK`, with `PTypeInv`: the request is one the service
  accepts, and the handler that serves the session works on it.
* `SessionHasMore`: `Clock # "any"` implies `PSpec => []MoreToCome`, in both
  directions and through stale cursors. `ComingInv`: the session has received no more
  messages than its cursor says, and the chat has more rows than that. It rests on
  `NotAheadInv`: a query that returns a row behind the limit has its last row at a
  place beyond `next_cursor` (`MoreRows`), as no cursor runs ahead. The run `ties`
  shows that the hypothesis is needed.
* `SessionMissesNothing`: `PSpec => []NothingMissed` under `Faithful`: times are
  distinct, in commit order if the session may read forward, and requests are served
  one at a time if it may read in reverse. `MissedInv`: each message stored at the
  start is received, or shown by the page under way, or has its place at or behind the
  next cursor. A page shows every row from its offset to its limit (`PageCovers`), and
  no row comes to an earlier place as others are sent (`PlacesGrow`).
* `SessionInOrderOnce`: `Clock = "ordered"` and a forward session imply
  `PSpec => []InOrderOnce`, by `OrderedInv`: the i-th message received is the i-th of
  the chat, and stays so, since later messages come behind it (`PlacesStay`).

`CacheRaces_proofs` is about the direction `Send` invalidates, for any number of
handlers. `RaceInv` has three parts: untainted cursors in the table are exact
(`CleanExact`), so is what a `Pull` that is not raced holds (`HeldExact`), and while a
`Send` stands between its DELETE and its COMMIT it has found every untainted reverse
cursor of its chat (`Scanned`), so that its commit removes each one it moves.

* `OnlyRacesLeaveStale`: `Clock # "any"` implies `RSpec => []StaleOnlyByRace`.
* `UnracedPullsAreExact`: `Clock # "any"` implies `RSpec => UnracedExact`.

`HttpGateway_proofs` shows that a step of the gateway is a step of `IMService` or
leaves its variables alone, and follows each row from the call that sent it:

* `GatewayRunsService`: `GSpec => Spec`, so every theorem about the service holds
  behind the gateway, with any number of calls, lost requests and timeouts.
* `GatewayCursorsSound`: `GSpec => []CursorsSound`, such a theorem.
* `GatewayTypes`: `GSpec => []GTypeOK`. `GTypeInv` adds what a handler has of its
  caller's request.
* `AcknowledgedIsStored`: `GSpec => []AckedStored`. `LinkInv` has five parts: an RPC on
  the wire is of a call that has begun (`WireFits`); row ids are given once (`Ids`);
  each row, stored or pending, is that of a call, and no call has two (`Origins`); a
  request is taken by one handler, once (`TakenOnce`); code 0 and status 200 come after
  the commit (`SuccessKept`).
* `GatewayRefinesLog`: `GSpec => Promised`, the refinement of `MessageLog`: a commit is
  the one `Store` of a call that waits or was already told of a failure, a 200 a
  `Succeed` of a call that is stored, all else an answer, a new call or a stutter.

The last part is about what clients see of each other:

* `CausesComeFirst`: `GSpec => []CausalOrder`, from `ClockInv`: calls that are over are
  in the past of the clock that stamps later ones.
* `PullsShowAcked`: `GSpec => []ReadsAcked`, and `PullsSeeOneGrowth`:
  `GSpec => []PullsAgree`. A pull of the whole chat uses no cursor and one page is
  enough (`OnePage`), so what it reads are the rows of the chat at its query. `ViewsInv`
  carries both properties for what is answered and for what is read and still
  under way: a view has what was told before its call began, and of two views one
  contains the other, because the rows only grow.

`RpcCall_proofs` holds for requests and responses of the types of the IDL, with any
strings and numbers, lists of any length and any pointers nil, and for any number
(`MaxNewer`) of fields that newer peers add to a call, in any of its structs. Its lemmas
go from the bytes to the call:

* *Sums.* The bytes of a struct are a sum over its fields (`SumOfConcat`, `SumOfOne`). The
  sum is a recursive function, and what is proved of it by induction is proved by
  contradiction from the least place where it fails (`Least`, from `WFMin`).
* *Structs.* `Wire(w, F)`: the fields of `w` are those of `F`, in any order, and maybe a
  newer peer's. `Describes(S, F, p)`: `F` are the fields of `p`, but for those with the
  zero value. What both readers make of such a wire is `p`, and no step of `FastRead`
  loses its place (`ReadsAs`, `InStep`, `PlainReads`); concatenation keeps `Wire` and
  adds the bytes (`WireOfConcat`, `TakenByConcat`). So for each struct there is a lemma on
  what its writers write and how much of it, and one on what its readers read.
* *Wrappers.* Arguments, results and `SendRequest` are structs with one struct inside:
  `WrapperReads` and `WrapperWritten` take a struct one level up, the
  list of `PullResponse` has `ListRead` and `ListWritten`.
* *Newer peers and broken connections.* A field inserted into a struct leaves its wire one
  of the same struct (`OneMoreWire`), and a wire with such a struct in it is still one of
  the struct around it (`StructReplaced`): so for plain structs, for those with a struct
  or a list inside, and for arguments and results (`PlainGrown`, `WrapperGrown`,
  `ListGrown`, `BodyGrown`, `ArgsGrown`, `ResultGrown`). One that breaks off is read as
  an error (`CutNotRead`, `Breaking`).

`RpcInv` then carries a call: what is under way is the request or the response, or
is seen to be broken (`WireInv`), what has been read is what was written (`ReadInv`),
the buffer has the bytes of the wire (`RoomInv`), and a call that has failed has a cause
(`ErrorInv`). From `RpcInvariant`, `CSpec => []RpcInv`:

* `RequestsArrive`, `ResponsesArrive`, `BuffersFit`, `FailuresHaveCause`, `BreaksNoticed`:
  the five properties of `RpcCall`. `FailuresHaveCause` is what rules out that a reader
  avoids a wrong answer by refusing a good one.
* `HttpCalls`: `HSpec => CSpec`, so all of them hold of the calls HTTP requests make.
* `PagesShown`: `HSpec => []PageShown`. `ReplyInv` says that a body is made of the response
  that has arrived; `JsonReads` says what JSON leaves out, `PageShows` that a reader who
  supplies the zeros has the page again.

`Deployment_proofs` holds for any addresses, names, probes and bounds:

* `DeploymentTypes`: `DSpec => []DTypeOK`, part by part (`CountsOK`, `StatesOK`,
  `FlagsOK`, `ConnIsSet`) and action by action; it includes that `GetDatabase` never
  panics in a handler.
* `RegistrationReaches`: `DSpec => []RegisteredReaches`. The property is about a
  registered address only; `ReachInv` carries it from the start of the process: from
  `InitDatabase` on the settings are those of a database that answers
  (`OnceConnected`), from the checks of `main` on the address is not local
  (`OnceResolved`), and only the process that serves keeps a registration
  (`OneAlive`).
* `SendsAreWhole`: `DSpec => []WholeOrNothing`. `TxInv` adds where the transaction of the
  send stands: what it has done before each statement, that it is at its commit only with
  both tables there, and at its answer only with both effects committed.

The theorems use the assumptions on the constants stated in `ChatId`, `IMService`,
`Pagination`, `HttpGateway`, `Deployment`, `ThriftCodec` (`Nil` and `Error` are not data),
`RpcCall` (requests and responses have the types of the IDL, a request its message, a
response without an error code 0, `MaxNewer` is a number) and `HttpApi` (a page has its
list and `has_more`, and exactly if there is more a next cursor, which is not 0), which
TLC evaluates in the runs.

Hypotheses on `Clock` are about the senders' clocks, which the service takes on trust:
the runs `ties` and `stale_forward` show what happens without them. `OneAtATime` is about
the load; `stale_reverse` shows what happens without it.

Only model-checked: the liveness properties (`AllAnswered`, `SessionEnds`, `Up`). They rest
on fairness and on when actions are enabled, which are out of the prover's reach; so
does their safety side, that among handlers at work one always has a step to take.

## Plan

Done: all modules above, and theorems for every safety and action property of the
passing runs. What would come next are larger instances of the three liveness
properties: more handlers than connections by more than one above all.

## Not modelled

* The descriptors and the reflection of the protobuf types and the descriptors of the
  Thrift structs: data without behaviour of this program. Of the getters of
  `idl_http.pb.go` none is called.
* The Apache Thrift client and processor generated beside the Kitex stubs
  (idl_rpc.go:1639-1820): no caller.
* GORM, pgx, Kitex, Hertz: external, modelled where the code relies on them.
* Crashes of `http-server`, `db` and etcd: nothing restarts them.
* `/ping`, logging, the messages of errors, the build and test scripts,
  `GetTimeNow` (no caller).
