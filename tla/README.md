# A verification development for Smoothie

Smoothie (module `smoothie`, Go) is an IPTV proxy: it reads playlists and
HDHomeRun lineups of providers into a database, fans one upstream connection
out to all clients of a live channel, caches VOD files on disk while they are
played, and copies cached files into a media library. A provider allows few
connections at a time and a bounded byte rate, so most of the program is about
taking, sharing and giving back connections and files while clients, upstreams
and disks come and go.

This directory holds TLA+ modules of that logic, TLC configurations that check
them on small instances, and proofs, checked with TLAPS, of what should hold for
every instance. Paths such as `hub.go` are relative to the package directories
under `src/internal/`.

- [1. The system](#1-the-system)
- [2. Plan](#2-plan)
- [3. Modules and code](#3-modules-and-code)
- [4. Runs](#4-runs)
- [5. Fairness](#5-fairness)
- [6. Proofs](#6-proofs)
- [7. Where code and documents disagree](#7-where-code-and-documents-disagree)
- [8. What is not modelled](#8-what-is-not-modelled)

## 1. The system

| Component | State it keeps | Operations | Talks to |
|---|---|---|---|
| Slot pool, `ratelimit/pool.go` | a buffered channel of tokens; a counter `inUse` under a mutex | `Acquire`, `Lease.Release`, `InUse` | called by the stream manager |
| Byte limiter, `ratelimit/bytes.go` | tokens (a float), time of the last refill | `WaitN` | called by `rateLimitedBody.Read` for each VOD fill and range proxy |
| Live hub, `hub/hub.go` | `sess` and `creating` maps; per session a table of subscribers and a `done` channel; per subscriber a bounded channel | `Subscribe`, `Subscriber.Read`/`Close`, goroutines `pump` and `watch` | calls `open()` of the stream manager; is driven by the play handler |
| Stream manager, `stream/manager.go`, `range.go` | one pool for each source, made on first use | `OpenLive`, `OpenVOD`, `leasedBody.Close` | hub, cache, pools, upstream HTTP |
| VOD cache, `cache/cache.go`, `validate.go` | `objs` and `fills` maps; files in `purgatory/` and `cache/` | `Get`, `OpenOrFill`, the fill goroutine, `progressiveReader.Read`, `Reap`, `Promote` | file system; called by the stream manager and the library handlers |
| Source refresh, `source/iptv.go`, `hdhr.go`, `api/refresh_async.go` | the channels of a source (rows); the map of jobs under `jobsMu` | `RefreshSource`, `RefreshHDHR`, start and poll of a job | upstream HTTP, store |
| Store, `store/*.go` | SQLite through GORM | single statements; a unique index on source and remote key | all handlers |
| Playlist, `playlist/m3u.go` | none | `Parse`, `Write`, `RemoteKey` | refresh, export |
| Login and sessions, `api/auth.go`, `server.go`, `store/user.go` | the account (a row); sessions with their expiry (a map under a mutex) | `EnsureDefaultAdmin`, login, `requireAuth`, logout, change of password | store; around every handler but login, status, playlist and play |
| Setup, `api/server.go`, `library.go`, the page in `cmd/smoothie/main.go` | the flag `setup.completed`, library roots, sources (rows); the token and the card of the page | setup status, `finish()` with its requests, upsert of a root | store; the page calls the handlers |
| Emby, `api/library.go`, `emby/client.go` | two settings (rows) | `handleEmbyConfig`, the end of `handlePromote`, `Ping`, `RefreshLibrary` | store, an Emby server |
| Configuration, library layout | none | | |

Components interact in four ways: calls under a mutex (index lookups), calls
that block (an acquire, an upstream request, a wait for another's fill or
session), goroutines that outlive the call that started them (pump, watch, fill,
job), and files that are named in memory and renamed or removed on disk.

What is hard in this code, and what must hold in spite of it (every item is a
hazard of `PROJECT.json`, at its line):

- **Pool.** The channel and the counter are not updated together. They must agree
  with the calls behind them, no slot may leak, and every call must return.
- **Hub.** First clients race to create a session; sessions end while clients
  join, leave and wait; the subscriber's channel is closed by whoever comes
  first. One upstream for a key at most; no send on or second close of a closed
  channel, which would panic the process; no live session dropped by the late
  expiry of an old one; no client left waiting; a slow client delays nobody.
- **Streams.** A slot is taken before the request and given back by the body's
  `Close`, with error paths in between. A connection has a slot all along,
  a slot is given back once, and waits for slots, sessions and fills form no circle.
- **Cache.** Fills run without the mutex; objects are reaped, filled again and
  renamed under readers; a restart loses the index and keeps the files. One fill
  for a key; a validated object has a whole file where it says; readers and
  waiting calls come to an end.
- **Ranges, limiter, reaper.** Arithmetic at edges: suffixes longer than a file,
  rounding of waits, an idle body's burst, running fills counted in a budget.
- **Refresh.** Delete and inserts are separate statements; portals, inserts and
  the process fail in between; duplicates meet a unique index; refreshes overlap.
- **Promotion.** A copy by name of a file that may be reaped, into a name that
  another promotion may be writing.
- **Catalog.** Exported URLs outlive the rows that they name; a play reads a row and
  uses it later; hub and cache hold what an earlier row was played for.
- **Accounts.** Two programs boot on one empty database; handlers run after the
  session check has let go of its mutex; sessions end in three ways.
- **Setup.** A page runs flows of requests that overlap and fail half-way, with a
  token that may have ended; roots are listed and then written.
- **Emby.** Two settings written by two statements and read by two.
- **Playlists.** Pairs of lines out of a text that may break off in the middle of one.

## 2. Plan

The order is by importance of the behaviour, and each module rests on those
before it.

| Step | Modules | State |
|---|---|---|
| 1 | `Slots` (abstract), `Pool`: the slots, refinement proved | done |
| 2 | `Hub`, `HubProps`: the hub alone, invariants proved | done |
| 3 | `LiveStream`: hub and pools composed, refines `Hub`, proved | done |
| 4 | `CacheLife` (abstract), `Cache`, `CacheProps`: refinement and invariants proved | done |
| 5 | `VodStream`: cache and slots composed, refines `Cache`, proved | done |
| 6 | `ByteRange`, `ByteLimiter`, `Reaper`: algorithms, proved | done |
| 7 | `Refresh`, `Promote`: proved of those that do not overlap | done |
| 8 | `Sessions` (abstract), `Accounts`: refines `Sessions`, proved | done |
| 9 | `Setup`: the page, the handlers it calls, and `Sessions` composed; proved | done |
| 10 | `SourceStreams`: `LiveStream` and `VodStream` on the pool of one source; proved | done |
| 11 | `Catalog`, `Playlist`, `EmbyLink`, proved; `RefreshJob`, whose property is liveness | done |

Abstract specifications: `Slots` (what a pool promises), `CacheLife` (the life of
an object), `Sessions` (what a login promises), and `Hub` and `Cache` themselves,
which the composed modules implement.

## 3. Modules and code

Each definition that stands for code is listed with its lines in `PROJECT.json`
under `map`. An action is one critical section of a mutex, one system call or SQL
statement, or one step between two of those; where the code does two things
without leaving a critical section, the action does both. Definitions commented
`Mutant:` are faulty variants used to see that a property can fail; no
specification uses them.

**`Slots`, `Pool`.** `sem` is the number of tokens in `p.sem`, `inUse` the counter.
`Acquire` is `AcquireSend`, then `AcquireCount`; or `AcquireDone`. `Release` is
`ReleaseCount`, then `ReleaseRecv`, with the guards the code has against an empty
channel and a zero count. `Slots` has the set of holders only; the mapping takes
whoever is between send and receive.

**`Hub`, `HubProps`.** A client is one call of `Subscribe` with the handler behind
it, and a session is named by its creator. `Join`, `Wait`, `Create` are the three
ways through the critical section at the top of the loop, each with the dropping
of an ended session that `liveSession` does on the way; `Wake` and
`WaitCancelled` are the `select`; `OpenOk`, `OpenFail`, `Register` the creator's
part. The pump is `PumpRead`/`PumpReadLast`, `PumpSend`, and its deferred steps in
their order: `PumpDrain`, `PumpClose`, `PumpSignal`, and after the grace period
`PumpExpire`. `WatchCancel`/`WatchDone` are the goroutine of `watch`. Chunks are
counted, not carried.

**`LiveStream`** unfolds `open()`: `TakeSlot`/`SlotCancelled` (`pool.Acquire` with the
client's context), `HttpOk`/`HttpError`, `FailOpen`, and `CloseLeased`, which is the
pump's `Close` of a body with its lease. `PoolFor` makes a source's pool on first
use, with whatever limit the source has then. A pool is used as `Slots` describes.

**`CacheLife`, `Cache`, `CacheProps`.** A call is one `OpenOrFill` with the reader it
returns; a fill is named by its call. A file is how many chunks it has and who
wrote it. `Hit`/`OpenHit` separate the lookup from the open; `WaitFill`/`WaitDone`
are the wait for another's fill, after which the call starts over without its
source; `StartFill`, `CreateFile`, `Copy`, `CopyEnd`, `Validate`, `Rename`, `MarkValidated`,
`MarkCorrupt`, `CloseSource`, `FinishFill` are the fill, each outside or inside the
mutex as in `runFill`; `ReadData` to `LastAttempt` are `progressiveReader.Read`,
which opens the file by name each time. Validation gives either verdict on a file
of the right size, and refuses one of another size. `Reap` removes any object that
is not being filled, at any time: the model does not rely on ages or sizes.
`Restart` forgets the index and keeps the files.

**`VodStream`** is `OpenVOD`: cached file, or slot, request, and then the range proxy
or `OpenOrFill` with the leased body, whose `Close` (`CloseLeased`) is called by the
fill, and by `FillFails` when `OpenOrFill` returns an error.

**`ByteRange`** is `parseRangeHeader` and `openFileRange` as operators: a header is
the form found in it and its numbers. **`ByteLimiter`** is `WaitN` and the read around
it, in integer tokens of 1/Hz byte with a discrete clock: `Read`, then `Grant` or
`Nap` and `Wake`, and `Transfer`. **`Reaper`** is one call of
`Reap` on any index.

**`Refresh`.** A refresher is one call of `RefreshSource` or `RefreshHDHR` with the
handler or job around it: `Begin`, `DiscoverOk`, `FetchOk`, `Delete`, `Queue`/`Skip` for each
entry, `Flush` for each batch, `Finish`; and an error at each of them, which goes to
the next portal or to the caller. Each statement is atomic and nothing else is.

**`Promote`** works on names, inodes and offsets: `Create` truncates whatever inode has
the name, `CopyChunk` writes at the promoter's own offset, `Validate` looks at the
name again. Reaping, filling and restarts happen at any time.

**`SourceStreams`** extends `LiveStream` and instantiates `VodStream`, whose own pool
is large enough never to matter (`Enough`); `SlotsLeft` is the shared pool, in the guard of
whatever step takes a slot, and `PoolForPlay` lets a play be the pool's first use. `Lost`
are the slots of plays that `OpenOrFill` served from the cache or from another's fill
(section 7), which nothing gives back.

**`RefreshJob`.** `Start` is the handler up to its `go`, `Answer` the encoding of the 202
answer, which reads the job without `jobsMu` (what it says may be torn and is not
modelled: its client needs the identifier, which nobody writes). `Refresh`, `Lock`,
`WriteError` or `WriteTotals` are the goroutine, from `Lock` on under the mutex; `Poll` is a
poll and `Restart` the end of the process.

**`Catalog`.** The rows of a source with their identifiers, which `CreateChannel`
draws; `Export` and `Ask` are the playlist and a play of one of its URLs; `GetChannel`
is the look at the row, and `Join` or `Fetch` what hub or cache do with it later.
`DeleteChannels` and `CreateChannel` come in any order, so that the order of a
refresh, which is `Refresh`'s, is not relied on.

**`Playlist`** reads one text, line by line: `SkipLine`, `Extinf`, `Url`, `StrayUrl`. A line is
the features that the code tells apart, listed at the head of the module. `Scan` hands
over a whole line, or, when the reader fails in the middle of one, what has arrived of
it (`Cuts`): `bufio.ScanLines` returns that as the last line, and `Parse` treats it as any
other before it asks `sc.Err()`. `HandlerFails`, `ScanFails` and `ParseReturns` are the three
ways out. `ClassifyKind` is the refresh's classification.

**`Sessions`, `Accounts`.** `CountUsers`, `CreateAdmin`, `CreateAdminFails` are
`EnsureDefaultAdmin` in each program that opens the database. `Login` and `Issue` are
the two halves of the login, `Authorise` and `DropExpired` what `requireAuth` does under
the mutex, `Logout`, `ChangePassword`, `Serve` the handlers behind it. Tokens are
random and so are never drawn twice. In the mapping to `Sessions` a session is valid
while it is in the map and has not expired.

**`Setup`.** A flow is one run of an asynchronous function of the page: `refresh()`
(`GetStatus`, `Show`), the login (`PostLogin`, `StoreToken`), the logout (`PostLogout`,
`ClearToken`), or `finish()`, whose requests are the `Steps` of the form that was on the page when
its button was pressed. Each request happens with its handler in one step, but for
the upsert of a root (`ListRoots`; `SaveRoot`, `CreateRoot` or `CreateRootFails`). `sources` are
the kinds of source, IPTV and device, that have a row, and `passwordSet` says that a
`finish()` has set the password. `saved` is a history variable: what the server has stored
for each press of the button. The sessions of the server are an instance of `Sessions`.

**`EmbyLink`.** `SaveUrl`, `SaveKey`, `SaveFails`, `Ping` are the configuration; `BeginPromote`,
`CopyFile`, `CopyFileFails` a promotion up to its copy, and `ReadUrl`, `ReadKey`,
`Refresh`, `RefreshFails` what follows it. A server of Emby takes the key that has its
name.

## 4. Runs

All the runs together take about thirteen minutes on two workers. `expect: violation` runs are
in section 7.

Four runs check several small modules at once: `ratelimit`, `library`, `channels`,
`accounts`. Their MC modules have a variable `part`, chosen at the start, and let only
the chosen part take steps. The state spaces add up and do not multiply, and each
part is checked on exactly the behaviours of its own module: nothing of the code
connects the parts of one run but what their modules already contain.

| Run | Instance | Shows |
|---|---|---|
| `ratelimit` | pool: 3 callers, limit 2. Limiter: 3 bytes a second, 5 ticks a second, 10 ticks | `CountsAgree` between any two steps of any calls; `AcquireReturns`: a call returns if leases are released or its own context ends; `ImplementsSlots`. `BurstWithinSecond`, `SleepsAtMostTwice` |
| `hub` | 2 clients, 1 key, buffer of 1 | `OneUpstreamPerKey`, `SubscribersAreOpen`, `LiveSessionsStay`; `SubscribeReturns` if the upstream answers; `PumpNeverStalls` and `EndIsCleanedUp` without any help of upstream or clients |
| `live` | 2 clients, 2 keys of one source, limit 1 or unset (which is 2) | `LeaseCoversConnection`, `ImplementsHub` |
| `source_streams` | 1 channel, 1 file; 2 clients and 2 plays on 1 slot, or 1 client and 2 plays on 2 slots | `ProviderSharedLimit`, `OnlyLostSlotsStarve` |
| `cache` | 2 calls, 1 key, files of 2 chunks, 1 restart | `FillOwnsItsFile`, `ValidatedIsWhole`, `HitInCacheIsWhole`, `ImplementsCacheLife`, `OpenOrFillReturns`, `ReadersReachEnd` |
| `vod` | 2 plays of 1 file, 2 slots, with or without ranges | `ConnectionHasSlot`, `OnlyJoinersKeepSlots`, `ImplementsCache`; and `RangesAreExact` for all headers with numbers -1 to 6 on files of 1 to 5 bytes |
| `library` | reaper: every index of 3 objects, sizes to 2, ages to 3. Promotions: 1 at a time, of 2 objects of 2 and 3 chunks, to one name. Emby: 2 calls, 2 servers | `FitsOrOnlyFills`, `LeastRecentlyUsedFirst`. `PromotedIsWhole`. `RefreshedMeansScanned` |
| `channels` | refresh: 1 at a time, 3 keys, lists of up to 3, batches of 2, 2 portals. Overlapping refreshes: 2, with 2 keys, lists of up to 1, batches of 1, 2 portals. Jobs: 2, 1 restart. Playlists: every text of up to 4 lines, out of 7, whole or cut anywhere. Catalog: 2 channels, 3 identifiers, 1 play | `DoneMeansReplaced`, `OneListAtATime`, `PlaylistNeverCollides`. `OverlappingRefreshesEnd`. `JobsAreHeardOf`. `EntriesAreListed`. `UrlMeansOneChannel` |
| `accounts` | accounts: 2 calls, 2 programs, 2 tokens of lifetime 1, 4 instants. Setup: 2 flows, 3 forms (all steps, two, and a blank source), 2 tokens, 1 fault | `ChangedPasswordStays`, `ImplementsSessions`. `FinishedMeansConfigured`, `RetryCompletes` |

The MC modules of `library`, `channels` and `accounts` extend the modules of their
parts, as the proof modules do, but for `RefreshJob` and a second, smaller instance of
`Refresh` (with `RefreshEnds` as `OverlappingRefreshesEnd`), whose two refreshes overlap.

Most modules also state a `TypeOK`. Those of `Pool`, `Hub`, `ByteLimiter`, `Cache` and
`Refresh` are part of inductive invariants and proved, and the other proofs use what
they need of theirs; no run repeats them.

Why the bounds are enough to be of interest:

- Three callers on two slots is the least with a caller that waits while two
  leases are out and one is being given back. Ten ticks are two seconds of the
  limiter: an idle second, whose tokens are capped, and the one after it.
- Two clients of one key make each pair of roles that meet in the hub: creator and
  waiter, creator and late joiner, first session and its successor, `Close` by
  handler, watch and drain. A buffer of one is full after one chunk. The proofs
  of section 6 cover any number of clients and keys and any buffer.
- Two channels on one slot is the least where one client waits for a slot that
  the other's session holds. `LiveStreamProofs` covers any number.
- In `source_streams` one slot is shared by two clients, one of which waits behind the
  other's `open()`, and two plays, the fewest with which a slot can be lost; with two
  slots one client and two plays, so that one slot may be lost and the other must keep
  all going, and a play may hold a slot while it waits for the other's fill. What does
  not move slots is left out by named bounds of `MCSourceStreams`: streams end before
  their first chunk (`NoChunks`), no client reads or goes away (`NobodyReads`), a copy is
  whole or breaks off at once and no disk fails (`CopiedOrBroken`), nothing is reaped
  (`NoReaps`), and of two that are alike the first comes first (`InTurn`); `Party` says who
  comes. None of them keeps a fair action from happening. What they leave out is in
  `hub`, `live` and `vod`, and the proof of the limit has any number of clients, plays,
  sources and slots, and all the steps.
- Two calls give a filler and a waiter or a hit, and each may become the next
  filler; files of two chunks can be read and cut in the middle; one restart
  leaves files of a fill that nobody remembers. One key is enough, as keys
  share nothing but the mutex. `VodStream` has two slots, so that a play can bring
  a body to a fill that another began; contention for slots is what `ratelimit`,
  `live` and `source_streams` check. `CacheProofs` and `VodStreamProofs` cover any number of
  calls, keys, chunks, restarts and slots.
- The number and size ranges of ranges and reaper are the files' edges and one step
  past them. Two objects of unequal length show a file that is longer than the last
  that was copied into it. Two calls and two servers make a configuration between
  the two reads of a promotion, and a pair that mixes the two servers.
  `LibraryProofs` has every index, any lengths, any calls and servers.
- The lists of the refresh repeat an entry within a batch and across batches, and fill
  one batch exactly or two in part. Two refreshes that overlap are enough for one to
  delete or insert between any two steps of the other. Two jobs share the mutex; a
  third would be like the second. Four lines hold two entries, or one with lines
  between and around it; the seven lines are three `#EXTINF` (a name without and with
  commas, and none; a hint in the group, none, and one with 24/7), three URLs (a
  marker, a media extension, neither) and one line that is skipped; any of them may
  arrive in part. Three identifiers are two lists of a channel and one more: a channel
  replaced while a play of its old URL is under way. `ChannelsProofs` covers any
  number of each, any batch size, and any playlist.
- Two calls on the accounts put any handler between the check and the handler of
  another; time runs past two lifetimes, so that a session of either token can
  expire under a call. `AccountsProofs` covers any number of each. Two flows of the
  page are the least for two `finish()` that race for a root, or a logout under one;
  a fault is a restart, an expiry, a failed request or a reload, at any point.

Named bounds: `MaxRestarts`, `MaxList`, `MaxLines`, `MaxRead`, `MaxTime`, `MaxFaults`, `Tokens`,
`PageTokens`, `Ids`, `Size`, `MaxSize`, `MaxAge`. Each is in the guard of an action or in a
set of inputs, never in a property.

`CHECK_DEADLOCK FALSE` stands in the configurations where the system may come to
rest: each client, call, job or algorithm of those modules runs once, and tokens,
identifiers and instants are bounded. In `ratelimit` the callers come again and
again, and the observer of the limiter never ends: deadlock is checked there.

## 5. Fairness

- A goroutine that can take its next step takes it (weak fairness of the pool's,
  hub's, cache's and refresh's own steps): the critical sections are short and
  never block, the two mutexes of the hub are never taken in the opposite order,
  and file operations return.
- A sender that waits on the pool's channel is in a FIFO queue of the Go runtime,
  so it is served if slots keep coming free: strong fairness of `AcquireSend`, and
  of `TakeSlot` in `SourceStreams`, which stands for it.
- Nothing is assumed of clients: neither that they read nor that they leave. The
  exception is the specification of the run `hub_eof`, which grants every fairness
  that could help, to show that it does not.
- The live request has no timeout (`manager.go:88`), so that the upstream answers
  is not fair by itself. `SubscribeReturns` states it as a premise, `BothFairness`
  has it for `Http`, and `StreamsEnd` of `MCSourceStreams` adds that streams end;
  `PumpNeverStalls` and `EndIsCleanedUp` do without.
- Sources of fills end (`CopyEnd` in `FairSpec` of `Cache`), with an error if need be: the
  fill's request carries the context of its play.
- A refresh's steps are fair: its HTTP client has a timeout and the database a
  busy timeout.
- In `SourceStreams`, the steps of goroutines, of the upstream and of `TakeSlot` as
  above, and of a proxied play that is read to its end: it keeps its slot until its
  handler closes it. Each fairness is of one goroutine, whose steps exclude each other.
  Weak fairness of the ends of streams is enough there, as no chunk comes in between.
- The steps and polls of a job are strongly fair (`RefreshJob`): a goroutine that asks
  for a mutex gets it among others that come and go, and a client polls on.
- Requests of the page are answered, and its user presses the buttons that are
  shown again and again (`Setup`), with a URL in the form in the end. Nobody reloads
  the page or restarts the server to help. In `MCAccounts` this fairness is assumed of
  the behaviours whose part is the setup.

## 6. Proofs

Each theorem is checked by TLAPS to the last leaf. The constants are arbitrary
within the assumptions named in the modules. Every safety invariant and every action
property that a passing run checks is a theorem, and so is every refinement.

| Module | Theorem | Rests on |
|---|---|---|
| `RateLimitProofs` | `PoolInvariant` (`TypeOK`, `CountsAgree`), `PoolWithinMax`, `PoolLeaksNothing`, `PoolImplementsSlots` | `PoolAssumption`: finitely many callers, an integer limit |
| | `LimiterTypeOK`, `LimiterAverageWithinRate`, `LimiterBurstWithinSecond`, `LimiterSleepsAtMostTwice` | `LimiterAssumption`: positive rate, clock, slice and shortest sleep |
| `HubProofs` | `HubTypeOK`, `HubSingleFlight`, `HubOneUpstreamPerKey`, `HubSubscribersAreOpen`, `HubLiveSessionsStay` | `HubAssumption`: `None` is no client, a buffer of at least one |
| `LiveStreamProofs` | `LiveImplementsHub`, `LiveLeaseCoversConnection` | `HubAssumption`; `LiveAssumption`: finitely many clients, each key has a source, limits are natural numbers |
| | `BothKeepProviderLimit` | these, and `SourceAssumption`: the provider is a source, finitely many plays, `None` is no play, file or object |
| `CacheProofs` | `CacheTypeOK`, `CacheFillOwnsItsFile`, `CacheValidatedIsWhole`, `CacheHitInCacheIsWhole`, `CacheImplementsCacheLife` | `CacheAssumption`: `None` is no call, file or object, files have a chunk, finitely many restarts |
| `VodStreamProofs` | `VodImplementsCache`, `VodConnectionHasSlot`, `VodOnlyJoinersKeepSlots`, `VodRangesAreExact` | `CacheAssumption`; `VodAssumption`: at least one slot; `RangeAssumption` |
| | `ByteRangeServesWhatIsAsked` | `RangeAssumption`: integers, files of at least one byte |
| `LibraryProofs` | `ReaperFillsSurvive`, `ReaperLeastRecentlyUsedFirst`, `ReaperFitsOrOnlyFills` | `ReaperAssumption`: finitely many keys, natural bounds |
| | `PromotionsAreWhole` | `PromoteAssumption`: titles of at least one chunk; one promoter |
| | `EmbyRefreshedMeansScanned` | nothing |
| `ChannelsProofs` | `RefreshTypeOK` | `RefreshAssumption`: finitely many refreshers and keys, at least one portal, batches of at least one |
| | `RefreshDoneMeansReplaced`, `RefreshOneListAtATime`, `RefreshPlaylistNeverCollides` | the same, and `Alone` |
| | `CatalogUrlMeansOneChannel` | nothing |
| | `PlaylistEntriesAreListed` | `PlaylistAssumption`: a natural bound, whole lines have whole URLs, and `Nothing` is no parsed `#EXTINF` and no result |
| `AccountsProofs` | `AccountsChangedPasswordStays`, `AccountsImplementSessions` | `AccountsAssumption`: one of the programs serves, `None` is neither password nor token, natural times |
| | `SetupFinishedMeansConfigured` | `SetupAssumption`: forms ask for steps of `finish()` |

**Pool.** `TypeOK /\ CountsAgree` is inductive: `sem` counts the calls from send to
receive, `inUse` those from count to un-count. It follows that the two defensive
branches of `Release` are never taken, so that a token is received for each one
sent, which is the refinement step.

**Hub.** `OneUpstreamPerKey` is not inductive. An upstream is open for a creator
whose `open()` has returned and for a session up to its `Close`; that these never
meet needs that a key has a creator or a session but not both, and that a session
stays in the map until it is done. `SessionLife` says so, `SingleFlight` ties the
`creating` map to the clients inside `open()`, and `SubscriberLife` ties the tables to
the clients. The conjunction with `TypeOK` is inductive. `LiveSessionsStay` follows
step by step: the only step that removes a session without looking whether it is
done is `PumpExpire`, and there the session is in its grace and hence done.

**Ranges.** Parsing a header of each form yields an interval of the file's bytes
that is what was asked for, or refuses when nothing was (`ParseExact`); opening an
interval takes all of it (`OpenExact`).

**Limiter.** The invariant says that what has been moved, granted and is left in the
bucket has been earned since the start (`Earned`), and since any mark, up to a
second's worth and a slice (`BurstEarned`); and that a call that has slept once has
earned enough by the time its timer fires that a second sleep is its last
(`SleepPays`).

**Reaper.** Removing a set of objects that are at least as old as every reapable one
that stays keeps the order; both passes remove such sets. `FitsOrOnlyFills` is about a
sum over the index, of which nothing needs to be known: `Return` compares it with the
budget, and between that and the end the index does not change.

**Live streams.** `LiveNextIsHubNext` maps each step to one of the hub or to a stutter,
without any invariant. For the leases, where a client in `open()` is and where the
hub has it are two pieces of state: `PhaseOfOpening` ties them together. The hub's
`SessionLife` then says that a client that gives its slot back after an error has no
body open, and that a pump which closes a body does so for a client past `open()`;
without them a release could be of a connection that is still open. The refinement
carries the hub's invariant over.

**Shared limit.** Two compositions on one pool: the lives and the plays are separately
inductive, and each step of a play is one of `VodStream` over slots that never run out.
`Used` counts both kinds of lease. A step adds one lease at most, and then `SlotsLeft`
has looked; no step shrinks a pool, and `PoolForPlay` makes one where the first play
finds none. The invariants of the parts are needed because `Used` is a sum of
cardinalities: only with the types of both is it a number.

**Cache.** `ValidatedIsWhole` is about an object and its file, and neither is protected
while a fill runs. Four conjuncts say who may touch what. `FillsAreActive`: the fill
that `c.fills` names is the only one under its key. `UnmarkedIsFilling` and
`FillingIsUnmarked`: an object is being filled exactly while such a fill has not marked
it, so that nothing reaps or serves it meanwhile. `WritesOwnFile`: the file under the
name in `purgatory/` is the fill's own from its creation to its renaming, although every
other step opens files by name. `HasValidated` carries the verdict of validation, which
is reached outside the mutex, over the rename to the mark. With them `CachedIsWhole` is
inductive, and a hit in `cache/` is whole although it is opened after the mutex was
released: what is under `cache/` is only ever replaced by something that is whole.
`CacheImplementsCacheLife` takes the steps one by one: most leave the state of every
object alone, and the first of a fill, its mark, reaping and restarts are the steps of
the abstract life.

**VOD streams.** `VodNextIsCacheNext` maps each step to one of the cache or a stutter
and carries the cache's invariant over. A slot passes from the play that took it to the
fill it began, which closes the body when the play may long be gone. `HeldWhileOpen` and
`ClosedIsFree` say at which places of the two a slot is held, `FillAfterFetch` and
`ReaderHasFill` tie the two places together. That only joiners keep slots is what is
left when all other places are ruled out, so that the leak of `vod_leak` is the only
one.

**Refresh.** Nothing in the code keeps two refreshes of a source apart, and two that
overlap break `DoneMeansReplaced` and `OneListAtATime` (section 7). The theorems about
what one refresh achieves therefore have `Alone` as a hypothesis on the behaviour: no
two calls are under way in one state. It is not one on the constants: any number of
calls follow each other, on any rows that earlier ones have left where they failed, and
a run with one refresher satisfies it. `Progress` is the loop invariant: the keys stored
and those in the batch are those of the entries read, the counter counts both, and every
row is of this list. That no insert collides follows from the set `seen` being exactly
that union. `RefreshTypeOK`, which bounds counter and batch, needs no hypothesis.

**Promotions.** They overlap as refreshes do, and `PromotionsAreWhole` is about a single
promoter, again and again, among reaping, filling, disk errors and restarts. `CopySoFar`
says that from the truncation to the look at the name, the inode under that name is the
promoter's and holds the chunks copied so far of the one object. Without it a longer
file from an earlier promotion could show through behind the last chunk.

**Emby.** `ScansLibrary` says that a server has scanned nothing but promoted files, and
that a call past its copy has its file in the library; then the refresh that answers
finds it there, whatever configuration the two reads saw.

**Playlist.** The first part of `EntriesAreListed`, `PairsInOrder`, says of the lines handed
over so far, the last of which may be cut, that there are as many entries as URLs owned
by an `#EXTINF`, each at the place of its URL. `PendingIsLast` adds what the parser
remembers: the entry pending is that of the one line that would own a URL now. A URL
then adds one to the owned URLs, at the last place, so that the places of the others
stay. `CutIsLast` is for the second part, `CutMeansError`: half a URL is in the last entry,
and only once the reader has failed; after that no line comes, and `ParseReturns` is
barred, so that a caller who hears of success has whole URLs.

**Catalog.** That an answer is right is not inductive: it depends on what is held
under the row's identifier, which was stored by an earlier play of an earlier row.
`OneRowPerId` says that rows and exported URLs never disagree on an identifier, which
holds because a new one is drawn for each row; `HeldIsAsExported` that what is held is
what some URL with that identifier was exported for; `PlaysKnowTheirRow` that a play
between its look at the row and its fetch has the row of its URL, deleted or not.

**Accounts.** `Drawn` says that each session is under a token that was drawn. With it,
every step but `Issue` can only shrink the set of valid tokens (`EndingImplements`), and
`Issue` enters a token that was never valid. That a changed password stays is inductive
by itself: the default is only stored where there is no row.

**Setup.** `StoredUpTo` says that a `finish()` that has come to a step has itself stored,
since its button was pressed (`saved`), all that its form asked for before it; `CameTo`
includes the moment between the two requests of a root's upsert. That what was stored is
also in place is a second part: other flows can put another path in the place of a root
and cannot take the root away, and nothing on the page removes a source. A fault ends a
`finish()` or leaves it where it is, so that the conjunction is inductive.

Only model-checked, because TLAPS has neither liveness under fairness nor `ENABLED`:
`AcquireReturns`, `SubscribeReturns`, `PumpNeverStalls`, `EndIsCleanedUp`, `OnlyLostSlotsStarve`,
`OpenOrFillReturns`, `ReadersReachEnd`, `OverlappingRefreshesEnd`, `RetryCompletes`, and with `JobsAreHeardOf`
all that `RefreshJob` is checked for. What refreshes or promotions that overlap do is no
theorem, as it is not so.

## 7. Where code and documents disagree

Three have a run that shows them.

- **`hub_eof`**: `hub_test.go:53,61` has every client read to the end of the stream.
  The pump empties the table (`hub.go:162-167`), closes the body, and only then
  signals `done`; a client that joins in between is in a table nobody will drain
  again, and its read never returns. The end of its own context does not help: once
  `done` is closed the watch goroutine leaves by it (`hub.go:155`), and `Close` does not
  close the channel of a session that is done (`hub.go:224-228`). The goroutine of the
  handler is leaked for good.
- **`cache_end`**: `cache.go:356` and `store_test.go:43-44` have a progressive reader
  give the whole payload. A fill renames its file before it signals its end. A
  reader that opens the old name after the rename and sees the end when it looks
  for it returns EOF without a try at the new name (`cache.go:376-380`).
- **`vod_leak`**: `pool.go:28` asks for a `Release` of each lease. `OpenVOD` hands its
  body to `OpenOrFill` and closes it only on an error; a call that `OpenOrFill` serves
  from an object another call has filled meanwhile never closes its body, and the
  slot stays taken. `OnlyJoinersKeepSlots` shows that this is the only way to lose one.
  Lives take their slots from the same pool: once all slots of a source are lost, a
  live client of it waits for ever, too, and so does whoever waits behind its `open()`.
  `OnlyLostSlotsStarve` shows that nothing else has that effect.

These were met while modelling and no run is kept for them. Most
are behaviours of the models.

- A playlist that breaks off in the middle of a URL has that half handed to the handler
  before the error is returned (`m3u.go:46-52`, `69-77`): the refresh may store a channel
  with it, and reports the failure. `CutMeansError` shows that success is never reported.
- A pool keeps the capacity of its first use (`manager.go:57`): a limit that the settings or
  an HDHomeRun refresh store later has no effect until the program starts again.
  `LeaseCoversConnection` compares with the capacity that the pool has.
- Two refreshes of a source that overlap: one deletes after the other has inserted,
  and the other reports success over rows that are not its own. `DoneMeansReplaced`
  and `OneListAtATime` hold of one refresh at a time and fail with two `Refreshers`.
  That each of them ends holds of two.
- Two promotions to one name that overlap write one inode, and both report success
  over a file that mixes two objects: `PromotedIsWhole` fails with two `Promoters`.
- `OpenOrFill` of a call that brought a source and waited for a fill that failed
  answers "miss and no source" (`cache.go:129-135`), where `cache.go:96` asks for a
  source only.
- A fill that renames its file before its own caller's first look leaves that
  caller with an error after half a second of polling (`cache.go:162,363-371`).
- A hit on an object that stayed in purgatory because its rename failed
  (`cache.go:229-234`) may open the file of the next fill, truncated: `HitInCacheIsWhole`
  is for that reason about `cache/` only.
- `ActiveSessions` (`hub.go:235`, "live fan-out keys") counts ended sessions during
  their grace period.
- A promotion that fails half-way removes the destination (`cache.go:282`), also when
  an earlier promotion had left a good file there.
- The page shows the wizard to whoever has a token in `localStorage`, valid or not, as
  long as the setup is not complete (`main.go:172`); a status that was asked for
  before `complete` and arrives after it shows the wizard again (`main.go:168`).
- A second `finish()` after one that stopped late creates its source a second time
  (`main.go:244`): roots are looked up first, sources are not.
- Two configurations of Emby that overlap leave the address of one and the key of the
  other, and the errors of both statements are dropped (`library.go:111`).
- Expired sessions stay in the map until somebody comes with their token
  (`auth.go:30`).
- A display name (`m3u.go:81`, "attrs...,Display Name") is what follows the last comma
  (`m3u.go:85`), so that a title with a comma loses its first part.
- A source that is created with `enabled` false is stored as enabled: GORM leaves a zero
  value to the column's default (`server.go:209`, `models.go:24`).
- A live URL that has, say, `.mov` anywhere in it is played through the cache
  (`channels.go:113`, `channels.go:169`), while the refresh looks at the end of its path.
- Nothing in `cmd/` or `api/` calls `Reap`, nobody sets `Pin`, and a play that is served
  through `OpenVOD` does not touch `LastAccess`: in the running program neither budget
  nor TTL is enforced. `docs/LAB.md:24` has duplicate rows skipped within a refresh; a
  device's lineup has no such step, and a duplicate there fails each refresh after
  the delete.

## 8. What is not modelled

- **What `Write` makes of the channels, header splitting, `LibraryPath`, configuration.**
  Text in, text out, without state; the unit tests are the right tool. `Export` in
  `Catalog` is what a written playlist means: an identifier and the channel it is of.
- **The second classification of a URL** in `handlePlay` (`channels.go:169`), a
  substring search that decides between hub and cache. Both ways are modelled, each
  for whatever is sent to it.
- **What the 202 answer says** while its job is being written: torn strings have no
  counterpart in the model, and no client uses them.
- **The content of channels** beyond identifier and remote key, and filters and pages
  of the lists that read them.
- **Content types, status codes, routing of static files, flags of
  `smoothie-lab-ingest`.** No state.
- **`MediaFolders` and `RefreshItem` of the Emby client**: the first only reads, the
  second has no caller.
- **The growth of the maps** of jobs and of sessions, which is unbounded in the code.
- **Tests, deployment, web tests.** Not part of the program.
- Data races on memory: `cp := *o` at `cache.go:166` reads an object outside the
  mutex; its result is not used in a way the models tell apart.
