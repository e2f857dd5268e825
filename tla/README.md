# Verification of utraque

`utraque` is a local proxy: Claude Code speaks the Anthropic Messages API to it,
and each request goes to one of three legs: Anthropic (relayed), DeepSeek
(rewritten) or the Codex backend (translated to OpenAI's Responses API and back).
This directory holds TLA+ modules that model the parts of the program whose
correctness depends on order, concurrency, failure or a long history, TLC
configurations that check them on small instances, and TLAPS proofs of what
matters most.

Paths below are relative to `src/`, or to `src/internal/` where they name a file of
a package.

## 1. Inventory

### Components, their state and their operations

| Component | State | Operations | Hard behaviour | Module |
|---|---|---|---|---|
| Idle timer (`idle`) | `last`, `inflight`, `started`, `stopped`, `fired`, a runtime timer | `Start`, `Hold`/release, `expire`, `Stop` | expiry racing a hold; a re-arm forgotten | IdleDrain, Daemon |
| Server (`server`) | listeners, in-flight handlers | `withActivity`, `ServeAll`, `DrainAll`, recovery, access log | a request in the gap between expiry and exit; grace running out; a panic after the first byte | IdleDrain, Exchange |
| Daemon (`cmd/utraque`) | contexts, wiring, Codex version probe | `run`, the dispatcher, the alias loader | order of start and exit; rendering an error once | IdleDrain, Exchange, CodexCatalog, ModelRouting |
| launchd (`launchd`) | the listening socket | activation | outlives the process | IdleDrain |
| Codex credentials (`codex/auth`) | cache with file fingerprint, set of rejected tokens and its generation, a singleflight, `auth.json`, `auth.json.lock` | `Get`, `Invalidate`, `Peek`, `load`, `refreshUnderLock`, `adoptFromDisk` | three writers (requests, loads, the Codex CLI); single-use refresh tokens; crash between grant and rename | CodexAuth, Daemon |
| Responses client (`codex/responses`) | the stream body and its cancel function | `StreamResponseWithRefresh`, `streamBody.Read/Close`, error classification | one retry on 401; Close concurrent with Read, different on HTTP/1 and HTTP/2 | CodexAuth, Exchange |
| Stream translator (`translate/stream`) | blocks by `output_index`, FIFO order, the active block, terminus | `Run` and its handlers; `Sink` calls | interleaved items, write failures, idle and heartbeat timers, truncated streams | StreamTranslator, SinkProtocol |
| Aggregator (`translate/stream/aggregator.go`) | the message being built | the `Sink` methods | receiving side of the same protocol; never a partial message | Exchange |
| Codex leg (`codex/leg`) | a lazily committed response | `Messages`, `serveStream`, `serveAggregate`, the token count beside them | status line versus mid-stream failure | Exchange |
| Codex catalog (`codex/catalog`) | memory entry, disk copy, revalidation flag, last probed CLI version | `Models`, `revalidateAsync`, `fetch`, `ensureDiskLoaded`, `ClientVersion` | stale-while-revalidate, ETags across client versions, an upgrade during a fetch | CodexCatalog |
| Transports (`transport`) | `flipped` | `RoundTrip`, `ReportGate`, `Kind` | one-way fallback under concurrency | Exchange |
| Relay (`relay`) | idle guard | copy loop, `UpstreamIdleGuard` | a timer racing a late read | Exchange |
| Anthropic leg (`anthropic`) | the picker's model list | `forward`, `Sanitize`, `Catalog.Models` | signatures that are not Anthropic's; fetches of several logins overlapping | Exchange, Conversation, AnthropicCatalog |
| DeepSeek leg (`deepseek`) | none | `rewriteRequest`, the frame checks of an answer | hoisted tool changes; a stream without a terminal event | Exchange, Conversation, ToolChanges |
| Request translation (`translate/request`, `synthetic`, `effort`) | none | `Translate` | replayed reasoning and prompt-cache prefix over a whole conversation | Conversation, ToolChanges, Effort |
| Router, discovery (`router`, `discovery`) | tiers of routes | `Resolve`, `LoadCatalog`, `SetPickerRoutes`, `Models` | last writer wins on the picker tier; names shown earlier | ModelRouting, Effort |
| Provider quota (`providerquota`) | flights and cooldowns by credential; a subprocess | `getJSON`, `ReadCredential` | shared flights, 429, full table; a child that hangs, prints junk or forks | ProviderReport, AppServer |
| Provider report (`providerreport`) | report cache, collection slots, singleflight | `serve`, `collect`, `storeAttempt` | scopes, a login that changes during a collection | ProviderReport, UsageRows |
| Usage history (`usagehistory`) | process groups | `Collect`, `processRunner.Run`, the rows | three runs of a tool that may be released in between; deadline, limit and exit racing | ToolHistory, UsageRows |
| Reference prices (`referenceprice`) | one snapshot, backoff, a shared fetch | `Read` | a fetch that outlives its readers; staleness | ReferencePrices |
| SSE (`sse`) | the scanner's fields | `Scan`, `WriteFrame` | a stream cut at any byte | Frames |
| Token counting (`tokens`) | none | `Count` | cutting a string where the codec would | Tokens |
| Tool schemas, configuration, errors, logs, fake backend | none that matters | rendering | string work | see section 7 |

### Interactions

Every HTTP request passes `withActivity` (the idle timer's hold), is resolved by
the router, and runs on its leg's handler goroutine. The Codex leg asks the
credential source for a token (shared with every other request and with the Codex
CLI through `auth.json`), opens a Responses stream with at most one retry after a
401, and runs a `Translator` whose scanner goroutine feeds frames to a `select`
loop that writes to a `Sink`: the SSE writer of the client connection or the
aggregator. The two relaying legs copy the upstream's body under an idle guard. A
drain closes listeners and waits for the handlers, with a grace. The picker merges
the lists of three catalogs and publishes the routes of what it showed. A provider
report collects quota, usage history and prices side by side under one deadline,
shared by all callers of its scope.

### What makes each part correct

- Idle and drain: an idle exit never truncates an answer, a quiet daemon always
  exits, no connection is stranded.
- Credentials: a token that was reported rejected is not handed out again; the
  refresh token on disk can still be redeemed; a cached credential is the file's it
  claims to come from; every request ends although the lock may never be released.
- Translator: whatever arrives, the client sees a well-formed stream; what an
  orderly upstream sent arrives whole and in order; `Run` ends.
- Exchange: a response that ends cleanly tells the truth; an error envelope is
  never written over committed bytes; a body is not closed under a Read where
  that is not allowed; no goroutine or timer outlives the exchange; it ends.
- Conversation: whatever providers a conversation has visited, each leg sends a
  history its upstream accepts, with every call paired, nothing of another
  provider's signatures, the tools the conversation has left active, and, for
  Codex, the very prefix it cached.
- Catalog: no list of another client version is marked fresh; memory and file never
  go back; a catalog in use converges.
- Routing: an id a client was shown keeps its meaning and buys the effort it names;
  aliases follow the catalog.
- Provider report: a report shows its own caller's data; its last complete state is
  the latest; a refused token rests; collections end and give back their slots.
- Readers beside it: a section is what one tool printed in full and its sums add up;
  an app-server's answers are matched to their calls; no process or directory is
  left; stale prices say so; a model list is its asker's.
- SSE and tokens: frames survive any line end and any cut; a cut string is cut where
  the codec would cut it.

## 2. Plan, and how far it went

The order was: the idle drain and the credential source; the translator with its
contract; the catalog and the routing that lives on it; one exchange from the
middleware to the last goroutine, in which the translator appears as its contract;
the conversation over many exchanges; the report with the caches and subprocesses
behind it; last the two sequential codecs. Properties that restated a guard gave way
to fewer, deeper ones on the way, and proofs followed what the runs had agreed to.

What a continuation would take up first:

- the schema-2 projection of the report with its memory of attempts;
- two content parts in one message item, in `StreamTranslator`'s orderly upstream.

## 3. Modules

### `IdleDrain`

Models `idle.Timer`, `server.withActivity`, `server.DrainAll` and the part of
`run` that connects them; launchd and clients are the environment. Variables keep
the names of the `Timer` fields; `age` is `now - t.last` and `due` what the
runtime timer has left, so that no clock is needed. `rq` says where each request
is. Every section under `t.mu` is one action: `Hold` and `Release` are used by
`ActivityEnter` and `Finish`; `ActivityCheck` is the separate call of `Fired`;
`Expire` is `expire` up to its unlock, `OnIdle` the callback after it. `Signal`,
`ContextDone`, `ListenerStops`, `DrainDone`, `DrainForced` are the ways into and
out of `DrainAll`; `Activate` is launchd starting the daemon again. `/healthz`
polls take no hold.

### `CodexAuth`

Models `auth.Source` and the requests that use it through `StreamWithRefresh`.
One action per critical section, system call or network exchange: `Fast`
(`fastPath`), `Do` (`group.Do`), `Check` (the rest of `Get`'s loop), `Answered`,
`Rejected`, `Invalidate`; the load runs `FlStat`, `FlRead`, `FlJudge`, `FlRegen`,
`FlLock`, `FlGranted`, `FlChanged`, `FlWrite`, `FlRestat`, `FlStore` and their
failures. `fl.phase` tells the three readers of the file apart (`load`, the
re-read under the lock, `adoptFromDisk`). Tokens are serial numbers of the
endpoint's grants and the `(size, mtime)` fingerprint is a version number; JSON
and JWT contents reduce to the fields the code looks at. Environment: the CLI
(`CliHonoursLock` says whether this build takes the lock), the endpoint, expiry,
revocation, crashes of the daemon. `banned` and `lost` are history variables.
`lost` holds the refresh tokens that an accident left, or may leave, spent on disk;
each is put there by the action in which its accident happens, and
`DiskRedeemable` excuses these tokens and no others:

1. the endpoint's answer was lost (`FlAnswerLost`);
2. the write of the new file failed (`FlWriteFails`);
3. the process crashed before the rename (`Crash`);
4. a CLI that ignores the lock wrote the token's successor between the change check and
   the rename (`FlWrite`);
5. such a CLI wrote the very token of the load between the stat and the read of the
   re-read, so that the check takes for newer what the load has already read, and drops
   the new tokens (`FlChanged`).

Any other write of such a CLI is one that the change check adopts or leaves alone, and
is not excused: without the check, its token is overwritten by a spent one and the
property fails (its mutant).

### `Daemon`

Composes `IdleDrain` and `CodexAuth`, what the daemon keeps beyond one request. They
share no state: a request holds the timer before it asks for a credential and releases
it after its answer. So, as in `SideBySide`, a variable `focus` says which of the two
moves while the other is at rest (`DrainAtRest`: a daemon that has exited).

### `SinkProtocol`

The abstract specification: what `sink.go` promises a `Sink`. One message start;
blocks one at a time, numbered without gaps, each stopped; then `MessageDelta` and
`MessageStop`, or `Error`, or the caller walks away.

### `StreamTranslator`

Models `Translator.Run`. `todo` is the stack of functions still to run for the
frame in hand; each step runs the top function as far as its next `Sink` call, so
that every call may fail and the scanner, the timers and the client may act
between two calls. `blk[i]` is the `block` struct for an `output_index`, `order`
is `t.order`, and the other variables keep the fields' names. A delta is its
serial number within its block (`got` received, `sent` written); a tool call's
arguments, a reasoning item's encrypted content and the call's identity are flags.
The upstream is either arbitrary (`Orderly = FALSE`: any frame at any index) or
keeps each item's own events in order (`Orderly = TRUE`, `Lifecycle`), items
interleaving freely in both.

`SinkContract` states that this specification implements `SinkProtocol`: the
sink's view (`call`, `phase`, `block`, `next`) is carried as variables that `Say`
updates from the translator's own numbers, so the check is that those numbers and
the order of calls are right.

### `CodexCatalog`

Models `catalog.Client` with the version probe of `cmd/utraque/codex_version.go`
that it consults on each fetch. `st`, `diskTried`, `clientVersion` and
`refreshing` are the client's fields, `leader` is the holder of the singleflight
key, `pr[q].pc` says how far a goroutine is in `Models` (`Call`, `Look`,
`revalidateAsync`), in the probe (`ProbeStat`, `ProbeRun`, `ProbeNote`,
`ProbeRunFails`) or in `fetch` (`Snapshot`, then `NotModified`, `OK200` or
`FetchFails`, then `Commit` and `WriteDisk`). A list is the pair of the client
version it was served to and the backend's revision; the ETag names the revision
only, so that an ETag offered under the wrong client version does harm in the
model. `HealthPoll` is `Age` and `Snapshot`, which load the file without asking
for a revalidation. The environment upgrades the CLI (the executable is missing
meanwhile), publishes revisions and lets time pass.

Crashes are covered without a crash action: only the file survives one, `Init`
starts from any file in `Leftover`, and `StampedIsCurrent` says, among the rest,
that the file is in `Leftover` at every moment. One kind of file is assumed away: one
that names no client version, which the code takes for a list of the version in use
(`versionsDiffer`). `WriteDisk` always names one.

### `ModelRouting`

Models the router's registry and `ResolveWith`, discovery's `Models` and the alias
loader that republishes the registry after a catalog read. A name is the sequence
of its hyphen-separated tokens, so `parseSlug`, `bareAlias`, `pinnedAlias` and the
effort suffix are what they are in the code. The alias tiers are functions of
`loaded`, the entries of the last `LoadCatalog`; `picker` is the picker tier.
`ReadCatalog`, `loadAliases`, `MergeRows` and `SetPickerRoutes` are the steps of a
picker open; a Codex request, or the startup warm, does the first two. The catalog
client is what `CodexCatalog` promises: `mem` is the list it holds. `hand` is a
history variable: the rows clients were served, with the route meant for each.

`Effort` is the way of an effort level: `Clamp` (`effort.Clamp`), the precedence of
the request's sources, DeepSeek's three levels. `EffortHonoured` evaluates it for
every row in a client's hand against whatever catalog is current.

### `Exchange`

The life of one HTTP request, `MCExchange` instantiates it. `pc` is the handler
goroutine, from the middleware (`Refuse`, `Unroutable`, `Dispatch`) through a leg to
`Returned` or `Fail`, `Recover` and `Observe`; `reader` is the scanner goroutine of
`Translator.Run`, `guard` the relay's idle guard (`IdleTrips` stores the flag,
`IdleCancels` cancels, `Rearm` is the read's re-arm in between), `auto` the
transport that switches stacks, `run.seeded` the token count. The relaying legs are
`RelayDo` .. `CopyFails`; the Codex leg is `LogTransport` .. `CodexOpened` and then
`RunFrame` .. `Join`. In `Emit`, `EmitClose` and `Terminus` the translator is its
contract: it may make any call `SinkProtocol` (instantiated as `Sink`) allows, which
`SinkContract` shows is all it does. `CloseCancel`, `CloseBody` and the `Read`
actions are `streamBody`, with the mutex that HTTP/1 takes and HTTP/2 does not.
What the recorder and net/http do with a second status line or an aborted handler
is in `Envelope` and `Observe`.

### `Conversation`, `ToolChanges`, `Effort`

One conversation, replayed in full on every turn and sent to another provider
whenever the user changes model. A block is its type, its number, the one thing the
code looks at (`tag`) and the call or tool it names. `Translate`, `rewriteRequest`
and `Forward` are the three legs' functions from a history to what goes upstream;
`ResolveToolChanges` is the tool set both translating legs drive, against the
reference `Advertised`. The answers of the three upstreams, the user's questions,
system messages with tool changes and a compaction make the history. `seen` is a
history variable: what the Codex model has read and written so far. The loops of the
legs (`Strip`, the walk of `translateMessages`) are recursive functions on the index.
On DeepSeek `images` says whether the model asked for takes images; where it does not,
a history that holds one is refused (`Acceptable`). `CallsPaired` demands both
directions of each leg: an answer after every call and a call before every answer. The
assumptions say that the constants are what the code can be given: tools whose names
differ, as the Messages API demands, turns that are not empty, and no calls in what the
user or a system message says (`ToolsAssumption`, `ShapesAssumption`).

### `ProviderReport`

`Handler.serve` and `collect` over the quota client whose flights they share.
`collection[k]` is the singleflight of a scope: it takes a slot (`TakeSlot`,
`NoSlot`), reads the quota (`ReadQuota`: refused by the cooldown, behind the flight
of another collection, or leading one after `makeRoom`), and is joined by `Gather`,
which asks for the Codex login again and stores the report with what it carries over.
`QuotaRefused` is a 429 with or without `Retry-After`. Reports have ages and
cooldowns remaining times, so no clock is needed. `cooldown` and `complete` are
history variables: what the upstream asked for, and the last complete observation.

### `SideBySide` and its parts

`ToolHistory` (three supervised runs of ccusage), `UsageRows` (its arithmetic),
`AppServer` (the Codex app-server session), `ReferencePrices`, `AnthropicCatalog`,
`Frames` (the SSE codec) and `Tokens` (the cuts of the exact estimator) share
nothing. `SideBySide` composes them with a variable `focus`: one of them moves while
the others are at rest, since steps of components without common state commute and
their product would only multiply states.

- `ToolHistory`: `running[s]` is `processRunner.Run` for the version, daily and
  blocks runs, `tool[s]` the process group with a helper that the child may fork,
  its output budget and its release. `SelectDone`, `SelectCanceled` and
  `SelectExceeded` are the three cases that race.
- `UsageRows`: documents as records (`rawDailyReport`; `DocsAssumption` of `ToolHistory`
  holds a tool to the types the JSON decoder enforces and to finitely many models in a
  block); `Balanced` is the chain of checked sums of `parseDaily`, on counters of width
  `MaxUint`.
- `AppServer`: caller, `cmd.Wait`, scanner, writer and the copy of standard error as
  separate processes over a pipe.
- `Subprocesses`: what `ToolHistory` and `AppServer` promise together.
- `ReferencePrices`, `AnthropicCatalog`: caches with remaining lifetimes and the
  true age of what they hold, fetches overlapping.
- `Frames`: a wire is written by `WriteFrame` (with a comment, and any of the three
  line ends), cut anywhere, and scanned field by field. The bytes that count have
  names (`SP`, `LF`, `CR`); `Segments` splits a payload byte by byte. Payloads hold no
  CR (`FramesAssumption`), which JSON escapes and `WriteFrame` would not survive.
- `Tokens`: `PieceEnd` is the split regex of the codec, the reference; `ShortRun`,
  `LongRun`, `region` are the scan. The loops of `contractionStart` and of the contractions
  behind a run are recursive functions on the offset; a loop that goes on while its runes
  fit (`runEnd`, `prevRun`) is the greatest or least offset up to which they do.

## 4. Runs

| Run | Module, cfg | Shows |
|---|---|---|
| `daemon` | MCDaemon, Daemon | the race of a request with the expiry has no third case; a quiet daemon exits although it is polled; every connection is answered or closed. With a CLI that takes the lock, and may keep it for ever: cache and fingerprint agree, every request ends |
| `auth_unlocked` | MCCodexAuth, AuthUnlocked | with a crash and a CLI that ignores the lock and may refresh and write at any moment: a rejected token is not handed out again; the refresh token on disk can still be redeemed, but for one that one of the five accidents of section 3 left there |
| `auth_clobber` | MCCodexAuth, AuthClobber | finds the write of such a CLI that the rename overwrites, which the comment on the change check rules out (below) |
| `stream_any` | MCStreamTranslator, StreamAny | any frames in any order, writes that fail, interrupts, timers, the scanner beside the handlers: the translator implements the sink contract, and `Run` returns |
| `stream_orderly` | MCStreamTranslator, StreamOrderly | three interleaved items: nothing lost or reordered, no call presented with partial arguments, signatures carry the encrypted content |
| `exchange` | MCExchange, Exchange | honest ends, envelopes alone, closed bodies left alone, nothing outlives the exchange, and it ends, on all legs |
| `conversation` | MCConversation, Conversation | histories that moved between providers, with calls, reasoning, images, tool changes, compaction: each leg sends every call with its answer and every answer with its call, the cached prefix, the tools left active and no foreign signatures |
| `catalog` | MCCodexCatalog, Catalog | nothing is stamped with a version it was not served to, nothing goes back, the file is always one a new process may rely on; a catalog in use ends up current |
| `routing` | MCModelRouting, Routing | a row in a client's hand keeps routing to its model or family, and buys its effort, through overlapping picker opens, catalog changes and a restart; the registry catches up |
| `report` | MCProviderReport, Report | scopes, carried snapshots, cooldowns and slots under concurrent collections and a login that changes |
| `side_by_side` | MCSideBySide, SideBySide | the readers, caches and codecs of section 3, each in its own environment |
| `long_pieces` | MCTokens, Tokens | finds the piece that the comment on `maxPieceBytes` rules out (below) |

The disagreement that `long_pieces` shows. A symbol and the combining marks behind it
are one run of class other to the scan (`runEnd`), while the split regex takes the
symbol as the lead of a word and the marks as its beginning: `-maa'll`, with `m` a mark
and a limit of 3, is one piece of two short runs and a contraction. The comments say
that a piece "stays inside one class run" but for one rune before it and a contraction
behind it (`region`), hence is "at most a run plus a leading rune and a contraction"
(`maxPieceBytes`). The cuts are exact all the same (`CutsExact`, which states the bound
that does hold, twice the limit and one); the longest piece that the codec merges is
about twice what the comment promises.

The disagreement that `auth_clobber` shows. The change check is there, its comment says,
for a writer that does not honour the advisory lock: "if the file changed on disk since
our under-lock re-read, another process wrote it during our network refresh. Never
clobber that newer file" (`auth.go:430`). The check is a stat. The write that follows
makes a temporary file, writes, syncs and renames it, and what such a program writes in
the meantime is replaced unseen: `NoClobber` fails. The check narrows the window from a
network exchange to a file write, and without a lock both take it could do no more. What
is left of the promise, and holds, is `DiskRedeemable`: outside that window, and but for
the other four accidents, no spent token ends up on disk.

Observations made while modelling. The code does these things; nothing in the
repository promises otherwise strongly enough to call them defects, and they are
left out of the runs:

Credentials
- The change check can raise a false alarm. A CLI that ignores the lock writes between
  the stat and the read of the re-read: the load then spends the token of the very file
  that the check takes for newer, drops the tokens it was granted and leaves the spent
  one on disk (accident 5 of section 3).
- The fingerprint stored after a refresh is taken by `os.Stat` after the rename
  (`auth.go:458`) and may be that of another program's file if that program ignores
  the lock; the file is then not re-read until it changes again. `CacheMatchesFile`
  assumes a CLI that takes the lock and does not speak of this case.
- `Peek` judges the file and `Get` the cache, so they can disagree.

Translator
- `finalStop` is recorded before `message_stop` is written, and `TerminusErrored`
  before the error frame is. `MaxPendingItems` is enforced only when a delta is
  buffered.
- The idle timer restarts when a frame is received (`translator.go:480`); a frame
  that waited behind a slow write can lose the `select` to the expired timer.
- A `tool_use` opened without arguments is closed with `{}` also at an incomplete
  end (`state.go:134`). A call without id or name that the drain promotes opens with
  an empty identity (`state.go:205`). Deltas of a second content part of one message
  item are swallowed (`translator.go:527`).

Exchange
- A header deadline on the uTLS HTTP/2 stack is reported as 499 to a caller that is
  still there (`utls.go:168`).
- The transport kind in the request log may not be the stack that carried the
  request, when another request meets the gate in between (`auto.go:64`).
- A panic after the first byte ends the body cleanly (`middleware.go:131`):
  `HonestEnd` excepts it. A write that fails for a caller that left is also counted
  as a failure (`leg.go:488`).
- The relay's countdown runs while the copy is blocked writing to a slow client
  (`relay.go:41`). A timeout of the guard that is not positive is not modelled.

Conversation
- Blocks of an unknown type are skipped without being recorded as dropped
  (`request.go:512`). On DeepSeek, defining again a declared and deferred tool that
  is still active leaves `defer_loading` as it was.

Routing
- After a restart, an advertised alias of a model that is not in the compiled-in
  seed gets 404 until some catalog read succeeds, and a raw row whose slug ends in
  an effort word is taken for the shorter slug at that effort.
- With the `effort_variants` strategy, `gpt-7` at effort `max` and the slug
  `gpt-7-max` share an id; a registry that lags behind the rows resolves it as the
  former.
- A catalog that is not empty but hides every model clears all aliases. The age of a
  snapshot read from disk is judged by the wall clock.

Report and readers
- `storeAttempt` evicts the oldest report of a full cache even when the entry it
  writes replaces one (`handler.go:328`).
- `rememberFailure` of the Anthropic catalog drops a success that is still fresh, and
  remembers a failure that was the caller's own cancellation.
- An app-server that exits in the middle of a call may be reported as a response too
  large (`codex.go:544`). A refresh asked for during `initialize` does not invalidate
  the credential. Two limit entries with one id are not modelled.
- A native ccusage that is upgraded between two runs may mix versions; the code
  pins versions for bunx only, and `SectionsTrue` claims no more.
- The wait after a kill relies on every descendant staying in the process group.

SSE
- An `event:` block without data leaves its event set for the next frame of the same
  `Scan`. A lone CR line end is recognised only with the next byte. `WriteFrame` does
  not split a payload at CR, which JSON payloads do not contain.

### Bounds, and why they are enough

- `IdleDrain` (`daemon`): two counted requests, one poller, timeout 2 ticks. Two requests
  give every order of hold, release and expiry; a timeout of 2 lets an expiry find
  `0 < age < Timeout` and re-arm for the remainder. Requests repeat without bound.
- `CodexAuth`: two callers, one account; `MaxSerial`, `MaxVer`, `MaxAging`,
  `MaxRequests`, `MaxCrashes` cap grants, CLI writes, expiries, requests and crashes.
  Two callers are enough for one to lead the load and the other to join or to invalidate
  meanwhile; the theorems of section 6 lift the bounds. `auth_unlocked` and
  `auth_clobber` have room for three grants, so that the CLI can rotate in the window
  between the change check and the rename, and the loss be noticed afterwards; `daemon`
  has two, and no crash. `MaxInvalidated` is 1 or 2; with one expiry the set of marks
  does not overflow in the runs, which is left to `AuthMarksBounded`. Deadlock is not
  checked, in `daemon` neither: a bounded number of requests ends.
- `StreamTranslator`: arbitrary upstream: two indices, two frames, which reaches an
  open block beside a buffered one, and either's end before the other's (what more
  frames could do to the contract is the theorem's); orderly upstream: three
  items, one of each kind, five frames, `MaxPendingItems` 1 and `MaxPendingBytes` 2
  so that both bounds bite. `Pipelined` lets the scanner and the timers act while a
  frame is being handled; `stream_any` has it on. With it off `stream_orderly` explores
  the same handler steps with fewer interleavings, since a frame on offer is not looked
  at by a handler. Deadlock is not checked: `Run` ends.
- `Exchange`: at most two pieces of an upstream body and two opening, filling or
  keepalive calls of the translator: one before and one after any event of interest.
  Every route, both HTTP versions, a hang-up, a panic and a gate at any moment.
  Deadlock is checked; a finished exchange may stutter (`Over`).
- `Conversation`: three requests and one system message, which is a visit to another
  provider and back, or a change of tools and two turns after it; two declared tools,
  one deferred, and a third that only changes mention. Deadlock is not checked: the
  client stops sending.
- `CodexCatalog`: two callers beside the background revalidation, which gives a
  leader, a waiter and a second leader; two executables and two revisions, so that
  an upgrade, a new revision or both fall between any two steps of a fetch; one
  failure. The file found at the start is any one in `Leftover`.
- `ModelRouting`: two picker opens and one reader, so that a load of an older read
  can overtake a newer one; two catalogs chosen to contain every shape of name
  (hidden, pinned against rolling, a codename that is an effort word, a slug only an
  override parses, one nothing parses) and levels that appear, vanish and are
  unknown; one restart; three alias strategies.
- `ProviderReport`: two Anthropic tokens, one Codex account or none, a report cache of
  two, two slots, a quota table of one entry (so that one token's cooldown stands in
  the other's way), lifetimes of one tick, a backoff that grows from one to two,
  `Retry-After: 0` or none, three collections. Four scopes compete for two places.
- `SideBySide`: two releases of the tool, output in writes of one or two units against
  a budget of one, counters of two bits so that sums wrap; two lines in the pipe; two
  price readers, three pickers of two logins, lifetimes of one or two ticks; four
  payloads, lines of at most six bytes; every string over nine runes up to length
  four and over fewer runes up to seven, with piece limits from one to three, which
  is enough for contractions to chain three times and for a mark to close a short run. Deadlock is not checked: each reader
  returns.
- Symmetry over callers, only in a run without liveness (`auth_unlocked`).

### Fairness

- `IdleDrain` (`IdleFairness`): weak fairness of the clock, of the timer goroutine and its
  callback, of `DrainAll`'s select, of the end of the drain (the grace context
  expires) and of launchd; strong fairness of accepting a connection, which a
  short-lived daemon interrupts. Handlers need not return and nobody need connect.
- `CodexAuth`: weak fairness of the load and of each caller: goroutines run, the
  HTTP client and the wait for the lock have deadlines. The CLI owes nothing.
- `StreamTranslator`: weak fairness of the idle timer and of handling; strong
  fairness of `Select` as a whole, because Go's `select` picks at random among
  ready cases and so is not starved by pings. The upstream, the interrupt and the
  heartbeat owe nothing.
- `Exchange`: weak fairness of the handler goroutine as a whole (its contexts and
  clients have deadlines), of the reader, of both halves of the idle guard's timer
  and of the token count. Within the handler, a failure by deadline is always
  possible, which is what a deadline guarantees. The caller, the upstream and the
  peer of a reset HTTP/2 stream owe nothing.
- `CodexCatalog`: weak fairness of every goroutine (the HTTP client has a timeout),
  of the end of an upgrade and of time passing. Callers keep asking: `Converges` is
  about a catalog in use, and the code revalidates only when it is asked.
- `ModelRouting`: requests go on reading the catalog and the client revalidates it
  (`Converges`). Picker opens and restarts owe nothing.
- `ProviderReport`: weak fairness of `Progress`, that some collection which can take
  its next step does; no deadline and no caller that gives up is needed.
- `SideBySide`: goroutines run, deadlines pass, a killed process dies, an HTTP fetch
  ends. Nothing makes a tool exit or an app-server answer.

## 5. Mutants

Every property of a passing run has a mutant: a mapped definition and a variant
of it, defined just before it, with a plausible bug (a dropped generation check, a
hold not released, a reader not joined, a key without the account). Under the mutant
TLC finds the property violated.

## 6. Proofs

The theorems hold for every value of the constants that satisfies the named
assumptions of the modules (which only say that bounds are numbers and that names
for "nothing" are not taken). None of the properties is inductive; each module
begins by saying what was missing.

`ExchangeProof`, second part (`NoThirdCase` of `IdleDrain`, for any finite sets of requests and polls and any
timeout). `fired` can only become true with `inflight = 0`, hence `inflight` must
count the requests inside the middleware, hence a request must never leave it
without its release. `IdleInv` is that conjunction; the work is in the cardinality
step of `ActivityEnter` and `Finish`.

`CodexAuthProof` (`NoRejectedTokenAgain`, with `TypeOK`, `CacheUnmarked` and
`MarksBounded`, for either kind of CLI). `AuthSafe` adds: a load's generation never
exceeds `invalGen`; what callers reported is still marked; a token that a load has
judged usable, or that a caller has in hand, is either not one the caller reported
or was marked after the load captured its generation. The last one is what the
generation check in `store` and the second attempt in `Get` are for.

The same module proves `CacheMatchesFile`, assuming that the CLI takes the lock.
`LockDiscipline` says who may be where while the lock is held, so that the version the
change check saw is still there at the rename; `FileKnown` says that a fingerprint in the
load or the cache is never newer than the file, since it is taken before the content is
read, and that one which still matches has its content.

Third, `DiskRedeemable`, without any assumption on the CLI and with the five accidents of
section 3 as its only exceptions. `DiskInv` says how the file and the load relate: what
the load read is still there, or the file has moved on to a token that is not the one the
load has spent or is to write (`LastLook`, where the change check earns its place); the
file's token is live, or lost, or a CLI or the load has its successor in hand (`Held`);
the token granted to the load is live as long as it is not on disk (`Unspent`), and that
granted to a CLI is live and nobody else's (`CliOwn`).

`CodexCatalogProof` (`StampedIsCurrent`). Only the holder of the singleflight key
moves the client version and stores lists, so what it learnt at one step still holds
at its next: `Sound` says, stage by stage, which version it resolved, whose list it
holds, and that neither memory nor the file has gone past it. With at most one
leader, every other goroutine owes nothing.

`ReportProof` (`ScopeIsolated`, `LatestComplete`, `CooldownHonoured`). The flight a
collection leads, joins and is answered by belongs to its token all along; a scope
the cache has dropped has no last complete state that could come back; and an entry
of the quota table knows the whole of its token's cooldown as long as it lasts.

`ReadersProof` (`OwnModels`, `PricesSound`, `OwnAnswers`, `SectionsTrue`,
`NothingLeftRunning`, `FramesFaithful`, `HistoryAccounts`, each from the initial condition and steps of its own component). For the
caches, a remaining lifetime and a true age add up to the lifetime; the time since the
last failure and the wait still to come cover the whole wait; and no failure is
recorded while a fetch is out but its own. For the app-server, in the middle of call
`n` the answers taken are those of the calls before `n`, whatever is in the pipe or
the scanner's hand; the directory is there from start to return and a reaped child
stays reaped. For the history tool, a process lives only while its run has not come
back; output is cut only where `exceeded` says so, which `exitVerdict` asks before the
exit code; and a run keeps the release it was given, which for both reports is that of
the version run.

The same module, further on (`FramesFaithful`, for any payloads and any limit on a line).
`FramesInv` says, while the scanner reads, which lines are due given what it has
gathered: the rest of the payload, the blank line, the next frame (`Due`), with or
without a comment among them (`Laced`). The wire to come begins those lines, and is all
of them if it was not cut (`Ahead`), or it ended in the middle of one (`Stranded`). The
lines read, those gathered and the data fields still on the wire are no more than the
data fields sent, so no line comes from a field that never began. What `Segments`,
`FlattenSeq` and the scanner's byte loop compute for every payload is proved by
induction on the bytes (`SeqSetInduction`).

The same module, last part (`HistoryAccounts`, for any documents and any width of the
counters). The invariant is short (`HistoryTold`: the rows Collect returned are what
`parseDaily` made of the document printed); the rest is arithmetic. `Sigma` is a sum
over a finite set, and a sum over a set is the sum of the sums over its classes, however
a function divides it. So the tokens of the breakdowns add up to those of the agents,
the days and the document that `Balanced` compares them with (`SpentFlat`); divided by
day, source and model they are those of the rows (`RowsSpend`), and divided by source
those of the sections (`ShownSpend`). No sum on the way wraps, although only some are
checked where they are taken: each is part of the document's total, which is.

`StreamProof` (`StreamImplementsSink`: `Spec => SinkContract`, the refinement of
`SinkProtocol`, for any output indices, any bounds and any upstream). Whether a call
is legal depends on how the function that makes it came onto the stack, which the
contract does not see. `Fits` says which continuations may stand below each
function, and what then holds of the open block: a block is opened with none open, a
delta is emitted with its own block open, the closing sequence is entered with
everything closed. `Wire` ties the sink's view to `active`, `nextIndex`, `started`
and `terminus`. There is a lemma for each function; `Quiet` and `Delta` serve the
many that say nothing, or a delta.

The same module, second part (`StreamLosesNothing`, `StreamArgumentsWhole`,
`StreamSignaturesCarryContent`, for any items, interleavings, bounds and options).
Whether a delta is lost depends on what the functions still on the stack are about to
do, so most parts of `DataInv` speak of the set of functions on it (`Has`). `Flowing`:
what a block holds back is what came and has not gone out, less the delta in a
handler's hands. `Sealing`: a block is closed, or marked for closing, only once its
item has nothing more to say that would change how it ends, or when the message ends
anyway. `Signing` and `Whole` then give the closing delta and the arguments, `Told` and
`AllSent` the clean end. Two hypotheses are real: the three properties are about an
orderly upstream, and `StreamLosesNothing` assumes it throughout (`Orderly`), because
deltas that a disorderly upstream sends for a block already stopped are swallowed.
`TranslatorInv` is used all along.

`ExchangeProof` (`HonestEnd`, `EnvelopeAlone`, `BodyClosedAlone`, `NothingOutlives`, for
any number of pieces and calls, on every route and both HTTP versions). `ExchangeInv`
goes place by place of the handler: who may be there and who is still at work
(`Places`); a Read on HTTP/1 holds the body's mutex (`Mutex`); an error still to be
rendered means an untouched response (`Commits`); what was written, what is in hand and
what is in flight add up to what the upstream sent (`Accounts`); and a leg returns nil
over an honest body only (`Truth`).

`RequestProof` (`RowsKeepRouting`, `EffortHonoured`, for any lists, models, aliases,
efforts and picker opens). `RoutingInv` says that the registry was built from the seed
or from a list some catalog serves, and that every row in a hand, under way or behind
the picker tier is one that discovery makes of an offered model. The rest is about
operators: which entry holds an alias (`BestOfFinite`, `RegistryFacts`), where
`ResolveWith` takes a row under any such registry (`ResolveRow`), and that `Clamp` is
the nearest level (`ClampNearest`). The assumption that counts is `NamesApart`: no name
is another one with a level behind it. Next to a `gpt-7` that offers `max`, a model
called `gpt-7-max` would take over that row, since a name is tried whole before its
last token is read as an effort; the lists Codex serves have no such pair.

The same module, second part (`CutsExact` of `Tokens`, for any text and any limit). The
scan itself adds little: `TokensInv` says that it stands between two runs and knows the
one before, and that a span ends at a cut and not between spaces and what they lead.
The work is in the two definitions of a cut, the regex's and the scan's. A piece is of
one of three kinds (`PieceIs`), and none of them crosses the end of a run of digits, or
one of letters unless by a contraction (`DigitEdge`, `LetterEdge`); what no piece crosses
is a cut (`NoCrossCut`). Reading backwards finds the runs that reading forwards does
(`RunClass` says which they are, whichever way), so `contractionStart` and
`Contractions` stop at such offsets (`ContractionStartClean`, `RegionEnd`). Each
alternative of the regex matches in a slice of the text what it matches in place if that
ends in the slice, the spaces' with the proviso above, so a span is cut where the text is
(`CutsSlice`). Last, a piece in a span is at most two runs, each below the limit, and a
contraction (`PieceLength`), hence twice the limit and one. The regex is the model's: it
speaks of the ten runes of `Tokens`. Letters that are upper and lower case at once, the
slash, the remaining contractions and capital ones are not among them.

`ConversationProof` (`AnthropicFaithful`, `CallsPaired`, `CachedPrefixMatches`,
`ToolsFollowChanges`, for conversations of any length and any tools, turns and changes).
A request is a function of the history, so the inductive invariant is that the history
is well made (`HistoryInv`: no message is empty, every result follows its call;
`LeftInv`: no call is open but those of the last answer, and those only until the client
has spoken) and that the request under way is the one its leg makes of it (`SentInv`).
The rest is what the loops compute. The relays take out exactly the blocks they mean to
(`Strip`); the walk of `translateMessages` has said, after any number of blocks, all
that they say, in order, no result without its call, and leaves open the calls they do
(`WalkOK`); the tool set agrees with the reference `Advertised` after any number of
changes (`SetOK`). `CachedPrefixMatches` needs one more pair: what the Codex model has
seen is what some first part of the history says (`SeenInv`), under the key of its tools
(`KeyInv`).

Induction. The library's theorems for it take a predicate as a parameter, which the
installed provers cannot instantiate. `ConversationProof`, `ReadersProof` and the
second part of `RequestProof` therefore start from the least element of a set of
numbers, from the well-foundedness of `<`, and do their inductions over sets
(`NatSetInduction`, `SeqSetInduction`): the set of those numbers or sequences for which
the claim holds.

Only model-checked: liveness, since fairness and `ENABLED` are outside the prover. The
properties of `long_pieces` and `auth_clobber` are claims that do not hold.

## 7. Not modelled

- Tool schemas (`toolschema`): recursive rewriting of JSON schemas and regular
  expressions, without state; the dialect each backend accepts, which would be the
  reference, is not defined in the repository.
- Configuration and `proxyhdr`: parsing and filtering without state. How an error
  kind becomes a status (`apierr`) is part of `Exchange`.
- Observability: logging, redaction and trace files read what the others do and
  decide nothing.
- Within modelled components: usage numbers, frame layout and the JSON of answers;
  header filtering and the model rewrite in a relayed Anthropic answer; tool choice,
  sampling parameters and beta features, copied or refused field by field; TLS and
  connection pools; byte-pair tables and the memo of counted strings; the arithmetic
  from each provider's quota document to the common form, and the schema-2
  projection with its memory of attempts; `Flush` and the sticky error of the SSE
  writer (a failed write ends a stream for good in `SinkProtocol`); flags and wiring
  in `main`, and `/healthz` beyond its taking no hold and reading the catalog.
- The fake Codex backend is a test tool.
