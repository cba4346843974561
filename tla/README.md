# Verification of agent-runtime-kit

TLA+ models of the parts of agent-runtime-kit in which concurrency, failure and ordering
decide whether the program is right, with TLC runs on small instances and machine-checked
proofs for every value of the constants about the run store and the ledger it implements,
invocations, streams and the HTTP service, the memory and feedback stores, the context
window, the agent loop and an agent that implements it, and a host of the runtime. Paths
below are relative to the repository; `runtime.py` and the like stand for
`src/agent_runtime/runtime.py`.

Contents: [the system](#the-system), [plan](#plan), [modules](#modules),
[runs](#runs), [bounds](#bounds-and-reductions), [fairness](#fairness),
[the disagreements found](#disagreements), [proofs](#proofs),
[what is only model-checked or left out](#limits).

## The system

A host process embeds `AgentRuntime`. It calls `invoke()` or `stream()`; the runtime
claims a durable run in PostgreSQL, reads the thread's history, gives an agent the
selected context, and stores the agent's answer and the run's success in one
transaction. Several processes may share the database; there is no other
coordination between them.

| Part | State it keeps | Operations | Talks to | What is hard | What makes it right |
|---|---|---|---|---|---|
| **Run store** `runs/postgres.py`, `memory/_message_batch.py`, `memory/tables.py` | rows of `runtime_runs` with owner token and lease, rows of `agent_messages`, row locks | `claim`, `transition`, `complete`, `fail_if_running`, `recover`, `recover_expired`, two reads | PostgreSQL, READ COMMITTED; shares the thread lock and the batch writer with the memory store | transactions of several statements interleave, wait for locks and for uncommitted keys, and may die between any two of them; leases expire in the middle | one active run per thread; one run per idempotency key; only a live owner settles a run; messages and success are one; a settled run never changes; no deadlock |
| **Invocations** `runtime.py` | one asyncio task per invocation, its deadline, a shielded cleanup task, `_active_invocations`, `_cleanup_tasks`, `_closing` | `invoke`, `_execute`, `_replay`, `_record_failure`, `_settle_failure`, `shutdown`, `aclose` | run store, memory store, hooks, agent | deadline and cancellation at every await, store calls whose outcome is unknown, retries that race the first attempt, cleanups that outlive their task, shutdown that races all of it | answers are durable; an agent runs once per key; errors are not reported for successes; no run is orphaned silently; turns do not overlap; everything ends |
| **Event streaming** `runtime.py` `stream()` | `produce()` task, queue of 64, generator | `emit`, terminal item, sentinel, the generator's `finally` | invocation, the host's reader | full queue, reader that stops, closes or is cancelled, cancelled producer | the reader gets a prefix and at most one terminal; closing ends and leaves no task |
| **Context window** `context.py` | open group, retained suffix, required payloads, running totals | `select`, `select_stream` | the memory store's cursor | an incremental algorithm that must agree with the simple one while dropping payloads | whole exchanges, newest that fit, equal results, bounded retention |
| **Agent loop** `adapters/native.py`, `_streams.py`, `tools/registry.py` | generated messages, tool results, usage; nested generators; worker threads of synchronous tools | `invoke`, `stream`, `checked_stream`, `close_source`, `ToolRegistry.invoke` | model client, tools, hooks; read by the runtime | a tool fails or the run is cut off in the middle of a round; a provider's stream misbehaves | whole exchanges, effects accounted for, bounded rounds, closed streams |
| **Memory store** `memory/postgres.py` | threads, messages, long-term records | `create_thread`, `append_messages`, `stream_messages`, `put`, `get`, `search`, `delete`, `cleanup_expired` | PostgreSQL | concurrent creation under an external key; a sweep against a renewal; pages and cursors read while others write | one thread per external key; a renewed record is not swept; a reader sees whole turns of one moment |
| **Feedback store** `feedback/postgres.py` | feedback rows | `record`, `search` | PostgreSQL, run and message rows | concurrent retries of a key and of an id; corrections of what is not committed | one record per key and id, the same for each replay; targets belong to a succeeded run; corrections form chains |
| **Framework adapters** `adapters/langchain.py`, `langgraph.py`, `framework_streaming.py`, `framework_messages.py` | per-stream assembly state | `invoke`, `stream`, translation of messages both ways | LangChain, LangGraph | chunks and states in the frameworks' order; messages that come back changed | a stream ends as `invoke()` would; nothing of the history is recorded again |
| **Model clients** `models_clients/` | bytes, fields and fragments of one response | `generate`, `stream`, `sse_data`, payloads | HTTP providers | bytes cut anywhere, interleaved and truncated fragments, ids that providers bind in their own ways | a result is complete, and the same however it was sent; a request says what the conversation says |
| **Hooks, guardrails** `hooks/` | none | run in order, block | invocation, tools | they may fail, block or hang | failures surface as the run's failure |
| **HTTP service** `service/` | one response per request | routes to `invoke`, `stream`, feedback; body limit; error envelopes | runtime, feedback store | clients that stall or disconnect, errors after the response has begun | a stream is whole or ends in one error; abandoned work is cleaned up; errors are honest about retries |
| **Release desk** `applications/release_desk` | a process per command; the stores | `review` | runtime, a release source, a model behind an input budget | interrupted and killed processes, retries with the same key, a budget that refuses after the tool has run | one fetch and one stored review per key; exit codes tell the truth |
| **Support agent** `examples/support_agent/agent.py` | graph state, locals of its steps | `model_step`, `route`, `tool_step` | LangGraph, model client, tools | a loop of its own with a limit on steps | interchangeable with the native loop |
| **Models, errors, configuration, telemetry, migrations, scripts** | none over time | | | | |

Interaction, from the outside in: the service's reader pulls the generator of
`stream()`; the generator pulls the queue; `produce()` runs `_invoke()` with an
`emit` callback; `_invoke()` runs `_execute()` under `asyncio.timeout`, whose awaits
are store calls, hooks and the agent; the agent loop pulls its model's stream through
`checked_stream()` and calls tools. Failure travels outwards through the same
frames; a shielded task settles the run on the way.

## Plan

In order, the most important behaviour first. All of it is written.

1. `RunLedger`, the abstract specification of the run store: every operation one step.
2. `RunStore`, the transactions of `PostgresRunStore`; refines `RunLedger`.
3. `RuntimeInvocation`, the invocation's life over `RunLedger`: it composes with the
   store through the ledger the store implements.
4. `StreamBridge`, one stream; it abstracts the invocation to what its events show.
5. `HttpService`, a response on top of `StreamBridge`.
6. `ContextWindow`, both selections against one declarative definition.
7. `AgentLoop`, the native invoker, checked streams and tool registry.
8. `SupportAgent`, an agent's own loop; refines `AgentLoop` (`MCAgentLoop`).
9. `FrameworkAdapters`: the same contract with third-party loops.
10. `ModelClients`, `SseDecoder`, `ModelRequests`: what providers are sent and answer.
11. `MemoryStore` and `FeedbackStore`.
12. `ReleaseDesk`, a host; composes with `ContextWindow` (`MCContextWindow`).
13. `RunStoreProofs`, every safety property of the store, and that it implements
    `RunLedger`.
14. `RuntimeInvocationProofs`: the ledger's invariant, and on it every safety property of
    invocations and shutdown.
15. `HttpServiceProofs`, streams and the responses that carry them.
16. `RecordsProofs`, the memory and feedback stores.
17. `AgentLoopProofs`, the native loop; `SupportAgentProofs`, that an agent's own loop
    implements it and inherits its theorems.
18. `ContextWindowProofs`, both selections against the declarative one.
19. `ReleaseDeskProofs`, the host, on top of what is proved of its context window.

What would come next is in [Limits](#limits): the folds of the adapters and model clients.

## Modules

### RunLedger

`rows`, `turns` (who wrote each batch of a thread, in order) and the database clock
`now`. `Take` is a claim, `Run` the transition to running, `Finish` a completion,
`Settle` a failure or block, `Expire` the recovery of an ended lease, `Post` a host's
own message batch. `at` is the moment an operation was decided at; a transaction may
commit later, so it ranges over the past.

### RunStore

One session is one connection with one call. A call goes through `pc`:
`lock` (waits for the thread row, `_lock_thread`), `locked`, then the statements of its
method, then `commit`. Writes are buffered in `wrows` and `wmsgs` and become visible in
`Commit`; `Rollback` may hit any open transaction and stands for errors, cancelled
callers, dead processes and lost connections.

| Code (`runs/postgres.py`) | Actions |
|---|---|
| `claim()` | `BeginClaim`, `Lock`, `ClaimLookup` (the key's row is returned or conflicts), `ClaimDecide` (live owner: busy; expired owner: failed in the same transaction), `ClaimInsert` (`ON CONFLICT DO NOTHING`, waits for an uncommitted insert of the key), `Commit` |
| `transition()` | `BeginTransition`, `Lock`, `Transition`, `Commit` |
| `complete()` | `BeginComplete`, `Lock`, `CompleteCheck`, `CompleteAppend`, `CompleteRecheck` (the lease again, behind the message writes), `Commit` |
| `fail_if_running()` | `BeginFail`, `Lock`, `FailIfRunning`, `Commit` |
| `recover()` | `BeginRecover`, `Lock`, `Recover`, `Commit` |
| `recover_expired()` | `SweepRead` (no lock), then per id `SweepTake` (`SKIP LOCKED`), `Recover`, `Commit` |
| `append_messages()` (`memory/postgres.py`) | `BeginAppend`, `Lock`, `HostAppend`, `Commit` |

A response, its hash and its messages are reduced to whether they match
(`matches`) and to the batch they form. The owner token of a run is the run's name.
The partial unique index on active runs is deliberately no guard: that it is never
needed is `OneActivePerThread`. `request_id`, which is unique too, is not modelled.

`Ledger` maps the committed state to `RunLedger`: the rows are `runs`, the clock is `clock`,
and a thread's turns are `TurnsOf`, the authors of its batches in the order of their first
messages (`Firsts`, `Nth`). What is buffered does not show; `ImplementsLedger` says that
what does is the ledger's.

### RuntimeInvocation

An invocation is named by its run id. `pc` is the await its task stands at: `lookup`,
`recover`, `thread`, `claim`, `begin`, `work` (history, hooks, agent), `finish`,
`settle` (the error handler waits for its cleanup) and `over`. `cleanup` is the shielded
task and its result; `late` is a store call its caller has abandoned, which `LateEnd`
lets commit or vanish; `asked` holds the tasks `shutdown()` has cancelled but whose
`CancelledError` has not been raised yet.

`Handle` is the `except` clauses of `_invoke_with_deadline()` up to the await of
`_record_failure()`: the cleanup starts if `state.run_id` is set. `CleanUp` is
`_settle_failure()` when the store answers, `CleanUpFails` its own timeout or error.
`Deliver` is the end of the handler: a run found to have succeeded is the answer after all.
`Found` is what `_execute()` does with a run that has the caller's key, from the lookup or
from the claim; `Replay` is `_replay()`. `Cancel` (a caller) raises `CancelledError` in the
same step; `Cut` (shutdown) in a later one. The deadline is served by the event loop and the
lease by the database; the model reads both off one clock and lets the loop lag by `LoopLag`
ticks.

### StreamBridge

`producer` follows `produce()`: `new`, the invocation (`emit`, `finish`, `cleanup`), the
terminal item (`put`), the sentinel (`end`), `done`. `reader` is the generator: waiting in
`queue.get()`, suspended at a `yield`, in its `finally` (`closing`), or closed. `Get`
takes an item; `Leave` is `aclose()` at a yield or a cancellation in `get()`; `Cancelled`
raises the pending `CancelledError` where the task stands. `Settles` is the cleanup: it
reaches the store, and a run found stored ends the stream with `completed`, or it does not
(`cause` is `lost`), and the reader is told of an error whatever the store holds.

### HttpService

`http` follows one request: admitted or refused by the body limit, validation, the
agent's registry (`Receive`), then `working` in the runtime or the feedback store, or
`streaming`. It extends `StreamBridge`: `Sends` and `Taken` are the response's pull of
the generator and the client's reading of what was sent, `Disconnects` the cancellation of
the response where it waits, `Collected` the close of a generator that was left suspended
at a `yield`. `StatusCode` and `Retryable` are the tables of `app.py` and `errors.py`.

### ContextWindow

`Select` is `select()`, loop by loop. The state machine is `select_stream()`: `Yields`
and `Asks` call `Add`, `Finish` calls `Finished`, with `w` as `_StreamingSelection`.
`Promised` states the result without groups, queues or totals: system messages, the
request, and everything behind the earliest turn boundary that fits. A message is a
role, the ids it calls or answers, a size in bytes and whether it can be encoded; a
selection is a set of places, whose messages are `Chosen`. Deep copies are left out.

### AgentLoop

One task pulls nested generators, so a step is what runs between two awaits. `Accept`
is everything between a result's arrival and the next await: `checked_result`, the
record, the usage, the choice between answer, exhaustion and tools. `Prepare`,
`Returned`, `Record` and `Emit` are one tool call; `Emit` is the runtime's `emit()`,
which may wait, and be cancelled, between the record of a result and its message.
`Over` closes every generator; a synchronous handler abandoned in its thread stays in
`threads` until `ThreadEnds`.

### SupportAgent

`ModelStep` and `ModelReturns` are `model_step`, `Route` is `route()` with the first check
of `tool_step`, and `Invokes`, `Returned`, `Record` its loop over calls. A node changes
`state` only when it returns; `local` is what it holds until then. `Loop` maps this to
`AgentLoop`: a node's locals count as generated once it runs, a result once it is routed.

### FrameworkAdapters

A thread of turns with one adapter. `Write`, `Say`, `Answer`, `Trim` and `Break` are what
the framework does, with what the adapter's stream makes of each; `End` maps the value the
adapter is left with (`Value`, `Output`), `Emit` is its remaining events. An adapter made
without `streaming` answers `stream()` by `invoke()` and one completed event (`Streams`).
`ToFramework` and `FromFramework` are the two translations; a round trip moves calls behind
text, and what does not come back as it was counts as new (`New`). `NextTurn` feeds back
what was recorded: of a turn that failed, or whose output has a message of the history,
nothing (`Recorded`, which stands for `complete()` and the primary key of the messages).
A state's own `tool_results`, `usage` and `metadata`, which the mappers pass on, and a
host's stream mapper are left out.

### ModelClients, SseDecoder, ModelRequests

`ModelClients` sends one response, as its API allows or breaking one rule, to a client's
`stream()`, and compares with `Generated`, the same client's `generate()`. A step is one
event and its handler. `SseDecoder` is `sse_data()` on bytes of five kinds, against
`AllEvents`, `Oversized` and `Undecodable`, which see the response at once. `ModelRequests` lets a
conversation grow message by message and builds each client's payload of it
(`OpenAiMessage`, `AnthropicMessage`, `GeminiMessage`).

### MemoryStore, FeedbackStore

A call is a transaction of the code's statements: `Create`, `Inserts`, `Created`;
`Put`, `Upserts`; `Delete`, `Deletes`; `Sweep`, `Scans`, `Sweeps` (row by row, as
PostgreSQL locks and re-checks them), `Swept`; then `Commits`, or `Aborts` at any point.
`Page` is one call of `search()`, `Opens` and `Fetches` the history's cursor.
`FeedbackStore` follows `record()`: `Lookup`, `Target`, `Parent`, `Insert` (which waits for
uncommitted rows of the same key or id), `Reread` of a row that won, `Commit`.
`MCRecords` puts the two side by side, so the names of `FeedbackStore`'s specification carry
its own (`FeedbackInit`, `FeedbackNext`).

### ReleaseDesk

One process after the other runs the review command: `Start`, `Opens`, `Claim` (what the
runtime does with the key), `Selects` (`ContextWindow`'s operator on the stored thread),
`Ask` (the budget, then the router), `Fetch`, `Save`, `Report`, `Close`. `Interrupted` and
`Crash` may come at any await. What a cancelled or failed invocation leaves in the store
is any of the outcomes `RuntimeInvocation` shows. `MCContextWindow` extends both modules, so
what would clash has names of its own (`DeskInit`, `DeskNext`, `Selects`).

## Runs

| Run | Module | Distinct states | Question |
|---|---|---|---|
| `store_calls` | MCRunStore | 811,253 | all calls, with right and wrong tokens and responses, by two connections over two runs of a thread, a host appending too: `SettledAgainstLease`, `AtomicFinalization`, `HistoryIsOrdered`, `TerminalIsFinal`, and refinement of `RunLedger` |
| `store_keys` | MCRunStore | 100,388 | claims, recoveries and sweeps of one key over two threads: `OneActivePerThread`, `OneRunPerKey`, `TurnsSerialized`, `NoWaitCycle`, `TransactionsEnd` |
| `invocation_safety` | MCRuntimeInvocation | 2,341,725 | two invocations that share a key, a thread, both or neither: `DurableAnswer`, `OneExecution`, `NoFalseFailure`, `OrphansExplained`, `TurnsExclusive` |
| `invocation_turns` | MCRuntimeInvocation | 440,768 | two invocations on a thread while the runtime shuts down: `ShutdownIsClean`, `Answered`, `Quiesces` |
| `service` | HttpService | 6,964 | one request and its stream, over `StreamBridge`: `WholeOrPartial`, `ServiceAnswers`, `StreamServed`, `DisconnectCleansUp` |
| `bridge_shutdown` | StreamBridge | violation | `ReaderAlwaysServed`, see [below](#disagreements) |
| `context_window` | MCContextWindow | 1,122,122 | `SelectAsPromised`, `StreamsTheSame`, `RetentionBounded`; the release desk's `ReviewedOnce` |
| `agent_loop` | MCAgentLoop | 122,384 | `ExchangesWhole`, `EffectsAccounted`, `StreamAgrees`; `RunsTheNativeLoop`, the refinement of `AgentLoop` by `SupportAgent` |
| `adapters` | MCAdapters | 4,013,404 | `StreamAsInvoked`, `OnlyNew`; `StreamAsGenerated`, `NoUnfinishedResult`; `DecodedAsSent`; `RequestsWhole` |
| `gemini_names` | ModelRequests | violation | `ResultsReachTheirCalls`, see below |
| `records` | MCRecords | 597,457 | `OneThreadPerKey`, `RenewedStays`, `ReadsHoldTogether`, `FeedbackConsistent` |
| `feedback_export` | MCRecords | violation | `RepeatableExport`, see below |

`MCContextWindow`, `MCAgentLoop`, `MCAdapters` and `MCRecords` hold parts that share
nothing and explore them side by side, one at a time: a state of one is never
multiplied with a state of another.

What the less obvious properties say:

- `OneExecution`: whatever fails, is retried, cancelled or recovered, the agent of a
  key is invoked once. External effects are never repeated under a key, at the price
  that a failed key stays failed.
- `NoFalseFailure`: an error other than cancellation is reported for a succeeded run
  only if the cleanup could not reach the store.
- `OrphansExplained`: an active run nobody looks after is one whose cleanup could not
  reach the store, or that looked before an abandoned claim had committed; in the
  second case the agent has not run. Nothing else may leave one.
- `TurnsExclusive`: the lease (invocation budget + cleanup budget + 5 s) outlives the
  deadline, so the agents of two turns of a thread are at work together only if the event
  loop has kept a due deadline waiting for the whole of that margin. Then they may be, as
  the lease fences the store and not the agent's code.
- `StreamServed` and `DisconnectCleansUp`: a response waiting for an event is served unless
  the runtime is shut down; and whenever the client disconnects, task and generator end,
  however full the queue is.
- `ServiceAnswers`: a body the limit refuses never reaches the runtime whatever its header
  says; a stream that ends has one terminal event, its last: `completed` only for a stored
  run, and an error for a stored one only if the cleanup could not reach the store;
  `retryable` and the status agree.
- `StreamAgrees`: the tool results a reader has seen are those recorded, but for one at
  the cut.
- `RunsTheNativeLoop`: the example's two agents make the native loop's calls in its order,
  record its messages and results, and end after as many rounds. The graph's recursion limit
  never ends it first; with `2 * max_tool_iterations` it would.
- `StreamAsInvoked`: a stream completes with what `invoke()` would have returned. Its tool
  results are shown before only by an adapter made to stream.
- `OnlyNew`: an output is what was made in its turn. If it is not, since the framework removed
  a message or the history does not survive a round trip, it repeats an id of the history and
  the turn is refused whole. Such a thread gets no further with that adapter, but nothing is
  recorded twice.
- `DecodedAsSent`: how a response is cut into chunks changes neither its events nor whether it
  fails. Which of two failures of one response is met first may depend on it.
- `ReadsHoldTogether`: a drained cursor is the history when it was opened. A search's offset is
  a position, so a record that goes or comes before it moves the rest, and the next page skips
  one or shows one again (the run has both). Nothing else does that: neither what changes
  behind the offset, nor a put to a record that is shown, which stays in its place.
- `StreamAsGenerated` excepts the two points where the code differs on purpose or by
  history: an OpenAI stream accepts a call without arguments, and only a Gemini stream
  insists on a finish reason.
- `RenewedStays`: a record that a put has renewed while a sweep waited for its row is not
  deleted, since the row is judged again under its lock.
- `ReviewedOnce`: however often a review is started, interrupted or killed, the release is
  fetched at most once, exit codes 0 and 1 are reports of stored reviews, and a budget with
  room for the context window and one exchange never refuses, so no fetched report is lost
  for its size.

Definitions named in a comment `Fault:` are mistakes the code could have had. No
specification uses them; each, put in the place of the definition behind it, makes
TLC refute the property listed with it in `PROJECT.json`.

## Bounds and reductions

- `MaxClock` stops the clock. In `RunStore` leases last one tick and the clock makes one
  or two, so a lease can be alive, end exactly at a read, and be over, with a successor
  behind it. In `RuntimeInvocation` the lease is 3 and the clock 3 or 4: an invocation, its
  deadline, its cleanup and a successor's turn fit; `Start` requires
  `now + Timeout <= MaxClock`, so that a deadline is never cut off by the bound. In
  `invocation_safety` the loop may lag by as much as the lease's margin, so both sides of
  `TurnsExclusive` occur.
- Two connections suffice for every pair of conflicting transactions; the deadlocks of
  row locks this code could have need two threads and two connections, which
  `store_keys` has. The proofs cover any number.
- `SweepLimit` (the `limit` of `recover_expired`), `BatchLen` and `HostBatches` bound
  sweeps, batches and host appends. `store_calls` uses batches of two so that a torn one
  would show.
- `ClaimTraffic` (only claims, recoveries and sweeps) is an action constraint that drops
  calls `store_calls` covers. `Serving` leaves `shutdown()` to `invocation_turns`.
- `View` in the invocation runs hides what no later step and no property of these runs
  reads: when a run was claimed and settled, its error code, and the lease of a settled row.
- Runs and sessions are interchangeable model values: symmetry is used in safety runs
  only.
- `QueueSize` 2 with four events to send makes the queue fill, drain and fill again; the
  64 of the code differs in nothing else.
- `context_window` takes every history and request of up to five messages out of nine
  kinds: system, user and assistant texts of two sizes, calls and results of two tools,
  an unencodable message, against ten bytes. Five messages hold an exchange with a
  result too many, a barrier with something older and newer, and a request that
  continues an open group.
- `agent_loop`: three rounds of tools, two calls a round, two deltas; a round can follow a
  round, and a call a call. `MaxCalls` and `MaxDeltas` bound what a model sends. Three rounds
  are what a recursion limit too low by a round needs to show.
- The release desk has two keys, four processes, and context windows and budgets of a few
  messages (`ContextBytes`, `InputLimits`) on both sides of what one exchange needs.
- `service`: the stream of `QueueSize` 2 and four events to send, every combination of a
  request's header, size, validity and route. Requests do not influence each other.
- `adapters`: two turns (`MaxTurns`) of up to two added messages (`MaxMade`) in two pieces
  (`MaxPieces`): a call and its answer, or two messages, and their return in the next turn.
  Responses of up to two blocks (`MaxBlocks`) with repeated, missing and distinct ids,
  whole, empty and cut arguments. Responses of up to seven bytes (`MaxWire`) with limits of
  four for an event and six in all: two events, carriage returns and both overflows fit;
  bytes that are no text come in responses of up to five, before or behind an event.
  Conversations of up to five messages (`MaxMessages`) over two ids and two tool names: a
  call, its result, the same id again for the other tool and its result, with one to spare.
- `records`: two connections, one external key, four names in two namespaces, pages of one,
  fetches of two, three writing calls (`MaxWrites`), three turns (`MaxTurns`), one tick: two
  writers and a sweep, or a retry behind two creators. Feedback has five submissions: an
  original, a conflicting copy, a foreign one, a correction and a correction's correction
  on another run. `OnePart` keeps threads, records, history and feedback apart, which share
  no row.
- Deadlock is checked in the two store runs, where a rollback is always possible, so that
  `NoWaitCycle` and `TransactionsEnd` are what says something about waiting. It is off where the system really ends: an
  invocation, a stream, a loop, a response or a selection that is over has no next step, and
  the records are quiet once the bounds on their calls are used up.

## Fairness

- `RunStore`: weak fairness of `Statement` says that a client and its server keep executing
  an open transaction; strong fairness of `Lock` and `ClaimInsert` that PostgreSQL serves
  the waiters of a row lock or an unfinished key in turn, which its lock queues do.
- `RuntimeInvocation`: only timers (`Deadline`, `CleanUpFails` as the cleanup's timeout),
  pending cancellations (`Cut`), the wake-up of a handler whose cleanup is done
  (`Deliver`) and the clock. No store call, agent, hook or model is assumed to return:
  `Answered` holds because the code bounds every wait. Store calls and cleanups that do
  return are ordinary, unfair steps.
- `StreamBridge`: the event loop runs what can run; the invocation has a deadline and its
  cleanup one of its own (`WF(Fails)`, `WF(CleanedUp)`). The reader is never assumed to
  ask, to leave or to close.
- `HttpService`: the same of the tasks below it; the response takes what is queued and ends
  (`Sends`, `StreamEnds`); a generator nobody holds is collected (`Collected`: asyncio closes
  it when it is finalized). The client is never assumed to read or to disconnect.
- The other modules claim nothing about progress. `RunsTheNativeLoop` and
  `ImplementsLedger` are safety refinements.

Nothing in the code schedules `recover_expired()`; a host does (ADR 0009). It may run at
any time in the models and is never assumed to.

## Disagreements

Three runs are expected to fail; each checks what the documentation says.

`bridge_shutdown`: `docs/runbooks/http-service.md:97-98` says that
after the headers are sent "failures use `event: error` with the standard safe error
envelope". `shutdown()` cancels the `produce()` task of a stream (`runtime.py:151-153`).
The `CancelledError` is not caught by `except Exception` (`runtime.py:212`) and skips the
sentinel (`runtime.py:215`), so a reader waiting in `queue.get()` gets no event, no error
and no end. Hosts are told to drain ingress before they call `shutdown()`
(`docs/runbooks/runtime.md:204`), which makes the case rare. `StreamServed`, which excepts
it, is checked in `service`.

`feedback_export`: `docs/runbooks/feedback.md:53-54` says to "use a fixed `created_to`
cutoff for repeatable exports while submissions continue". `created_at` is the database's
`now()`, the time the submission's transaction began; one begun before the cutoff may commit
after an export has been read, and is in the next export up to the same cutoff
(`feedback/postgres.py:161`). A cutoff older than any open submission is repeatable.

`gemini_names`: `docs/adr/0015-opt-in-initial-context-window.md:39-40` says that "Reuse of a
call ID after its earlier exchange has closed remains supported", and ADR 0014 that ids need
only be unique within one result. `gemini.py:167-172` collects the names of all calls of
the conversation by id, so the last one wins: when a later round reuses an id for another
tool, the earlier result is sent as that tool's `functionResponse`. `RequestsWhole`, which
excepts it for Gemini, is checked in `adapters`.

## Proofs

Each theorem holds for every value of the constants that meets the named assumptions of its
module: any number of runs, threads, keys, sessions, callers and bounds, and any requests,
leases, lags, queue sizes, call ids, messages and budgets. The assumptions say that sizes
and times are numbers (positive where the code validates it), that `NoKey` is no key and
`None` no session, that requests are of the shape callers send, and that host batches are
not run ids; TLC evaluates them on every run. `MemoryStore` needs none but positive page
sizes, `FeedbackStore` none at all. `ContextWindow` needs a budget of two bytes (the code's
own check, `context.py:54`) and messages of the canonical shape, in which only assistants
and tools carry ids (`models.py:104-113`). `Settings` of the support agent is a hypothesis
of its theorems (a positive limit, as `config.py` demands, and a tool to call). The release
desk's `DeskAssumption` is string keys, sizes that are numbers and the same window. Unlike
the runs, the proofs use no symmetry, view or action constraint.

| Module | Theorem | Statement |
|---|---|---|
| `RunStoreProofs` | `Invariance` | `Spec => []Inv`, the inductive invariant |
| | `TypeCorrect` | `Spec => []TypeOK` |
| | `ThreadArbitration` | `Spec => []OneActivePerThread` |
| | `KeyArbitration` | `Spec => []OneRunPerKey` |
| | `LeaseFencing` | `Spec => []SettledAgainstLease` |
| | `SerialTurns` | `Spec => []TurnsSerialized` |
| | `AtomicCompletion` | `Spec => []AtomicFinalization` |
| | `OrderedHistory` | `Spec => []HistoryIsOrdered` |
| | `TerminalRunsStay` | `Spec => TerminalIsFinal` |
| | `NoDeadlock` | `Spec => []NoWaitCycle` |
| | `Refinement` | `Spec => ImplementsLedger` |
| `RuntimeInvocationProofs` | `LedgerInvariance` | `LedgerSpec => []LedgerInv` |
| | `Invariance` | `Spec => []Inv`, the inductive invariant |
| | `DurableAnswers` | `Spec => []DurableAnswer` |
| | `OneExecutionPerKey` | `Spec => []OneExecution` |
| | `ErrorsAreTrue` | `Spec => []NoFalseFailure` |
| | `OrphansHaveCauses` | `Spec => []OrphansExplained` |
| | `TurnsAreExclusive` | `Spec => []TurnsExclusive` |
| | `ShutdownLeavesNothing` | `Spec => ShutdownIsClean` |
| `HttpServiceProofs` | `StreamIsWholeOrPartial` | `Spec => []WholeOrPartial`, any reader |
| | `ServedStreamIsWholeOrPartial` | `ServiceSpec => []WholeOrPartial` |
| | `ServiceAnswersAsPromised` | `ServiceSpec => []ServiceAnswers` |
| `RecordsProofs` | `ThreadsAreUnique` | `Spec => []OneThreadPerKey` |
| | `SweepsSpareTheRenewed` | `Spec => RenewedStays` |
| | `ReadersSeeWholes` | `Spec => []ReadsHoldTogether` |
| | `FeedbackStaysConsistent` | `FeedbackSpec => []FeedbackConsistent` |
| `AgentLoopProofs` | `EffectsAreAccounted` | `Spec => []EffectsAccounted` |
| | `ExchangesAreWhole` | `Spec => []ExchangesWhole` |
| | `StreamsAgree` | `Spec => []StreamAgrees` |
| `ContextWindowProofs` | `SelectsAsPromised` | `Spec => []SelectAsPromised` |
| | `StreamSelectsTheSame` | `Spec => []StreamsTheSame` |
| | `HeldWithinBudget` | `Spec => []RetentionBounded` |
| `ReleaseDeskProofs` | `ReviewsHappenOnce` | `DeskSpec => []ReviewedOnce` |
| `SupportAgentProofs` | `NativeLoop` | `Settings => (Spec => RunsTheNativeLoop)` |
| | `AgentAccountsForEffects` | `Settings => (Spec => []Loop!EffectsAccounted)` |
| | `AgentExchangesAreWhole` | `Settings => (Spec => []Loop!ExchangesWhole)` |

### The run store

None of its properties is inductive: they speak of committed rows, and what a
commit does is decided statements earlier, from rows read under a lock that must still
be held. `Inv` adds what is true in between:

- `LockInv`: a session past its lock statement holds its thread's row, and only such a
  session holds one.
- `KnownRun`, `FreshClaim`, `ClaimsApart`: the run of a call exists and is on the locked
  thread; a claimed run does not exist yet and is claimed once.
- `WriteInv`: what is buffered is a first row or a rewrite of an active row of that thread,
  with right moments (`RowTimes`). Since the thread is locked, the row it was computed
  from is the committed one.
- `SuccessorInv`: once a claim has buffered its row, everything else on the thread is
  settled before it in the table it is about to commit.
- `KeyInv`: the key of an executed, uncommitted insert is in no committed row and in no
  other such insert. This is what waiting at the unique index gives, and what
  `OneRunPerKey` needs, since claims of one key may lock different threads.
- `BatchInv`, `CompleteInv`, `HasLast`: a buffered batch continues the thread, and travels
  with the success of its run.

The step is proved in two halves. `SelfStep` shows that the session which moves keeps its
own `SessionInv`, one lemma per action; `OthersStay`, that no step of one session disturbs the
`SessionInv` of another, because the thread lock separates them (`Exclusive`). Clock and
commit are the two steps that reach across. `NoDeadlock` needs no more than
`LockInv`: whoever is waited for is inside a transaction, so it has its thread and can
only wait for a key; a key is held only by a session at its commit, and that waits for
nobody. A chain of waits has at most two links.

`OrderedHistory` adds `HistoryInv` for what ordinals say across batches: batches begin and
end at the joints, and of two succeeded runs of a thread the one claimed first wrote first.

### The store implements the ledger

Only `Commit` and `Tick` show through the mapping. `Tick` is `Pass`; a commit is one
`Take`, `Run`, `Settle`, `Finish`, `Expire` or `Post`, or a stutter. What makes it so was
decided at an earlier moment, which is why the ledger's operations take `at`. `RefInv`
carries that moment from the statement to the commit:

- `MoveInv`: a buffered row is an operation of the ledger that was open at some `at`
  up to now (`MovesTo`); a claim's rows are a whole `Take`, expiry of the predecessor
  included (`Takes`).
- `PostInv`: a host's batch is posted once, which `Post` demands.
- `RanksInv`: the turns of a thread are its first messages, ranked. That a commit appends to
  the turns and does not reorder them is `NthJoins` and `TurnAppended`.

### Invocations

`RuntimeInvocation` is built from the ledger's operations, so the ledger's invariant comes
first: `LedgerInv` has one active run a thread, one run a key, moments in order and the
turns of exactly the succeeded runs. The invocation's `Inv` adds, for each invocation:

- `Requested`, `OwnRow`: its run has its request's thread, key and hash, and while the task
  is at work its run is active or its lease is over.
- `OnTime`: its deadline was set before its claim, which makes the lease outlive it.
- `Abandoned`: a store call is left behind only together with a cleanup.
- `Returned`: what a cleanup found is still so. A run it missed may be claimed afterwards, by
  the call that was left behind, but never begins.
- `Prior`, `Outcome`: a retry's earlier run has its key and hash; which ends leave which rows.

and that nothing is left after a clean shutdown (`Quiet`). `Bystander` says that a step
which touches one invocation keeps the `TaskInv` of the others: what a store call does to
the run of another task is at most to find its lease over (`Aged`, `Watched`). It
needs no invariant about two invocations but the ledger's. `OneExecution` then follows
from one run per key, and `TurnsExclusive` from `OnTime` and one active run per thread.

### Streams and the service

`InOrder` describes all the producer has put so far, `received \o queue`: the script as far as
it was sent, then the terminal item, then the sentinel. Positions in the concatenation do
not change when the reader takes an item, so the reader's speed, the size of the queue and
when it leaves do not matter. `ServiceInv` adds that a body is a prefix of what was
received, who is waiting for what, and that an error event and the run's end agree.

### Memory and feedback stores

`create_thread()` has either inserted under a key no committed thread has or has found
one (`CreateOK`); a transaction's rows and keys are its own (`Exclusive`), which is the
unique index and the row lock at work; a sweep has locked only what is expired, and
what is locked cannot be renewed (`SweepOK`). In the feedback store a call remembers what it
has checked (`CallOK`): target and parent never become wrong again, because runs stay
succeeded and rows stay; uncommitted rows share no key and no id (`Exclusive`).

A reader's pages and its cursor are proved against what they were read from: `HistoryOK` (a
history holds the turns appended so far, numbered in order of their appending), `CursorOK`
(the cursor's rows are the history as it was when it opened, and what it has returned is a
prefix of them), `PagesOK`. The last has two halves: what every page could see and none has
shown is behind the offset (`NoneSkipped`), and nothing from the offset on is in front of what
was shown (`NoneAgain`). `Ahead` and `Behind` carry them from one page's records to the next's
by counting (`Places`): if all that was before the offset is still there, it takes as many
places as it took. `Found` ranks the records that match, so that its n-th is the one with n
of them up to it: an order without a sort (`Ranks`).

### The context window

Three descriptions of one selection meet: `select()` scans groups, then takes them from the
newest; `select_stream()` keeps what may still be taken while it scans; `Promised` names no
group. A message costs its bytes and one for the comma (`Cost`), so that costs add up over
disjoint sets of places, and `Fits` is the code's `_fits`. A group is a set of places, and
`Ordered` says that the groups lie one behind the other, so what is kept is a range of them
(`Span`).

- The stream's invariant `StreamInv` says that `w` `Follows` the scan `select()` would have
  made so far (`Mirrors`: same groups, same open calls, same totals) and is `Tight`: what is
  optional is the groups behind some `i` that fit, and with one more they would not.
  `Split` places the mandatory groups, which contain a message of the request, behind the
  others. A sum only grows (`CostPlus`), so what was dropped never fits again; this is
  why dropping early is right. `HeldWithinBudget` is what this leaves of the payloads
  (`Bounded`), whether the scan has failed or not.
- `select()` goes through the groups the other way and stops at the first that does not fit.
  `Settles` states the same `i` without a state; `Course` is what the loop holds after each
  group, and the loop is that function (`CourseTaken`). With one `i` for both,
  `finish()` returns what `select()` does: `StreamSelectsTheSame`.
- `SelectsAsPromised` needs no history of steps: it is proved for any two sequences.
  `Reads` relates the scan to the calls open at each place and the first fault to the error
  raised. `Cutting` says that groups start exactly where a turn boundary is, with no call open,
  and what becomes of a group across the request's start; `CutAt` numbers the boundaries, which
  puts the cut that `Promised` names at the start of group `i`.
- `SelectDelivers` is what a host relies on: the messages sent on are whole, not more than
  the budget, and end with the request.

### The release desk

`Picked` is `ContextWindowProofs` with the desk's thread and window, so the selection in the
middle of the desk's turn is the operator the theorems above are about. `DeskInv` adds to the
types:

- `Stored`: of a key whose run has succeeded the thread holds one call and its result side by
  side, and of any other nothing; new turns do not reorder or repeat (`SavedKeeps`).
- `DeskOK`, `Truly`: whoever works for a run has it active, a report about to be printed is the
  stored one, and an exit code 0 or 1, once decided, stays true whatever comes later.
- `FetchOK`: a key that has fetched has a run, and no process is about to fetch for it (`About`).
  A run is claimed once, which closes the argument across processes.
- `TurnOK`: how far the turn has come (`Turned`) and how much larger than the window the
  model's input can have become by then. `NoneRefused` follows, since a roomy budget is at
  least that large, and the router makes no more than one exchange.

### The agent loop

`Recorded`, `Distinct`, `Accounted`: a call is recorded before the next starts, no call to
make was started, and the counters of models asked and usage fit the phase; these give
`EffectsAccounted`. `Answers` and `Awaited` say of every message of calls how many of them
have their answer behind it, which for the last one are all but `todo`; `ExchangesWhole` is
what is left of it when `todo` is empty. `Streamed` relates the events emitted to the results
recorded, by counting events up to a position (`UpTo`); it only speaks of streams.

### The support agent

Each step of the two nodes is one step of the native loop, or none (`LoopWaits`: a result
counts when it is routed). What has to be invariant is that a node's locals are empty
outside it, that the message `route()` looks at is a result of the model, and `Counted`: a
graph has taken two steps a round and at most two more, so it never meets its limit
(`LimitIsFar`). `Native` then instantiates `AgentLoopProofs` with the same mapping, and the
loop's theorems hold of the agent.

## Limits

Only model-checked:

- liveness and fairness, out of the prover's reach: `TransactionsEnd`, `Answered`,
  `Quiesces`, `StreamServed`, `DisconnectCleansUp`;
- what folds, filters or concatenates data with the community modules' operators:
  `StreamAsInvoked`, `OnlyNew`, `StreamAsGenerated`, `NoUnfinishedResult`, `DecodedAsSent`
  and `RequestsWhole`. They compare `SelectSeq`, `FlattenSeq` and folds over pieces of text
  with what the pieces add up to. The library's induction theorems take an operator and cannot be
  used; where a recursion could be stated as a function over `0 .. n`, its properties are
  proved from the well-foundedness of the naturals (`Induction` and its relatives in
  `ContextWindowProofs`, which is how sums, scans and loops are reasoned about there). The
  translations of these modules recurse over parts of messages on both sides of each equation,
  and have not been restated so. The eight proof modules cover every other safety property of
  a passing run.

That `RuntimeInvocation` obeys `LedgerSpec` holds by construction, as its store calls are the
ledger's actions, and is not listed as a property.

Abstractions worth knowing:

- Reads of history, hooks and the agent are one await (`work`) in `RuntimeInvocation`;
  `AgentLoop` and `ContextWindow` open it up. A failure there is any of theirs.
- A loop that blocks longer than the lease slack is excluded by `LoopLag`.
- A stored response is its run; content equality is the request hash.
- A message has no text and a tool no arguments in `AgentLoop`; what validation refuses is a
  result with a repeated call id, or a failing step.
- Closing a stream that hangs is not modelled: `close_source` awaits `aclose()` behind
  the deadline without a bound of its own.
- `request_id` is unique in the run table too; which of two colliding indexes PostgreSQL
  reports is not modelled there (it is in `FeedbackStore`).
- A graph agent reports the usage of its last model call only; `account` in `SupportAgent`
  is what the native loop would report, and no property compares the two.
- OpenAI's payload sends the first result of a tool message, and the framework translation
  refuses a message with two. `RequestsWhole` excepts the former, `Ask` fails on the latter;
  the agent loops record one result a message.
- Gemini's refusal of a result without a call is unreachable in `ModelRequests`, whose
  conversations are those the agent loops record.
- The model clients' names of tools are checked as their ids are and left out, as are HTTP
  details below a status and broken connections.
- `ReleaseDesk` runs one process at a time; concurrent ones are `RuntimeInvocation`'s matter.
  Its feedback, history and migrate commands are left out: each is one call of a store.

Not modelled: hooks and guardrails beyond failing and blocking (what they look for is a
predicate on text); the tool registry's `register()`, configuration and most value types
(validation without state over time); telemetry (no effect on control); migrations (run
before the runtime starts; their indexes are modelled where the stores use them); scripts,
validation workloads, container files, and the composition roots of the examples. None keeps
state that a later step depends on, so a model of them would restate their assignments.
