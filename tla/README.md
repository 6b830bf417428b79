# Nautilus Trader in TLA+

A TLA+ model of the trading core of Nautilus Trader (the Rust crates under
`src/crates`): what an order, a position, the cache, the execution engine, the live
node's checks, the order emulator and the throttler do with the events and commands they
get, and how a venue adapter's WebSocket client survives reconnections; model-checked
with TLC on small instances and in part proved with TLAPS for every value of the
constants.
`PROJECT.json` maps each definition to the lines it translates.

## The system

A trading node runs one event loop. Strategies, the engines, the cache and the message
bus all live in its thread, so a handler is atomic. What makes the system hard is the
outside: venue adapters, timers, reconciliation and purge tasks run concurrently and put
their events in the loop's channels, so events reach a handler late, repeated and in any
order relative to each other, and state checked by one handler is used by a later one.
The network clients are different: several tasks on several threads share atomics and
channels, and there a step ends at each `await`.

| Component | State | Operations | What must hold |
|---|---|---|---|
| Order (`model/orders`) | status, saved previous status, quantities, trades | `apply` of 17 event types | a rejected request restores the true status; quantities agree; a trade counts once |
| Position (`model/position.rs`) | log of fills and adjustments, quantities, average prices, profit | `apply`, `apply_adjustment`, `purge_events_for_order` | side follows quantity; profit is the cash flow; a purge removes exactly one order |
| Cache (`common/cache`) | orders, positions, the index sets derived from them | add, update, snapshot, purge | the indexes, kept incrementally, agree with the objects |
| Execution engine (`execution/engine`) | cache, position id counter | submit; order events: route, check, apply to order, then to position (open, change, close, flip, reopen) | every fill accepted is in the positions once; nothing panics; spawned orders share a position |
| Throttler (`common/throttler.rs`) | timestamps, buffer, limiting flag, timer | `send`, `try_reserve`, `reset`, timer callbacks | rate limited; nothing limited without need; buffered messages leave, in order |
| Risk engine | trading state, throttlers | checks commands | commands are denied, forwarded or throttled |
| Order manager, emulator (`execution/order_manager`, `order_emulator`) | kept submit commands, matching core, subscriptions | lists, modify, cancel, ticks, release, contingencies (OCO, OTO, OUO), restart | what is held agrees with the orders; the sibling of an order that traded is not held on; a child is covered by its parent |
| Reconciliation (`execution/reconciliation`) | none: order and report in, events out | acceptance, amendment, inferred fills, closure | an order adopts what a report shows; a trade counts once through whichever channel it comes |
| Live node, execution manager (`live`) | in-flight and missing orders, retries, recent fills | select loop; in-flight and open-order checks | a request is watched until it is resolved, and not given up early; a submission is resolved in the end |
| WebSocket client (`network/websocket`) | connection mode, writer, reader, reconnect buffer, login, subscriptions | controller, write and read tasks; reconnect, replay | one connection; accepted messages are not lost; no revival after a disconnect |
| Bybit WebSocket adapter (`adapters/bybit/websocket`) | reference counts, feed handler | subscribe, unsubscribe, login, resubscribe, close | every topic with a subscriber is served again after a drop |
| Cache database, event store | persisted orders, positions, entries | write, restart | not modelled |
| Portfolio, data engine, matching engine, order book, life cycle, backtest, other adapters, persistence, indicators, bindings | | | see `components` in `PROJECT.json` |

A fill goes from the venue through `ExecutionEngine::handle_event` (find the order by
client or venue order id), `determine_position_id`, `validate_fill_for_order`,
`Cache::update_order` (hence `OrderCore::apply`), and `handle_position_update` (hence
`Position::apply` and the cache's position operations). A command goes from the strategy
through the risk engine and its throttlers to the execution engine, or, if the order is
emulated, to the order emulator, which releases it to the execution engine when the market
touches its trigger. In a live node the manager registers each command that goes out and
watches the events and reports that come in.

## Modules

| Module | Models | Notes |
|---|---|---|
| `Quantity` | saturating raw arithmetic | `RawMax` is `QUANTITY_RAW_MAX`; above it `Quantity::from_raw` panics |
| `OrderCore` | the order as a record, `transition` as a function, `apply` and the handler of each event as operators | shared by `Order` and `Cache` |
| `Order` | one order under any stream of events | actions `Plain`, `Accept`, `Update`, `Fill`, all through `apply`; a fill on which `from_raw` panics is not delivered |
| `PositionCore` | the position as a record, `NewPosition`, `apply`, adjustments, purge | prices and profit are exact fractions |
| `Position`, `PositionPurge` | one position under fills and funding, and with purges | |
| `Cache` | the cache as a record; its operations as operators | |
| `ExecEngine` | the engine; actions `SubmitOrder`, `HandleEvent`, `HandleFill`, `HandleLegFill`, `PurgeClosedOrder`, `PurgeClosedPosition`, `RegisterAccount` | composes `Cache`, `OrderCore`, `PositionCore` |
| `Throttler` | a throttler, its timer and the channel its callbacks wait in | actions `Send`, `TryReserve`, `Reset`, `Tick`, `TimerDue`, `HandleTimer` |
| `Reconciliation` | the functions that turn a report about a cached order into events, and the engine's handling of them | on top of `OrderCore` |
| `LiveNode` | one order, the node's loop, the execution manager, and a venue behind a network that loses and reorders | actions `ModifyOrder`, `CancelOrder`, `HandleCommand`, `HandleOrderEvent`, `HandleReport`, `CheckInflightOrders`, `StartOpenOrderReportCheck`, `ReconcileOpenOrderReports`, `PruneRecentFills`; `Tick` and the venue are external |
| `OrderManager` | the contingencies and the emulator's methods that they call, as functions of the emulator's state | on top of `OrderCore` |
| `OrderEmulator` | a list of orders, the emulator, the engines' queue, the venue, crash and restart | actions `SubmitOrderList`, `ModifyOrder`, `CancelOrder`, `CancelAllOrders`, `OnTick`, `HandleCommand`, `DenyCommand`, `VenueEvent`, `Crash`, `ReconcileEvent`, `on_start` |
| `Venue` | external: what the other end of a WebSocket connection does | |
| `SubscriptionState` | the tracker of subscriptions, as functions of a record | |
| `WebSocketSession` | the abstract specification of the client | no tasks: modes, sessions and the number of messages that are still the client's |
| `WebSocketClient` | the three tasks and the login tracker | a step per await |
| `BybitWebSocket` | the adapter on top of it: subscribers, feed handler, shutdown | composes the four modules above; `ImplementsSession` is the refinement |
| `MC*` | instances for TLC | |
| `OrderProofs`, `PositionProofs`, `ExecEngineProofs`, `ThrottlerProofs`, `LiveProofs`, `WebSocketProofs` | theorems | |
| `CoreLemmas` | lemmas that several of them use: sums over finite sets, what one fill does to a position | |

Where the code mutates a structure in place, the model has an operator from the old
record to the new, named as the function in the code; an action is a call of the entry
point. A loop over a hash set whose order matters is a choice of the element met first.
Definitions marked "Mutant" or "Bug" are variants of the definition that follows them
with a plausible mistake; they show that the properties would notice it.

What the modules leave out:

- Prices of orders, client ids, messages, logging, the values of timestamps (an order
  and a position record whether `ts_closed` is set).
- In `PositionCore`: inverse instruments and multipliers, `realized_return`, the
  commission totals per currency, rebates (commissions are not negative), and rounding:
  `apply` adds up in f64 and rounds quantities and money, where the model's fractions are
  exact. The properties of quantities, cash and averages hold of the code up to that.
- In `Cache` and `ExecEngine`: the indexes per venue, instrument, strategy and account
  (there is one of each), `orders_pending_cancel`, order lists, the own order book,
  spread instruments, the database, emulated orders, and published events.
- In `Throttler`: `dispose`, and counters that only accessors read. The repository
  reserves and resets only throttlers that drop (those of the risk engine), so
  `TryReserve` and `Reset` are restricted to these. On one that buffers, a refused
  `try_reserve` followed by a `send` would leave the message without a drain timer, and
  a drain callback already in the channel at a `reset` would drain messages received
  after it; nothing in the code does either.
- In `Reconciliation` and `LiveNode`: external orders, position reports, the mass status
  at startup, filters, prices and commissions of inferred fills, and more than one order
  (the manager keeps its records per order). A time is an age in ticks, capped one above
  the threshold that it is compared with.
- In `OrderManager` and `OrderEmulator`: execution algorithms and spawned orders, the
  prices (a tick matches any set of held orders), the computation of trailing stops, order
  book deltas, several instruments, and `on_reset`. The database is taken to hold every
  change of an order; a crash loses everything else.
- In `WebSocketClient`: stream mode (`connect_stream`, `notify_closed`), heartbeats, the
  rate limiter, TLS and proxies, and the wake-ups through `state_notify`, as every wait
  also has a timeout. An unlimited number of attempts (`reconnect_max_attempts` unset, as
  in the Bybit adapter) is not an instance; the theorems hold for every limit. `send_text`
  reads the mode and enqueues in one step.
- In `SubscriptionState`: what is between the map accesses of one operation. Each is
  several accesses to concurrent maps without a common lock (`subscription.rs:217`), and
  one step here.
- In `BybitWebSocket`: parsing, market data, order commands over the trade connection. A
  call of `subscribe` or `unsubscribe` is for one topic, and is three steps: it counts the
  reference, marks the topic and sends the command. Every request names its topic as its
  `req_id`; what `handle_subscription_ack` does with an answer without one (it takes it for
  all pending topics) and with a refused unsubscription (it logs it) is left out, and so is
  `unsubscribe` of a topic without a reference, which changes nothing.

## Runs

| Run | Instance | Shows |
|---|---|---|
| `order` | quantities up to 3 with a raw maximum of 4, 3 trades, 2 venue order ids, every event type; 45,372 states | `PendingRemembersFirm` (however requests, rejections and repeats mix, a rejected request returns the order to its last firm status), `QuantitiesAgree` (leaves and overfill), `EachTradeCountedOnce`, `ClosedStaysUnlessFilled` |
| `position` | 4 trades of 1 or 2 in 2 orders at 2 prices, commission in either currency, an adjustment, purges; in a cycle with a base commission all fills are at one price, as the properties about prices except it. 154,238 states | `SideFollowsQuantity`, `BooksBalance`, `ProfitIsCashFlow`, `AverageCloseIsOfClosings`, with and without purges, and `PurgeRemovesTheOrder` |
| `exec_netting` | NETTING, position ids of the venue and of the engine, 3 trades, two environments: a buy and a reduce-only sell at 2 prices; one order under every event type with a leg fill and purges. 36,710 states | `NettingBooksMatch`, `RealizedIsCash` (over all cycles, with their snapshots, and without purges, which drop those), `NeverPanics`, `OrderIndexesFollow`, `PositionIndexesExact` |
| `exec_hedging` | HEDGING, a primary order, one spawned and one linked, position ids of the venue and generated; 128,101 states | `BooksMatchFills`, `SpawnSharesPosition` |
| `throttler` | every mode, limit 3 in an interval of 4 ticks, 7 messages, batches of 1 to 3; 31,212 states | `RateIsLimited`, `DeliveredInOrder`, `NoNeedlessLimit`, `BufferDrains` |
| `live` | an order of 2, five environments: a modify and 3 trades; 2 trades in every kind of report; 3 requests; the open-order check twice; an order of 1 that is filled before the report. Threshold 1, 2 retries; 389,651 states | `WatchedUntilResolved`, `OvercountNeedsInference`, `PatienceKept`, `ReportIsAdopted`, `SubmitsResolved` |
| `emulator` | brackets (OTO with OCO or OUO exits, entry emulated or at the venue) and OCO pairs, of quantity 2, one with an iceberg exit, with an amendment and a restart; 298,659 states | `StatusIsTrue` (an order that says it is emulated is held, one that says it is released is on its way), `HeldOnceReleasedOnce`, `SentAgainByParentFill`, `ChildFollowsParent`, `OcoTradeLeavesNoneHeld`, `OuoSharesLeaves`, `HeldChildIsCovered`, `VenueCloseReachesLinked` |
| `websocket` | one topic, public and private, login accepted or refused, 2 connections, one attempt to reconnect in a row, four environments: 3 calls in turn over a drop or an idle timeout; 2 calls at once over one; a call and `close` over one; 3 calls at once and `close` on one connection. 556,802 states | `TypeOK` with the bound on attempts, `OneConnection`, `WantedIsTracked`, `UnwantedIsForgotten`, `ReplayWaitsForLogin`, the refinement `ImplementsSession`, and `WantedIsServed` |
| `exec_leg_fill`, `emulator_cancel`, `emulator_modify`, `websocket_race` | as small as the case needs | violations, see below |

Why the bounds suffice: three trades open, close or flip, and reopen a position; a
fourth makes a purge replay pass through flat. A raw maximum just above the quantities
brings overfills to it. Two orders suffice for every pairwise interaction the engine has
(linked, reduce-only, same trade id), three for a spawn with a link. Seven messages fill
a window of three twice and begin a third. An order of two units can be filled in parts,
which is what the contingencies and inferred fills turn on; three requests are a submit
and two that can cross. Three calls subscribe, give up and subscribe again while the
acknowledgements of the first are under way; one drop hits every await of every task, and
with one attempt the client also gives up. The theorems of `WebSocketProofs` have no such
bounds. An environment is a member of the constant `Bounds`, chosen in `Init`: what it
leaves out in one behaviour another has. `allow_overfills` is FALSE in every run of the
engine; the theorems hold for both values. Trade ids are symmetric: the code only
compares them. Deadlock is not checked where trades, ids or calls run out, or a client is
closed; the order and the throttler never stop.

### Fairness and liveness

`Throttler` assumes weak fairness of `Tick`, `TimerDue` and `HandleTimer`: time passes, a
tokio timer that is not canceled completes, and the event loop takes events from its
channel as long as it runs. Nothing is assumed of senders. Timers may be late by any
time, and early by `mode.early`: `LiveTimer::start` takes a millisecond off its delay.

`LiveNode` assumes weak fairness of the loop's handling of commands, of the
`OrderSubmitted` that the execution client puts on the node's own channel, of the
in-flight check (an interval timer of the loop) and of time. Nothing is assumed of venue
and network: what is on the wire may never arrive. `SubmitsResolved` holds all the same,
by the timeout.

`BybitWebSocket` assumes weak fairness of the feed handler, of each of the three tasks and
of a call that has begun, which the runtime polls as long as they can go on; not of new
calls, `close`, or the network. Attempts to connect may fail until they are used up, which `WantedIsServed`
allows for.

An order, a position, the execution engine and the emulator only react; what they should
eventually do depends on the venue, so their properties are safety and no fairness is
stated.

## Findings

| Run | What the code does | What is said of it |
|---|---|---|
| `exec_leg_fill` | a leg fill without an order is recognized as repeated only by the trades of the current cycle of the position; after it reopened or was purged the repetition is booked again | the test `test_process_duplicate_leg_fill_without_order_does_not_reapply_position` |
| `emulator_cancel` | canceling a held OTO parent leaves its children Initialized: the contingency is handled when the emulator hears its own `OrderCanceled`, and its handler skips that event because the emulator is borrowed (`handlers.rs:76`) | `docs/concepts/orders/advanced.md:121`: "Canceling a parent order will cancel all associated child orders." |
| `emulator_modify` | `handle_modify_order` (`emulator.rs:733`) sends its event to the engine with the cache borrowed, and the engine borrows it mutably: a command to modify a held order panics | `docs/concepts/orders/emulated.md:93`: "The emulated order can be modified (by the trader) and updated (by the market) until *released* or canceled."; `strategies.md:501` |
| `websocket_race` | the data client spawns each call as a task (`bybit/src/data.rs:216`). `unsubscribe` takes away the last reference, a `subscribe` on another thread counts a first one and marks the topic, and only then `unsubscribe` marks it, too: it has a subscriber, and `all_topics` does not have it, so no reconnection restores it | `subscription.rs:67`: "All operations are thread-safe and can be called concurrently from multiple tasks"; `:283` on `all_topics` |

### Divergences without a run of their own

The properties allow for what follows, and say so in their comments, or it lies just
outside the model.

Orders, positions, cache:

- `Cache::refresh_order` (`cache/mod.rs:4586`) leaves an order that goes SUBMITTED,
  PENDING_CANCEL, and back to SUBMITTED on a rejected cancel in `orders_open`, so that
  `is_order_open` holds for it (`:643`). `OrderIndexesFollow` allows exactly that.
- With `allow_overfills` a fill for an order that is already FILLED passes the check and is
  then refused by the order's state machine (`engine/mod.rs:2960`): no order and no
  position has it. `docs/concepts/execution.md:549` says the fill is applied.
- A flip whose commission is in the base currency forgets the closing part's commission
  (`engine/mod.rs:3479`); `docs/concepts/positions.md:117` has it affect both sides.
- A late fill reopens a CANCELED order, which `docs/concepts/orders/index.md` calls
  terminal; a late fill of an order whose HEDGING position closed replaces that position
  under its id, where `docs/concepts/positions.md` has closed positions remain.

Live node:

- A modify or cancel that is never answered ends in `OrderCanceled` (`manager.rs:853`);
  `docs/concepts/live.md:247` says "Logs warning and remains unresolved" (so do lines 91
  and 257). Fills that come later meet a closed order. `SubmitsResolved` is therefore only
  about submissions, on which code and documentation agree.
- When requests cross, the answer to the first clears the tracking of the second, which
  is then not watched. A report of which nothing can be applied clears it, too; a
  partially filled order whose cancel was lost can so stay PENDING_CANCEL for ever.
  `WatchedUntilResolved` excludes both, `SubmitsResolved` the first.
- The open-order check counts an order as missing when the query failed, and has no
  single-order query before it gives up (`docs/concepts/live.md:288`).
- A report that shows an order FILLED because the venue reduced its quantity to what was
  traded, when the node has all the trades, leaves the order PARTIALLY_FILLED with no
  leaves: only `OrderUpdated` is emitted, which changes no status, although the comment at
  `reconciliation/orders.rs:963` expects it "so the local state machine can transition".
  `ReportIsAdopted` leaves this case open: it asks for FILLED only where the report had
  fills that the order lacked.
- An inferred fill and the real one can both count: `OvercountNeedsInference` states
  that nothing else does.

Order emulator:

- The release of an order with an expiry panics in `MarketOrder::new`.
- `fill_limit_order` takes the order out of the matching core, with its command, before
  `LimitOrder::new_checked` can refuse the new order (`emulator.rs:1245`), as it does when
  a contingency has reduced the quantity below `display_qty`. The order then stays EMULATED
  and is neither held nor sent; `unmade` records it, and `StatusIsTrue` excepts it.
- A child that was released is submitted again by the parent's next fill, as its kept
  command is gone. Denied orders, and orders that the emulator cancels itself, do not
  reach their siblings.
- After a restart the emulator hears of no order until it holds one again: children that
  wait for a parent at the venue are not submitted, a sibling filled meanwhile leaves the
  other held, and an order that was Released when the process ended stays so.
- A later fill of an OTO parent overrides the quantity that an OUO sibling's fill left;
  an amendment of the parent passes its whole quantity on to held children.
- A strategy that sends an emulated command from its handler of an order event finds the
  emulator borrowed, and panics (`handlers.rs:47`).

WebSocket client and adapter:

- A topic that is given up twice before the first is acknowledged can stay `confirmed`
  with nobody wanting it, as the first acknowledgement clears the mark by which a late
  confirmation is known. The same when `resubscribe_all` has read the topics and one is
  given up before it marks them (`bybit/websocket/client.rs:484`).
- The write task that waits in `recv` when the mode becomes Active sends a new message
  ahead of those in its buffer (`client.rs:1268`).
- Calls for one topic that overlap can send their commands in the other order than they
  counted, so that the venue serves a topic nobody wants, or does not serve one that has a
  subscriber. `crossed` records all of these, `overtaken` the late mark of the run
  `websocket_race`.
- The answer to a login of the old connection, handled after the tracker was invalidated,
  marks the new one as logged in (or failed), so the buffer is replayed too early (or
  discarded): against `client.rs:1722`, "must not replay buffered messages until the next
  session authenticates". `stale_login` records it, and `ReplayWaitsForLogin` excepts
  it: the property says that this is the only way to replay too early. A login message
  can itself be buffered, and replayed behind a newer one.
- The transport may have taken a message whose send it reports as failed; the message is
  then sent twice. In the model a failed send took nothing.

## Theorems

| Theorem | States | Argument |
|---|---|---|
| `OrderTypeCorrect`, `RequestsRestoreFirm`, `QuantitiesCorrect`, `ClosedOrdersStayClosed` | the properties of run `order` but `EachTradeCountedOnce`, and the types, for any quantities, raw maximum and ids | `IInv` of `OrderProofs` is the conjunction of the properties with `FirmIsLatest` (the history variable is the status unless a request is pending) and `ClosedHasTimestamp`. None is inductive alone: leaves and overfill are computed from each other in `filled`, and the previous status is only right because requests are accepted only from working statuses. One lemma per handler, one step per event |
| `TradesAlwaysCountedOnce` | `EachTradeCountedOnce`, likewise | the fills have distinct trades and the filled quantity is their sum. The sum over a set does not depend on the order (`CoreLemmas`), so a new fill adds its quantity |
| `SideAlwaysFollowsQuantity`, `BooksAlwaysBalance`, `PurgeAlwaysRemoves` | side, quantity, peak and closing time agree; what is held is what was bought less what was sold, with the adjustments; a purge removes exactly one order: for any fills, funding and purges | `IInv` of `PositionProofs` says of the log that the signed quantity is the sum of its fills less their base commissions (`Books`). It is needed because a purge rebuilds the position from the log, and it survives because the log is cleared only when the position is flat. The replay is treated by its first step at which the invariant would fail |
| `ProfitAlwaysCashFlow`, `AverageCloseAlwaysOfClosings` | `ProfitIsCashFlow` and `AverageCloseIsOfClosings`, for any prices, commissions, funding and purges | the same invariant says of the two averages and of the profit that they are exact: the profit is the value held at the average price plus what the log received (`Profit`), and while the cycle has not reversed the total that weighs the average close is the quantity of the fills against its opening side (`Closing`). What `Plus`, `Times` and the averages do to fractions in lowest terms is proved first: two such fractions are equal when they cross-multiply, and every sum is unfolded at its last fill |
| `IndexesAlwaysExact`, `NettingBooksAlwaysMatch` | the position indexes are exact (NETTING and HEDGING) and the NETTING position holds what was traded, for any number of orders, legs, trades, repetitions, purges | `IInv` of `ExecEngineProofs`: `Consistent` (the maps and index sets of the cache agree and every position is coherent), `RoutedToNet` (with NETTING, an order that can still fill is indexed with the net position or none, which is what makes the denial after indexing harmless), and the books. Lemmas give the outcome of opening, changing, closing and flipping |
| `OrderIndexesAlwaysFollow`, `EngineNeverPanics` | the order indexes agree with the orders, and no repeated trade reaches `Position::apply` | `OInv`: the indexes with the status each order can have been in before (`Follows`), as `refresh_order` removes an order only from the sets its last status can have put it in |
| `SpawnsAlwaysShare` | the orders of a spawn share one position | `GInv`: all orders of a group that have a position have the same one, or one that a later flip or reopening gave them (`Shares`), and an order without one is not indexed with another |
| `BooksAlwaysMatch` | the positions together hold what was traded | `BInv`: `IInv`, `OInv` and that no cached order or position has an id the generator has yet to give out (`KnownIn`), so that a position opened under a generated id replaces none. The sum over positions changes by the one position a fill reaches, or the two of a flip |
| `ThrottlerTypeCorrect`, `RateAlwaysLimited` | the types and `RateIsLimited`, for every limit, interval, mode and number of messages | `IInv` of `ThrottlerProofs`: the timestamps are the newest part of the true window (`Logs`), and a drain callback on its way means that messages wait, that no other one is on its way and that the window will have passed when it is due (`Alarm`). That the drain loop stops in time uses the least number of a set of naturals, from the well-foundedness of `<` |
| `AlwaysDeliveredInOrder`, `NeverLimitsNeedlessly` | `DeliveredInOrder` and `NoNeedlessLimit`, likewise | what was sent followed by what is buffered is the sequence of messages received; a drain moves a prefix. From `Logs`, a message is limited only while `limit` of the true window are younger than the interval |
| `PatienceAlwaysKept` | the manager gives up on a request only after the threshold has passed once for every retry, for every threshold, number of retries and behaviour of the outside | `Inv` of `LiveProofs` (`Paced`): a request with `r` queries behind it is older than `r` thresholds and the time since the last query, or older than the whole patience |
| `OvercountsAreInferred`, `ReportsAlwaysAdopted` | `OvercountNeedsInference` and `ReportIsAdopted`, for every quantity, number of trades and requests, reductions at the venue included | `Delivery`: every event and report under way agrees with what the venue has traded (`GoodMessage`), and the order is what such messages can have made of it (`Sound`): either some fill is inferred or its fills are trades of the venue, each counted once. What a report does to an order is a lemma per case of `reconcile_order_report` |
| `AlwaysWatched` | `WatchedUntilResolved`, likewise | `Watched`, as long as no requests crossed and nothing traded: what the venue and the network still hold are answers to the one request that is outstanding (`Matched`), so that whatever clears the tracking also resolves the request |
| `SessionImplemented` | the three tasks and the feed handler implement `WebSocketSession`, for every number of topics, connections, drops, attempts and calls | the mapping counts as unsent what is in the channel, the buffer and in hand, less the one new writer that may be in the channel. `Linked` of `WebSocketProofs` says when there is one: exactly when the controller is ahead of the writer, which with the order of mode, controller and writer is inductive. Each step maps to a step of the session or a stutter |
| `TypesAlwaysOK`, `AlwaysOneConnection`, `AlwaysTracked` | `TypeOK`, `OneConnection` and `WantedIsTracked`, likewise | from the same invariant, which has with `TypeOK` that a topic is in no two sets of the tracker: without that a stale acknowledgement could drop a topic that has a subscriber. `WantedIsTracked` is inductive for any interleaving of the calls, as `overtaken` keeps the topics that `unsubscribe` marked late |
| `ReplayAlwaysWaits` | `ReplayWaitsForLogin`, likewise | `LoginKnown`: what the login tracker of the client says is what the venue has answered on this connection, or an answer of an earlier one was taken for it |

Assumptions beside the `ASSUME`s of the modules, which TLC evaluates in the runs:

- `IndexesAlwaysExact`, `NettingBooksAlwaysMatch` and `BooksAlwaysMatch`: no commission is
  in the base currency. With one, a flip does forget commission (see above).
- `BooksAlwaysMatch`: an order is submitted with a generated position id only once the
  generator has given it out (`KnownIds`). A strategy that guesses `P-2` opens it; a flip
  of `P-1` then generates `P-2` and writes over it. TLC finds this when the ids of a
  submission include one that is yet to come.
- `SpawnsAlwaysShare`: a primary order is in its own group or none, and children linked to
  an order are not spawned (`PlainSpawns`), as execution algorithms have it.

The provers know no induction over data. Where a property is about a sum, a sequence or a
replay, the proofs take the least index at which it would fail (`LeastElement`), which
gives the same.

Only model-checked:

- Liveness (`BufferDrains`, `SubmitsResolved`, `WantedIsServed`), which the prover does
  not do.
- `RealizedIsCash`: it adds up the fractions of a whole list of snapshots, each with its
  own cash flow, where `ProfitIsCashFlow` is about one position.
- The properties of the emulator, whose handlers call each other through the
  contingencies of linked orders.
- `UnwantedIsForgotten`: it depends on every acknowledgement still under way, for which
  the invariant has yet to be found.

## Not modelled

The map covers about 8,100 lines of 30 files. The crates have 1.5 million lines with their
tests, adapters and bindings, so this is the state-changing core of a few components, not
a large share of the repository.

- Cache database and event store: queued writes, encodings and files; what a restart
  finds after part of the writes needs a model of the storage rather than of this code.
  So nothing is said of a crash between the writes of an order and of its position, nor of
  position ids of purged positions that are given out again after a restart
  (`engine/mod.rs:3612`).
- Matching engine, backtest engine, order book, data engine, portfolio, indicators: one
  thread, one caller, deterministic; much data and little control.
- Component life cycle: a table of states with nothing beside it to disagree with.
- The other adapters: their effect on the core is the environment of the modules here.
  The TCP socket client has the tasks of the WebSocket client without logins.
- HTTP, serialization, bindings, command line: no protocol state.
