# Bernard, specified

TLA+ specifications of the shop in this repository: what its two hosts do to
their tables when visitors, tabs, the back office, the parcel sweep, failures
and restarts interleave, and how a Worker's response ends when its reader
leaves. Modules are checked by TLC on small shops, and the
results that matter most are proved by TLAPS for any shop.

```sh
tlc -workers 2 -config SqliteRace.cfg SqliteCheckoutMC.tla   # one run
tlapm SqliteShopProofs.tla                                   # one proof module
```

`PROJECT.json` lists the runs, which source lines each definition models, the
mutations that show each property can fail, the hazards of the code and the
disagreements between code and comments.

## The system

The shop is one crate with two hosts. Pages, procedures and shards are shared;
the data layer (`src/db`) and the image store (`src/images`) exist twice.

- **native**: a tokio binary, one task per request, a pool of five connections
  to one SQLite file. Statements outside a transaction commit on their own.
  Every transaction in `src/db/sqlite.rs` begins with a write, so SQLite admits
  no other writer until it ends.
- **edge**: a Cloudflare Worker over D1. D1 has no open transactions, so every
  `execute` of `src/db/d1.rs` commits on its own; a Worker may die between any
  two.

| component | state | operations | interacts with | hard because |
|---|---|---|---|---|
| order and money rules (`db/mod.rs`) | none | shipping, subtotal, `next_step` | every order | thresholds; decided early, stored late |
| cart (`db/*.rs`, `app/cart.rs`, `app/context.rs`) | `carts`, `cart_lines`, a cookie | `set_quantity`, `remove_from_cart`, `cart_lines`, clamp, `forget_cart` | checkout, stock | stock read before the line is stored; several tabs, one cookie |
| checkout (`place_order`) | `variants`, `products.stock`, `orders`, `order_lines`, `tracking` | place an order, refuse, compensate, clamp | carts, back office | races for the last units; crash between statements at the edge |
| order life (`app/orders.rs`, `advance_pending`) | `orders.status`, `tracking`, stock | advance, cancel, sweep | checkout's tables | status read before the transaction that writes it |
| sweep (`main.rs`, `lib.rs`) | none | `march_parcels`, cron `tick` | order life | partial failure, overlapping ticks |
| back office (`app/admin.rs`) | `products`, `variants` | price, stock, sizes, new and hidden products | checkout | edits race with sales; a cached sum |
| accounts and sessions (`app/account.rs`) | `users`, `sessions`, `carts.user_id` | register, sign in, sign out | carts | check then insert; several statements |
| address book | `addresses` | add, remove, default | checkout | one default, two statements |
| cart page (`cart_line`) | browser signals | stepper clicks | `set_quantity` | answers out of order |
| photos, native (`images/native.rs`) | a directory, three caches | upload, serve, pre-warm | back office | cache refilled from an old reading |
| photos, edge (`images/edge.rs`) | an R2 bucket | upload, serve | back office | none of its own |
| Worker adapter (`lib.rs`) | a body, its waker, the abort signal | answer, poll, abort, drop | runtime | the reader leaves while the router works, between two frames or while a pull waits for one |
| reviews, alerts, newsletter, seen shelf | a row each, a cookie | insert once | none | none |
| feeds, journal, house pages, assets | none | render | none | none |

What makes each correct:

- cart: no line at or below zero; what the server answers is what is stored;
- checkout: an order is sold whole, only from units on the shelf, charged for
  its own lines; no unit appears or disappears; a refused visitor can get
  through later; `products.stock` is the sum of the variants;
- order life: status and tracking agree, the ladder is respected, cancelling
  happens in the workshop only and gives back each unit once; every order
  settles;
- back office: every edit leaves the sums right and the catalog sellable;
- accounts: one account per address, a session never shows another's cart;
- address book: one default address as long as there are addresses;
- photos: the bytes behind a fingerprinted URL never change;
- Worker adapter: nothing is rendered for a reader who left, and no pull hangs.

## The modules

| module | models | extends |
|---|---|---|
| `Rules` | `db/mod.rs`: shipping, subtotals, the ladder | |
| `Tables` | the tables and the SQL statements that move stock and lines, as operators | `Rules` |
| `Visit` | the requests on the cart that both hosts share, one action per statement; the cookie and its tabs | `Tables` |
| `Sale` | the promise of any checkout, abstractly; and of a shop that takes orders back as well | |
| `SqliteCheckout` | the native `place_order` and the edits it races with | `Visit`, instantiates `Sale` |
| `D1Checkout` | the edge `place_order`, statement by statement | `Visit`, instantiates `Sale` |
| `SqliteOrders` | advancing, cancelling and the sweep on the native host | `Tables`, instantiates `Parcel` |
| `Parcel` | the promise of any order life, abstractly; orders may arrive | `Rules` |
| `D1Orders` | the same at the edge, statement by statement, ticks overlapping | `Tables`, instantiates `Parcel` |
| `SqliteShop` | the native shop as a whole: checkout, order pages, sweep and back office on the same tables | `SqliteCheckout`, instantiates `SqliteOrders` and `Parcel` |
| `Account` | accounts, sessions, the address book and the checkout's address, on either host | |
| `Photos` | the native photo store: directory, three maps, uploads, readers, pre-warm, restarts | |
| `Steppers` | the quantities on one page: signals, calls in flight, bill and badge | `Tables` |
| `Disconnect` | the Worker's response: guard, stream, listener on the abort signal; the runtime and the page behind it are external | |
| `VisitMC`, `SqliteCheckoutMC`, `D1CheckoutMC`, `SqliteOrdersMC`, `D1OrdersMC`, `SqliteShopMC`, `AccountMC`, `PhotosMC`, `SteppersMC` | the small shops TLC visits | |
| `TablesProofs` | lemmas about sums and the statements | TLAPS |
| `SqliteShopProofs` | theorems about `SqliteCheckout` and `SqliteShop` | `TablesProofs` |
| `D1CheckoutProofs` | theorems about `D1Checkout` | `TablesProofs` |
| `SqliteOrdersProofs`, `D1OrdersProofs` | theorems about order life | `TablesProofs` |
| `SteppersProofs` | theorems about `Steppers` | `TablesProofs` |
| `AccountProofs`, `PhotosProofs` | theorems about the module of that name | TLAPS |

### State and code

`shelf` is `variants.stock` (its domain: the rows there are), `total` is
`products.stock`, `price` is `products.price_cents`, `cart` is `cart_lines` by
cart id, `orders` gathers the row of `orders` with its `order_lines` and
`tracking`. `cookie` is the cart id a browser carries. `req[t]` is where the
request of tab `t` stands between two awaits, with the local variables the code
still needs. Clearing the cookie makes the next request mint a new random id;
in the model a browser's n-th id.

Native checkout: `ReadCart` is `cart_lines(pool, ..)` before `pool.begin()`;
`CommitOrder` the whole transaction up to `tx.commit()`; `RollBack` the
decrement that matches no row and `tx.rollback()`; `ClampOut` and `ClampDown`
the two statements of `clamp_cart_to_stock`; `ForgetCart` the end of the page's
handler. `SetQuantity` reads the stock, `StoreLine` writes the line.
A rolled back transaction leaves no trace and is one step.

Edge checkout: `TakeLine` and `TakeTotal` are the two decrements of one turn of
the loop, `LoseRace` a decrement with no row, `HandBack` one turn of the
compensation, `InsertOrder`, `InsertLine`, `InsertTracking` and
`DeleteCartLines` the rest. The query orders lines by product name and size:
the loop takes the sizes of one product in the order of `SizeOrder`, and the
products in any order, since names can be edited. A statement that
breaks a check ends the request where it stands (second branch of `TakeTotal`),
so does `Fault`; what the walk held is added to the history variable `lost`,
which no action reads.

Order life: `AskAdvance`, `AskCancel` and `SweepStart` read; `Advance`, `Cancel`
and `SweepOne` write, from what was read. Who may ask is the session's
business; every request here is authorised.

The shop as a whole: `SqliteShop` is `SqliteCheckout` and an instance of
`SqliteOrders` that starts without an order, over the same `shelf`, `total` and
`orders`. `CreateProduct` is `create_product` (the check that the sku is free,
then one transaction); `OpenPage` and `DrawTimeline` are the two readings of an
order page (`order_page`, then the `tracking` shard), `MayAdvance` and
`MayCancel` what its buttons hide behind, `Answered` the step and the version
set after `advance`. `count` and `astray` are histories: what each row held
when it was last counted, and the units that came back to rows that are gone.

Accounts: `req[b]` is where the request of browser `b` stands; `account` is
`users` by email, `session` the user whose token the browser carries, `book`
is `addresses`. `Register` is the handler up to `email_taken`, `InsertUser` the
insert (with `SelectId` at the edge), `OpenSession`, `CreateCart` and
`AttachCart` the steps of `start_session`. `drawn` holds the address ids the
browser's pages have shown: any of them may be posted later, in another
session. `SetDefault` is the native transaction, `ClearDefault` and
`MakeDefault` the two statements at the edge. `Fault` ends a request after any
statement that wrote something.

Photos: `path` and `pending` are the two names in the directory, `bytes` what
each file holds, `resized`, `fingerprint`, `color` the maps. `Open`, `Write`,
`Rename`, `Purge` are `adopt`, `Stamp`, `Color`, `Size` are `bake`; `Miss`,
`CookReads`, `CookStamps`, `Insert` are the photo route and `cook`. A file
written under a name that is renamed meanwhile keeps being written: names and
files are two things. `Restart` empties the maps and leaves the directory.

Steppers: `page` is the signals of a cart row or a product panel (`q`,
`blocked`; `size`, `held_qty`), `calls` its procedures in flight, each
under an id of its own, so that their answers come in any order. `Lower`,
`Raise`, `Add`, `TakeOut`, `Pick` are the click handlers up to their await,
`ReadStock`, `Store`, `Delete`, `Held` the server, `Apply` what follows the
await, `Refresh` the shards that depend on `version`. `by` says whether the
visitor clicked with every earlier answer in hand. `Elsewhere` and `Sell` are
the other tabs and the other customers.

Disconnect: `body`, `ready` and `waker` are `Pending` behind the guard, `aborted`
the request's signal, `stage` where its response stands, `pull` whether the
runtime waits for a chunk. `Respond` is the end of `fetch` with `until`, the
`Poll` actions the branches of `poll_frame`, `OnAbort` the listener, `LetGo` the
guard's drop. `Pull`, `Leave`, `LetGo` and `Render` happen when the runtime and
the page behind the guard choose, as `src/` relies on.

At the edge `SetStatus` and `InsertTracking` are the two statements of a move,
for a customer's advance and for a tick alike; `GiveBack`, `GiveBackTotal`,
`Close` those of a cancellation. `Stop` is a Worker that dies or a statement
that fails, anywhere; what it left undone goes to the history variables
`stray` (units given back by a cancellation that never came to its tracking
line) and `unnoted` (statuses whose line was never written).

The back office is `SetStock`, `AddVariant`, `RemoveVariant`, `SetPrice`, with
the resum in the same step natively and in one of its own (`ResumStock`) at the
edge; there, one edit of a product is under way at a time (one shopkeeper).

### Abstractions

- A (sku, size) pair is an item; names, texts, ids and dates are left out.
- Addresses are not part of an order here; an empty one is refused before
  anything is written.
- `cart_lines` joins products, which never leave the table.
- Reads of several statements of one order (`order`, then its lines and
  tracking) are one read: nothing modelled changes the lines after the sale.

- In `SqliteShop` requests of the checkout do not fail half way (they do in
  `SqliteCheckout`), and no product is hidden or reworded: nothing a model reads
  would change.
- In `Account` hashing is the identity on what matters (a password matches or
  it does not), a fresh token is carried by nobody, and `carts.user_id`, which
  nothing reads, is a step that may fail and no table.
- In `Steppers` the runtime that carries signals and calls is not in the
  repository: a click's arguments are read when it happens, answers come back in
  any order or not at all, and a shard is asked for again until it is there.
- `D1Orders` starts from whole orders: `place_order` inserts the row of an order
  before its lines and its first tracking line, and a tick that found it in
  between is in no run.
- In `SqliteShop` a page has one click in flight (`ClickAdvance`); the code would
  let two overlap, as two desks do.
- `Visit.SetQuantity` leaves out the `create_cart` between its reading and its
  upsert, and the sweeps the `else` branch for an order with no next rung, which
  their own lists exclude: neither changes what a model reads.
- In `Steppers` a page is loaded in one step; lines, bill and badge are separate
  reads in the code.
- In `Disconnect` a request has an abort signal (the code returns the bare
  response without one), and a frame that is an error is the runtime's `LetGo`.
- In `Photos` two writers of one file leave either's bytes or a mixture, which
  the decoder may take or refuse.

## What is checked

The bounds are in the cfg files: `MaxCarts` (cart ids per browser),
`MaxChanges` (calls of `set_quantity`), `MaxEdits`, `MaxFaults`, `MaxRequests`,
`MaxActs` (changes, edits and, in the shop, requests together), `MaxSales`
(units other people buy), and `Call` (the ids of calls in flight, which are
interchangeable).
Each bounds a kind of step, not the length of a behaviour. Two visitors, one
product in two sizes and two units are enough for a race that one line wins and
another loses, for a partial clamp, and for a compensation with something to
hand back. Only `steppers` checks for deadlock; elsewhere
the system goes quiet when the bounds are spent, every order is delivered and
every response is closed.

| run | shows | bounds that matter |
|---|---|---|
| `sqlite_race` | `TypeOK`, `TotalIsSum`, `OrderAddsUp`; `Sells`: the native checkout implements `Sale`; `EveryVisitorServed`: a refused visitor gets through in the end | two rivals, two edits of stock, sizes or prices (2400 or 2600 cents: both sides of the free-shipping threshold), one failed request |
| `d1_race` | `TypeOK`, `OrderAddsUp`; `Sells`: the walk implements `Sale`, units it holds still counting as the shop's; `UnitsAccounted`: shelf + held + sold + lost is the first count; `EveryRaceIsWon`: two compensating walks do not refuse each other for ever, and when no request was stopped, no cart changed and no row was edited somebody has an order in the end, and whoever has none finds nothing left of what they came for | two walks, one edit or one change of cart (`MaxActs`), one request that dies |
| `orders_race` | `TypeOK`; `Climbs`: the native host implements `Parcel`, stale writers and all; `ShelfAuditsToTracking`; `EveryParcelSettles` | two orders, three requests at two desks, one failed sweep |
| `d1_orders` | `TypeOK`; `Climbs`: the edge implements `Parcel`; `ShelfAuditsToTracking`; `EveryParcelSettles`, ticks overlapping | one order of two lines, one request, two ticks, one death |
| `shop` | `ShopTypeOK`; `ShelfBalances`: a row is its last count less what was sold and plus what was cancelled since; `TotalExplained`: `products.stock` is the sum of the sizes plus what came back to removed ones, so it never hides units nor stops a sale; `PageAgrees`: buttons and timeline of an order page; `SellsAndTakesBack`: the shop implements `Sale` with orders taken back; `ShopClimbs`: it implements `Parcel`; `EverySaleSettles` | one visitor, two sizes and a product to create; two edits, two requests, one change of cart, three of these together (`MaxActs`); one failed sweep |
| `account` | `TypeOK`; `SessionsAreEarned`; `OrdersFromOwnBook` and `NobodyElsesBook` from pages drawn for another session; `OneDefault`; `EveryVisitorGetsIn` | both hosts, two visitors after the same email, one of whom knows a password of the other; two addresses; any number of requests and of deaths between statements |
| `photos` | `TypeOK`; `WholePhotos`: never half a JPEG; `FreshUrls`: never old bytes behind a new URL, but for two cases; `Settles` after crashes | two uploads, a reader, the pre-warm, one restart between any two file or map operations; two widths, one of them baked |
| `steppers` | `TypeOK`: no line exceeds what there was; `NumberIsTheLine` for a visitor who waits | two sizes with two units and one, two calls in flight (symmetric), any number of clicks, one unit sold to somebody else, answers lost or late |
| `disconnect` | `TypeOK`; `NothingForTheGone`: no body is kept for a reader who left; `EveryPullIsAnswered`: a pull that waits for the body that is dropped is woken and ends | two responses, pages of up to two frames, each reader leaving at any moment |

Four of these hold with a condition, which says where the code stops keeping
its word:

- `FreshUrls` leaves out two cases. One is for good: the file is replaced while a
  reader, the pre-warm or an upload that has an earlier photo in hand is still to
  put something in a map (`straddled`, which `Settles` leaves out as well); an old
  size may then stay behind the new, immutable URL. The other is over with the
  purge: between the rename and the purge somebody reads the new file and stamps
  it, while old sizes are still in the map. The comment at `native.rs:139` says
  this cannot be.
- `WholePhotos`, `FreshUrls` and `Settles` leave out two uploads of one sku that
  overlap (`crowded`), since both write the same pending file.
- `NumberIsTheLine` is about a patient visitor: since the page was drawn, or since
  the last click made with every answer in hand, no two clicks overlapped, no
  answer was lost and nothing else wrote the line. Of quick clicks it says
  nothing; `BubbleNamesTheStock` is what two of them break.
- `OneDefault` at the edge excludes two changes of one book at once.

At the edge the last tracking line need not be the status (two writers insert
in another order than they updated), as it is natively
(`StatusAlwaysMatchesTracking`); `Climbs` is what is left of it: the status was
reached, and whatever was reached is on the tracking, on its way there, or was
left unwritten by a Worker that died.

An order sold twice or a status that goes back down are possible in this code,
and the properties above are what holds nevertheless. Three runs show, each by
a shortest behaviour, where the code departs from what it says of itself:

| run | property | comment | what happens |
|---|---|---|---|
| `d1_leak` | `NoUnitLost` | "a lost race costs a few statements" | the compensation hands back the sizes and not `products.stock`: w takes both small mugs; v is refused, clamped to the large one and takes it; w loses the large one, hands back two small ones, submits again, takes them and trips the check of `products.stock`: both are off the shelf without an order |
| `orders_cancelled` | `CancelledInWorkshopForGood` | "while it is still in the workshop ... nothing later", "every order that still has a rung to climb" | an advance (or the sweep, or a second cancellation) that read the order earlier writes over its cancellation, after the units went back |
| `shop_sum` | `SumOfVariants` | "sum of the variants" | an order is cancelled after the row of a size it bought was removed: the product counts the units, no row does |

The models have more departures, stated in their modules and in no run of the
project. TLC breaks each when it is put in place of the properties of the cfg:

| property | cfg | comment | what happens |
|---|---|---|---|
| `CartBecomesOrder` | `SqliteRace`, with `Browser = {v}` and `BrowserOf <- SameBrowser` | "Walks the cart into an order, in one transaction" | another tab changes the cart after it was read: the order has what was read, and what the other tab stored is deleted with the cart |
| `EveryProductHasARow` | `Shop` | "Every product has at least one variant row" | the back office removes the sizes of a product, the last one too |
| `StaleSizesGoFirst` | `Photos` | "The stale sizes go before the new fingerprint appears" | the pre-warm or a reader reads the renamed file and stamps it before the purge |
| `BytesNeverChange` | `Photos` | "the bytes behind a given v= never change" | a reader resizes the old photo, and keeps the size after the purge |
| `NeverHalfAJpeg` | `Photos` | "a reader never meets half a JPEG" | one upload renames the pending file another is writing |
| `BubbleNamesTheStock` | `Steppers` | "when + changes nothing, this bubble says why" | two quick clicks ask for the same number; the second answer finds it on the page, and the bubble names it as all there is |

Two tabs on one cart are in no passing run; the theorems hold for any `BrowserOf`.
One more departure is in the models without a property: the two
statements of `clamp_cart_to_stock` are not one, so an item that sells out
between them makes the second trip the check it was written to avoid
(`ClampDown`), and the visitor gets an error instead of their cart.

### Fairness

- `WF(Progress(t))`: the runtime polls a request that can go on. Natively tokio
  does; at the edge a Worker that lives does, and one that dies is `Fault`,
  which is bounded.
- `WF(Submit(t))`: the visitor keeps ordering while the cart is not empty. It is
  an assumption about the visitor, and what makes "gets through" meaningful.
- `WF(TickStart \/ Step)` of each tick: the cron fires every ten minutes, and a
  Worker that lives runs its statements.
- `WF(Sweep)`: `march_parcels` loops on an interval for ever, and goes on after
  an error. Nothing is assumed of desks: a request may never go on.

- `WF(Poll(r))`, `WF(Render(r))`: the executor polls a task that was woken, and a
  page that is held goes on rendering. Nothing makes the runtime pull, let go of a
  response, or fire the signal.
- `WF(Work(x))` of each photo task: the blocking pool gets to every task it was
  given. Uploads and readers need never come.
- `WF(Progress(b))`, `WF(Knock(b))`, and `SF` of the two statements of a
  sign-in: the runtime polls, a visitor without a session keeps trying, and no
  statement fails every time it is tried. As with `Submit`, the visitor's part
  is an assumption, and what gives "gets in" its meaning.

Edits and faults are never required, only possible, and bounded: a shopkeeper
who empties the shelf for ever, or a base that always fails, could keep anybody
waiting.

## What is proved

All theorems hold for any items, products, browsers, tabs, orders, desks and
bounds, from the assumptions the modules name: `CatalogAssumption` (every item
belongs to a product, every product has an item), `VisitAssumption`,
`CheckoutAssumption`, `SizeOrderAssumption` (the sizes of a product come in one
total order, as text does), `OrdersAssumption` (the inputs and first tables are
well-typed), `ShopAssumption` (the first rows are of the first products; a
product created later comes in a size of its own), `AccountAssumption` (an email as typed means an email; each visitor's
own account is one of those they try), `PhotosAssumption` (tasks and files have
distinct names; at least one smaller size is baked ahead, and the largest never)
and `SteppersAssumption` (finitely many items, whose first stocks are counts).

Finiteness is assumed where something is counted: a table has finitely many
rows (`IsTable`), and at the edge there are finitely many tabs, desks and ticks.

**Sums.** The audits add over orders, rows and walks. `SumFunctionOnSet` of the
community modules is defined by a recursive function over subsets; what is
needed of it is proved in `TablesProofs` from that definition.
`PartsInduction` is induction over a finite set with a set in place of a
predicate (a smallest counterexample, by cardinality); on it rest `SumAny` (any
term may be taken first), `SumPlus`, `SumPart` (terms of zero do not count) and
`SumChange` (one term changes, the sum changes by as much), and on these how
each SQL statement moves `ShelfSum` and `UnitsOf`.

**The native checkout and the native shop.**

- `SqliteShopProofs!TypeCorrect`: `TypeOK` is inductive. The step that
  carries weight is `TakeAllType`: the guards of the decrements, all true when
  the transaction commits, are what keeps the shelf out of the red; and
  `ClampType`: the clamp stores no zero unless the check refuses it.
- `SqliteShopProofs!OrdersAlwaysAddUp`: strengthened to `ChargedFromLines`,
  an order's charge is the charge of its own lines for some key a form carried.
  `OrderAddsUp` follows because storing the key of a mode and pricing that key
  again gives the same mode (`ShippingModeStable`).
- `SqliteShopProofs!ImplementsSale`: `Spec => Sells`. The invariant needed
  besides the types is `PlacesSomething`, a request that is placing holds at
  least one line, because an empty cart was turned away when it was read.
  `CommitOrder` maps to `Sell` with the next id, every back-office edit to
  `Edit` of one item (`SetPrice` to an edit that changes nothing), everything
  else to a stutter.
- `SqliteShopProofs!TotalAlwaysSum`: `TotalIsSum`, and hence `total >= 0`. A
  sale takes from the rows of a product what it takes from the product, because
  its guards found every row; an edit resums.
- `SqliteShopProofs!ShopTypeCorrect`, `TotalAlwaysExplained`,
  `ShelfAlwaysBalances`, `PageAlwaysAgrees`: one inductive invariant, `ShopInv`.
  It joins the types with `OrdersOK` (an order's last tracking line is its
  status), `CatalogInv` (rows are of products there are), `LifeInv` and the two
  audits themselves. Neither audit needs more: `Kind` sorts the steps into those
  that move nothing, a sale, a recount of one row, a status written and a
  cancellation, and each moves both sides alike. A cancellation gives back by
  the lines of its order, some of which have no row any more; `UnitsSplit`
  divides it into what the shelf gains and what goes astray. `PageAgrees` is not
  inductive, since a page that is not drawn yet may be drawn next: `PageOK` adds
  that the page's step is on the tracking all the while (tracking only grows,
  `TrackingKept`), below the timeline once drawn, and `DeskOK` that a click in
  flight is one of the page that is open.
- `SqliteShopProofs!ShopImplementsSale`: `ShopSpec => SellsAndTakesBack`. The
  checkout and the edits map as above, a new product to `Edit` of the item it
  comes in, a cancellation to `GiveBack` of its order, whatever statuses that
  order went through, and everything else (pages, sweeps, advances) to a stutter.
- `SqliteShopProofs!ShopAlwaysClimbs`: `ShopSpec => ShopClimbs`. A sale maps to
  `Arrive`; a sweep, an advance or a cancellation to a `Move`, which needs
  `SeenInv` beside `ShopInv`: what a click or the sweep read, and writes from
  later, is on the order's tracking, and stays there whatever is written since.

**The edge checkout.**

- `D1CheckoutProofs!TypeCorrect`: `TypeOK` is inductive, statement by statement;
  a statement its check refuses moves neither stock, so neither is ever
  negative, whatever `lost` grows to.
- `D1CheckoutProofs!OrdersAlwaysAddUp`: an order is charged when its row is
  inserted, and its lines come one at a time later. The strengthening, `WalkInv`,
  says in between: a walk that lines an order is the only one that does, the
  order holds those lines of the walk it does not still have to insert, and its
  charge is that of all of them. When the tracking line makes the order whole,
  none is left.
- `D1CheckoutProofs!UnitsAlwaysAccounted`: strengthened to `UnitsInv`. As long
  as nobody edits, walks hold only items with a row, so whatever is handed back
  comes back; then shelf, walks, losses and whole orders add up to the first
  count. A step is `Quiet`, `WrittenOff`, `BecomesWhole` or `Edited`.
- `D1CheckoutProofs!ImplementsSale`: `Spec => Sells`, along the same four kinds:
  `BecomesWhole` maps to `Sell` with the walk's lines, `WrittenOff` (a walk hands
  back an item whose row has been removed) to `WriteOff`, `Edited` to `Edit`,
  `Quiet` to a stutter. That a walk may stop between any two statements needs no case of its
  own: the units move from the walk to `lost`, and both count as the shop's.

**Order life.**

- `SqliteOrdersProofs!TypeCorrect`, `StatusAlwaysMatchesTracking`,
  `TrackingAlwaysTellsAStory` (the status is the last tracking line; every line
  follows one of a rung it can be reached from): the last one is not inductive alone, since a
  stale request writes the rung after the one it *saw*. The strengthening says
  that whatever a request or the sweep saw is on the order's tracking, where it
  stays for ever.
- `SqliteOrdersProofs!AlwaysClimbs`: `Spec => Climbs`, from the same
  strengthening. Each writer's transaction is a `Move` from what it saw: both
  hosts implement one abstract life of an order.
- `SqliteOrdersProofs!ShelfAlwaysAudits`: `AuditInv` adds to
  `ShelfAuditsToTracking` that no row comes or goes. A second cancellation of
  one order writes a second line and gives back a second time; the sum over the
  tracking lines (`Refunds`) grows by as much.
- `SqliteOrdersProofs!TotalAlwaysSum`: `products.stock` stays the sum of the rows,
  from `RowsRemain`, that every item sold has a row. That is a condition and not an assumption of the module:
  units given back to a removed size go to `products.stock` alone. The native
  shop has such sizes, and `TotalAlwaysExplained` is what holds there.
- `D1OrdersProofs!TypeCorrect` and `AlwaysClimbs` (`Spec => Climbs`). The
  invariant, `ReachedInv`: whatever a Worker saw, however long ago, the order
  reached, and a cancellation under way read a workshop status. Nothing reached
  is ever forgotten, because a status leaves the Worker's hands only for the
  tracking or, with its death, for `unnoted`; so every write is an abstract
  `Move` from what was seen, and everything else a stutter.
- `D1OrdersProofs!ShelfAlwaysAudits`: the same audit where giving back and
  recording are several statements. `AuditKept` has the one argument: row by
  row, what the shelf gains has died with a Worker (`stray`), is in one Worker's
  hands, or is on record now and was not before.

**Accounts and photos.**

- `AccountProofs!TypeCorrect`: `TypeOK` is inductive; what later steps may rely
  on is that accounts and address ids only grow (`Grown`), so an id a request
  read earlier still names somebody.
- `AccountProofs!SessionsEarned`: `SessionsAreEarned`, strengthened by
  `OnTheWay`: a registration on its way holds a password its visitor typed, a
  request about to open a session knows the password of the account it names.
  Both survive every other request, because no step changes a stored password
  and `email` is unique: the loser of two registrations inserts nothing.
- `AccountProofs!OwnBookOnly` and `OwnAddressesOnly`: whatever page an address
  id was read from and whoever is signed in when it is posted, an order takes
  the address from its own visitor's book, and no request removes or promotes
  an address of another's.
- `AccountProofs!OneDefaultOnly`: `OneDefault` on either host. The strengthening
  `Defaulted` has three parts: `Alone`, one change of a book is in flight
  unless two overlapped; `Vacant`, between the two statements the book has no
  default, or the address asked for has gone; `Single`, what is to be shown.
- `PhotosProofs!TypeCorrect`, and `OnlyWholePhotos`: `WholePhotos`, strengthened
  to `Whole`. Unless uploads overlapped, one upload writes the file called
  pending, which is not the file being read; the file that takes the photo's
  name is complete; bytes read from a name stay whole in whoever carries them.
- `PhotosProofs!OnlyFreshUrls`: `FreshUrls`, strengthened to `InStep`. Unless
  uploads overlapped, or the file was replaced while somebody with an earlier
  photo in hand was still to put something in a map, every task that carries bytes carries
  those of the photo in the directory (`HoldersRead`); the sizes in the map are
  named by their own fingerprint, save while an upload stands between its rename
  and its purge and the fingerprint is already that of the new file
  (`SizesNamed`); once nobody replaces, sizes are of the photo in the directory
  (`SizesCurrent`); and a task that has stamped finds its own stamp (`Named`).

**The quantities on a page.** One inductive invariant, `StepperInv`, joins

- `TypeInv`: `TypeOK`, and what a call about to store carries: no more than
  there ever was of its size (`SteppersProofs!TypeCorrect`);
- `Patience`: the call of a patient visitor is the only one in flight, for the
  size on the page; it asks for one unit more or less than the page shows, and
  is given that or what the stock allows;
- `Clear`: without a doubt the number shown is the line, save that the answer of
  the one call there may be is still to be shown. `NumberIsTheLine` says nothing
  while a call is out; `Clear` follows the call from the click to its answer
  (`NumberAlwaysTheLine`, `BubbleAlwaysTellsTheTruth`). A doubt is two clicks that
  overlap, an answer that is lost, or another writer of the line, and lasts until
  the next click that is on its own: the theorems are silent until then;
- `Billed`: unless the version has moved, the bill counts the cart or an answer
  that will move the version is on its way (`BillAlwaysTheCart`).

Every safety property and every refinement that a passing run checks is thus
proved, those of `disconnect` excepted. `BubbleTellsTheTruth` and `BillIsTheCart`
are proved and in no run.

Only model-checked: the liveness properties (`EveryVisitorServed`,
`EveryRaceIsWon`, `EveryParcelSettles`, `EverySaleSettles`, `EveryVisitorGetsIn`,
`Settles`, `EveryPullIsAnswered`), which rest on fairness and `ENABLED`, out of
this prover's reach; and `Disconnect`'s `TypeOK` and `NothingForTheGone`, whose
requests do not interact, so that two of them say what any number would. The
counterexamples are TLC's.

## Not modelled, and the plan

Modelled so far: the cart, the checkout, order life and the back office's stock
on both hosts; the native shop as one system; accounts, sessions and the
address book; the native photo store; the quantities on a page; the Worker's
response stream.

Not modelled, and why:

- rendering, feeds, the journal, house pages and the static bundle change no
  table; the edge photo store reads and writes one object at a time and keeps
  nothing of its own;
- reviews, stock alerts and the newsletter are single inserts with a key;
- the seen shelf is a function of one browser's cookie, with no second writer;
- `create_product` at the edge is two inserts; a Worker that dies between them
  leaves a product without a size, which the hazards list and no run shows
  (natively it is one transaction, in `SqliteShop`);
- parsing of prices and making of order references touch no shared state.

In order, what would add most:

1. the edge as a whole, as `SqliteShop` is for the native host, with
   `create_product`, hiding and the ticks on the same tables;
2. `cents` and the order reference, against reference definitions.
