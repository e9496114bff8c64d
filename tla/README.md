# The mall backend in TLA+

This directory specifies and verifies the multi-tenant mall backend in `src/` (a Go service on PostgreSQL and Redis,
with a worker process). The trade comes first: orders, stock, coupons, after-sales, payments and the tenants' own
subscriptions. Around it stand the parts that keep rows of their own: verification codes, accounts, members,
distributors, carts, the catalog, sites and payouts, regions, flash sales, carriers and reasons. TLA+ modules model the
code, TLC checks small instances of them, and TLAPS proves the most important properties for every value of the
constants. `PROJECT.json` lists the components, runs, mutants, source lines, hazards and theorems in a form tools can
read; this file says what they mean.

1. [The system](#the-system)
2. [How the code is modelled](#how-the-code-is-modelled)
3. [The modules](#the-modules)
4. [What TLC checks](#what-tlc-checks)
5. [What TLAPS proves](#what-tlaps-proves)
6. [Where the code disagrees with its comments](#where-the-code-disagrees-with-its-comments)
7. [What is not modelled](#what-is-not-modelled)
8. [Plan](#plan)

## The system

Every API request runs in a goroutine of its own (`cmd/api`, gin). Handlers call services, services call
repositories, repositories issue SQL through gorm. There is no shared memory worth mentioning: requests interact
through rows of PostgreSQL at READ COMMITTED and through Redis keys. `cmd/worker` scans tenants in a loop. WeChat
calls back when money was taken.

| Component | State | Operations | Interacts with | What must hold |
|---|---|---|---|---|
| Orders (`order_service.go`, `order_inventory.go`, `order_repo.go`) | `orders`, `order_items`, `order_logs` | Create, Cancel, Confirm, Prepare, Ship, MarkPaid | products, SKUs, member coupons, the plan's limit, payments, after-sales | the status moves along the edges only; what Create takes from the shelf Cancel puts back once; the log is the path taken; a month has no more orders than the plan allows |
| Products and stock (`product_service.go`, `product_repo.go`) | `products`, `product_skus` | DecreaseStock, AdjustInventory, Update, Delete; Create, ImportCSV | orders, the cart, the plan's limit | stock never below zero; the shelf and the orders add up; no more products than the plan allows |
| Coupon issuing (`coupon_service.go`, `handler/admin/coupon.go`, `member_service.go`) | `coupons.remain_count`, `member_coupons` | Receive, AdminGrantCoupon, Create, Update, Delete | coupon use | no more issued than counted; per-member limit |
| Coupon use (`payment_repo.go`, `order_service.go`, `member_service.go`) | `member_coupons.status`, `used_order_id` | check, MarkUsed, status form of the admin | orders | one coupon, one order; the use limit |
| After-sales (`after_sale_service.go`) | `after_sale_orders`, `orders.status` | Apply, Cancel, Reject, Approve, SubmitReturn, Receive, Refund | orders, stock, reasons | items back once per refund; an order is not stuck in refunding |
| Payments and points (`payment_service.go`, `member_service.go`) | `payments`, `members.points`, `points_logs` | Create, HandleCallback, grantPoints, AdminAdjustPoints | orders, WeChat | paid orders are paid for; points once per order, and added to the balance; a notification once acknowledged is done |
| Subscriptions (`subscription_service.go`, worker) | `tenant_subscription_orders`, `tenants.plan_expire_at`, `status` | CreateOrder, OnPaySuccess, ScanAndTransition | tenants, WeChat | no renewal twice; no switch of plan before a payment; the unpaid are banned |
| Tenants and plans (`tenant_service.go`) | `tenants`, `admins.status`, the cached context in Redis | Register, Audit, SetStatus, SetPlan, LoadContext, Invalidate | every request is admitted by the cached context | a ban reaches the cache; a tenant belongs to who applied for it |
| Login and codes (`auth_service.go`, `sms.go`) | `verify:*` keys in Redis, `members`, `admins` | SendVerifyCode, VerifyAndConsumeCode, logins, applications, resets | SMS gateway, tenants | a code opens only what it was sent for; one person is one member |
| Members (`member_service.go`, `handler/admin/member_level.go`) | `members`, `member_levels` | phone binding, status, level; levels created, saved, deleted | logins | no phone and no openid twice; a member's level exists |
| Cart (`cart_service.go`) | `member_cart_items` | Add, UpdateQuantity, DeleteMany, Clear | products | a line asks for no more than the shelf has had |
| Distribution (`handler/member/distribution.go`, `handler/admin/distribution.go`) | `members.parent_id`, `distributors`, the settings row | Apply, BindParent, audit, settings | members | uplines end: no one is above himself |
| Flash sales and group buying (`seckill_repo.go`) | `seckill_*`, `groupon_*` | create, update, delete, `ClaimStock` | none: no handler calls `ClaimStock` | an activity shows the goods of one save |
| Sites and payouts (`handler/admin/site.go`, `settings_service.go`, `settings_repo.go`) | `tenant_site_configs`, `tenant_payment_configs` | the tenant's forms; Verify, Reject, deployments, audits | the platform vets what the tenant edits | nothing unvetted is in service |
| Platform's tables (`handler/admin/region.go`, `settings_service.go`) | `regions`, `shipping_carriers`, `after_sale_reasons` | create, update, move, enable, delete; matching of a tracking number | after-sales, shipments | regions are a tree; a reason in use has a row |
| HTTP layer, uploads and clients | | input and output | all of the above | |

What makes this code hard is not any algorithm. It is that

- most decisions are made on a row read by a plain SELECT, and written later: between the two another request, the
  merchant or the worker can change it;
- the guards against this are of three kinds, used side by side: an UPDATE whose WHERE repeats the condition, a row
  lock (`FOR UPDATE`), and nothing at all;
- several operations are more than one transaction (payment and order, order and points, subscription order and
  tenant, row and cache), so they can stop in between, and a retry finds half of the work done;
- what is remembered at one time (the order's earlier status, `is_virtual` of an item, the plan of a subscription
  order) is used at a later one;
- gorm has habits of its own: `Save` writes every column of a row as it was read, and inserts the row if it is gone
  (a deleted level, region or cart line comes back); `Create` replaces a zero value by the column's default.

`PROJECT.json` "hazards" lists these places one by one, with the property that covers each.

## How the code is modelled

- **A request is a process.** `req` (`call` for after-sales) holds for every request in flight where it is and what
  it has read. A request whose identifier is idle again can start anew, so the number of requests bounds how many
  run at once and not how many run.
- **One step per statement.** A plain SELECT is a step, and its result may be stale when it is used. The conditional
  UPDATEs of a transaction see the latest committed row and lock it until COMMIT, so the statements from a
  transaction's first write to its COMMIT are one step, taken at the commit. Where a transaction starts with
  `FOR UPDATE` and what it does under the lock is the point (`CouponIssue`), the lock is a variable and the statements
  are steps. What runs outside transactions (`Payment`, `Subscription`) has a step for every statement.
- **Any request can end anywhere** (`Abandon`, `HangUp`, `Fails`): an error return, a rollback, a cancelled context, a
  killed process. What it committed stays. A refused call is one that ends this way.
- **Stock is kept per keeper**: the SKU row for an item with a SKU, the product row otherwise, as
  `order_inventory.go` chooses.
- **Data is abstracted** to what the properties tell apart: no prices, names, addresses or messages; time is days in
  `Subscription` and absent elsewhere, except for the first day of a month. A key that expires may expire at any time.
- **Ids come from a sequence** where their order or reuse matters (`given`, `lastId`, `lastLine`): none is given twice.
- **History variables** record what no table does and are read by properties only: `held` and the fields `raced` and
  `takenFrom` of a member coupon (`OrderTrade`), `granted` and `given` (`Subscription`), `drawn` (`VerifyCode`), `vetted`
  and `approved` (`Settings`), `most` (`Cart`), `widest` (`Catalog`), `raced` (`Regions`), `disturbed` (`Reasons`), and the
  field `by` of the tenants in `Account`. `interventions` in `Subscription` bounds the platform.
- **Mutant operators.** Names like `StillInUnchecked` are a definition with a plausible defect (a dropped guard, an
  off-by-one, a missing lock). No action uses them; each is there to see that a property fails with it. The header of
  each module names their endings.

Two choices deserve a warning. The loop over the submitted items reads them in any order here, in list order in the
code; nothing is written in the loop, so this only adds interleavings. And quantities are positive in `OrderTrade`:
`order_service.go:37` puts `min=1` on a field of a slice without `dive`, which the validator does not look into, so
what becomes of another quantity is the database's affair and outside this model.

## The modules

| Module | Models | Builds on |
|---|---|---|
| `OrderLifecycle` | what the order component promises about `orders.status` | |
| `OrderTrade` | OrderService, order inventory, coupon use, the merchant's edits that race with them | implements `OrderLifecycle` |
| `AfterSale` | AfterSaleService, composed with `OrderTrade`, whose orders and stock it writes | extends `OrderTrade` |
| `Payment` | PaymentService, points, WeChat's notifications | uses what `OrderTrade` and `AfterSale` show of MarkPaid |
| `Subscription` | SubscriptionService, TenantService, the worker, the cached context | |
| `CouponIssue` | CouponService.Receive, AdminGrantCoupon, CouponHandler | what is issued here is used in `OrderTrade` |
| `Calls` | the requests in flight that the modules below share | |
| `VerifyCode` | codes in Redis | `Calls` |
| `Account` | administrators, applications of tenants and their audit, platform users | `Calls`; starts where `VerifyCode` lets through |
| `Membership` | first logins, phones, levels of members | `Calls` |
| `Distribution` | distributors and who invited whom | `Calls` |
| `Settings` | a tenant's site with its domain, its payout account | `Calls` |
| `Cart` | the lines of a member's cart | `Calls`; its shelf moves as `OrderTrade` says |
| `Catalog` | creation and import of products under the plan's limit | `Calls` |
| `Regions` | the tree of provinces, cities and districts | `Calls` |
| `Seckill` | a flash sale and its goods | `Calls` |
| `Carriers` | the matching of tracking numbers to carriers, and their edits | `Calls` |
| `Reasons` | reasons for after-sales and their use | `Calls`; the check that `AfterSale`'s Apply begins with |
| `*Proofs`, `OrderTradeSafety` | proofs | the module they name; `StorefrontProofs` `Cart`, `Catalog`, `Distribution`, `Seckill` and `CouponIssue`; `BackOfficeProofs` `VerifyCode`, `Account`, `Membership`, `Settings`, `Carriers`, `Reasons`, `Regions` and the composition in `MCBackOffice` |
| `SumProofs` | lemmas about sums over finite sets | |
| `MC*` | instances for TLC | the module they name; `MCBackOffice` all from `CouponIssue` down |

### OrderLifecycle

One variable, the status of every order. `Place` inserts an order as `pending_pay`, `Move` takes an edge of `Edges`.
It is the abstract specification `OrderTrade` is shown to implement, with the edges of the order service.

### OrderTrade

| Variable | In the code |
|---|---|
| `product` | `products.status`, `is_virtual`, `deleted_at` |
| `stock` | `products.stock`, `product_skus.stock` |
| `order` | `orders.status`, the items, `is_virtual`, the coupon |
| `coupon` | `member_coupons.status`, `used_order_id`; history: `raced`, an edit of the status was in flight when the coupon was used; `takenFrom`, the orders such edits took it from |
| `enabled` | `coupons.status` |
| `logs` | `order_logs` |
| `held` | history: units taken for an order and not put back |
| `req` | requests in flight |

A checkout is `Checkout` (the month is counted, outside any transaction), `ReadItem` for every item,
`ApplyMemberCoupon` (a check that may be stale), `PlaceOrder` (the transaction of `CreateWithItems`: insert, decrease
every stock, mark the coupon used, or nothing) and `LogCreate` (after the commit, error dropped). `Cancel`, `Confirm`,
`Prepare`, `Ship` and `MarkPaid` all go through `OrderService.transition`: a SELECT and a check (`Select`), then one
transaction (`Update`) whose WHERE looks at the status again, with the hook that restores stock and the log. The
merchant edits products (`UpdateProduct`, `DeleteProduct`), counts stock (`AdjustInventory`, `WriteInventory`: read,
compute, write), switches coupons and edits the status of a member's coupon. `MerchantOps` says which of these a run
allows, because several properties hold only without some of them; each property's comment says without which.

`CountMonth` models `CountMonth` of the repository as written: the month starts at the present time of day of its
first day, so any subset of that day's orders may be missed.

### AfterSale

Extends `OrderTrade` with `after_sale_orders` and its own calls. `ApplyRead`, `ApplyCount` and `Open` are Apply
(status, count of open after-sales, transaction); `Cancels` and `Reject` with `Finish` are `finishWithRestore`;
`Approve`, `SubmitReturn` and `Receive` with `MoveAfterSale` are the plain transitions; `RefundRead` and `Refund` are
Refund. The UPDATEs are modelled with what the code does when they match no row: nothing in `Finish` and
`MoveAfterSale`, which go on, a rollback in `Refund`.

### Payment

Orders of one member, `payments` rows, the set of payments WeChat took money for, the notifications it got an answer
for, `members.points` and `points_logs`. `production` is chosen in `Init`: in production `Create` stops after the
INSERT and WeChat pays and notifies, elsewhere `Create` goes on and marks the order and the payment paid itself.
`MarkPaid` of the order is one step here because no order returns to `pending_pay` (`NeverUnpaid`, and the edges of
`OrderLifecycle`), so its SELECT and its UPDATE agree. That the three statuses kept here are a sound picture of those
of `OrderTrade` and `AfterSale` is proved (`OrdersAsPaymentsSeeThem`), and so is that nothing here moves an order in
another way (`PaymentsMoveOrders`).

At this commit two ends of this are placeholders, by their own comments: `PlaceJSAPIOrder`, which is to prepare the
payment at WeChat, and the handler the notification's route leads to, which answers with success and does not call
`HandleCallback` (`handler/payment.go:48`). What the module says about production is therefore about the service, with
the notifications it is written for: what it does whenever it is called, in any order and number. It has no fairness and
claims nothing about what must come in the end, since nothing makes a notification arrive.

### Subscription

One tenant: its row, its subscription orders, its administrators' status, the status in the cached context, and the
day. `CreateOrder`, `HasPaid`, `InsertOrder` are CreateOrder; `Notified`, `ReadTenant`, `MarkPaid`, `ExtendTenant`,
`Invalidate` are OnPaySuccess; `ScanActive` to `WriteBanned` are the worker's ScanAndTransition for this tenant;
`Audit`, `SetStatus`, `SetPlan` are the platform's; `LoadContext` and `SetContext` fill the cache. The cached context
is reduced to its status, which is what a ban must reach.

### CouponIssue

One coupon, the `member_coupons` rows issued from it, and the lock of its row. `Receive` and `AdminGrantCoupon` take
the lock, `CountReceived` counts the member's coupons under it, `Issue` decreases the remaining count, inserts and
commits. `ReadCoupon` and `WriteCoupon` are the admin's edit: a read without a lock, counts computed in memory, an
UPDATE that waits for the lock. `DeleteCoupon` removes the row.

### VerifyCode and Account

`VerifyCode`: `code` and `sending` are the keys of Redis, `text` the requests. `SendVerifyCode` is the SETNX that
throttles, `StoreCode` the SET, `CodeSent` and `CodeNotSent` the gateway's answer, `UndoCode` the two DELs after a
failure, whatever the keys hold by then; `VerifyCode` is the GET and the comparison, `ConsumeCode` the DEL of
VerifyAndConsumeCode. Keys expire at any time (`LockExpires`, `CodeExpires`).

`Account`: `tenant` and `admin` are rows. RegisterTenantWithAdmin is two lookups, `InsertTenant` and `InsertAdmin`, with
no transaction around them; `Audit` and `SetStatus` update the tenant and `UpdateStatusByTenant`, a statement later, its
administrators. Logins by text and resets find the oldest account with the phone (`FindByPhone`) and update it by id.
`CreateUser` to `RemoveUser` are PlatformUserHandler. `Stored` is what gorm makes of a zero value.

### Membership and Distribution

`Membership`: `people` is the table of members, `level` the levels. A first login looks for a member and inserts one
(`CreateMember`), kept single by the unique indexes alone; BindPhoneByWechat drops the error of its UPDATE. A level is
looked up and then written (`UpdateMemberLevel`, `WriteMemberLevel`), deleted unless the foreign key refuses, or saved
whole and thereby brought back (`SaveLevel`).

`Distribution`: `parentOf` is `members.parent_id`, `distributor` the rows, `rules` the settings. Apply reads the member,
then his inviter's row, then inserts (`Apply`, `ReadMember`, `ReadParent`, `CreateDistributor`); BindParent reads, checks
the inviter and writes (`BindParent`, `CheckInviter`, `WriteParent`).

### Settings

`site` is the tenant's row: all of the tenant's forms read it, change their part and save the whole of it
(`UpdateDomain`, `UpdateOther`, `SaveSite`); the platform's `Verify` and `Reject` are UPDATEs of columns, and a deployment
of a tenant without a row inserts one. `payout` is the account the tenant submits and the platform audits.

### Cart and Catalog

`Cart`: Add and UpdateQuantity are `Resolve` (the product), `ResolveSku`, `FindLine` (the line, and ensureCartStock) and
`SaveQuantity`, gorm's Save: by id, inserted again if it is gone, refused if another has inserted a line for the same
key. `ShelfMoves` is whatever checkouts and the merchant do meanwhile.

`Catalog`: a creation, or a file of several, is a `task`. For each row `CountProducts` (the count and CheckProductLimit)
and `InsertProduct`; a row that fails is skipped. The plan under it can be changed and edited.

### Regions and Seckill

`Regions`: Update reads the parent and climbs to the root, one read per ancestor (`ReadParentRegion`, `ReadAncestor`,
the loop of levelForParent), then saves the row whole; Delete counts the children first.

`Seckill`: a transaction that replaces the goods of an activity, statement by statement, with the locks PostgreSQL takes
at READ COMMITTED: the UPDATE locks the head, the DELETE waits for the rows it saw. `lastSave` numbers the saves, so
that goods of two saves can be told apart.

### Carriers and Reasons

`Carriers`: the platform's edits of the table, and MatchCarrierByTrackingNo as operators over it (`Matching`, `MatchedBy`,
`FirstOf`). Kuaidi100's answer is a parameter.

`Reasons`: `CheckReason` and `InsertApplication` are what Apply does with its reason; `FindReason`, `CountUsage` and
`DeleteReason` are the three statements of DeleteAfterSaleReason. Applications keep the label and not the id.

### MCBackOffice

These modules share no variable. `part`, chosen in the initial state, says which of them moves, so one run explores each
in turn and the number of states is their sum, not their product; `View` keeps only the variables of that part.
`BackOfficeTypeOK` is the conjunction of their type invariants. Where two modules do touch in the code, the module says
what it assumes of the other: codes open `Account`'s calls, `OrderTrade` moves `Cart`'s shelf, `Reasons` is the first
check of `AfterSale`'s Apply.

## What TLC checks

Seven runs pass and five show a disagreement. Nothing in these programs guarantees that somebody places another
order, fills another cart or files another form, so all of them switch deadlock checking off: with every bound used up
and every request idle the instance really stops.

| Run | Instance | Shows |
|---|---|---|
| `OrderTrade_stock` | 2 orders, 2 requests; a product with a SKU, one without, one virtual; deletions | `TypeOK` (no stock below zero), `HoldsItsItems`, `ShelfLedger`, `AuditTrail` |
| `OrderTrade_limits` | 3 orders, 2 requests, monthly limit 1, 2 units; 2 coupons of one template, use limit 1; `is_virtual` is edited, the stock counted, the template switched, the coupons' statuses changed | `QuotaOvershoot`, `DiscountIsBacked`, `UseLimitHolds`, `ImplementsLifecycle`, `OnlyARaceTakesBack` |
| `OrderTrade_couponEdit` | 2 orders, 2 requests, the same coupons; only the coupons' statuses are changed | `UsedCouponStaysUsed` is violated |
| `OrderTrade_monthStart` | 2 orders, 1 request, limit 1, the first day of the month | `MonthlyLimitHolds` is violated |
| `AfterSale_race` | 1 order, 2 after-sales, 2 calls and 1 order request; the product can be deleted | `AfterSaleTypeOK`, `RefundingHasAfterSale`, `RefundsPutBackOnce`, `NeverUnpaid` |
| `AfterSale_undone` | the same, nothing deleted | `RefundedStaysRefunded` is violated |
| `Payment_pay` | 2 orders, 3 payments, 2 requests, production and not | `TypeOK`, `PaidOrderIsPaidFor`, `RecordedAfterOrder`, `PointsOncePerOrder` |
| `Payment_ack` | 1 order, 2 payments, 2 requests | `AcknowledgedIsDone` is violated |
| `Payment_balance` | as `Payment_pay` | `CreditsAreAdded` is violated |
| `Subscription_renew` | 2 orders, 2 plans, 2 requests, 1 edit by the platform, days 0 to 2 | `TypeOK`, `NoFreeTime`, `SwitchIsPaidFor`, `PaidOrderIsFinal` |
| `Subscription_expiry` | 1 order, 1 request, the cache, days 0 to 3, fair | `UnpaidIsBanned`, `BanReachesCache` |
| `BackOffice` | 2 requests in each of twelve modules, one module at a time; `BackOffice.cfg` has the rest | see below |

`BackOffice` checks, each in its own part: `CodeServesItsPurpose` (2 phones, 2 codes), `ApplicantOwnsTenant` (1 tenant, 3
usernames, 2 rows), `UplineIsOlder` (3 persons), `OneMemberPerIdentity` and `LevelOfMemberExists` (2 openids, 1 phone, 2
levels), `TypeOK`, `CountsAgree` and `ReceivedWithinLimit` of `CouponIssue` (2 members, 2 rows, totals 1 and 2, limits 0
and 1), `VerifiedWasVetted` (2 domains), `CartWithinShelf` (1 SKU, 2 units), `ProductsOvershoot` (2 plans, limits 0 to 2,
files of 2 rows), `CircleNeedsARace` (3 regions), `GoodsOfOneSave` (4 saves), `UsedReasonHasRow` (2 reasons, 2 labels,
2 applications); and `BackOfficeTypeOK` in all. The `part` "carriers" has its type invariant only. The merchant's edit of
the shelf (`"shelf"`) is in `OrderTrade_monthStart` and in the theorems, which hold for every `MerchantOps` they do not
name; in the other runs it would only add states in which a checkout is refused.

**Why the bounds are enough.** The hazards are races of two requests over one row, or of two and an edit, so two
requests (three where the edit is a request too) produce them. Two orders let one order's release feed the other's
checkout; two coupons with a limit of one reach the limit; three orders with a limit of one let the overshoot reach
its maximum. Two after-sales of one order are needed for one to undo the other. Three payments of two orders contain
a double payment beside a single one. Two mugs and one shirt let a mixed cart run out of one item after the other was
taken. Three persons or regions are the fewest of which a circle is not already excluded by a check on two rows; four
saves let two requests save twice. Days are few because only their order against the graces (0 and 1 day) and the trial
(1 day) matters. The bounds (`MaxStock`, `MaxLogs`, `MaxDay`, `MaxInterventions`, `MaxAdmins`, `MaxRows`, `MaxUnits`,
`MaxLines`, `MaxFileRows`, `MaxGoods`, `MaxSaves`) are named where they are declared.

**Symmetry and views.** Orders, requests, payments, coupons and rows are interchangeable and declared so in safety
runs; liveness runs use no symmetry. `WithoutHistory` drops `logs` and `held` and `WithoutLogs` drops `logs`: no
action reads them and no property of those runs does, except for the type of an entry, which is settled by the step
that appends it. `WithoutAdmins` does the same for the status of the tenant's administrators. Two states that differ
in them only have the same future. `InOrder` keeps one order among persons, codes and purposes that are alike. `Settled`
ends a behaviour of `BackOffice` where the properties can no longer change: when the last person is a distributor, and
when updates of regions have raced.

**Fairness.** `Subscription!FairSpec`: processes go on or die; the cached key runs out after five minutes; the worker
scans again and again (a ticker in `cmd/worker`), and neither every scan nor every one of its writes fails (strong
fairness of the scan's reads and of its writes that take effect). Nothing is assumed of members, merchants or the platform.

**What each property means**, beyond its comment in the module:

- `HoldsItsItems` is the one a unit test would hardly reach: `held` is written by the actions, `Owed` is computed from
  the order row alone, so they agree only if every take has its one release, whatever raced. The units of a deleted
  product are not put back, and the property says so.
- `DiscountIsBacked` lets an order lose its coupon to one kind of step: an edit of the coupon's status that had read the
  row before the order used it, the overlap that `OrderTrade_couponEdit` shows. Every other way to a discount without a
  coupon, two checkouts with one coupon first of all, violates it.
- `OnlyARaceTakesBack` draws the line for `UsedCouponStaysUsed`: the refusal of a used coupon is worth exactly what a
  check before an unconditional UPDATE can be. An edit that begins after the use changes nothing.
- `QuotaOvershoot` says how far the unlocked check of the monthly limit can be passed: by the requests in flight.
- `ImplementsLifecycle` checks every step of the code against the abstract status machine. With the WHERE of the
  UPDATE dropped, a stale cancellation takes an edge that does not exist.
- `AuditTrail` does not say that the log's "before" is the status the UPDATE overwrote: it is the status of the
  SELECT. It says that it is a status the order was in earlier, and that the "after"s are a path of the graph.
- `NeverUnpaid` is what `Payment` relies on.
- `NoFreeTime` bounds the expiry by what was granted and paid; the other direction fails (see below).
- `BanReachesCache` holds because the key runs out; `Invalidate` alone does not give it, since a request can write
  back a context it loaded before the ban.
- `ReceivedWithinLimit` fails as soon as the row lock is not taken.
- `ApplicantOwnsTenant` rests on `tenants.code` being unique and on nothing else: both lookups before it are stale.
- `UplineIsOlder` is why commissions could be paid along distributors' uplines. Of `members.parent_id` it does not hold:
  two distributors can invite each other.
- `CartWithinShelf` says "has had" because the shelf may have moved on; the shelf is checked again at checkout.
- `ProductsOvershoot` bounds the overshoot by the requests, not by the rows of their files: a row that is inserted is
  counted by the next.
- `CircleNeedsARace` gives the exact condition: without two overlapping updates no sequence of moves, creations and
  deletions makes a circle. With them it does, and levelForParent then walks round for ever.
- `GoodsOfOneSave` depends on the UPDATE of the head coming before the DELETE of the goods, as it does.
- `UsedReasonHasRow` likewise says when the refusal to delete a reason in use can be relied on.

## What TLAPS proves

For any numbers of orders, products, members, coupons, requests, plans and days:

| Theorem | Module | Property |
|---|---|---|
| `TypeInvariant`, `TypeCorrect` | `OrderTradeProofs` | `TypeOK`: no stock is ever negative |
| `OrderImplementsLifecycle` | `OrderTradeSafety` | `ImplementsLifecycle` |
| `OrdersHoldTheirItems` | `OrderTradeSafety` | `HoldsItsItems`, if `is_virtual` is not edited |
| `ShelfLedgerBalances` | `OrderTradeSafety` | `ShelfLedger`, for finitely many orders, if neither `is_virtual` nor the stock is edited |
| `LogIsThePath` | `OrderTradeSafety` | `AuditTrail` |
| `DiscountBacked` | `OrderTradeSafety` | `DiscountIsBacked`, whatever the admin edits |
| `OnlyRacesTakeBack` | `OrderTradeSafety` | `OnlyARaceTakesBack` |
| `UseLimitIsKept` | `OrderTradeSafety` | `UseLimitHolds`, for finitely many member coupons |
| `LimitOvershoot` | `OrderTradeSafety` | `QuotaOvershoot`, for finitely many orders and requests |
| `AfterSaleInvariant`, `AfterSaleTypeCorrect` | `AfterSaleProofs` | `AfterSaleTypeOK` |
| `RefundingIsOpen` | `AfterSaleProofs` | `RefundingHasAfterSale` |
| `PaidIsNeverUnpaid` | `AfterSaleProofs` | `NeverUnpaid` |
| `RefundsPutBack` | `AfterSaleProofs` | `RefundsPutBackOnce`, for finitely many after-sales, if `is_virtual` is not edited |
| `AfterSaleImplementsLifecycle` | `AfterSaleProofs` | the whole life of an order implements `OrderLifecycle` with the edges of both services |
| `OrdersAsPaymentsSeeThem` | `AfterSaleProofs` | the same, with every status after a payment seen as `paid`: the machine that `Payment` assumes |
| `DiscountStaysBacked`, `LimitsStayKept` | `AfterSaleProofs` | `DiscountIsBacked`, `UseLimitHolds` and `QuotaOvershoot` of the composition, as without after-sales |
| `RefundLedgerBalances` | `AfterSaleProofs` | the shelf ledger with the refunds counted, for finitely many orders and after-sales, if neither `is_virtual` nor the stock is edited |
| `PaymentInvariant`, `PaymentTypeCorrect` | `PaymentProofs` | `TypeOK`: points are never negative |
| `PaidForInProduction` | `PaymentProofs` | `PaidOrderIsPaidFor` |
| `RecordFollowsOrder` | `PaymentProofs` | `RecordedAfterOrder` |
| `OrderEarnsOnce` | `PaymentProofs` | `PointsOncePerOrder` |
| `PaymentsMoveOrders` | `PaymentProofs` | orders move as the machine of `OrdersAsPaymentsSeeThem` does |
| `TypeInvariant`, `TypeCorrect` | `SubscriptionProofs` | `TypeOK` |
| `PaidOrdersAreFinal` | `SubscriptionProofs` | `PaidOrderIsFinal` |
| `SwitchesArePaidFor` | `SubscriptionProofs` | `SwitchIsPaidFor` |
| `NoTimeIsFree` | `SubscriptionProofs` | `NoFreeTime`, for finitely many orders |
| `CouponTypeCorrect` | `StorefrontProofs` | `TypeOK` |
| `CountsAlwaysAgree` | `StorefrontProofs` | `CountsAgree` |
| `ReceivingKeepsTheLimit` | `StorefrontProofs` | `ReceivedWithinLimit` |
| `CartIsWithinShelf` | `StorefrontProofs` | `CartWithinShelf` |
| `OvershootIsBounded` | `StorefrontProofs` | `ProductsOvershoot` |
| `UplineEnds` | `StorefrontProofs` | `UplineIsOlder` |
| `SaleShowsOneSave` | `StorefrontProofs` | `GoodsOfOneSave` |
| `CodesServeTheirPurpose` | `BackOfficeProofs` | `CodeServesItsPurpose` |
| `ApplicantsOwnTheirTenants` | `BackOfficeProofs` | `ApplicantOwnsTenant` |
| `IdentityIsOneMember` | `BackOfficeProofs` | `OneMemberPerIdentity` |
| `MembersLevelExists` | `BackOfficeProofs` | `LevelOfMemberExists` |
| `VerifiedIsVetted` | `BackOfficeProofs` | `VerifiedWasVetted` |
| `EnabledIsApproved` | `BackOfficeProofs` | `EnabledWasApproved`: an enabled account was in the row when it was approved |
| `UsedReasonKeepsRow` | `BackOfficeProofs` | `UsedReasonHasRow` |
| `RegionsInvariant`, `CirclesNeedARace` | `BackOfficeProofs` | `CircleNeedsARace` |
| `CartTypeCorrect`, `CatalogTypeCorrect`, ... | `StorefrontProofs`, `BackOfficeProofs` | the type invariant of each module of the back office |
| `BackOfficeRunsItsParts`, `BackOfficeTypeCorrect` | `BackOfficeProofs` | a behaviour of the composed run is one of each of its modules; `BackOfficeTypeOK` |

The proofs rest on the ASSUMEs of the modules (finiteness and types of the constants, disjointness of identifiers,
nothing about their size) and, where the table says so, on a hypothesis in the statement. A set is finite where
something is counted or added up over it; the tables of a database are. `"virtual"` or `"adjust"` is not in `MerchantOps`
where the merchant's edit of `is_virtual` or of a stock would make the statement false: with the edit allowed TLC
refutes it, and the ledger, which says that nothing is added to the shelf, cannot hold across an edit that adds to it. Deletions of products are always allowed.

Few of the properties are inductive by themselves. What is added, and why:

- *OrderTrade, types*: a request past its SELECT names an order and a move whose fields are typed (`RequestsAim`).
- *OrderTrade, the lifecycle*: nothing; the WHERE of the UPDATE makes each step an edge by itself, which is the reason
  the code survives stale SELECTs here.
- *OrderTrade, `HoldsItsItems`*: what a checkout remembers of `is_virtual` is what the product row says
  (`Remembers`), and the flag of an order row agrees with its items' products (`VirtualIsVirtual`). Both need
  `is_virtual` not to be edited.
- *OrderTrade, `ShelfLedger`*: the induction is about what the orders really hold and not about what their rows say:
  shelf and `held` add up to the initial stock (`Balanced`), for deleted products as well. A take and a release change
  the shelf and one summand by the same amount, and an order that is not there holds nothing (`AbsentHoldNothing`), so
  the checkout's INSERT adds just what it took. `HoldsItsItems` then replaces what is held by what is owed.
- *OrderTrade, `AuditTrail`*: the last logged move of an order ends in its status, and what a request past its SELECT
  remembers is a status the order was logged in, or its first (`TrailInv`, `WasIn`). An entry once written stays, so what
  is remembered stays good for the "before" of the entry to come. The creation entry, which a checkout writes after
  its COMMIT and perhaps after the first moves, is not a move and shifts none.
- *OrderTrade, coupons*: a coupon that is used while an edit of its status is in flight was used under that edit
  (`EditsPrecedeUse`): an edit that starts on a used coupon is refused, so what is in flight was there before.
- *OrderTrade, the use limit*: nothing; the check that counts is the one under the template's lock, and the admin's edit
  can only take a coupon out of the used ones.
- *OrderTrade, the monthly limit*: a checkout that has passed the check is counted as if its order were there
  (`QuotaInv`); when the check passed the month was below the limit, and at most all requests are in flight.
- *AfterSale*: what an after-sale or a call aims at was paid (`RowAims`, `CallAims`), no step takes a paid order back, and
  the status kept in `order_status_before` is one an after-sale may start from. A call remembers an open status, so its
  conditional UPDATE can only move an after-sale that is open.
- *AfterSale, `RefundsPutBackOnce`*: what `HoldsItsItems` needs (`KnowsItems`), and that an after-sale is refunded once:
  the refund's UPDATE looks for an open one, and no call writes `refunded` otherwise. Orders that were not paid have no
  after-sale, so a cancellation finds all that was taken still held.
- *AfterSale, lifecycle*: nothing beyond `RowAims` and `CallAims`. What a call writes is one edge of one paid order, even
  when it is the stale write of `AfterSale_undone`; the edges of `AfterSaleEdges` say so.
- *AfterSale, what payments see*: every edge of the order service and of after-sales, mapped by `AsPaid`, stutters or
  leaves `pending_pay`. `WholeLife` implements `PaymentLife`, and the code implements `WholeLife`.
- *AfterSale, coupons, limits and the ledger*: a call writes neither coupons nor the discount of an order nor its month,
  and the ledger's induction of `OrderTrade` gains one case, the refund, which moves units from `held` to the shelf.
  A second refund of one order makes what it "owes" negative; the sum then says exactly how many units the shelf has
  that there never were.
- *Payment*: what a request knows at each stage (`Knows`): its payment is a row of its own order, in production one that
  WeChat took the money for. For the points also `OneEarner`: past MarkPaid a request is the only one to write points for
  its order, because MarkPaid succeeds once.
- *Subscription, `SwitchIsPaidFor`*: the plan of the tenant, of every order and of every request about to insert one
  is *backed*: it was given, or a given one was paid for. A payment, once made, is final, so backing is never lost.
- *Subscription, `NoFreeTime`*: the bound holds too of what every notification in flight has computed and is still to
  write (`Within`, in `TimeInv`): it started from an expiry that was within the bound, and the days it adds are those of an
  order that is paid by then. Several that read the same expiry write less than the sum of their days, never more.
- *CouponIssue, counts*: what an edit will write agrees with itself, whatever has become of the row it read.
- *CouponIssue, the limit*: who counts or issues holds the lock, and the count it made is still good. The second part
  is preserved because every step that could spoil it, another insert, an edit or a deletion, waits for the lock.
- *Cart*: the history counts what is on the shelf (`ShelfIsCounted`), and the stock a request has read, like the
  quantity it is about to save, is within it (`Backed`); `most` never shrinks, so a stale read stays good.
- *Catalog*: the products together with the other requests that are past their count stay below the widest limit plus
  the number of requests (`InsertingOvershoot`), every plan's limit is within the widest (`WithinWidest`).
- *Distribution*: a request that has read its inviter's row knows a distributor that exists, older than the row it is
  about to insert, since ids only grow (`Knows`), and a parent is never bound that is not a distributor
  (`BoundToDistributor`).
- *Seckill*: while the activity exists, a save past the UPDATE of the head holds its lock, alone (`OneHead`), so what it has
  seen and deleted is all that is committed (`BatchAims`).
- *VerifyCode*: what is stored was sent for the key it is stored under (`StoredWhereSent`).
- *Account*: a request between its two INSERTs is the only one at its tenant, which has no administrator yet (`Applying`,
  `OneApplicant`); the unique code of the tenant makes it so.
- *Membership*: nothing but types; the unique indexes and the foreign key are enough.
- *Settings*: a row that a form has yet to save satisfies the property as well (`Vetted` of every row in flight). That is
  all the forms have: no lock keeps them apart, but each saves a row that was once good.
- *Regions*: while no two updates have overlapped, the regions an update in flight has walked up from the parent it wants
  are a set that leads only to the one it reads next and does not contain the region it moves (`Walked`). When the walk
  ends at a root, a circle through the moved region would lie in that set. There is no induction on the length of a
  circle: it is a set of regions each of which has its parent in the set.
- *The composition*: a behaviour of `BackOfficeSpec` steps one module and keeps the variables of the others, so it is a
  behaviour of each module's specification, and every theorem about one of them is one about the run.
- *Reasons*: while nothing is disturbed at most one call is in flight, and a deletion that has counted aims at a label
  no application uses (`Quiet`, `Aims`).

`SumProofs` has the lemmas about sums that the two ledgers and `NoFreeTime` share: the sum over a finite set does not
depend on the order in which the fold takes its elements, it grows by the value of an element that is added, and it
changes by what one summand changes. The prover has no induction rule it can instantiate with an operator, so
they are proved by the least element of a set of natural numbers.

Only model-checked: `UnpaidIsBanned` and `BanReachesCache`, the liveness properties, which with
fairness and ENABLED are out of this prover's reach. Every safety property that a passing run checks is a theorem. The
counterexamples of the runs that expect one need no proof. No definition is recursive; the folds used in properties
are the community modules'.

## Where the code disagrees with its comments

Shown by a run:

- `OrderTrade_monthStart`: `CountMonth` (`order_repo.go:130`) subtracts days from the present time and keeps its time
  of day, so orders placed earlier on the first of the month are not counted, and the limit is passed with one request
  at a time.
- `AfterSale_undone`: a cancellation or rejection that read the after-sale before it was refunded gives the refunded
  order its earlier status back (`after_sale_service.go:311`: the conditional UPDATE matches nothing, the order is
  written in any case).
- `Payment_ack`: a notification that fails after recording the payment (`payment_service.go:167`) is answered with
  success when it is repeated, and its order stays `pending_pay`.
- `OrderTrade_couponEdit`: the admin's form refuses a used coupon (`member_service.go:276`) by the row it has read; a
  coupon used between this read and the UPDATE is made usable again.
- `Payment_balance`: `grantPoints` is to add to the balance (`payment_service.go:200`), but writes a sum made from the
  balance it read: of a grant and a concurrent change one is lost, while the log keeps both.

Met while modelling, in the modules, and not shown by a run of their own (most are described at their hazards). The
first six are against a comment, a refusal or a seed of the repository:

- Two applications at a time both count no open after-sale (`after_sale_service.go:73`), and both open one, against the
  refusal at line 80.
- What has been issued of a coupon is not to be given back (`handler/admin/coupon.go:118`), but an edit of the total
  computes what is left from a row read without a lock, and units issued meanwhile are there again.
- Two updates that each walk up before the other saves make two regions each other's parents, which
  `handler/admin/region.go:178` refuses. `CircleNeedsARace` shows that nothing else does.
- `carrierMatchesCode` (`settings_service.go:308`) puts the aliases of the code it looks for among the keys of the row it
  looks at, so a code it knows matches every carrier, and a number goes to the carrier listed first.
- A reason is deleted, against `settings_service.go:492`, although an application with it came between the count of its
  uses and the DELETE.
- The administrator of a new tenant is given status 0, "to be enabled by the platform once the tenant is approved"
  (`auth_service.go:483`), but the column's default is 1 (`model/platform.go:67`), which gorm's Create stores in place of
  a zero: the row is enabled from the start (`Stored` in `Account`).

- Two subscription orders of one tenant paid at the same time extend it by one period, and a process that dies between
  MarkPaid and the extension leaves the payment without any.
- The worker can put overdue or ban a tenant that paid between its SELECT and its UPDATE.
- A coupon's total lowered below what was issued and raised again gives issued units back, one edit after the other.
- `is_virtual` edited between checkout and cancellation puts back too much or too little.
- A used reason whose label is edited can be deleted. A reason created disabled is stored enabled, for the same reason
  as the administrator above.
- The rejection of a payout account leaves `enabled` as it was (`settings_repo.go:60`), so an account that was approved
  and then rejected stays enabled.
- Two additions to one line of a cart at a time are stored as one.
- A form of the site saved after the platform rejected a domain brings the domain back, unverified; one saved after a
  verification takes the verification back.
- The form of the SMS settings reads the stored key to save it again when the form leaves it alone
  (`handler/admin/sms.go:55`): a save that overlaps with another brings the older key back, and one whose read fails
  stores none.
- The phone that BindPhoneByWechat could not bind is reported as bound.

## What is not modelled

Prices, amounts and their arithmetic, addresses, deliveries, messages to merchants, listings and formatting. Product
categories, attributes and SKUs as tables; the feature switches of plans. Group buying, points rules, delivery
templates, SMS and global settings, API tokens, members' profiles and addresses: each is a row that one statement
writes, and nothing later depends on what another wrote in between. The row of the platform's settings is inserted by
`init_db.sql`, so that the INSERT of its Upsert is never reached. `ClaimStock`, the only operation that would make a
flash sale a matter of stock, is called by no handler; `commission_logs` and withdrawals are written by none.
Routing, authentication, binding and rate limits keep no state that the modules would need; object storage, the AI image
service and the clients of WeChat, the SMS gateway and Kuaidi100 are input and output, of which the modules take the
possible answers.

## Plan

The order follows what breaks worst: stock and money of members first, then money of tenants, then the rest.

1. *Done.* `OrderLifecycle` and `OrderTrade` with their runs; types, lifecycle, items and coupons proved.
2. *Done.* `AfterSale` on top of `OrderTrade`; `Payment` beside it.
3. *Done.* `Subscription` with the worker and the cache; `CouponIssue` with its lock; proofs of both.
4. *Done.* `VerifyCode` and `Account`; `Membership` and `Distribution`; `Cart` and `Catalog`; `Settings`, `Regions`,
   `Seckill`, `Carriers` and `Reasons`, in one run; proofs of `Cart`, `Catalog`, `Distribution`, `Settings`, `Carriers`
   and `Reasons`.
5. *Done.* `AfterSale`, `Payment`, the two limits of `OrderTrade`, `VerifyCode`, `Account`, `Membership` and `Seckill`
   proved.
6. *Done.* `ShelfLedger`, `NoFreeTime`, `AuditTrail`, `CircleNeedsARace` and the types of the composed run as theorems;
   with after-sales the lifecycle, the ledger and the limits; the interface between `Payment` and the orders it marks.
7. What `CouponIssue` promises to `OrderTrade`, a member coupon that exists with the template it names, as a theorem
   that joins the two.
8. Flash sales with stock, once something calls `ClaimStock`; commissions, once something writes them.

Runs and properties stay few: when a later component needs one, runs of this list are merged or a disagreement that has
been understood gives way.
