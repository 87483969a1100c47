------------------------------ MODULE OfficeMC ------------------------------
(***************************************************************************)
(* What the back office keeps: accounts, address books, signing keys, the  *)
(* migration of the roles, the chats that are told of orders, the catalog  *)
(* and its listing, coupons, and the two stores of the order service.      *)
(* They share no state here, so one of them, which, runs in each           *)
(* behaviour: TLC goes through the sum of their states, not the product,   *)
(* and a theorem about one of them says as much as if all of them ran.     *)
(*                                                                         *)
(* Requests, which stand for the auth processes of a migration too, are    *)
(* interchangeable; so are persons, and things: key ids, mail addresses,   *)
(* colors, payments.                                                       *)
(***************************************************************************)
EXTENDS Integers, TLC

CONSTANTS
    Request, Person, Thing,
    MaxUser, StaffOp, maxFailedAttempts,                        \* Accounts
    MaxAddress, MaxAddressesPerUser, Text,                      \* Profile
    MaxKey,                                                     \* Keys
    Held,                                                       \* Migration
    Chat, User, SentBy, MaxUpdate, EnvChats, EnvUsers,          \* TelegramBot, Alerts
    Product, Sku, Brand, Style, BrandOf, MaxQuantity,           \* Catalog
    Listed, MaxViews, DefaultLimit, MaxLimit, Requested,        \* Search
    Code, Discount,                                             \* Coupons
    Order, Moved, OrderKey, NoOrder, NoKey, NoPayment, MaxReservation, MaxClock  \* OrderStores

VARIABLES
    which,                              \* the component that runs
    users, staffReq, outbox, born, decided, streak, overlapped,         \* Accounts
    book, fields, seq, bookReq, wanted, pick, excused, crowded,         \* Profile
    signers, cachedKeys, tokenReq,                                      \* Keys
    migrated, hasRoles, index, pc, found, operators, alone,             \* Migration
    botSubs, bot, botOffset, batch, confirmed, handled,                 \* TelegramBot
    subs, access, alertReq, alert, blurred,                             \* Alerts
    masters, products, variants, stock, holds, drawn, catalogReq,       \* Catalog
    shelf, query, offset, total, pages, calm,                           \* Search
    coupons, couponReq, offered, stale,                                 \* Coupons
    rows, told, keys, session, copy, draft, clock                       \* OrderStores

Accounts == INSTANCE Accounts WITH req <- staffReq, MaxId <- MaxUser

Profile == INSTANCE Profile WITH profile <- fields, req <- bookReq, MaxId <- MaxAddress

Keys == INSTANCE Keys WITH keys <- cachedKeys, req <- tokenReq, KeyId <- Thing

Migration == INSTANCE Migration WITH users <- migrated, User <- Person, Address <- Thing,
                              Instance <- Request

TelegramBot == INSTANCE TelegramBot WITH subs <- botSubs, offset <- botOffset

Alerts == INSTANCE Alerts WITH req <- alertReq

Catalog == INSTANCE Catalog WITH req <- catalogReq, Color <- Thing

Search == INSTANCE Search WITH Product <- Listed

Coupons == INSTANCE Coupons WITH req <- couponReq

OrderStores == INSTANCE OrderStores WITH Key <- OrderKey, Payment <- Thing, Caller <- Request

ASSUME Assumptions ==
    /\ Accounts!AccountsAssumption
    /\ Alerts!AlertsAssumption
    /\ Catalog!CatalogAssumption
    /\ Coupons!CouponsAssumption
    /\ Keys!KeysAssumption
    /\ Migration!MigrationAssumption
    /\ OrderStores!OrderStoresAssumption
    /\ Profile!ProfileAssumption
    /\ Search!SearchAssumption
    /\ TelegramBot!SubscriptionsAssumption
    /\ TelegramBot!TelegramBotAssumption

accountVars == <<users, staffReq, outbox, born, decided, streak, overlapped>>
profileVars == <<book, fields, seq, bookReq, wanted, pick, excused, crowded>>
keyVars == <<signers, cachedKeys, tokenReq>>
migrationVars == <<migrated, hasRoles, index, pc, found, operators, alone>>
botVars == <<botSubs, bot, botOffset, batch, confirmed, handled>>
alertVars == <<subs, access, alertReq, alert, blurred>>
catalogVars == <<masters, products, variants, stock, holds, drawn, catalogReq>>
searchVars == <<shelf, query, offset, total, pages, calm>>
couponVars == <<coupons, couponReq, offered, stale>>
storeVars == <<rows, told, keys, session, copy, draft, clock>>

vars ==
    <<which, accountVars, profileVars, keyVars, migrationVars, botVars,
      alertVars, catalogVars, searchVars, couponVars, storeVars>>

Nothing == "nothing"

NoAccounts ==
    /\ users = Nothing /\ staffReq = Nothing /\ outbox = Nothing /\ born = Nothing
    /\ decided = Nothing /\ streak = Nothing /\ overlapped = Nothing

NoProfile ==
    /\ book = Nothing /\ fields = Nothing /\ seq = Nothing /\ bookReq = Nothing
    /\ wanted = Nothing /\ pick = Nothing /\ excused = Nothing /\ crowded = Nothing

NoKeys ==
    /\ signers = Nothing /\ cachedKeys = Nothing /\ tokenReq = Nothing

NoMigration ==
    /\ migrated = Nothing /\ hasRoles = Nothing /\ index = Nothing /\ pc = Nothing
    /\ found = Nothing /\ operators = Nothing /\ alone = Nothing

NoTelegramBot ==
    /\ botSubs = Nothing /\ bot = Nothing /\ botOffset = Nothing /\ batch = Nothing
    /\ confirmed = Nothing /\ handled = Nothing

NoAlerts ==
    /\ subs = Nothing /\ access = Nothing /\ alertReq = Nothing /\ alert = Nothing
    /\ blurred = Nothing

NoCatalog ==
    /\ masters = Nothing /\ products = Nothing /\ variants = Nothing /\ stock = Nothing
    /\ holds = Nothing /\ drawn = Nothing /\ catalogReq = Nothing

NoSearch ==
    /\ shelf = Nothing /\ query = Nothing /\ offset = Nothing /\ total = Nothing
    /\ pages = Nothing /\ calm = Nothing

NoCoupons ==
    /\ coupons = Nothing /\ couponReq = Nothing /\ offered = Nothing /\ stale = Nothing

NoOrderStores ==
    /\ rows = Nothing /\ told = Nothing /\ keys = Nothing /\ session = Nothing
    /\ copy = Nothing /\ draft = Nothing /\ clock = Nothing

Init ==
    /\ which \in {"accounts", "profile", "keys", "migration", "bot", "alerts",
                 "catalog", "search", "coupons", "stores"}
    /\ IF which = "accounts" THEN Accounts!Init ELSE NoAccounts
    /\ IF which = "profile" THEN Profile!Init ELSE NoProfile
    /\ IF which = "keys" THEN Keys!Init ELSE NoKeys
    /\ IF which = "migration" THEN Migration!Init ELSE NoMigration
    /\ IF which = "bot" THEN TelegramBot!Init ELSE NoTelegramBot
    /\ IF which = "alerts" THEN Alerts!Init ELSE NoAlerts
    /\ IF which = "catalog" THEN Catalog!Init ELSE NoCatalog
    /\ IF which = "search" THEN Search!Init ELSE NoSearch
    /\ IF which = "coupons" THEN Coupons!Init ELSE NoCoupons
    /\ IF which = "stores" THEN OrderStores!Init ELSE NoOrderStores

Next ==
    /\ UNCHANGED which
    /\ IF which = "keys" THEN Keys!Next ELSE UNCHANGED keyVars
    /\ IF which = "migration" THEN Migration!Next ELSE UNCHANGED migrationVars
    /\ IF which = "bot" THEN TelegramBot!Next ELSE UNCHANGED botVars
    /\ IF which = "alerts" THEN Alerts!Next ELSE UNCHANGED alertVars
    /\ IF which = "catalog" THEN Catalog!Next ELSE UNCHANGED catalogVars
    /\ IF which = "search" THEN Search!Next ELSE UNCHANGED searchVars
    /\ IF which = "coupons" THEN Coupons!Next ELSE UNCHANGED couponVars
    /\ IF which = "stores" THEN OrderStores!Next ELSE UNCHANGED storeVars
    /\ IF which = "profile" THEN Profile!Next ELSE UNCHANGED profileVars
    /\ IF which = "accounts" THEN Accounts!Next ELSE UNCHANGED accountVars

Spec == Init /\ [][Next]_vars

-----------------------------------------------------------------------------
\* Every component's state keeps its type and the constraints of its tables.  In the
\* catalog rows name rows that exist, a sku is one variant's and has a stock row, and
\* reserved units lose that row only to the deletion of a product.
TablesOK ==
    /\ which = "accounts" => Accounts!TypeOK
    /\ which = "profile" => Profile!TypeOK
    /\ which = "keys" => Keys!TypeOK
    /\ which = "migration" => Migration!TypeOK
    /\ which = "bot" => TelegramBot!TypeOK
    /\ which = "alerts" => Alerts!TableOK
    /\ which = "stores" => OrderStores!TypeOK
    /\ which = "catalog" =>
          /\ Catalog!TypeOK
          /\ Catalog!NothingDangles
          /\ Catalog!EveryVariantIsTracked
          /\ Catalog!OneVariantPerSku
          /\ Catalog!HoldsLostOnlyToDeletes

\* A row says what its requests made it, unless two of them overlapped on it: accounts
\* after logins and staff, the address book with its limit, coupons as they are
\* redeemed, which stay deleted once they are.
RowsFollowRequests ==
    /\ which = "accounts" => Accounts!RowFollowsHistory
    /\ which = "profile" => Profile!BookFollowsRequests /\ Profile!LimitHolds
    /\ which = "coupons" => Coupons!RedeemedAsOffered /\ Coupons!DeletedStaysDeleted

\* The stores in memory, which the tests run on, answer as Postgres does: the pages of
\* a listing, the orders, and the sessions until their time is over.  In both a key
\* keeps its order, and in Postgres a shipped order keeps its payment.
StoresAgree ==
    /\ [](/\ which = "search" => Search!StoresAgree
          /\ which = "stores" => OrderStores!OrdersAgree /\ OrderStores!SessionsAgree)
    /\ [][which = "stores" =>
              OrderStores!OneOrderPerKeyStep /\ OrderStores!ShipKeepsPaymentStep]_vars

\* All pages of a listing together are all matches, once.
PagesCoverMatches == which = "search" => Search!PagesCoverMatches

\* What happened is told: the deletion of an account, the last status of an order, and
\* every message to the bot, which Telegram drops only once it was handled.
ChangesAreTold ==
    /\ which = "accounts" => Accounts!GoneIsAnnounced
    /\ which = "stores" => OrderStores!EventsTellTheRow
    /\ which = "bot" => TelegramBot!UpdatesAreNotLost

\* What is cached follows what it is a copy of: a token of the key that signs now is
\* accepted and a newer key replaces an older one, and the list of chats is the
\* table's but for refreshes that failed or were overtaken.
CachesFollow ==
    /\ [](/\ which = "keys" => Keys!CurrentTokenIsAccepted
          /\ which = "alerts" => Alerts!CacheFollowsTable)
    /\ [][which = "keys" => Keys!CacheMovesForwardStep]_vars

\* What was withdrawn is refused: a login to a locked account, a token of a key that
\* the service knows to be rotated out, an alert to a chat that was removed.
WithdrawnIsRefused ==
    [][/\ which = "accounts" => Accounts!LockHoldsStep
       /\ which = "keys" => Keys!RotatedOutIsRefusedStep
       /\ which = "alerts" => Alerts!RemovedChatIsSilentStep]_vars

\* Nobody loses a right by the migration, no role's name is left when auth serves, and
\* a start that no other runs beside succeeds.
RightsSurvive ==
    /\ [](which = "migration" => Migration!NoRoleIsServed /\ Migration!AloneAStartSucceeds)
    /\ [][which = "migration" => Migration!RightsSurviveStep]_vars

\* Who writes from each chat, and the brand of each style, where there is one.
MCSentBy == [chat \in Chat |-> CHOOSE u \in User : TRUE]

MCBrandOf == [st \in Style |-> CHOOSE b \in Brand : TRUE]

Symmetry == Permutations(Request) \cup Permutations(Person) \cup Permutations(Thing)
=============================================================================
