------------------------------- MODULE ShopMC -------------------------------
(***************************************************************************)
(* What a shopper meets: the cart, the product page, the tokens of a login *)
(* and the answers of the card gateway.  They share no state here, so one  *)
(* of them, which, runs in each behaviour: TLC goes through the sum of     *)
(* their states, not the product, and a theorem about one of them says as  *)
(* much as if all of them ran.                                             *)
(*                                                                         *)
(* Requests are interchangeable; so are things: the variants of a cart,    *)
(* the windows of the card gateway.                                        *)
(***************************************************************************)
EXTENDS Integers, TLC

CONSTANTS
    Request, Thing, Customer, Staff, Visitor,
    MaxQty, MaxImage, MaxSold, MaxToken

VARIABLES
    which,                              \* the component that runs
    cartRows, cartItems, cartReq,       \* Cart
    product, variant, wishlists, views, objects, rowReq, shipped, wanted, excused,  \* ProductRows
    sessions, last, usable, tokenJob, held, of, ended, troubled,                    \* Sessions
    status, window, fresh, answerJob, page, recorded, alerted, answered             \* NanoReturn

Cart == INSTANCE Cart WITH req <- cartReq, Variant <- Thing

ProductRows == INSTANCE ProductRows WITH req <- rowReq

Sessions == INSTANCE Sessions WITH job <- tokenJob

NanoReturn == INSTANCE NanoReturn WITH job <- answerJob, Window <- Thing, Job <- Request

ASSUME Assumptions ==
    /\ Cart!CartAssumption
    /\ ProductRows!ProductRowsAssumption
    /\ Sessions!SessionsAssumption

cartVars == <<cartRows, cartItems, cartReq>>
rowVars ==
    <<product, variant, wishlists, views, objects, rowReq, shipped, wanted, excused>>
tokenVars == <<sessions, last, usable, tokenJob, held, of, ended, troubled>>
answerVars == <<status, window, fresh, answerJob, page, recorded, alerted, answered>>

vars == <<which, cartVars, rowVars, tokenVars, answerVars>>

Nothing == "nothing"

NoCart == cartRows = Nothing /\ cartItems = Nothing /\ cartReq = Nothing

NoRows ==
    /\ product = Nothing /\ variant = Nothing /\ wishlists = Nothing /\ views = Nothing
    /\ objects = Nothing /\ rowReq = Nothing /\ shipped = Nothing /\ wanted = Nothing
    /\ excused = Nothing

NoTokens ==
    /\ sessions = Nothing /\ last = Nothing /\ usable = Nothing /\ tokenJob = Nothing
    /\ held = Nothing /\ of = Nothing /\ ended = Nothing /\ troubled = Nothing

NoAnswers ==
    /\ status = Nothing /\ window = Nothing /\ fresh = Nothing /\ answerJob = Nothing
    /\ page = Nothing /\ recorded = Nothing /\ alerted = Nothing /\ answered = Nothing

Init ==
    /\ which \in {"cart", "rows", "sessions", "nano"}
    /\ IF which = "cart" THEN Cart!Init ELSE NoCart
    /\ IF which = "rows" THEN ProductRows!Init ELSE NoRows
    /\ IF which = "sessions" THEN Sessions!Init ELSE NoTokens
    /\ IF which = "nano" THEN NanoReturn!Init ELSE NoAnswers

Next ==
    /\ UNCHANGED which
    /\ IF which = "cart" THEN Cart!Next ELSE UNCHANGED cartVars
    /\ IF which = "rows" THEN ProductRows!Next ELSE UNCHANGED rowVars
    /\ IF which = "sessions" THEN Sessions!Next ELSE UNCHANGED tokenVars
    /\ IF which = "nano" THEN NanoReturn!Next ELSE UNCHANGED answerVars

Spec == Init /\ [][Next]_vars

-----------------------------------------------------------------------------
NoCall == [op |-> "none", cart |-> "none", items |-> Cart!NoItems]

Store == INSTANCE CartStore
    WITH carts <- IF which = "cart" THEN cartItems ELSE [customer \in Customer |-> Cart!NoItems],
         call <- [q \in Request |-> IF which = "cart" THEN Cart!CallOf(q) ELSE NoCall],
         Variant <- Thing

\* Every component's state keeps its type and the constraints of its tables.
TypesOK ==
    /\ which = "cart" => Cart!TypeOK
    /\ which = "rows" => ProductRows!TypeOK
    /\ which = "nano" => NanoReturn!TypeOK

\* What a request on a cart was answered is true: the cart was stored like that while
\* it ran, a refusal saved nothing, and every line it saved was in stock.  Its
\* transactions wait in a circle only where a cart is cleared.
CartAnswersAreTrue ==
    which = "cart" =>
        /\ Cart!AnswerWasTheCart
        /\ Cart!RefusedMeansUnchanged
        /\ Cart!SavedLinesWereInStock
        /\ Cart!OnlyClearDeadlocks

\* The transactions of a cart take effect at once, one after the other, as
\* CartStore has them.
ImplementsStore == Store!StoreSpec

\* The counters of a product count its rows, edits that do not overlap stand, and a
\* listed image has both its objects.
ProductRowsAgree ==
    which = "rows" =>
        ProductRows!CountersMatchRows /\ ProductRows!EditsStand /\ ProductRows!NoBrokenImage

\* A login has one refresh token, which its client holds unless it lost track of it,
\* and which was handed out to a usable account.
TokensFollowLogins ==
    which = "sessions" =>
        /\ Sessions!OneTokenPerLogin
        /\ Sessions!ClientsKeepTheirToken
        /\ Sessions!RefreshedWhileUsable

\* A charge leaves a paid row or an alert, its shopper is not invited to pay again, and
\* the payment is undone only by a decline that had read the row before it.
ChargesAreNoticed ==
    /\ [](which = "nano" =>
              NanoReturn!EveryChargeIsNoticed /\ NanoReturn!ChargedIsNotInvitedBack)
    /\ [][which = "nano" => NanoReturn!PaidOutlivesDeclinesStep]_vars

Symmetry == Permutations(Request) \cup Permutations(Thing)
=============================================================================
