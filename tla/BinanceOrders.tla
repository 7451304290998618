---------------------------- MODULE BinanceOrders ----------------------------
(***************************************************************************)
(* brokers/binance.py on brokers/base.py: the orders of an account, and    *)
(* the receipts the adapter keeps of them, from which it completes an      *)
(* amendment that names only some of the order's fields.                   *)
(*                                                                         *)
(* The venue's order ids are taken to be unique.  _order_symbols has the   *)
(* ids _orders has.  A request that got no answer within the client's 30   *)
(* seconds is not carried out later: it is signed with its time.           *)
(***************************************************************************)
EXTENDS Integers

CONSTANTS
    Requesters,    \* tasks that use the adapter; each awaits its calls
    LooksUp,       \* TRUE: after an amendment failed, a caller looks the order up first
    VenueTickets,  \* the orders that may be submitted
    Quantities, LimitPrices,
    VenueOrders,   \* bound: orders
    MaxRequests    \* bound: calls

ASSUME BinanceAssumption ==
    /\ LooksUp \in BOOLEAN /\ VenueOrders \in Nat /\ MaxRequests \in Nat
    /\ Quantities \subseteq Nat \ {0} /\ LimitPrices \subseteq Nat \ {0}
    /\ VenueTickets \subseteq [type : {"market", "limit", "stop", "stop_limit"},
                             qty : Nat \ {0}, price : Nat]

VARIABLES
    venueKind,     \* "spot" or "futures"
    venueOpen,     \* _connected
    venue,         \* [id -> the order at the venue]
    receipts,      \* _orders
    requested,     \* [caller -> its call]
    callCount,
    doubtful,      \* history: orders whose last amendment failed, not looked up since
    wanted         \* history: [id -> quantity and price as last asked for]

binanceVars == <<venueKind, venueOpen, venue, receipts, requested, callCount, doubtful, wanted>>

VenueIds == 1 .. VenueOrders
NoReceipt == [type |-> "", qty |-> 0, price |-> 0, status |-> ""]
NothingSaid == [i \in VenueIds |-> NoReceipt]
NoRequest == [op |-> "", id |-> 0, sent |-> NoReceipt, asked |-> NoReceipt, phase |-> "idle",
              rows |-> NothingSaid]

BinanceInit ==
    /\ venueKind \in {"spot", "futures"} /\ venueOpen = FALSE
    /\ venue = NothingSaid /\ receipts = NothingSaid
    /\ requested = [c \in Requesters |-> NoRequest] /\ callCount = 0
    /\ doubtful = {} /\ wanted = NothingSaid

ConnectBinance ==
    /\ venueOpen' = TRUE
    /\ UNCHANGED <<venueKind, venue, receipts, requested, callCount, doubtful, wanted>>

\* _request_json: a request that is not connected raises at once.
SendRequest(c, op, id, sent, asked) ==
    /\ venueOpen /\ requested[c].phase = "idle"
    /\ callCount < MaxRequests /\ callCount' = callCount + 1
    /\ requested' = [requested EXCEPT ![c] =
           [op |-> op, id |-> id, sent |-> sent, asked |-> asked, phase |-> "sent",
            rows |-> NothingSaid]]
    /\ UNCHANGED <<venueKind, venueOpen, venue, receipts, doubtful, wanted>>

NewOrder(type, qty, price) == [type |-> type, qty |-> qty, price |-> price, status |-> "new"]

SubmitOrder(c) ==
    \E t \in VenueTickets :
        LET order == NewOrder(t.type, t.qty, t.price)
        IN  SendRequest(c, "submit", 0, order, order)

CancelVenueOrder(c, id) == SendRequest(c, "cancel", id, NoReceipt, NoReceipt)
GetOpenOrders(c) == SendRequest(c, "open", 0, NoReceipt, NoReceipt)
GetOrderStatus(c, id) == SendRequest(c, "status", id, NoReceipt, NoReceipt)

\* What is sent for changes (0 for a field they do not name).  An unknown
\* order's side and symbol are given with the changes.
Amendment(id, changes) ==
    IF venueKind = "spot" THEN changes
    ELSE [changes EXCEPT !.qty = IF @ # 0 THEN @ ELSE receipts[id].qty,
                         !.price = IF @ # 0 THEN @ ELSE receipts[id].price]

Amendable(id, sent) ==
    /\ sent.qty > 0
    /\ IF venueKind = "spot" THEN sent.price = 0
       ELSE sent.price > 0 /\ receipts[id].type \in {"", "limit"}

ModifyOrder(c, id) ==
    \E qty \in Quantities \cup {0}, price \in LimitPrices \cup {0} :
        LET changes == [NoReceipt EXCEPT !.qty = qty, !.price = price]
            sent == Amendment(id, changes)
        IN  /\ Amendable(id, sent)
            /\ ~(LooksUp /\ id \in doubtful)
            /\ SendRequest(c, "modify", id, sent, changes)

Or(n, other) == IF n = 0 THEN other ELSE n
Amended(order, fields) ==
    [order EXCEPT !.qty = Or(fields.qty, @), !.price = Or(fields.price, @)]

At(c, op) == requested[c].phase = "sent" /\ requested[c].op = op
Reply(c, rows) == requested' = [requested EXCEPT ![c].phase = "answered", ![c].rows = rows]
RowNow(id) == [NothingSaid EXCEPT ![id] = venue'[id]]

\* The venue carries out a request it does not refuse.
VenueSubmits(c) ==
    /\ At(c, "submit")
    /\ \E id \in VenueIds :
        /\ venue[id] = NoReceipt /\ \A i \in 1 .. (id - 1) : venue[i] # NoReceipt
        /\ venue' = [venue EXCEPT ![id] = requested[c].sent]
        /\ wanted' = [wanted EXCEPT ![id] = requested[c].asked]
        /\ Reply(c, RowNow(id))
    /\ UNCHANGED <<venueKind, venueOpen, receipts, callCount, doubtful>>

VenueCancels(c) ==
    LET id == requested[c].id IN
    /\ At(c, "cancel") /\ venue[id].status = "new"
    /\ venue' = [venue EXCEPT ![id].status = "canceled"]
    /\ Reply(c, NothingSaid)
    /\ UNCHANGED <<venueKind, venueOpen, receipts, callCount, doubtful, wanted>>

VenueAmends(c) ==
    LET id == requested[c].id IN
    /\ At(c, "modify") /\ venue[id].status = "new" /\ venue[id].type = "limit"
    /\ venue' = [venue EXCEPT ![id] = Amended(@, requested[c].sent)]
    /\ wanted' = [wanted EXCEPT ![id] = Amended(@, requested[c].asked)]
    /\ Reply(c, RowNow(id))
    /\ UNCHANGED <<venueKind, venueOpen, receipts, callCount, doubtful>>

VenueReads(c) ==
    /\ \/ LET id == requested[c].id
          IN  At(c, "status") /\ Reply(c, [NothingSaid EXCEPT ![id] = venue[id]])
       \/ At(c, "open") /\ Reply(c, [i \in VenueIds |-> IF venue[i].status = "new" THEN venue[i]
                                                      ELSE NoReceipt])
    /\ UNCHANGED <<venueKind, venueOpen, venue, receipts, callCount, doubtful, wanted>>

\* An order is filled, or expires.
VenueCloses(id) ==
    /\ venue[id].status = "new"
    /\ venue' = [venue EXCEPT ![id].status = "filled"]
    /\ UNCHANGED <<venueKind, venueOpen, receipts, requested, callCount, doubtful, wanted>>

\* The call returns, or raises: the request or its answer was lost, it was
\* refused, or the client was closed.
Told(c) == {i \in VenueIds : requested[c].rows[i] # NoReceipt}

\* Mutant: the answer to an amendment is not kept.
ReturnCall_Forgets(c) ==
    /\ requested[c].phase = "answered"
    /\ receipts' = [i \in VenueIds |-> IF i \in Told(c) /\ requested[c].op # "modify"
                                     THEN requested[c].rows[i] ELSE receipts[i]]
    /\ doubtful' = doubtful \ Told(c)
    /\ requested' = [requested EXCEPT ![c] = NoRequest]
    /\ UNCHANGED <<venueKind, venueOpen, venue, callCount, wanted>>

ReturnCall(c) ==
    /\ requested[c].phase = "answered"
    /\ receipts' = [i \in VenueIds |-> IF i \in Told(c) THEN requested[c].rows[i] ELSE receipts[i]]
    /\ doubtful' = doubtful \ Told(c)
    /\ requested' = [requested EXCEPT ![c] = NoRequest]
    /\ UNCHANGED <<venueKind, venueOpen, venue, callCount, wanted>>

Raised(c) == IF requested[c].op = "modify" THEN {requested[c].id} ELSE {}

CallFails(c) ==
    /\ requested[c].phase # "idle"
    /\ doubtful' = doubtful \cup Raised(c)
    /\ requested' = [requested EXCEPT ![c] = NoRequest]
    /\ UNCHANGED <<venueKind, venueOpen, venue, receipts, callCount, wanted>>

\* disconnect closes a client of its own, but not one it was given: calls
\* fail, whether they were carried out or not, or go on.  Receipts are kept.
DisconnectBinance ==
    /\ venueOpen /\ venueOpen' = FALSE
    /\ \/ /\ doubtful' = doubtful \cup UNION {Raised(c) : c \in Requesters}
          /\ requested' = [c \in Requesters |-> NoRequest]
       \/ UNCHANGED <<doubtful, requested>>
    /\ UNCHANGED <<venueKind, venue, receipts, callCount, wanted>>

BinanceNext ==
    \/ ConnectBinance \/ DisconnectBinance
    \/ \E c \in Requesters :
        \/ SubmitOrder(c) \/ GetOpenOrders(c)
        \/ VenueSubmits(c) \/ VenueCancels(c) \/ VenueAmends(c) \/ VenueReads(c)
        \/ ReturnCall(c) \/ CallFails(c)
        \/ \E id \in {i \in VenueIds : venue[i] # NoReceipt} :
            CancelVenueOrder(c, id) \/ ModifyOrder(c, id) \/ GetOrderStatus(c, id)
    \/ \E id \in VenueIds : VenueCloses(id)

BinanceSpec == BinanceInit /\ [][BinanceNext]_binanceVars

-----------------------------------------------------------------------------
\* Whatever amendments were carried out, refused or left without an answer,
\* an order at the venue has the quantity and the price it was last asked to
\* have: an amendment of one of them never puts the other back to what it was
\* before an earlier amendment (binance.py:290-354).
AsAsked ==
    \A id \in VenueIds : venue[id].qty = wanted[id].qty /\ venue[id].price = wanted[id].price
=============================================================================
