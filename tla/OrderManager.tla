---------------------------- MODULE OrderManager ----------------------------
(***************************************************************************)
(* OrderManager of flash order/manager.rs and types.rs, recording its      *)
(* egress through TapExt (flash blackbox.rs) to the JournalTap of          *)
(* blackbox tap/journal_tap.rs.                                            *)
(*                                                                         *)
(* submit_order draws an identifier, records and then tracks the order,    *)
(* and takes no lock between the three; cancel_order, modify_order,        *)
(* update_status and clear hold the lock on pending throughout.  The tap   *)
(* holds the lock of its writer for one record, and drops the error of a   *)
(* write that fails.                                                       *)
(***************************************************************************)
EXTENDS Naturals, Sequences, SequencesExt, FiniteSets, FiniteSetsExt

CONSTANTS Traders,         \* threads that submit orders
          Exchanges,       \* of the instruments
          Prices, Quantities,
          MaxOrders,       \* bound on the identifiers drawn
          MaxChanges,      \* bound on modifications, status updates and clears
          MaxLost,         \* bound on failed writes
          MaxCheckpoints   \* bound on checkpoints

\* The exchanges that flash knows (flash core/types.rs).
ASSUME OrderAssumption == Exchanges \subseteq {"deribit", "binance", "oanda"}

VARIABLES next_order,         \* OrderManager::next_id
          pending,         \* OrderManager::pending, a function on the identifiers tracked
          stats,           \* OrderManagerStats
          submitting,      \* each trader's submit_order
          tapped,          \* the manager has an active tap
          journal,         \* the records in the journal
          checkpoint_seq,  \* JournalTap::checkpoint_seq
          missing,         \* history: the records whose write failed
          left,            \* history: how the orders that are gone left pending
          changes

orderVars == <<next_order, pending, stats, submitting, tapped, journal, checkpoint_seq, missing,
               left, changes>>

NoPrice == 0
NotSubmitting == [at |-> "none"]

\* OrderManagerConfig has a max_pending_orders that nothing reads.
OrderManagerStats ==
  [orders_submitted |-> 0, orders_cancelled |-> 0, orders_modified |-> 0, orders_filled |-> 0,
   orders_rejected |-> 0, pending_count |-> 0]

\* OrderManager::new and with_tap; JournalTap::new and inactive.
OrderInit ==
  /\ next_order = 1 /\ pending = << >> /\ stats = OrderManagerStats
  /\ submitting = [t \in Traders |-> NotSubmitting]
  /\ tapped \in BOOLEAN
  /\ journal = <<>> /\ checkpoint_seq = 0
  /\ missing = <<>> /\ left = << >> /\ changes = 0

\* OrderRequest::market, limit and stop_limit.
Market(e, q) == [exchange |-> e, price |-> NoPrice, stop_price |-> NoPrice, quantity |-> q]
Limit(e, p, q) == [exchange |-> e, price |-> p, stop_price |-> NoPrice, quantity |-> q]
StopLimit(e, s, p, q) == [exchange |-> e, price |-> p, stop_price |-> s, quantity |-> q]
OrderRequests ==
  LET q == Min(Quantities)
  IN  {Market(e, q) : e \in Exchanges}
      \cup {Limit(e, p, q) : e \in Exchanges, p \in Prices}
      \cup {StopLimit(e, Min(Prices), p, q) : e \in Exchanges, p \in Prices}

\* ModifyRequest::price, quantity and price_and_quantity; 0 for None.
ModifyRequests == {[new_price |-> p, new_quantity |-> q] : p \in Prices \cup {0}, q \in {0, Max(Quantities)}}
                  \ {[new_price |-> 0, new_quantity |-> 0]}

\* OrderStatus
Cancellable == {"Open", "PartiallyFilled", "Submitted"}
Terminal == {"Filled", "Cancelled", "Rejected", "Expired"}

-----------------------------------------------------------------------------
\* The tap

\* Flash's exchanges in the flight recorder; a conversion and its inverse.
to_blackbox_exchange(e) == IF e = "oanda" THEN "unknown" ELSE e
from_blackbox_exchange(e) ==
  IF e = "unknown" THEN "oanda" ELSE IF e \in {"bybit", "okx"} THEN "binance" ELSE e

\* A record is written, or the write fails and nobody hears of it.
Record(r) ==
  \/ journal' = Append(journal, r) /\ UNCHANGED missing
  \/ Len(missing) < MaxLost /\ missing' = Append(missing, r) /\ UNCHANGED journal

\* record_flash_egress: the kind of a record is OrderSubmit for every
\* operation; the payload alone tells them apart.
record_egress(e, payload) ==
  IF tapped
  THEN Record([kind |-> "OrderSubmit", source |-> to_blackbox_exchange(e), payload |-> payload])
  ELSE UNCHANGED <<journal, missing>>

\* record_ingress and record_internal, by the threads that run beside; no
\* reader of orders tells their kinds apart.
RecordFrame(e) ==
  /\ tapped /\ changes < MaxChanges
  /\ Record([kind |-> "Frame", source |-> to_blackbox_exchange(e), payload |-> [op |-> "frame"]])
  /\ changes' = changes + 1
  /\ UNCHANGED <<next_order, pending, stats, submitting, tapped, checkpoint_seq, left>>

\* The sequence number advances whether the record is written or not.
NextCheckpoint == checkpoint_seq + 1

record_checkpoint ==
  /\ tapped /\ checkpoint_seq < MaxCheckpoints
  /\ Record([kind |-> "Checkpoint", source |-> "unknown",
             payload |-> [op |-> "checkpoint", sequence |-> checkpoint_seq]])
  /\ checkpoint_seq' = NextCheckpoint
  /\ UNCHANGED <<next_order, pending, stats, submitting, tapped, left, changes>>

-----------------------------------------------------------------------------
\* Orders

\* fetch_add
DrawOrder == next_order

SubmitDraw(t, request) ==
  /\ submitting[t].at = "none" /\ next_order <= MaxOrders
  /\ submitting' = [submitting EXCEPT ![t] = [at |-> "drawn", id |-> DrawOrder, request |-> request]]
  /\ next_order' = next_order + 1
  /\ UNCHANGED <<pending, stats, tapped, journal, checkpoint_seq, missing, left, changes>>

SubmitRecord(t) ==
  /\ submitting[t].at = "drawn"
  /\ record_egress(submitting[t].request.exchange,
                   [op |-> "submit", id |-> submitting[t].id, request |-> submitting[t].request])
  /\ submitting' = [submitting EXCEPT ![t].at = "recorded"]
  /\ UNCHANGED <<next_order, pending, stats, tapped, checkpoint_seq, left, changes>>

With(f, id, v) == [k \in DOMAIN f \cup {id} |-> IF k = id THEN v ELSE f[k]]
Without(f, id) == [k \in DOMAIN f \ {id} |-> f[k]]

SubmitTrack(t) ==
  LET s == submitting[t]
  IN  /\ s.at = "recorded"
      /\ pending' = With(pending, s.id, [request |-> s.request, status |-> "Pending"])
      /\ stats' = [stats EXCEPT !.orders_submitted = @ + 1,
                                !.pending_count = Cardinality(DOMAIN pending')]
      /\ submitting' = [submitting EXCEPT ![t] = NotSubmitting]
      /\ UNCHANGED <<next_order, tapped, journal, checkpoint_seq, missing, left, changes>>

cancel_order(id) ==
  /\ id \in DOMAIN pending
  /\ pending[id].status \in Cancellable \cup {"Pending"}
  /\ record_egress(pending[id].request.exchange, [op |-> "cancel", id |-> id])
  /\ pending' = Without(pending, id)
  /\ stats' = [stats EXCEPT !.orders_cancelled = @ + 1,
                            !.pending_count = Cardinality(DOMAIN pending')]
  /\ left' = With(left, id, "cancel")
  /\ UNCHANGED <<next_order, submitting, tapped, checkpoint_seq, changes>>

\* Mutant: a new price hides a new quantity.
ModifiedPriceFirst(request, m) ==
  IF m.new_price # 0 THEN [request EXCEPT !.price = m.new_price]
  ELSE [request EXCEPT !.quantity = m.new_quantity]

\* A price is set on an order of any type.
Modified(request, m) ==
  [request EXCEPT !.price = IF m.new_price # 0 THEN m.new_price ELSE @,
                  !.quantity = IF m.new_quantity # 0 THEN m.new_quantity ELSE @]

modify_order(id, m) ==
  /\ changes < MaxChanges /\ id \in DOMAIN pending
  /\ pending[id].status \notin Terminal
  /\ record_egress(pending[id].request.exchange, [op |-> "modify", id |-> id, change |-> m])
  /\ pending' = [pending EXCEPT ![id].request = Modified(@, m)]
  /\ stats' = [stats EXCEPT !.orders_modified = @ + 1]
  /\ changes' = changes + 1
  /\ UNCHANGED <<next_order, submitting, tapped, checkpoint_seq, left>>

Leaves(status) == status \in Terminal

\* update_status; an answer for an order that is not tracked is ignored.
update_status(id, status) ==
  /\ changes < MaxChanges /\ id \in DOMAIN pending
  /\ pending' = IF Leaves(status) THEN Without(pending, id)
                ELSE [pending EXCEPT ![id].status = status]
  /\ stats' = [stats EXCEPT !.orders_filled = IF status = "Filled" THEN @ + 1 ELSE @,
                            !.orders_rejected = IF status = "Rejected" THEN @ + 1 ELSE @,
                            !.pending_count = Cardinality(DOMAIN pending')]
  /\ left' = IF Leaves(status) THEN With(left, id, status) ELSE left
  /\ changes' = changes + 1
  /\ UNCHANGED <<next_order, submitting, tapped, journal, checkpoint_seq, missing>>

\* clear records nothing.
clear ==
  /\ changes < MaxChanges /\ DOMAIN pending # {}
  /\ pending' = << >>
  /\ stats' = [stats EXCEPT !.pending_count = 0]
  /\ left' = [k \in DOMAIN left \cup DOMAIN pending |-> IF k \in DOMAIN left THEN left[k] ELSE "clear"]
  /\ changes' = changes + 1
  /\ UNCHANGED <<next_order, submitting, tapped, journal, checkpoint_seq, missing>>

OrderNext ==
  \/ \E t \in Traders : \/ \E r \in OrderRequests : SubmitDraw(t, r)
                        \/ SubmitRecord(t) \/ SubmitTrack(t)
  \/ \E id \in DOMAIN pending :
       \/ cancel_order(id)
       \/ \E m \in ModifyRequests : modify_order(id, m)
       \/ \E s \in {"Pending"} \cup Cancellable \cup Terminal : update_status(id, s)
  \/ clear
  \/ \E e \in Exchanges : RecordFrame(e)
  \/ record_checkpoint

-----------------------------------------------------------------------------
RecordOf(id, r) == r.kind = "OrderSubmit" /\ r.payload.id = id

\* What is known of an order after one of its records.
Tells(known, r) ==
  IF r.payload.op = "submit"
  THEN <<[r.payload.request EXCEPT !.exchange = from_blackbox_exchange(r.source)]>>
  ELSE IF r.payload.op = "cancel" \/ known = <<>> THEN <<>>
  ELSE LET c == r.payload.change
       IN  <<[known[1] EXCEPT !.price = IF c.new_price = 0 THEN @ ELSE c.new_price,
                              !.quantity = IF c.new_quantity = 0 THEN @ ELSE c.new_quantity]>>

\* What the first n records of a journal tell of an order: its submission with
\* the changes after it, and nothing of what came before the submission or
\* after a cancel.
Telling(id, log) ==
  LET told[n \in 0 .. Len(log)] ==
        IF n = 0 THEN <<>>
        ELSE IF RecordOf(id, log[n]) THEN Tells(told[n - 1], log[n]) ELSE told[n - 1]
  IN  told

Told(id) == Telling(id, journal)[Len(journal)]

MissingOf(id) == {i \in DOMAIN missing : RecordOf(id, missing[i])}

\* The journal is enough to rebuild the orders: whatever threads submit,
\* modify and cancel at the same time, an order that is tracked is told with
\* its exchange and its present price and quantity, and one that was cancelled is told as
\* gone, unless a write of its own records failed.
JournalTellsOrders ==
  tapped =>
    \A id \in DOMAIN pending \cup DOMAIN left :
      MissingOf(id) = {} =>
        IF id \in DOMAIN pending THEN Told(id) = <<pending[id].request>>
        ELSE left[id] = "cancel" => Told(id) = <<>>

\* Every order that was submitted is tracked or has left in one way, the
\* statistics count it there, and pending_count is right: an answer of the
\* exchange that comes after a cancel changes none of them.
OrdersConserved ==
  LET gone(how) == Cardinality({id \in DOMAIN left : left[id] = how})
  IN  /\ DOMAIN pending \cap DOMAIN left = {}
      /\ stats.orders_submitted = Cardinality(DOMAIN pending) + Cardinality(DOMAIN left)
      /\ stats.orders_cancelled = gone("cancel")
      /\ stats.orders_filled = gone("Filled") /\ stats.orders_rejected = gone("Rejected")
      /\ stats.pending_count = Cardinality(DOMAIN pending)
      /\ \A id \in DOMAIN pending : pending[id].status \notin Terminal

\* No identifier is given to two orders, not even after the first is gone;
\* the journal never shows a second submission of one.
OrderIdsUnique ==
  LET submits == {i \in DOMAIN journal :
                    journal[i].kind = "OrderSubmit" /\ journal[i].payload.op = "submit"}
      busy == {t \in Traders : submitting[t].at # "none"}
  IN  /\ \A i, k \in submits : journal[i].payload.id = journal[k].payload.id => i = k
      /\ \A t \in busy : submitting[t].id \notin DOMAIN pending \cup DOMAIN left
      /\ \A t, u \in busy : submitting[t].id = submitting[u].id => t = u

\* The checkpoints of the journal are numbered in order, and the numbers that
\* are not there are exactly those of the checkpoints that were lost: a reader
\* sees from the gaps which ones.
CheckpointGapsTell ==
  LET points(log) == {i \in DOMAIN log : log[i].kind = "Checkpoint"}
      numbers(log) == {log[i].payload.sequence : i \in points(log)}
  IN  /\ \A i, k \in points(journal) :
           i < k => journal[i].payload.sequence < journal[k].payload.sequence
      /\ numbers(missing) = (0 .. checkpoint_seq - 1) \ numbers(journal)
=============================================================================
