-------------------------------- MODULE Relief --------------------------------
(***************************************************************************)
(* Relief requests (spp.drims.request): approval, allocation of stock from *)
(* several warehouses, dispatches with their backorders, and delivery.     *)
(*                                                                         *)
(* Each request has one line, so an allocation is a pair of request and    *)
(* warehouse, and a dispatch has one move. Of Odoo's stock the model has   *)
(* the quantity on hand, what a dispatch reserves and what validating it   *)
(* does; stock reserved for one dispatch is not shipped by another. The    *)
(* incident stays open and the workflow has one definition.                *)
(***************************************************************************)
EXTENDS Integers, FiniteSets, Sequences, Functions, SequencesExt

CONSTANTS
    Requests,
    Warehouses,
    Requested,     \* quantity_requested of the line of each request
    Stock,         \* on hand in each warehouse at first
    MaxMoves,   \* bound on dispatches and backorders
    MaxEdits       \* bound on stock counts and edits of a demand

ASSUME ReliefAssumption ==
    /\ IsFiniteSet(Requests) /\ IsFiniteSet(Warehouses)
    /\ Requested \in [Requests -> Nat \ {0}]
    /\ Stock \in [Warehouses -> Nat]
    /\ {MaxMoves, MaxEdits} \subseteq Nat

VARIABLES
    approval,    \* approval_state of each request
    review,      \* whether a request has a pending approval review
    stage,       \* state_id of each request
    allocation,  \* what is allocated and dispatched, per request and warehouse
    moves,       \* the moves of each allocation, one to a picking, cancelled ones aside
    delivered,   \* quantity_delivered of each request
    onHand,      \* stock of each warehouse
    blind,       \* history: warehouses where stock was taken past what was free
    short,       \* history: requests with a backorder since their last dispatch
    edited,      \* history: requests with a demand edited since the last recount
    edits        \* counter for the bound

requestVars == <<approval, review>>
historyVars == <<short, edited, edits>>
vars == <<approval, review, stage, allocation, moves, delivered, onHand, blind,
          short, edited, edits>>

-----------------------------------------------------------------------------
(* Quantities *)

AtLeast0(n) == IF n > 0 THEN n ELSE 0

\* The bound on the moves ms.
Bounded(ms) ==
    SumFunction([x \in Requests \X Warehouses |-> Len(ms[x[1]][x[2]])]) <= MaxMoves

Allocated(r) == SumFunction([w \in Warehouses |-> allocation[r][w].allocated])

\* quantity_remaining of an allocation.
Remaining(a) == AtLeast0(a.allocated - a.dispatched)

\* Every line is dispatched, going by the counters alloc of the allocations.
Covered(r, alloc) ==
    SumFunction([w \in Warehouses |-> alloc[r][w].dispatched]) >= Requested[r]

ShippedBy(ms) == SumFunction([i \in DOMAIN ms |-> ms[i].shipped])
ReservedBy(ms) == SumFunction([i \in DOMAIN ms |-> ms[i].reserved])

Shipped(r) ==
    SumFunction([w \in Warehouses |-> ShippedBy(moves[r][w])])

Free(w) == onHand[w] - SumFunction([r \in Requests |-> ReservedBy(moves[r][w])])

Promised(w) == SumFunction([r \in Requests |-> Remaining(allocation[r][w])])

\* Mutant: what other allocations promise is not subtracted.
AvailableOnHand(w) == AtLeast0(Free(w))

\* _drims_available_quantity.
Available(w) == AtLeast0(Free(w) - Promised(w))

-----------------------------------------------------------------------------
(* Approval: the request overrides the handlers of the mixin and leaves their
   reviews as they are *)

Submit(r) ==
    /\ approval[r] = "draft"
    /\ ~review[r]
    /\ approval' = [approval EXCEPT ![r] = "pending"]
    /\ review' = [review EXCEPT ![r] = TRUE]
    /\ stage' = [stage EXCEPT ![r] = "submitted"]
    /\ UNCHANGED <<allocation, moves, delivered, onHand, blind, historyVars>>

\* The decision st of somebody who answers for the whole request.
Decide(r, st, code) ==
    /\ approval[r] = "pending"
    /\ approval' = [approval EXCEPT ![r] = st]
    /\ stage' = [stage EXCEPT ![r] = code]
    /\ UNCHANGED <<review, allocation, moves, delivered, onHand, blind, historyVars>>

Approve(r) == Decide(r, "approved", "approved")
Reject(r) == Decide(r, "rejected", "rejected")
RequestRevision(r) == Decide(r, "revision", "draft")

\* _do_approve of the mixin, from the review itself or a batch.
ApproveReview(r) ==
    /\ approval[r] = "pending"
    /\ review[r]
    /\ approval' = [approval EXCEPT ![r] = "approved"]
    /\ review' = [review EXCEPT ![r] = FALSE]
    /\ stage' = [stage EXCEPT ![r] = "approved"]
    /\ UNCHANGED <<allocation, moves, delivered, onHand, blind, historyVars>>

ResetToDraft(r) ==
    /\ approval[r] = "rejected"
    /\ approval' = [approval EXCEPT ![r] = "draft"]
    /\ stage' = [stage EXCEPT ![r] = "draft"]
    /\ UNCHANGED <<review, allocation, moves, delivered, onHand, blind, historyVars>>

\* action_resubmit closes the review and submits.
Resubmit(r) ==
    /\ approval[r] = "revision"
    /\ approval' = [approval EXCEPT ![r] = "pending"]
    /\ review' = [review EXCEPT ![r] = TRUE]
    /\ stage' = [stage EXCEPT ![r] = "submitted"]
    /\ UNCHANGED <<allocation, moves, delivered, onHand, blind, historyVars>>

-----------------------------------------------------------------------------
(* Allocation *)

\* The splits of at most n over the warehouses.
Splits(n) == {s \in [Warehouses -> 0 .. n] : SumFunction(s) <= n}

\* Those that take no more than is available and leave nothing that could be taken:
\* what the search for stock finds, whatever the order of the warehouses.
GreedySplits(n) ==
    {s \in Splits(n) :
        /\ \A w \in Warehouses : s[w] <= Available(w)
        /\ SumFunction(s) = n \/ \A w \in Warehouses : s[w] = Available(w)}

\* _add_allocation for each warehouse of the split s.
Allot(r, s) ==
    /\ allocation' = [allocation EXCEPT ![r] =
          [w \in Warehouses |-> [allocation[r][w] EXCEPT !.allocated = @ + s[w]]]]
    /\ blind' = blind \cup {w \in Warehouses : s[w] > Available(w)}
    /\ stage' = [stage EXCEPT ![r] = "allocated"]

\* action_allocate.
Allocate(r) ==
    /\ approval[r] = "approved"
    /\ \E s \in GreedySplits(AtLeast0(Requested[r] - Allocated(r))) :
          /\ Allocated(r) + SumFunction(s) > 0
          /\ Allot(r, s)
    /\ UNCHANGED <<requestVars, moves, delivered, onHand, historyVars>>

\* action_confirm_allocation of a wizard, which opens on an approved request and may
\* be confirmed at any time after: only what is requested bounds its rows.
ConfirmAllocation(r) ==
    /\ approval[r] = "approved"
    /\ \E s \in Splits(AtLeast0(Requested[r] - Allocated(r))) :
          /\ SumFunction(s) > 0
          /\ Allot(r, s)
    /\ UNCHANGED <<requestVars, moves, delivered, onHand, historyVars>>

-----------------------------------------------------------------------------
(* Dispatches *)

\* A move of n units, which reserves what it can of what is free.
Move(n, free) ==
    [demand |-> n, reserved |-> IF n > free THEN AtLeast0(free) ELSE n,
     done |-> FALSE, shipped |-> 0, confirmed |-> FALSE]

\* action_create_dispatch: one picking for each warehouse with something left.
CreateDispatch(r) ==
    LET left == [w \in Warehouses |-> Remaining(allocation[r][w])]
        W == {w \in Warehouses : left[w] > 0}
        sent == [allocation EXCEPT ![r] = [w \in Warehouses |->
                    [allocation[r][w] EXCEPT !.dispatched = @ + left[w]]]]
    IN  /\ stage[r] = "allocated"
        /\ W # {}
        /\ moves' = [moves EXCEPT ![r] = [w \in Warehouses |->
              IF w \in W THEN Append(moves[r][w], Move(left[w], Free(w))) ELSE moves[r][w]]]
        /\ Bounded(moves')
        /\ allocation' = sent
        /\ stage' = [stage EXCEPT ![r] = IF Covered(r, sent) THEN "dispatched" ELSE @]
        /\ short' = short \ {r}
        /\ UNCHANGED <<requestVars, delivered, onHand, blind, edited, edits>>

\* Mutant: a move that shipped counts what was demanded.
CountedAsDemanded(m) == m.demand

\* What a move counts for its allocation.
Counted(m) == IF m.done THEN m.shipped ELSE m.demand

Dispatched(ms) == SumFunction([i \in DOMAIN ms |-> Counted(ms[i])])

\* _reconcile_quantity_dispatched: the allocations of r with the moves ms.
Recount(r, ms) ==
    [allocation EXCEPT ![r] = [w \in Warehouses |->
        [allocation[r][w] EXCEPT !.dispatched = Dispatched(ms[r][w])]]]

\* _reopen_if_not_fully_dispatched.
Reopened(r, st, alloc) ==
    IF st = "dispatched" /\ ~Covered(r, alloc) THEN "allocated" ELSE st

\* No dispatch of r is pending.
Settled(r, ms) == \A w \in Warehouses : \A i \in DOMAIN ms[r][w] : ms[r][w][i].done

\* _sync_state_after_dispatch_done.
Synced(r, st, alloc, ms) ==
    IF /\ st = "allocated"
       /\ Settled(r, ms)
       /\ Covered(r, alloc)
    THEN "dispatched" ELSE st

\* Move i of ms ships q and splits off a backorder, which reserves of free.
Shipment(ms, i, q, backorder, free) ==
    LET done == [ms EXCEPT ![i] = [@ EXCEPT !.done = TRUE, !.shipped = q, !.reserved = 0]]
    IN  IF backorder THEN Append(done, Move(ms[i].demand - q, free)) ELSE done

\* Mutant: a backorder leaves the request dispatched.
BackorderedNever(st) == st

\* _on_dispatch_backorder_created.
Backordered(st) == IF st = "dispatched" THEN "allocated" ELSE st

\* _action_done of a picking and its move. What it does not ship goes to a
\* backorder, which takes the request back to allocated, or is dropped.
ActionDone(r, w, i, q, backorder) ==
    LET m == moves[r][w][i]
        ms == [moves EXCEPT ![r][w] =
                  Shipment(@, i, q, backorder, Free(w) + m.reserved - q)]
        counted == Recount(r, ms)
        split == IF backorder THEN Backordered(stage[r]) ELSE stage[r]
    IN  /\ ~m.done
        /\ q <= m.reserved + AtLeast0(Free(w))
        /\ backorder => q < m.demand
        /\ moves' = ms
        /\ Bounded(ms)
        /\ allocation' = counted
        /\ stage' = [stage EXCEPT ![r] =
              Synced(r, Reopened(r, split, counted), counted, ms)]
        /\ onHand' = [onHand EXCEPT ![w] = @ - q]
        /\ blind' = IF q > m.demand \/ m.reserved < m.demand THEN blind \cup {w} ELSE blind
        /\ short' = IF backorder THEN short \cup {r} ELSE short
        /\ edited' = edited \ {r}
        /\ UNCHANGED <<requestVars, delivered, edits>>

\* button_validate: nothing ships beyond what the line has allocated.
Validate(r, w, i, q, backorder) ==
    /\ Shipped(r) + q <= Allocated(r)
    /\ ActionDone(r, w, i, q, backorder)

\* _action_cancel of a dispatch or backorder. A cancelled move counts for nothing.
Cancel(r, w, i) ==
    LET m == moves[r][w][i]
        ms == [moves EXCEPT ![r][w] = RemoveAt(@, i)]
        counted == Recount(r, ms)
    IN  /\ ~m.done
        /\ moves' = ms
        /\ allocation' = counted
        /\ stage' = [stage EXCEPT ![r] = Reopened(r, @, counted)]
        /\ edited' = edited \ {r}
        /\ blind' = IF m.reserved < m.demand THEN blind \cup {w} ELSE blind
        /\ UNCHANGED <<requestVars, delivered, onHand, short, edits>>

\* Move m with a demand of n: it loses a reservation of more than that.
Demanding(m, n) ==
    [m EXCEPT !.demand = n, !.reserved = IF m.reserved > n THEN 0 ELSE m.reserved]

\* The demand of an unlocked picking is edited by one: nothing is recounted.
EditDemand(r, w, i) ==
    LET m == moves[r][w][i]
    IN  /\ ~m.done
        /\ edits < MaxEdits
        /\ edits' = edits + 1
        /\ \E n \in {m.demand - 1, m.demand + 1} \cap Nat :
              /\ moves' = [moves EXCEPT ![r][w][i] = Demanding(m, n)]
              /\ blind' = IF n < m.demand THEN blind \cup {w} ELSE blind
        /\ edited' = edited \cup {r}
        /\ UNCHANGED <<requestVars, stage, allocation, delivered, onHand, short>>

-----------------------------------------------------------------------------
(* Delivery, for which the departure has to be recorded at some time before *)

\* The rows of the delivery wizard: each at most what the move shipped.
Deliver(r, w, i) ==
    /\ moves[r][w][i].done
    /\ \E q \in 0 .. moves[r][w][i].shipped :
          delivered' = [delivered EXCEPT ![r] = @ + q]
    /\ moves' = [moves EXCEPT ![r][w][i].confirmed = TRUE]
    /\ UNCHANGED <<requestVars, stage, allocation, onHand, blind, historyVars>>

\* Mutant: a wizard confirms what another has confirmed since it was opened.
ConfirmDeliveryAgain(r, w, i) == Deliver(r, w, i)

\* action_confirm of the delivery wizard.
ConfirmDelivery(r, w, i) == ~moves[r][w][i].confirmed /\ Deliver(r, w, i)

\* action_confirm_pod, without quantities and whether the picking is done or not.
ConfirmPod(r, w, i) ==
    /\ moves' = [moves EXCEPT ![r][w][i].confirmed = TRUE]
    /\ UNCHANGED <<requestVars, stage, allocation, delivered, onHand, blind, historyVars>>

\* A stock count finds one unit more or less.
CountStock(w) ==
    /\ edits < MaxEdits
    /\ edits' = edits + 1
    /\ \/ onHand' = [onHand EXCEPT ![w] = @ + 1] /\ UNCHANGED blind
       \/ /\ Free(w) > 0
          /\ onHand' = [onHand EXCEPT ![w] = @ - 1]
          /\ blind' = blind \cup {w}
    /\ UNCHANGED <<requestVars, stage, allocation, moves, delivered, short, edited>>

-----------------------------------------------------------------------------

Init ==
    /\ approval = [r \in Requests |-> "draft"]
    /\ review = [r \in Requests |-> FALSE]
    /\ stage = [r \in Requests |-> "draft"]
    /\ allocation = [r \in Requests |->
          [w \in Warehouses |-> [allocated |-> 0, dispatched |-> 0]]]
    /\ moves = [r \in Requests |-> [w \in Warehouses |-> << >>]]
    /\ delivered = [r \in Requests |-> 0]
    /\ onHand = Stock
    /\ blind = {}
    /\ short = {}
    /\ edited = {}
    /\ edits = 0

Next ==
    \/ \E r \in Requests :
          \/ Submit(r) \/ Approve(r) \/ ApproveReview(r) \/ Reject(r) \/ RequestRevision(r)
          \/ ResetToDraft(r) \/ Resubmit(r)
          \/ Allocate(r) \/ ConfirmAllocation(r) \/ CreateDispatch(r)
    \/ \E r \in Requests, w \in Warehouses : \E i \in DOMAIN moves[r][w] :
          \/ \E b \in BOOLEAN :
                \/ \E q \in 1 .. moves[r][w][i].demand + 1 : Validate(r, w, i, q, b)
                \/ \E q \in 1 .. moves[r][w][i].demand : ActionDone(r, w, i, q, b)
          \/ Cancel(r, w, i) \/ EditDemand(r, w, i)
          \/ ConfirmDelivery(r, w, i) \/ ConfirmPod(r, w, i)
    \/ \E w \in Warehouses : CountStock(w)

Spec == Init /\ [][Next]_vars

-----------------------------------------------------------------------------
(* Properties *)

PendingBy(ms) == SumFunction([i \in DOMAIN ms |-> IF ms[i].done THEN 0 ELSE ms[i].demand])

\* The counter of each allocation is what its dispatches ship, however they were
\* split, cut short, cancelled or dispatched again, unless a demand was edited
\* since (action_create_dispatch, _reconcile_quantity_dispatched).
CountersMatchMoves ==
    \A r \in Requests \ edited, w \in Warehouses :
        allocation[r][w].dispatched = ShippedBy(moves[r][w]) + PendingBy(moves[r][w])

\* What the dispatches of r shipped and still have to ship.
Committed(r) ==
    SumFunction([w \in Warehouses |-> ShippedBy(moves[r][w]) + PendingBy(moves[r][w])])

\* A request that a backorder took back reads dispatched only when all it asked for
\* has shipped, until action_create_dispatch goes over it again; without a backorder
\* its dispatches cover what it asked for, unless a demand was edited since
\* (_on_dispatch_backorder_created, _reopen_if_not_fully_dispatched,
\* _sync_state_after_dispatch_done).
DispatchedIsCovered ==
    \A r \in Requests : stage[r] = "dispatched" =>
        IF r \in short THEN Shipped(r) >= Requested[r]
        ELSE r \in edited \/ Committed(r) >= Requested[r]

\* Stock is not promised twice: what is allocated and not dispatched is free,
\* unless a wizard, a shipment above its demand, a lowered demand or a stock count
\* took it (_drims_available_quantity).
PromisedOnce ==
    \A w \in Warehouses \ blind : Promised(w) <= Free(w)

\* No more is delivered than was shipped: each dispatch is confirmed once
\* (action_confirm of the delivery wizard).
DeliveredWasShipped ==
    \A r \in Requests : delivered[r] <= Shipped(r)

=============================================================================
