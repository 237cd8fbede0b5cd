-------------------------------- MODULE Shipping ------------------------------
(****************************************************************************)
(* Shipments of paid orders (features/shipping) and the part of the order's *)
(* life they go with: an order is shipped by the transaction that inserts   *)
(* its shipment and delivered by the one that marks the shipment, or else   *)
(* by an administrator who sets the status of the order, parcel or not.     *)
(*                                                                          *)
(* Each of Create, Deliver and UpdateTracking reads first, outside its      *)
(* transaction, so that several clerks and a refund may come in between.    *)
(****************************************************************************)
EXTENDS Naturals

CONSTANTS
  PaidOrders,  \* orders whose payment succeeded
  Clerks,      \* administrators' requests under way at once
  Carriers     \* values of carrier; tracking_number is written with it

ASSUME ShippingAssumption == PaidOrders # {} /\ Carriers # {}

VARIABLES
  fulfilment,  \* orders.status, from paid on
  shipment,    \* the shipments row of each order, or NoShipment
  deliveredAt, \* shipments.delivered_at is set
  clerk,       \* what each request has read
  byHand       \* history: shipped or delivered, if ChangeStatus made it so

shippingVars == <<fulfilment, shipment, deliveredAt, clerk, byHand>>

NoShipment == [status |-> "none", carrier |-> CHOOSE c \in Carriers : TRUE]

ShipmentRows == [status : {"none", "shipped", "delivered"}, carrier : Carriers]

Resting == [step |-> "idle", order |-> CHOOSE o \in PaidOrders : TRUE, read |-> NoShipment]

ClerkAt(c, step) == clerk[c].step = step
Rest(c) == clerk' = [clerk EXCEPT ![c] = Resting]
Shipped(o) == shipment[o].status # "none"

CanShipOrder(s) == s \in {"paid", "processing"}

(****************************************************************************)
(* The repository.                                                          *)
(****************************************************************************)
\* The column's default.
CreateShipment_DefaultStatus(o, carrier) ==
  /\ ~Shipped(o)
  /\ shipment' = [shipment EXCEPT ![o] = [status |-> "pending", carrier |-> carrier]]

\* An INSERT, refused by ux_shipments_order when the order has a shipment.
CreateShipment(o, carrier) ==
  /\ ~Shipped(o)
  /\ shipment' = [shipment EXCEPT ![o] = [status |-> "shipped", carrier |-> carrier]]

MarkShipmentDelivered(o) ==
  /\ shipment' = [shipment EXCEPT ![o].status = "delivered"]
  /\ deliveredAt' = [deliveredAt EXCEPT ![o] = TRUE]

\* Update writes the status back with the two columns that were edited.
UpdateShipment(o, row) ==
  /\ Shipped(o)
  /\ shipment' = [shipment EXCEPT ![o] = row]

\* The order's side: ToProcessing, ToShipped, ToDelivered.
OrderProcessing(o) ==
  /\ fulfilment[o] = "paid"
  /\ fulfilment' = [fulfilment EXCEPT ![o] = "processing"]

OrderShipped(o) ==
  /\ CanShipOrder(fulfilment[o])
  /\ fulfilment' = [fulfilment EXCEPT ![o] = "shipped"]

OrderDelivered(o) ==
  /\ fulfilment[o] = "shipped"
  /\ fulfilment' = [fulfilment EXCEPT ![o] = "delivered"]

(****************************************************************************)
(* The service: a read, then a transaction that holds or fails as a whole.  *)
(****************************************************************************)
ReadOrderToShip(c, o) ==
  /\ ClerkAt(c, "idle")
  /\ CanShipOrder(fulfilment[o])
  /\ clerk' = [clerk EXCEPT ![c] = [step |-> "create", order |-> o, read |-> NoShipment]]
  /\ UNCHANGED <<fulfilment, shipment, deliveredAt, byHand>>

CreateCommit_NoOrder(c, carrier) ==
  /\ ClerkAt(c, "create")
  /\ CreateShipment(clerk[c].order, carrier)
  /\ Rest(c)
  /\ UNCHANGED <<fulfilment, deliveredAt, byHand>>

CreateCommit(c, carrier) ==
  LET o == clerk[c].order IN
  /\ ClerkAt(c, "create")
  /\ CreateShipment(o, carrier)
  /\ OrderShipped(o)
  /\ Rest(c)
  /\ UNCHANGED <<deliveredAt, byHand>>

ReadShipment(c, o, step) ==
  /\ ClerkAt(c, "idle") /\ Shipped(o)
  /\ clerk' = [clerk EXCEPT ![c] = [step |-> step, order |-> o, read |-> shipment[o]]]
  /\ UNCHANGED <<fulfilment, shipment, deliveredAt, byHand>>

Deliver(c) ==
  LET o == clerk[c].order IN
  /\ ClerkAt(c, "deliver")
  /\ MarkShipmentDelivered(o)
  /\ OrderDelivered(o)
  /\ Rest(c)
  /\ UNCHANGED byHand

UpdateTracking(c, carrier) ==
  /\ ClerkAt(c, "track")
  /\ UpdateShipment(clerk[c].order, [clerk[c].read EXCEPT !.carrier = carrier])
  /\ Rest(c)
  /\ UNCHANGED <<fulfilment, deliveredAt, byHand>>

\* A conflict, a transition the order is not ready for, or a failure: rolled back.
ClerkFails(c) ==
  /\ ~ClerkAt(c, "idle")
  /\ Rest(c)
  /\ UNCHANGED <<fulfilment, shipment, deliveredAt, byHand>>

(****************************************************************************)
(* What else happens to a paid order: ChangeStatus and SettleRefund.        *)
(****************************************************************************)
\* An administrator sets the status; the shipments table is not asked.
ChangeStatus(o) ==
  /\ OrderProcessing(o) \/ OrderShipped(o) \/ OrderDelivered(o)
  /\ byHand' = [byHand EXCEPT ![o] = @ \cup ({fulfilment'[o]} \ {"processing"})]
  /\ UNCHANGED <<shipment, deliveredAt, clerk>>

Refund(o) ==
  /\ fulfilment[o] # "refunded"
  /\ fulfilment' = [fulfilment EXCEPT ![o] = "refunded"]
  /\ UNCHANGED <<shipment, deliveredAt, clerk, byHand>>

ShippingInit ==
  /\ fulfilment = [o \in PaidOrders |-> "paid"]
  /\ shipment = [o \in PaidOrders |-> NoShipment]
  /\ deliveredAt = [o \in PaidOrders |-> FALSE]
  /\ clerk = [c \in Clerks |-> Resting]
  /\ byHand = [o \in PaidOrders |-> {}]

ClerkStep(c) ==
  \/ \E o \in PaidOrders :
       \/ ReadOrderToShip(c, o)
       \/ \E step \in {"deliver", "track"} : ReadShipment(c, o, step)
  \/ \E carrier \in Carriers : CreateCommit(c, carrier) \/ UpdateTracking(c, carrier)
  \/ Deliver(c) \/ ClerkFails(c)

ShippingNext ==
  \/ \E c \in Clerks : ClerkStep(c)
  \/ \E o \in PaidOrders : ChangeStatus(o) \/ Refund(o)

ShippingSpec == ShippingInit /\ [][ShippingNext]_shippingVars

-----------------------------------------------------------------------------
ShippingTypeOK ==
  /\ fulfilment \in [PaidOrders -> {"paid", "processing", "shipped", "delivered", "refunded"}]
  /\ shipment \in [PaidOrders -> ShipmentRows]
  /\ deliveredAt \in [PaidOrders -> BOOLEAN]
  /\ clerk \in [Clerks -> [step : {"idle", "create", "deliver", "track"}, order : PaidOrders, read : ShipmentRows]]
  /\ byHand \in [PaidOrders -> SUBSET {"shipped", "delivered"}]

\* A parcel that left and an order that says so go together, whoever raced whom, unless
\* an administrator said so by hand: an order that is shipped or delivered has either a
\* shipment or was set to shipped, never both, and one that is still to be shipped or
\* was refunded before its Create committed has none (shipping.Create, ChangeStatus).
ShippedTogether ==
  \A o \in PaidOrders :
    /\ fulfilment[o] \in {"shipped", "delivered"} => (Shipped(o) <=> "shipped" \notin byHand[o])
    /\ CanShipOrder(fulfilment[o]) => ~Shipped(o)

\* delivered_at is set for the deliveries that count: never for an order that is still
\* under way, and always for a delivered one that was not set to delivered by hand; the
\* parcel of one that was can never be marked any more.  The status column says less: an
\* UpdateTracking that read the row before Deliver puts "shipped" back.
DeliveredTogether ==
  \A o \in PaidOrders :
    /\ fulfilment[o] = "delivered" => (deliveredAt[o] <=> "delivered" \notin byHand[o])
    /\ deliveredAt[o] => fulfilment[o] \in {"delivered", "refunded"}
    /\ shipment[o].status = "delivered" => deliveredAt[o]

\* A refunded order stays refunded, and no parcel is made for it any more: what a clerk
\* read before the refund does not count.
RefundedStaysHome ==
  [][\A o \in PaidOrders : fulfilment[o] = "refunded" =>
       fulfilment'[o] = "refunded" /\ Shipped(o)' = Shipped(o)]_shippingVars
===============================================================================
