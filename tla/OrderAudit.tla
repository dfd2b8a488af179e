------------------------------ MODULE OrderAudit ------------------------------
(***************************************************************************)
(* What the append-only tables `orders` and `fills` promise to whoever     *)
(* reads them: for every decision the book (the last row of `orders`)      *)
(* follows the market (the order as the exchange knows it) from behind.    *)
(* The book may lag but never overtakes the market, its matched size never *)
(* shrinks, it closes only with the status and the matched size at which   *)
(* the market closed, and a closed book is never written again.            *)
(*                                                                         *)
(* Abstract specification; OrderLifecycle implements it as long as nobody  *)
(* calls on_decision_allow a second time for the same decision.            *)
(***************************************************************************)
EXTENDS Integers

CONSTANTS Decision,        \* decisions with outcome ALLOW
          MaxStake,        \* largest stake, in stake units
          ExchangeClosing  \* statuses in which an exchange order can end

VARIABLES market,          \* market[d]: the order of d at the exchange
          book             \* book[d]: the last row written for d

vars == <<market, book>>

Unknown == [status |-> "NONE", matched |-> 0]
Refused == [status |-> "ERROR", matched |-> 0]

\* What the exchange can show for an order, and what the book can.
MarketState == [status : {"NONE", "EXECUTABLE"} \cup ExchangeClosing,
                matched : 0 .. MaxStake]
BookState == [status : {"NONE", "PENDING", "EXECUTABLE", "ERROR"} \cup ExchangeClosing,
              matched : 0 .. MaxStake]

Init == /\ market = [d \in Decision |-> Unknown]
        /\ book = [d \in Decision |-> Unknown]

(* The exchange moves an order forward; an order that ended stays as it is. *)
Trade(d) ==
    /\ market[d].status \notin ExchangeClosing
    /\ \E m \in MarketState :
          /\ m.status # "NONE"
          /\ m.matched >= market[d].matched
          /\ market' = [market EXCEPT ![d] = m]
    /\ UNCHANGED book

(* The first row: the order as just placed, a refusal, or a dry run. *)
Open(d) ==
    /\ book[d].status = "NONE"
    /\ \E b \in BookState :
          /\ \/ b = Refused
             \/ b = [status |-> "PENDING", matched |-> 0]
             \/ b.status = "EXECUTABLE" /\ market[d].status # "NONE"
                                        /\ b.matched <= market[d].matched
             \/ b.status \in ExchangeClosing /\ b = market[d]
          /\ book' = [book EXCEPT ![d] = b]
    /\ UNCHANGED market

(* A later row: the book catches up with the market, wholly or partly. *)
Follow(d) ==
    /\ book[d].status = "EXECUTABLE"
    /\ \E b \in BookState :
          /\ \/ b.status = "EXECUTABLE" /\ b.matched <= market[d].matched
             \/ b.status \in ExchangeClosing /\ b = market[d]
          /\ b.matched >= book[d].matched
          /\ book' = [book EXCEPT ![d] = b]
    /\ UNCHANGED market

Next == \E d \in Decision : Trade(d) \/ Open(d) \/ Follow(d)

Spec == Init /\ [][Next]_vars
===============================================================================
