---------------------------- MODULE MatchingBook ----------------------------
(***************************************************************************)
(* What a limit order book promises, whatever stages the code keeps its    *)
(* changes in: price-time priority, and a message that is done completely  *)
(* or not at all.                                                          *)
(*                                                                         *)
(* `book' is the live book: every trade takes from the order at the head   *)
(* of the side it is made with, and an order that comes to rest goes       *)
(* behind all orders of its price and before all worse ones.  While a      *)
(* message is at work (`taking' is its side) the other side only shrinks   *)
(* and its own side only grows; if the message fails, the book is as it    *)
(* was when the message arrived.                                           *)
(***************************************************************************)
EXTENDS OrderBook

VARIABLES
  book,    \* the live book: for each side its orders, best first
  saved,   \* the book when the message at work arrived
  taking   \* the side of the message at work, "none" between messages

bookVars == <<book, saved, taking>>

Init == /\ book = [s \in Sides |-> <<>>]
        /\ saved = book
        /\ taking = "none"

Begin == /\ taking = "none"
         /\ taking' \in Sides
         /\ UNCHANGED <<book, saved>>

\* A trade with the best order of the other side: it shrinks or it leaves.
Match ==
  /\ taking # "none"
  /\ LET maker == Opposite(taking)
     IN  /\ book[maker] # <<>>
         /\ \/ book' = [book EXCEPT ![maker] = Tail(@)]
            \/ \E q \in 1 .. Head(book[maker]).left - 1 :
                 book' = [book EXCEPT ![maker][1].left = @ - q]
  /\ UNCHANGED <<saved, taking>>

\* An order comes to rest at position i, last of its price, and it does not
\* cross the best order of the other side.
Rest ==
  /\ taking # "none"
  /\ \E i \in 1 .. Len(book'[taking]) :
       LET own   == book'[taking]
           other == book[Opposite(taking)]
       IN  /\ book' = [book EXCEPT ![taking] = own]
           /\ book[taking] = Without(own, i)
           /\ Sorted(Opposite(taking), own)
           /\ i < Len(own) => own[i+1].price # own[i].price
           /\ other # <<>> => ~Reached(taking, other[1].price, own[i].price)
  /\ UNCHANGED <<saved, taking>>

Commit == /\ taking # "none"
          /\ taking' = "none" /\ saved' = book
          /\ UNCHANGED book

Rollback == /\ taking # "none"
            /\ taking' = "none" /\ book' = saved
            /\ UNCHANGED saved

\* Between messages an order is cancelled, or all of them.
Cancel ==
  /\ taking = "none"
  /\ \/ \E s \in Sides : \E i \in 1 .. Len(book[s]) :
          book' = [book EXCEPT ![s] = Without(@, i)]
     \/ book' = [s \in Sides |-> <<>>]
  /\ saved' = book'
  /\ UNCHANGED taking

Next == Begin \/ Match \/ Rest \/ Commit \/ Rollback \/ Cancel

Spec == Init /\ [][Next]_bookVars

=============================================================================
