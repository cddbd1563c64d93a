-------------------------------- MODULE Channel --------------------------------
(***************************************************************************)
(* What one direction of a carrier promises: the items its sending side    *)
(* lets go, numbered 1, 2, 3, ..., come out on the other side each once    *)
(* and in order.  Either side may end for good without the other knowing:  *)
(* once the sending side has ended nothing more leaves it, though what was *)
(* under way may still come out; once the receiving side has ended nothing *)
(* more comes out, though the sending side may go on.                      *)
(***************************************************************************)
EXTENDS Naturals, Sequences

VARIABLES
    sent,           \* how many items have left the sending side
    delivered,      \* the items that have come out
    senderEnded, receiverEnded

chanVars == <<sent, delivered, senderEnded, receiverEnded>>

FirstItems(n) == [k \in 1 .. n |-> k]

ChanInit ==
    /\ sent = 0 /\ delivered = <<>>
    /\ senderEnded = FALSE /\ receiverEnded = FALSE

\* One item or several leave at once.
Send ==
    /\ ~senderEnded
    /\ sent' \in Nat /\ sent' > sent
    /\ UNCHANGED <<delivered, senderEnded, receiverEnded>>

Deliver ==
    /\ ~receiverEnded
    /\ \E n \in Len(delivered) + 1 .. sent : delivered' = FirstItems(n)
    /\ UNCHANGED <<sent, senderEnded, receiverEnded>>

SenderEnds ==
    /\ ~senderEnded /\ senderEnded' = TRUE
    /\ UNCHANGED <<sent, delivered, receiverEnded>>

ReceiverEnds ==
    /\ ~receiverEnded /\ receiverEnded' = TRUE
    /\ UNCHANGED <<sent, delivered, senderEnded>>

ChanNext == Send \/ Deliver \/ SenderEnds \/ ReceiverEnds

ChanSafe == ChanInit /\ [][ChanNext]_chanVars
================================================================================
