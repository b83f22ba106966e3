----------------------------- MODULE MCInbound -----------------------------
(***************************************************************************)
(* Instances of Inbound for TLC: an inquiry and a reply of the same guest  *)
(* that the parser cannot read at first, and a copy of the reply that was  *)
(* forwarded from an address nobody has allowed.                           *)
(***************************************************************************)
EXTENDS Inbound

Inquiry ==
    [id |-> "inquiry", alt |-> NoKey, fwd |-> FALSE, says |-> "inquiry",
     kind |-> "lead", guest |-> "emma", unit |-> "loft",
     known |-> TRUE, readable |-> FALSE]

Reply ==
    [id |-> "reply", alt |-> "words", fwd |-> FALSE, says |-> "reply",
     kind |-> "message", guest |-> "emma", unit |-> NoUnit,
     known |-> TRUE, readable |-> FALSE]

Forward == [Reply EXCEPT !.id = "forward", !.fwd = TRUE, !.known = FALSE]

TheMails == {Inquiry, Reply, Forward}
=============================================================================
