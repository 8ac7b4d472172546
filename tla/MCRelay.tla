------------------------------ MODULE MCRelay ------------------------------
(***************************************************************************)
(* Instances of Relay for TLC.                                             *)
(***************************************************************************)
EXTENDS Relay

CONSTANTS c1, c2

OneConnection == {c1}
TwoConnections == {c1, c2}

\* Two messages with one time and trace number, of an acquirer that gives its
\* id and of one that does not.
Direct == [stan |-> 8, acquirer |-> <<>>, forwarder |-> <<>>]
Acquired == [stan |-> 8, acquirer |-> <<7, 0>>, forwarder |-> <<>>]
BothTraces == {Direct, Acquired}
OneTrace == {Direct}

Seconds == [m \in MsgId |-> 1 + m \div 2]

\* As in the tests of the relay, and with all the digits the field has.
Fees == {400, 99999900}
NoFees == {0}
=============================================================================
