--------------------------- MODULE MCBridgeNetwork ---------------------------
(* Small instances of BridgeNetwork. *)
EXTENDS BridgeNetwork

CONSTANTS t1, a, b, c, d, n1, n2

\* The default of all types but clients, which is taken for them as well.
MCAuto == [r \in BridgeTypes \X {t1} |-> "Auto"]

\* One bridge with the default, two of one name, and a stranger to these.
MCNamespace ==
  [x \in Bridges |-> CASE x = a -> Wild [] x = d -> n2 [] OTHER -> n1]

\* Two may have the same publisher, the others listen.
MCUserResources ==
  [x \in Bridges |-> IF x \in {a, b} THEN {<<"Publisher", t1>>} ELSE {}]

\* Subscribers are bridged for publishers of both sides only.
MCLazy == [MCAuto EXCEPT ![<<"Subscriber", t1>>] = "LazyAuto"]

\* All bridges have the default.
MCDefault == [x \in Bridges |-> Wild]

\* Two bridges, of which one has a subscriber as well.
MCBothPublish ==
  [x \in Bridges |->
     IF x = a THEN {<<"Publisher", t1>>, <<"Subscriber", t1>>} ELSE {<<"Publisher", t1>>}]

=============================================================================
