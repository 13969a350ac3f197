------------------------------ MODULE MCPrices ------------------------------
EXTENDS Prices
MCKeys == {<<"p", "s">>, <<"q", "s">>, <<"p", "l">>}
MCSimilar(a, b) == a = b
MCOffers ==
    [key : {<<"p", "s">>}, msrp : Amounts, at : 1..TODAY, included : {TRUE}]
      \cup {[key |-> <<"p", "l">>, msrp |-> 1, at |-> TODAY, included |-> i] : i \in BOOLEAN}
MCBounds ==
    {[import |-> 1, admin |-> 0, flush |-> 0, ask |-> 0],
     [import |-> 0, admin |-> 1, flush |-> 1, ask |-> 1]}
=============================================================================
