----------------------------- MODULE MCCheckout -----------------------------
EXTENDS Checkout

\* A month is what may be bought, so the plan of two months has a cut draft.
MCRequested ==
  {<<"tap", TRUE, 1>>, <<"tap", FALSE, 2>>, <<"order", TRUE, 1>>, <<"reserve", FALSE, 1>>}
  \cup ({"pay", "approve", "receipt", "tick", "test"} \X {FALSE} \X {0})
=============================================================================
