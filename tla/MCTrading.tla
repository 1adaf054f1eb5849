----------------------------- MODULE MCTrading -----------------------------
EXTENDS Trading

MCPrices == {Whole(1), Whole(2)}
MCSizes == {Half, One}
MCInitial == Whole(8)
MCFee == <<1, 4>>
MCSlip == <<1, 3>>
MCLeverage == Whole(1)
MCMaintenance == <<1, 8>>
=============================================================================
