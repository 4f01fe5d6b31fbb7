----------------------------- MODULE MCServices -----------------------------
EXTENDS Services

MCTimeframes == <<2, 4>>
MCPrices == <<3, 1, 4>>
=============================================================================
