--------------------------- MODULE MCRefreshTokens ---------------------------
\* Small instances of RefreshTokens: requests and tokens are interchangeable.
EXTENDS RefreshTokensChain, TLC

Symmetry == Permutations(Token) \cup Permutations(Request)
=============================================================================
