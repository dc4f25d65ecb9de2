----------------------------- MODULE MCGateway -----------------------------
EXTENDS Gateway

CONSTANTS proxied, open, empty, broken, r1, r2, k1

\* proxied: require_private_clients; open: not; empty: a file that is being
\* rewritten, which is read as one of mode "serve"; broken: not TOML.
=============================================================================
