---------------------------- MODULE MCProxyServer ----------------------------
(* Where ProxyServer looks for its identity key, on a small scale.           *)
EXTENDS ProxyServer

MCPlain == <<"primary", "fallback">>
MCInData == <<"data primary">>
=============================================================================
