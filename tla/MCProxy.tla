------------------------------ MODULE MCProxy ------------------------------
(* Model values for Proxy: clients and connections are interchangeable.    *)
EXTENDS Proxy, TLC

ProxySymmetry == Permutations(Session) \cup Permutations(Conn) \cup Permutations(Fd)

\* Where Proxy_safety and Proxy_live stop following a behaviour.  The properties
\* that name cut hold trivially from there on; TypeOK and NoNeedlessDrop are
\* checked up to there, and proved everywhere in ProxyProofs.  Proxy_anyClient and
\* Proxy_crossTalk have no such bound.
BeforeCut == ~cut
=============================================================================
