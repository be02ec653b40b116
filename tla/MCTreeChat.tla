----------------------------- MODULE MCTreeChat -----------------------------
EXTENDS TreeChat, TLC

CONSTANTS a, b, c

MCNodes == {a, b, c}

(* c registers with b, b with a.                                            *)
MCChain == (a :> NoNode) @@ (b :> a) @@ (c :> b)

MCTwoAtRoot == (a :> 2) @@ (b :> 0) @@ (c :> 0)
==============================================================================
