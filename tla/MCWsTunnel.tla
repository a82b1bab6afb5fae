----------------------------- MODULE MCWsTunnel -----------------------------
(* Small instances of WsTunnel: first chunks with and without an initial   *)
(* payload, and interchangeable tunnels and addresses.                     *)
EXTENDS WsTunnel, TLC

SmallHeaders == {<<1, 0>>, <<2, 1>>}
OneHeader == {<<2, 1>>}

Interchangeable == Permutations(Tunnels) \cup Permutations(Ips)
=============================================================================
