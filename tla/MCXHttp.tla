------------------------------- MODULE MCXHttp -------------------------------
(* Small instances of XHttp: two requests and one packet handler, two ids  *)
(* with one registry key and a third with its own, and headers of each     *)
(* kind of address, with and without addons.                               *)
EXTENDS XHttp, TLC

Header(addons, kind, address) ==
  [addons |-> addons, command |-> 1, port |-> <<4, 1>>, kind |-> kind,
   address |-> address]

SmallHeaders ==
  {Header(<<>>, 1, <<8, 7, 6, 5>>), Header(<<3>>, 2, <<97, 98>>),
   Header(<<>>, 3, [i \in 1..16 |-> i])}

(* One request on a quota that all its tasks meet at once; one without a   *)
(* quota, whose packets and uplink go on after a cut, and one whose queue  *)
(* does, full; two requests that run at once; two that compete for one     *)
(* device slot; two that may share an id.                                  *)
Metered ==
  [limits |-> {1}, requests |-> {"s"}, ids |-> {"a"}, addresses |-> {"i"},
   uplinks |-> {"s"}, packets |-> Packets, reads |-> 4, admin |-> FALSE]

Uplink == [Metered EXCEPT !.limits = {0}, !.reads = 3, !.admin = TRUE]

Downlink == [Uplink EXCEPT !.uplinks = {}, !.packets = {}, !.reads = 5,
                           !.addresses = {"i", Unknown}]

Together == [limits |-> {0}, requests |-> {"s", "t"}, ids |-> {"a", "c"},
             addresses |-> {"i"}, uplinks |-> {}, packets |-> {},
             reads |-> 1, admin |-> FALSE]

Rivals == [Together EXCEPT !.addresses = {"i", "j"}, !.reads = 0]

Colliding == [Together EXCEPT !.ids = {"a", "b"}, !.reads = 0]

SmallLoads == {Metered, Uplink, Downlink, Together, Rivals, Colliding}

SmallConnOf == [id \in SessionIds |-> IF id = "c" THEN "k" ELSE "j"]
=============================================================================
