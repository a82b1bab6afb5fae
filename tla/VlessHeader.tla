----------------------------- MODULE VlessHeader -----------------------------
(***************************************************************************)
(* parse_vless_header of src/utils.py: the first chunk of a connection,    *)
(* byte by byte, as far as it has arrived.  An index beyond the chunk      *)
(* raises, a slice beyond it is silently short; the properties of the      *)
(* transports that use it (XHttp) rest on which of the two happens where.  *)
(***************************************************************************)
EXTENDS Naturals, Sequences

Byte == 0..255

(* The headers there are: two bytes of port, an address as long as its     *)
(* kind has them; a kind beyond these comes with anything.                 *)
IsHeader(h) ==
  /\ h \in [addons : Seq(Byte), command : Byte, port : Seq(Byte), kind : Byte,
            address : Seq(Byte)]
  /\ Len(h.addons) \in Byte /\ Len(h.port) = 2
  /\ h.kind = 1 => Len(h.address) = 4
  /\ h.kind = 2 => Len(h.address) \in Byte
  /\ h.kind = 3 => Len(h.address) = 16

(* What a client writes: version, uuid, addons, command, port, address. *)
Wire(h) ==
  <<0>> \o [i \in 1..16 |-> 255] \o <<Len(h.addons)>> \o h.addons
    \o <<h.command>> \o h.port \o <<h.kind>>
    \o (IF h.kind = 2 THEN <<Len(h.address)>> ELSE <<>>) \o h.address

(* Python's chunk[pos] and chunk[pos : pos + n]. *)
At(chunk, pos) == chunk[pos + 1]
Slice(chunk, pos, n) ==
  SubSeq(chunk, pos + 1, IF pos + n < Len(chunk) THEN pos + n ELSE Len(chunk))

MinFirst == 24
Bad == [ok |-> FALSE]

(* Mutant of CommandAt: the addons are taken for the command. *)
CommandAtFixed(chunk) == 18

CommandAt(chunk) == 18 + At(chunk, 17)
KindAt(chunk)    == CommandAt(chunk) + 3
Kind(chunk)      == At(chunk, KindAt(chunk))

AddressAt(chunk) == KindAt(chunk) + (IF Kind(chunk) = 2 THEN 2 ELSE 1)

AddressSize(chunk) ==
  CASE Kind(chunk) = 1 -> 4
    [] Kind(chunk) = 2 -> At(chunk, KindAt(chunk) + 1)
    [] Kind(chunk) = 3 -> 16

(* An IPv6 address is read by index, the others are sliced. *)
Raises(chunk) ==
  \/ Len(chunk) < MinFirst
  \/ Len(chunk) <= KindAt(chunk)
  \/ Kind(chunk) \notin 1..3
  \/ Kind(chunk) = 2 /\ Len(chunk) <= KindAt(chunk) + 1
  \/ Kind(chunk) = 3 /\ Len(chunk) < AddressAt(chunk) + 16

Parse(chunk) ==
  IF Raises(chunk) THEN Bad
  ELSE [ok      |-> TRUE,
        command |-> At(chunk, CommandAt(chunk)),
        port    |-> Slice(chunk, CommandAt(chunk) + 1, 2),
        address |-> Slice(chunk, AddressAt(chunk), AddressSize(chunk)),
        payload |-> Slice(chunk, AddressAt(chunk) + AddressSize(chunk), Len(chunk))]
=============================================================================
