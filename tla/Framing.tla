------------------------------- MODULE Framing -------------------------------
(***************************************************************************)
(* The wire format of internal/avrocodec: a zero byte, the id of the       *)
(* schema in four bytes, most significant first, and the Avro body.  A     *)
(* payload is a sequence of bytes; a body is the number of the schema it   *)
(* was written with, and decodes with that schema only, to the last byte.  *)
(***************************************************************************)
EXTENDS Naturals, Sequences

FramingSize == 5

(* binary.BigEndian.PutUint32                                              *)
BigEndian(n) ==
  <<(n \div 16777216) % 256, (n \div 65536) % 256, (n \div 256) % 256, n % 256>>

(* A positive id is framed; Encode refuses any other.                      *)
Encode(id, body) == <<0>> \o BigEndian(id) \o body

(* SchemaID accepts the payload.                                           *)
Framed(payload) == Len(payload) >= FramingSize /\ payload[1] = 0

(* Mutated: the bytes of the id are read in the opposite order.            *)
LittleEndianID(payload) ==
  payload[5] * 16777216 + payload[4] * 65536 + payload[3] * 256 + payload[2]

SchemaID(payload) ==
  payload[2] * 16777216 + payload[3] * 65536 + payload[4] * 256 + payload[5]

(* Decode with a schema succeeds.                                          *)
Decodes(schema, payload) ==
  /\ Framed(payload)
  /\ SubSeq(payload, FramingSize + 1, Len(payload)) = <<schema>>
=============================================================================
