-------------------------------- MODULE Wire --------------------------------
(***************************************************************************)
(* How long things are on the wire (core wire/pad.rs, msg.rs, entry.rs and *)
(* payload.rs).  A message is a header, a CBOR payload and zeros up to a   *)
(* permitted length; a payload that finds no such length is refused.       *)
(* Bytes are left out: whether a message can be sent depends on lengths.   *)
(***************************************************************************)
EXTENDS Naturals

HeaderLen == 3          \* HEADER_LEN: the type and a 16-bit payload length
MaxPaddedLen == 63488   \* MAX_PADDED_LEN
LastBlock == 2048       \* the largest of BLOCK_SIZES
TagLen == 16            \* the tag that sealing adds
NoLen == 0              \* None

-----------------------------------------------------------------------------
(* Padding.                                                                *)

PaddedLen(unpadded) ==
    IF unpadded > MaxPaddedLen THEN NoLen
    ELSE IF unpadded <= 256 THEN 256
    ELSE IF unpadded <= 512 THEN 512
    ELSE IF unpadded <= 1024 THEN 1024
    ELSE ((unpadded + LastBlock - 1) \div LastBlock) * LastBlock

\* The gate a sealed body must pass before it is opened.
IsPaddedLen(len) == PaddedLen(len) = len

\* encode_message succeeds on a payload of this length.
Encodes(payloadLen) == PaddedLen(HeaderLen + payloadLen) # NoLen

-----------------------------------------------------------------------------
(* CBOR.  An integer, or the head of a string, an array or a map.          *)

HeadLen(n) ==
    IF n < 24 THEN 1 ELSE IF n < 256 THEN 2 ELSE IF n < 65536 THEN 3 ELSE 5

BytesLen(n) == HeadLen(n) + n

\* An entry is an array of the author, the sort key, the kind, the payload and
\* the signature; ints is the length of the two integers.
EntryLen(ints, payload) == 1 + BytesLen(32) + ints + BytesLen(payload) + BytesLen(64)

\* The payload of a GOSSIP_PUSH: a map of the entries, count of them with len
\* bytes in all, and of the ttl.
PushLen(count, len, ttl) == 1 + 1 + HeadLen(count) + len + 1 + HeadLen(ttl)
=============================================================================
