------------------------------ MODULE KtpPacket ------------------------------
(***************************************************************************)
(* The four header bytes of a KTP packet (A4/initsocket.c, create_packet   *)
(* and decode_packet).  A sequence number travels as the byte seq+1, so    *)
(* that the initial "nothing acknowledged" value -1 is the byte 0, and the *)
(* receiver reads the byte back through a plain (signed) char.             *)
(*                                                                         *)
(* The payload bytes are abstracted: a packet is its header and, in the    *)
(* modules that use this one, the identity of the message it carries.      *)
(***************************************************************************)
EXTENDS Integers

(* (u_int8_t)x : what a store of an int into an unsigned byte keeps.       *)
Byte(x) == x % 256

(* (int)c for a signed char c : how a byte of the packet is read back.     *)
SignedChar(b) == IF b < 128 THEN b ELSE b - 256

Header == [is_ack : 0..255, seq : 0..255, ack : 0..255, size : 0..255]

(* The header create_packet writes.                                        *)
CreatePacket(is_ack, seq_number, ack_number, recv_size) ==
    [is_ack |-> Byte(is_ack),
     seq    |-> Byte(seq_number + 1),
     ack    |-> Byte(ack_number + 1),
     size   |-> Byte(recv_size)]

(* What decode_packet returns through its four out parameters.             *)
DecodePacket(h) ==
    [is_ack     |-> SignedChar(h.is_ack),
     seq_number |-> SignedChar(h.seq) - 1,
     ack_number |-> SignedChar(h.ack) - 1,
     recv_size  |-> SignedChar(h.size)]

=============================================================================
