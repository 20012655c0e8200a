----------------------------- MODULE ByteOrder ------------------------------
(***************************************************************************)
(* The destination of a connection in the representations it takes on its  *)
(* two ways to the pending table: sockaddr in the probe, ring record,      *)
(* event, and the header of the queued packet.                             *)
(***************************************************************************)
EXTENDS Integers, Sequences

CONSTANTS Base,          \* values of a byte, 256
          LittleEndian   \* the host's byte order

ASSUME ByteAssumption == Base \in Nat \ {0, 1} /\ LittleEndian \in BOOLEAN

(* uN::to_be_bytes and from_be_bytes, and the native ones *)
ToBe(n, w) ==
  LET rest[i \in 0 .. w] == IF i = 0 THEN n ELSE rest[i - 1] \div Base
  IN [i \in 1 .. w |-> rest[w - i] % Base]
FromBe(bytes) ==
  LET value[i \in 0 .. Len(bytes)] == IF i = 0 THEN 0 ELSE value[i - 1] * Base + bytes[i]
  IN value[Len(bytes)]
Swapped(bytes) == [i \in 1 .. Len(bytes) |-> bytes[(Len(bytes) - i) + 1]]
Native(bytes) == IF LittleEndian THEN Swapped(bytes) ELSE bytes
ToNe(n, w) == Native(ToBe(n, w))
FromNe(bytes) == FromBe(Native(bytes))
(* uN::from_be of a field that holds network-order bytes *)
NetworkField(bytes) == FromBe(ToNe(FromNe(bytes), Len(bytes)))

(* A destination is the octets and the port the process asked for. *)
(* try_tcp_connect: the start ticks are zero. *)
EventOf(pid, dest) ==
  [pid |-> pid, ticks |-> 0, ipv4 |-> NetworkField(dest.octets),
   port |-> NetworkField(ToBe(dest.port, 2))]

(* The record as it lies in the ring, repr(C) with four bytes of padding. *)
RingRecord(e, padding) ==
  ToNe(e.pid, 4) \o padding \o ToNe(e.ticks, 8) \o ToNe(e.ipv4, 4)
    \o ToNe(e.port, 2) \o ToNe(0, 2)

(* TcpConnectEvent::try_from_bytes *)
ReadRecord(bytes) ==
  [pid |-> FromNe(SubSeq(bytes, 1, 4)), ticks |-> FromNe(SubSeq(bytes, 9, 16)),
   ipv4 |-> FromNe(SubSeq(bytes, 17, 20)), port |-> FromNe(SubSeq(bytes, 21, 22))]

(* destination_octets, and how addresses are shown *)
DestinationOctets(ipv4) == ToNe(ipv4, 4)

(* The kernel's packet: an IPv4 header of ihl words, then TCP's ports. *)
Packet(dest, ihl) ==
  LET header == [i \in 1 .. 4 * ihl |->
                   CASE i = 1 -> 4 * 16 + ihl
                     [] i = 10 -> 6
                     [] i \in 17 .. 20 -> dest.octets[i - 16]
                     [] OTHER -> 1]
  IN header \o <<1, 1>> \o ToBe(dest.port, 2)

(* Defect: header options are not skipped. *)
BugFixedHeader(bytes) ==
  [ipv4 |-> FromBe(SubSeq(bytes, 17, 20)), port |-> FromBe(SubSeq(bytes, 23, 24))]
(* packet::tcp_destination, whose None is the record NoKey *)
NoKey == [ipv4 |-> -1, port |-> -1]
TcpDestination(bytes) ==
  LET ihl == 4 * (bytes[1] % 16)
  IN IF \/ Len(bytes) < 20 \/ bytes[1] \div 16 # 4
        \/ ihl < 20 \/ Len(bytes) < ihl + 4 \/ bytes[10] # 6
     THEN NoKey
     ELSE [ipv4 |-> FromBe(SubSeq(bytes, 17, 20)),
           port |-> FromBe(SubSeq(bytes, ihl + 3, ihl + 4))]
=============================================================================
