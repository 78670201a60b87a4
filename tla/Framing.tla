------------------------------- MODULE Framing -------------------------------
(***************************************************************************)
(* The trip of one IPv4 packet through the data plane's framing:           *)
(* ObfuscateTo and Deobfuscate of shared/crypto.go, called by WriteTo and  *)
(* ReadFrom of shared/conn.go, and the address helpers of shared/packet.go *)
(* with which the server finds the session of the packet.                  *)
(*                                                                         *)
(* What is modelled is where every byte range begins and ends; of the      *)
(* packet, its length and the bytes that the helpers read.  The AEAD is    *)
(* external: Open succeeds on exactly what Seal made under the same key.   *)
(***************************************************************************)
EXTENDS Integers

CONSTANTS
  Lengths,    \* lengths of the packets written
  Addresses,  \* IPv4 addresses, as numbers
  Versions,   \* the version nibbles of packets
  OutBuf,     \* size of the buffers in udpBufPool
  InBuf,      \* size of the buffer of the caller of ReadFrom
  PathMTU     \* largest IP packet that the path carries whole

HeaderSize == 28  \* magic and nonce
Overhead   == 16  \* the AEAD's tag
IPUDP      == 28  \* IP and UDP headers around the frame
MaxExtra   == HeaderSize + 2 + 63 + Overhead  \* the most a frame adds to a packet

(* In the program 65535 (conn.go:10), 1300 (client.go:375) and 1500 (tun.go:5). *)
ASSUME FramingAssumption ==
  /\ Lengths \subseteq Nat /\ Versions \subseteq 0 .. 15
  /\ Addresses \subseteq Nat /\ \A a \in Addresses : a \div 2^24 < 2^8
  /\ OutBuf \in Nat /\ InBuf \in Nat /\ PathMTU \in Nat
  /\ OutBuf < 2^16 /\ InBuf + MaxExtra <= OutBuf /\ InBuf + MaxExtra + IPUDP <= PathMTU

VARIABLES
  stage,  \* where the packet is
  pkt,    \* the packet written
  frame,  \* its frame: length, length of the plaintext in it, the prefix
  got     \* what ReadFrom returned

framingVars == <<stage, pkt, frame, got>>

Packets == [len : Lengths, version : Versions, src : Addresses, dst : Addresses]

NoPacket == [len |-> 0, version |-> 0, src |-> 0, dst |-> 0]
NoFrame  == [len |-> 0, inner |-> 0, prefix |-> 0, genuine |-> FALSE]

FramingInit == stage = "idle" /\ pkt = NoPacket /\ frame = NoFrame /\ got = NoPacket

-----------------------------------------------------------------------------
(* Writing *)

(* Faulty variant: IntN(65). *)
PadsTo64 == 0 .. 64

(* mrand.IntN(64) *)
Pads == 0 .. 63

TooSmall(n) == OutBuf < HeaderSize + n + 2 + Overhead

(* The frame of n bytes and pad bytes of padding. *)
Sealed(n, pad) == [len |-> HeaderSize + 2 + n + pad + Overhead, inner |-> 2 + n + pad,
                   prefix |-> n % 2^16, genuine |-> TRUE]

Refuse(p) ==
  /\ stage = "idle" /\ TooSmall(p.len)
  /\ stage' = "refused" /\ pkt' = p
  /\ UNCHANGED <<frame, got>>

(* Beyond the buffer the slice of line 74, or that of WriteTo, panics. *)
ObfuscateTo(p, pad) ==
  /\ stage = "idle" /\ ~TooSmall(p.len)
  /\ stage' = IF Sealed(p.len, pad).len <= OutBuf THEN "wire" ELSE "overrun"
  /\ pkt' = p
  /\ frame' = Sealed(p.len, pad)
  /\ UNCHANGED got

-----------------------------------------------------------------------------
(* UDP, and senders that have not the key *)

Damage(len) ==
  /\ stage = "wire" /\ frame.genuine
  /\ frame' = [frame EXCEPT !.len = len, !.genuine = FALSE]
  /\ UNCHANGED <<stage, pkt, got>>

Lost ==
  /\ stage = "wire" /\ stage' = "dropped"
  /\ UNCHANGED <<pkt, frame, got>>

-----------------------------------------------------------------------------
(* Reading *)

(* Faulty variant: the padding is taken for payload. *)
PayloadPadded(f) == f.inner - 2

Payload(f) == f.prefix

Opens(f) ==
  /\ f.len >= HeaderSize + Overhead + 2
  /\ f.genuine
  /\ f.inner >= 2
  /\ Payload(f) <= f.inner - 2

(* The packet's first n bytes. *)
Cut(p, n) == [p EXCEPT !.len = n]

(* copy(p, plaintext) *)
Copied(n) == IF n <= InBuf THEN n ELSE InBuf

ReadFrom ==
  /\ stage = "wire" /\ Opens(frame)
  /\ stage' = "read"
  /\ got' = Cut(pkt, Copied(Payload(frame)))
  /\ UNCHANGED <<pkt, frame>>

(* Silently discarded; the loop goes on to the next packet. *)
Discard ==
  /\ stage = "wire" /\ ~Opens(frame)
  /\ stage' = "dropped"
  /\ UNCHANGED <<pkt, frame, got>>

(* The next packet, through the same buffers. *)
Again ==
  /\ stage \in {"read", "dropped", "refused"}
  /\ stage' = "idle" /\ pkt' = NoPacket /\ frame' = NoFrame /\ got' = NoPacket

-----------------------------------------------------------------------------
(* Addresses *)

(* uint32ToIP: the four bytes of an address, most significant first. *)
Octet(a, i) == (a \div 256^(3 - i)) % 256

(* The bytes of the header that are read. *)
Byte(p, i) ==
  IF i = 0 THEN p.version * 16 + 5
  ELSE IF i < 16 THEN Octet(p.src, i - 12) ELSE Octet(p.dst, i - 16)

Parses(p) == p.len >= 20 /\ Byte(p, 0) \div 16 = 4

(* binary.BigEndian.Uint32(pkt[i:i+4]) *)
Uint32(p, i) ==
  Byte(p, i) * 2^24 + Byte(p, i + 1) * 2^16 + Byte(p, i + 2) * 2^8 + Byte(p, i + 3)

SrcIPUint32(p) == Uint32(p, 12)

DstIPUint32(p) == Uint32(p, 16)

-----------------------------------------------------------------------------
FramingNext ==
  \/ \E p \in Packets : Refuse(p) \/ \E pad \in Pads : ObfuscateTo(p, pad)
  \/ \E len \in {0, HeaderSize + Overhead + 1, frame.len} : Damage(len)
  \/ Lost \/ ReadFrom \/ Discard \/ Again

FramingSpec == FramingInit /\ [][FramingNext]_framingVars

-----------------------------------------------------------------------------
(* Properties *)

(* Type invariant: a caller of ReadFrom never gets more than its buffer    *)
(* holds (conn.go:32-53).                                                  *)
FramingTypeOK ==
  /\ stage \in {"idle", "refused", "overrun", "wire", "dropped", "read"}
  /\ pkt \in Packets \cup {NoPacket}
  /\ frame \in [len : Nat, inner : Nat, prefix : 0 .. 2^16 - 1, genuine : BOOLEAN]
  /\ got.len \in 0 .. InBuf

(* No packet that a tunnel can read makes a frame that overruns the        *)
(* buffer or that the path must fragment, with any padding; and only the   *)
(* last 63 lengths that pass the size check can overrun it (crypto.go:51,  *)
(* 67-89, conn.go:57-70, client.go:375, daemon.go:193, tun.go:5).          *)
FrameFits ==
  /\ pkt.len <= InBuf \/ pkt.len <= OutBuf - MaxExtra => stage # "overrun"
  /\ pkt.len <= InBuf /\ stage = "wire" => frame.len + IPUDP <= PathMTU

(* What ReadFrom returns is the packet that was written, from its first to *)
(* its last byte, however it was padded; a frame that was cut or changed   *)
(* on the way is never returned.  And the key under which the relay looks  *)
(* it up is the one under which the control plane stored the session of    *)
(* that address: the helpers and the pool's conversions agree on the order *)
(* of the bytes (crypto.go:93-126, conn.go:32-53, packet.go:107, 119,      *)
(* ippool.go:178-187, daemon.go:437, 486, 548).                            *)
RoundTrip ==
  stage = "read" =>
    /\ frame.genuine /\ got = Cut(pkt, Copied(pkt.len))
    /\ Parses(got) => SrcIPUint32(got) = pkt.src /\ DstIPUint32(got) = pkt.dst

(* "Max random padding of up to 64 bytes (or less if MTU limited)"         *)
(* (crypto.go:67): whenever the packet fits, the padding is cut so that    *)
(* the frame fits too.                                                     *)
(* The code does not keep this: README, "Disagreements".                   *)
PaddingLimited == stage # "overrun"
=============================================================================
