---------------------------- MODULE PeerAddress ----------------------------
(***************************************************************************)
(* Allocation of WireGuard peer addresses (internal/wireguard NextPeerIP). *)
(* An address is its offset in the subnet; offset 0 is the network address *)
(* and stands for "no address"; Top is the last usable host, one below the *)
(* broadcast address.  The subnet's prefix has Bits bits.                  *)
(***************************************************************************)
EXTENDS Integers

CONSTANTS
    Bits,     \* prefix length of the configured subnet
    HubIP     \* offset of the hub, reserved

Top == 2 ^ (32 - Bits) - 2

ASSUME SubnetAssumption ==
    /\ Bits \in 1 .. 30
    /\ Top \in Nat
    /\ HubIP \in 1 .. Top

NoIP == 0
Hosts == 1 .. Top

Lowest(S) == CHOOSE i \in S : \A j \in S : i <= j
Highest(S) == CHOOSE i \in S : \A j \in S : j <= i

\* The first loop looks above the highest address in use, so that the address
\* of a removed node is not handed out again while the subnet has room; the
\* second one falls back to the gaps.  NoIP is the exhaustion error.
NextPeerIP(existing) ==
    LET used  == {HubIP} \cup (existing \ {NoIP})
        free  == Hosts \ used
        above == {i \in free : i > Highest(used)}
    IN  CASE above # {} -> Lowest(above)
          [] above = {} /\ free # {} -> Lowest(free)
          [] OTHER -> NoIP
=============================================================================
