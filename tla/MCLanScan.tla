----------------------------- MODULE MCLanScan -----------------------------
(* An instance of LanScan for TLC.  An address has five bits, of which two  *)
(* name what is scanned: up to six hosts, of which the cap takes four.      *)
EXTENDS LanScan

CONSTANT none

Sizes == [n \in 0 .. 5 |-> 2 ^ (5 - n)]

On(face, ip, ones) == [face |-> face, ip |-> ip, ones |-> ones]

SomeMachines == {
    << >>,
    \* one small subnet, another below interfaces that do not count
    <<On("loopback", 31, 1), On("lan", 5, 3), On("virtual", 10, 3), On("down", 17, 3)>>,
    \* a second address, without a subnet of its own, among the hosts of the first
    <<On("lan", 5, 3), On("lan", 6, 5), On("lan", 17, 4), On("lan", none, 0)>>,
    \* exactly as many hosts as the cap allows, then nothing but duplicates
    <<On("lan", 9, 3), On("unreadable", 22, 3), On("lan", 5, 3), On("lan", 10, 3)>>,
    \* more than the cap allows, below an address that is narrowed
    <<On("lan", 12, 1), On("lan", 9, 3)>>,
    \* the cap is met below the second address; link-local ones are passed over
    <<On("lan", 5, 3), On("lan", 25, 3), On("lan", 18, 2)>> }

(* The hosts of the narrowed subnet, by what an address in it looks like *)
ASSUME SubnetReference ==
    \A ip \in Addresses, ones \in 0 .. Bits :
        LET size == Size[IF ones > Narrowest THEN ones ELSE Narrowest]
        IN  RangeOf(SubnetHosts(On("lan", ip, ones))) =
                {h \in Addresses : /\ h \div size = ip \div size
                                   /\ h % size \notin {0, size - 1}}
=============================================================================
