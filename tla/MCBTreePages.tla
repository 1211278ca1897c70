----------------------------- MODULE MCBTreePages -----------------------------
(***************************************************************************)
(* Instances of BTreePages for TLC: bytes below 3, pages of 40 bytes, keys *)
(* that differ in their first, a middle or their last byte, that continue  *)
(* each other, and that share a head.                                      *)
(***************************************************************************)
EXTENDS BTreePages

Load(keys, payloadLen) ==
  [i \in DOMAIN keys |-> [key |-> keys[i], payloadLen |-> payloadLen]]
Triple(i) == <<(i \div 9) % 3, (i \div 3) % 3, i % 3>>

\* Keys of every length, some of which share a head, in no order.
Lengths ==
  [splitOrdered |-> FALSE, payloads |-> {1, 4},
   load |-> Load(<<<<1>>, <<1, 0>>, <<1, 0, 2, 2>>, <<2, 1>>, <<0>>, <<1, 2>>, <<1, 1, 1>>,
                   <<2, 2>>, <<0, 1>>, <<1, 0, 2>>, <<2, 0, 0, 1>>, <<1, 2, 1>>,
                   <<0, 0, 0, 0>>, <<0, 2>>>>, 3),
   keys |-> {<<1, 0>>, <<1, 0, 2, 2>>, <<1, 0, 2>>, <<1>>, <<0, 1>>}]

\* Pages of many slots, so that hints and heads lead the search.
Dense ==
  [splitOrdered |-> FALSE, payloads |-> {0},
   load |-> Load(<<<<0>>, <<2, 2>>, <<0, 2>>, <<2, 0>>, <<1>>, <<1, 2>>>>, 0),
   keys |-> {<<0, 0>>, <<0, 1>>, <<1, 0>>, <<1, 1>>, <<1, 1, 1>>, <<2>>, <<2, 1>>}]

\* Keys in order fill leaf after leaf and then the root.
Ordered ==
  [splitOrdered |-> TRUE, payloads |-> {4},
   load |-> Load([i \in 1 .. 54 |-> <<i \div 27>> \o Triple(i)], 4),
   keys |-> {<<0>> \o Triple(i) : i \in 0 .. 4}]

\* Long common prefixes, that leaves store once and lose when they are merged.
Prefixed ==
  [splitOrdered |-> FALSE, payloads |-> {0, 3},
   load |-> Load([i \in 1 .. 18 |-> <<1, 1>> \o Triple((i * 7) % 27)], 3),
   keys |-> {<<1, 1>> \o Triple(i) : i \in 6 .. 10}]

\* Keys of the maximal length, and two short ones behind them.
Long(i) == <<0, 0, 0, 0, 0, 0, 0, i>>
AtLimit ==
  [splitOrdered |-> FALSE, payloads |-> {0}, load |-> << >>,
   keys |-> {Long(i) : i \in 0 .. 2} \union {<<1>>, <<2>>, <<1, 2>>}]

PageScenes == {Lengths, Dense, Ordered, Prefixed}
LimitScenes == {AtLimit}
=============================================================================
