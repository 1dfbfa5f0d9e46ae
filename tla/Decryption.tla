----------------------------- MODULE Decryption -----------------------------
(***************************************************************************)
(* What the receiving half of a connection promises about the packets of   *)
(* the datagrams that reach it, whatever the order in which datagrams and  *)
(* keys arrive: a packet is opened at most once, only with its keys, and   *)
(* not before the packets in front of it in its datagram; a packet that    *)
(* does not decrypt takes the rest of its datagram with it.                *)
(***************************************************************************)
CONSTANTS Units,       \* the packets of all copies of all datagrams
          Ahead(_),    \* the packets in front of a packet in its datagram
          Behind(_),   \* the packet and those after it in its datagram
          Opens(_, _), \* whether a packet opens with this set of keys
          Broken(_)    \* whether a packet fails to decrypt

VARIABLES waiting, opened, keys

vars == <<waiting, opened, keys>>

Init == waiting = {} /\ opened = {} /\ keys = {"Initial"}

Deliver(u) ==
    /\ Ahead(u) = {}
    /\ UNCHANGED <<opened, keys>>
    /\ Behind(u) \cap (waiting \cup opened) = {}
    /\ waiting' = waiting \cup Behind(u)

Install(ls) == keys' = keys \cup ls /\ UNCHANGED <<waiting, opened>>

Open(u) ==
    /\ ~Broken(u) /\ Opens(u, keys)
    /\ opened' = opened \cup {u}
    /\ u \in waiting /\ Ahead(u) \cap waiting = {}
    /\ waiting' = waiting \ {u}
    /\ UNCHANGED keys

Discard(u) ==
    /\ Broken(u) /\ Opens(u, keys)
    /\ u \in waiting /\ Ahead(u) \cap waiting = {}
    /\ waiting' = waiting \ Behind(u)
    /\ UNCHANGED <<opened, keys>>

Next ==
    \/ \E u \in Units : Open(u) \/ Discard(u) \/ Deliver(u)
    \/ \E ls \in SUBSET {"Handshake", "1RTT"} : Install(ls)

Spec == Init /\ [][Next]_vars
=============================================================================
