------------------------------- MODULE NRadix -------------------------------
(***************************************************************************)
(* The radix tree of networks (collector/collector/lib/NRadix.cpp) and the *)
(* masks it walks by (NetworkConnection.h, IPNet).                         *)
(*                                                                         *)
(* An address is two words of W bits (64 in the code); an IPv4 address     *)
(* fills the first half of the first word and the rest is zero.  A tree is *)
(* the function that gives the value of each of its nodes; a node is named *)
(* by the way to it, the sequence of bits walked from the root.            *)
(***************************************************************************)
LOCAL INSTANCE Integers
LOCAL INSTANCE Sequences
LOCAL INSTANCE TLC
LOCAL INSTANCE FiniteSets

CONSTANT W
Bit == {0, 1}
Words == 2
Length(family) == IF family = "v4" THEN W \div 2 ELSE Words * W

(* A network has an address, whose bits behind the prefix may be anything. *)
NoNet == [family |-> "none", address |-> [w \in 1..Words |-> [b \in 1..W |-> 0]], bits |-> 0]
Nets(family) ==
  {[family |-> family, bits |-> n,
    address |-> [w \in 1..Words |-> [b \in 1..W |-> IF (w - 1) * W + b <= Length(family)
                                                    THEN a[(w - 1) * W + b] ELSE 0]]]
   : n \in 1..Length(family), a \in [1..Length(family) -> Bit]}
IsNull(net) == net.bits = 0 /\ net.address = NoNet.address

(* net_mask_array: the bits of a word that belong to the prefix.           *)
NetMask(net) ==
  [w \in 1..Words |-> [b \in 1..W |->
     IF net.bits < W THEN w = 1 /\ b <= net.bits
     ELSE w = 1 \/ net.bits = Words * W \/ b <= net.bits % W]]

NoValue == NoNet
Empty == [n \in {<<>>} |-> NoValue]

(* A cursor: the node, the next bit, the word of address and mask it is    *)
(* taken from, and how many words were walked.                             *)
Cursor == [node |-> <<>>, bit |-> 1, word |-> 1, i |-> 0]
Child(net, c) == Append(c.node, net.address[c.word][c.bit])

(* One bit further.  The end of a word leads to the next one, if the       *)
(* prefix reaches it; behind the last word the bit is W + 1.               *)
(* AdvanceLate needs a prefix longer than a word.                          *)
AdvanceLate(net, c) ==
  IF c.bit < W THEN [c EXCEPT !.node = Child(net, c), !.bit = @ + 1]
  ELSE [c EXCEPT !.node = Child(net, c), !.i = @ + 1,
                 !.bit = IF c.i + 1 >= Words THEN W + 1 ELSE 1,
                 !.word = IF c.i + 1 < Words /\ net.bits > W THEN @ + 1 ELSE @]

Advance(net, c) ==
  IF c.bit < W THEN [c EXCEPT !.node = Child(net, c), !.bit = @ + 1]
  ELSE [c EXCEPT !.node = Child(net, c), !.i = @ + 1,
                 !.bit = IF c.i + 1 >= Words THEN W + 1 ELSE 1,
                 !.word = IF c.i + 1 < Words /\ net.bits >= W THEN @ + 1 ELSE @]

InPrefix(net, c) == c.bit <= W /\ NetMask(net)[c.word][c.bit]

(* Insert: down the nodes there are, then down new ones.  A value that is  *)
(* there stays.                                                            *)
RECURSIVE Grow(_, _, _)
Grow(tree, net, c) ==
  IF InPrefix(net, c)
  THEN Grow(tree @@ (Child(net, c) :> NoValue), net, Advance(net, c))
  ELSE IF tree[c.node] # NoValue THEN tree ELSE [tree EXCEPT ![c.node] = net]

Insert(tree, net) ==
  IF IsNull(net) \/ net.bits < 1 \/ net.bits > Words * W THEN tree ELSE Grow(tree, net, Cursor)

RECURSIVE InsertAll(_)
InsertAll(nets) ==
  IF nets = <<>> THEN Empty
  ELSE Insert(InsertAll(SubSeq(nets, 1, Len(nets) - 1)), nets[Len(nets)])

(* Find: the last value met on the way down the prefix.  FindShort does    *)
(* not look at the node behind the last bit.                               *)
RECURSIVE FindShort(_, _, _, _)
FindShort(tree, net, c, ret) ==
  LET here == IF tree[c.node] # NoValue THEN tree[c.node] ELSE ret
      next == Advance(net, c)
  IN  IF ~InPrefix(net, c) \/ next.bit > W \/ next.node \notin DOMAIN tree THEN here
      ELSE FindShort(tree, net, next, here)

RECURSIVE FindFrom(_, _, _, _)
FindFrom(tree, net, c, ret) ==
  LET here == IF tree[c.node] # NoValue THEN tree[c.node] ELSE ret
      next == Advance(net, c)
  IN  IF ~InPrefix(net, c) \/ next.node \notin DOMAIN tree THEN here
      ELSE IF next.bit > W
      THEN IF tree[next.node] # NoValue THEN tree[next.node] ELSE here
      ELSE FindFrom(tree, net, next, here)

Find(tree, net) ==
  LET ret == FindFrom(tree, net, Cursor, NoNet)
  IN  IF net.bits = 0 \/ ret.family # net.family THEN NoNet ELSE ret

GetAll(tree) == {tree[n] : n \in DOMAIN tree} \ {NoValue}

(* isAnyIPNetSubsetUtil: the networks met on the way, in each tree.        *)
RECURSIVE IsAnySubsetUtil(_, _, _, _, _, _)
IsAnySubsetUtil(family, t1, t2, n, containing, contained) ==
  \/ /\ containing # NoValue /\ contained # NoValue
     /\ containing.family = contained.family
     /\ family # "none" => family = containing.family
  \/ /\ n \in DOMAIN t2
     /\ LET c1 == IF n \in DOMAIN t1 /\ t1[n] # NoValue THEN t1[n] ELSE containing
            c2 == IF t2[n] # NoValue THEN t2[n] ELSE contained
        IN  \E b \in Bit : IsAnySubsetUtil(family, t1, t2, Append(n, b), c1, c2)

IsAnyIPNetSubset(family, t1, t2) == IsAnySubsetUtil(family, t1, t2, <<>>, NoValue, NoValue)

-----------------------------------------------------------------------------
(* The reference: a network is a family and a prefix.                      *)
Prefix(net) == [k \in 1..net.bits |-> net.address[((k - 1) \div W) + 1][((k - 1) % W) + 1]]
Contains(a, b) ==
  a.family = b.family /\ a.bits <= b.bits /\ SubSeq(Prefix(b), 1, a.bits) = Prefix(a)

(* No network of one family lies on the way to one of the other.  Where    *)
(* one does, it hides the networks of the other family above it, and Find  *)
(* returns none: an exception the comments of NRadix.h:104-111 do not      *)
(* know.                                                                   *)
FamiliesApart(nets) ==
  \A a, b \in nets : a.family = b.family \/ ~Contains([a EXCEPT !.family = b.family], b)

(* NRadix.h:104: "Returns the smallest subnet larger than or equal to the  *)
(* queried network."  Of the networks inserted that contain the query it   *)
(* is the one with the longest prefix; the tree keeps, and GetAll lists,   *)
(* the first of the networks inserted with a prefix.                       *)
FindsSmallest(nets, query) ==
  LET found == Find(InsertAll(nets), query)
      kept == {nets[k] : k \in {k \in DOMAIN nets :
                               \A j \in 1..(k - 1) : Prefix(nets[j]) # Prefix(nets[k])}}
      all == {net \in kept : Contains(net, query)}
  IN  /\ GetAll(InsertAll(nets)) = kept
      /\ IF all = {} THEN found = NoNet
         ELSE found \in all /\ \A net \in all : net.bits <= found.bits

(* NRadix.h:114: "Determines whether any network in `other` is fully       *)
(* contained by any network in this tree, for a given family."             *)
TellsSubsets(family, nets, other) ==
  IsAnyIPNetSubset(family, InsertAll(nets), InsertAll(other))
    <=> \E j \in DOMAIN nets, k \in DOMAIN other :
          Contains(nets[j], other[k]) /\ (family = "none" \/ nets[j].family = family)
=============================================================================
