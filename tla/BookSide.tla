------------------------------ MODULE BookSide ------------------------------
(***************************************************************************)
(* A side of the book as matching.rs stores it: a crit-bit tree in an      *)
(* array of nodes.  A leaf is an order; an inner node covers the keys that *)
(* share its first prefix_len bits and splits them by the next bit.        *)
(* Unused nodes are beyond bump_index or on a free list threaded through   *)
(* the array.  Each inner node caches the earliest expiry below each of    *)
(* its children, so that an expired order is found without a full walk.    *)
(*                                                                         *)
(* Keys are KeyBits wide (128 in the code).  Of an order only the key and  *)
(* the expiry matter to the tree.                                          *)
(***************************************************************************)
EXTENDS Integers, Sequences, FiniteSets, FiniteSetsExt, SequencesExt

CONSTANTS
  KeyBits,
  Keys,        \* order ids: numbers of KeyBits bits
  Len_nodes,   \* nodes.len(), MAX_BOOK_NODES
  Expiries,    \* expiry times of orders, NoExpiry among them
  Times        \* values of now_ts

ASSUME NodesAssumption == Len_nodes \in Nat /\ Len_nodes >= 4 /\ Len_nodes % 2 = 0
ASSUME KeysAssumption == KeyBits \in Nat /\ Keys \subseteq 0 .. 2^KeyBits - 1
ASSUME ExpiriesAssumption == Expiries \subseteq Int

VARIABLE side   \* the BookSide account

Handles == 0 .. Len_nodes - 1
Unused == [tag |-> "uninitialized"]

SideInit == side = [root_node |-> 0, leaf_count |-> 0, bump_index |-> 0,
                free_list_len |-> 0, free_list_head |-> 0,
                nodes |-> [h \in Handles |-> Unused]]

-----------------------------------------------------------------------------
(* Bits are numbered from the top: bit n is the one after n shared bits. *)
Bit(key, n) == IF (key \div 2^(KeyBits - 1 - n)) % 2 # 0 THEN 1 ELSE 0

(* (x ^ y).leading_zeros() *)
shared_prefix_len(x, y) ==
  Max({n \in 0..KeyBits : x \div 2^(KeyBits - n) = y \div 2^(KeyBits - n)})

LeafNode(key, expiry) == [tag |-> "leaf", key |-> key, expiry |-> expiry]

is_inner(t, h) == t.nodes[h].tag = "inner"

Inner(t) == {h \in Handles : is_inner(t, h)}

earliest_expiry(node) ==
  IF node.tag = "leaf" THEN node.expiry
  ELSE Min({node.child_earliest_expiry[0], node.child_earliest_expiry[1]})

(* The child that may hold the key, and which one it is. *)
walk_down(t, h, key) ==
  LET b == Bit(key, t.nodes[h].prefix_len)
  IN  [h |-> t.nodes[h].children[b], bit |-> b]

(* The stack of a walk from the root towards key through the nodes of Via. *)
Path(t, key, Via) ==
  LET path[h \in Handles] ==
        IF h \in Via
        THEN <<[h |-> h, bit |-> walk_down(t, h, key).bit]>> \o path[walk_down(t, h, key).h]
        ELSE <<>>
  IN  path[t.root_node]

(* Where a walk that left this stack has ended. *)
EndOf(t, stack, key) ==
  IF stack = <<>> THEN t.root_node ELSE walk_down(t, Last(stack).h, key).h

(* Replace outdated by new in the cache of one parent, unless it does not  *)
(* show there.                                                             *)
UpdateOne(acc, p) ==
  LET parent  == acc.nodes[p.h]
      updated == [parent EXCEPT !.child_earliest_expiry[p.bit] = acc.new]
  IN  IF acc.stop \/ parent.child_earliest_expiry[p.bit] # acc.outdated
      THEN [acc EXCEPT !.stop = TRUE]
      ELSE [acc EXCEPT !.outdated = earliest_expiry(parent),
                       !.nodes[p.h] = updated,
                       !.new = earliest_expiry(updated)]

(* A faulty form: the caches above are left as they are. *)
update_nothing(nodes, stack, outdated, new) == nodes

(* The same up the stack, as far as it shows. *)
update_parent_earliest_expiry(nodes, stack, outdated, new) ==
  FoldLeft(LAMBDA acc, p : UpdateOne(acc, p),
           [nodes |-> nodes, outdated |-> outdated, new |-> new, stop |-> FALSE],
           Reverse(stack)).nodes

-----------------------------------------------------------------------------
(* Nodes are taken from the free list first.  The result says whether      *)
(* there was one, whether the assertions on the list held, and where.      *)
insert(t, val) ==
  LET h == IF t.free_list_len = 0 THEN t.bump_index ELSE t.free_list_head
      n == t.nodes[h]
  IN  IF t.free_list_len = 0
      THEN IF t.bump_index = Len_nodes THEN [ok |-> FALSE]
           ELSE [ok |-> TRUE, h |-> h,
                 t |-> [t EXCEPT !.nodes[h] = val, !.bump_index = @ + 1]]
      ELSE IF ~(\/ n.tag = "free" /\ t.free_list_len > 1
                \/ n.tag = "last_free" /\ t.free_list_len = 1)
      THEN [ok |-> FALSE]
      ELSE [ok |-> TRUE, h |-> h,
            t |-> [t EXCEPT !.nodes[h] = val, !.free_list_head = n.next,
                            !.free_list_len = @ - 1]]

remove(t, h) ==
  [t EXCEPT !.nodes[h] = [tag |-> IF t.free_list_len = 0 THEN "last_free" ELSE "free",
                          next |-> t.free_list_head],
            !.free_list_len = @ + 1,
            !.free_list_head = h]

(* A faulty form: one node short. *)
is_full_late(t) == t.free_list_len <= 1 /\ t.bump_index >= Len_nodes

is_full(t) == t.free_list_len <= 1 /\ t.bump_index >= Len_nodes - 1

(* Put the leaf into an empty tree, over a leaf with the same key, or at   *)
(* the place where its key leaves the tree: that node moves to a new one   *)
(* and becomes the inner node above the two.                               *)
InsertRoot(t, leaf) ==
  LET new == insert(t, leaf)
  IN  IF ~new.ok THEN new
      ELSE [ok |-> TRUE, t |-> [new.t EXCEPT !.root_node = new.h, !.leaf_count = 1]]

Clobber(t, stack, h, leaf) ==
  [ok |-> TRUE,
   t |-> [t EXCEPT !.nodes =
            update_parent_earliest_expiry([t.nodes EXCEPT ![h] = leaf], stack,
                                          t.nodes[h].expiry, leaf.expiry)]]

Split(t, stack, h, leaf) ==
  LET old    == t.nodes[h]
      prefix == shared_prefix_len(old.key, leaf.key)
      bit    == Bit(leaf.key, prefix)
      new    == insert(t, leaf)
      moved  == insert(new.t, old)
      inner  == [tag |-> "inner", prefix_len |-> prefix, key |-> leaf.key,
                 children |-> [b \in 0..1 |-> IF b = bit THEN new.h ELSE moved.h],
                 child_earliest_expiry |->
                   [b \in 0..1 |-> IF b = bit THEN leaf.expiry ELSE earliest_expiry(old)]]
      nodes  == [moved.t.nodes EXCEPT ![h] = inner]
  IN  IF ~new.ok \/ ~moved.ok THEN [ok |-> FALSE]
      ELSE [ok |-> TRUE,
            t |-> [moved.t EXCEPT
                     !.leaf_count = @ + 1,
                     !.nodes = IF leaf.expiry < earliest_expiry(old)
                               THEN update_parent_earliest_expiry(nodes, stack,
                                      earliest_expiry(old), leaf.expiry)
                               ELSE nodes]]

insert_leaf(t, leaf) ==
  LET stack == Path(t, leaf.key, {h \in Inner(t) :
                 shared_prefix_len(t.nodes[h].key, leaf.key) >= t.nodes[h].prefix_len})
      h     == EndOf(t, stack, leaf.key)
  IN  IF t.leaf_count = 0 THEN InsertRoot(t, leaf)
      ELSE IF t.nodes[h].tag = "leaf" /\ t.nodes[h].key = leaf.key
      THEN Clobber(t, stack, h, leaf)
      ELSE Split(t, stack, h, leaf)

(* A faulty form: the node of the sibling is lost. *)
RemoveLeafLeaks(t, stack, h) ==
  LET parent == Last(stack).h
      other  == t.nodes[parent].children[1 - Last(stack).bit]
  IN  remove([t EXCEPT !.nodes[parent] = t.nodes[other], !.leaf_count = @ - 1], h)

(* The tree without the key, itself if the key is not there.  The removed  *)
(* leaf's sibling takes the place of their parent.                         *)
RemoveLeaf(t, stack, h) ==
  LET parent == Last(stack).h
      other  == t.nodes[parent].children[1 - Last(stack).bit]
      kept   == t.nodes[other]
      freed  == remove([remove(t, other) EXCEPT !.nodes[parent] = kept,
                                                !.leaf_count = @ - 1], h)
  IN  [freed EXCEPT !.nodes = update_parent_earliest_expiry(@, Front(stack),
                                t.nodes[h].expiry, earliest_expiry(kept))]

remove_by_key(t, key) ==
  LET stack == Path(t, key, Inner(t))
      h     == EndOf(t, stack, key)
  IN  IF t.leaf_count = 0 \/ t.nodes[h].key # key THEN t
      ELSE IF stack = <<>>
      THEN remove([t EXCEPT !.root_node = 0, !.leaf_count = 0], h)
      ELSE RemoveLeaf(t, stack, h)

(* The leaf at the end of a walk that picks a child at every inner node. *)
Follow(t, Pick(_)) ==
  LET end[h \in Handles] ==
        IF is_inner(t, h) THEN end[t.nodes[h].children[Pick(t.nodes[h])]] ELSE h
  IN  t.nodes[end[t.root_node]]

find_min(t) == Follow(t, LAMBDA n : 0)
find_max(t) == Follow(t, LAMBDA n : 1)

(* A faulty form: walks to the child that expires later. *)
find_latest_expiry(t) ==
  Follow(t, LAMBDA n : IF n.child_earliest_expiry[0] > n.child_earliest_expiry[1] THEN 0 ELSE 1)

find_earliest_expiry(t) ==
  Follow(t, LAMBDA n : IF n.child_earliest_expiry[0] > n.child_earliest_expiry[1] THEN 1 ELSE 0)

(* The orders BookSideIter yields: from the high end for bids, left = 1,   *)
(* and from the low end for asks.                                          *)
BookSideIter(t, left) ==
  LET walk[h \in Handles] ==
        IF is_inner(t, h)
        THEN walk[t.nodes[h].children[left]] \o walk[t.nodes[h].children[1 - left]]
        ELSE <<t.nodes[h]>>
  IN  IF t.leaf_count = 0 THEN <<>> ELSE walk[t.root_node]

-----------------------------------------------------------------------------
(* The operations of the matching engine.  A full side is made room in     *)
(* before an order is inserted.                                            *)
InsertLeaf ==
  /\ ~is_full(side)
  /\ \E key \in Keys, expiry \in Expiries :
       LET r == insert_leaf(side, LeafNode(key, expiry)) IN r.ok /\ side' = r.t

RemoveByKey == \E key \in Keys : side' = remove_by_key(side, key)

remove_min == side.leaf_count # 0 /\ side' = remove_by_key(side, find_min(side).key)

remove_max == side.leaf_count # 0 /\ side' = remove_by_key(side, find_max(side).key)

remove_one_expired ==
  /\ side.leaf_count # 0
  /\ \E now_ts \in Times : find_earliest_expiry(side).expiry < now_ts
  /\ side' = remove_by_key(side, find_earliest_expiry(side).key)

SideNext == InsertLeaf \/ RemoveByKey \/ remove_min \/ remove_max \/ remove_one_expired

SideSpec == SideInit /\ [][SideNext]_side

-----------------------------------------------------------------------------
(* The nodes below h, h included. *)
Below(h) ==
  LET below[n \in Handles] ==
        {n} \cup IF is_inner(side, n)
                 THEN below[side.nodes[n].children[0]] \cup below[side.nodes[n].children[1]]
                 ELSE {}
  IN  below[h]

LeavesBelow(h) == {n \in Below(h) : side.nodes[n].tag = "leaf"}

InTree == IF side.leaf_count = 0 THEN {} ELSE Below(side.root_node)

FreeList ==
  LET list[n \in 0..Len_nodes] ==
        IF n = 0 THEN <<>>
        ELSE IF n = 1 THEN <<side.free_list_head>>
        ELSE Append(list[n - 1], side.nodes[Last(list[n - 1])].next)
  IN  list[side.free_list_len]

(* No node is lost and none is used twice: every node is in the tree, on   *)
(* the free list or not handed out yet, and in one of them only; a tree of *)
(* n leaves has 2n - 1 nodes, and the free list can be walked to its end.  *)
NodesPartitioned ==
  /\ Cardinality(InTree) = IF side.leaf_count = 0 THEN 0 ELSE 2 * side.leaf_count - 1
  /\ \A i, j \in DOMAIN FreeList : FreeList[i] = FreeList[j] => i = j
  /\ InTree \cap ToSet(FreeList) = {}
  /\ InTree \cup ToSet(FreeList) = 0 .. side.bump_index - 1
  /\ \A i \in DOMAIN FreeList :
       side.nodes[FreeList[i]].tag = IF i = Len(FreeList) THEN "last_free" ELSE "free"

(* The cached expiries are exact: an expired order is never overlooked     *)
(* because of an old cache.                                                *)
ExpiryCacheExact ==
  \A h \in InTree : is_inner(side, h) => \A b \in 0..1 :
    side.nodes[h].child_earliest_expiry[b] =
      Min({side.nodes[n].expiry : n \in LeavesBelow(side.nodes[h].children[b])})

(* is_full tells exactly when half of the nodes are leaves, and a side     *)
(* that is not full takes any order: new_bid and new_ask boot an order     *)
(* when and only when they must.                                           *)
FullExactly ==
  /\ is_full(side) <=> side.leaf_count = Len_nodes \div 2
  /\ ~is_full(side) => \A key \in Keys : insert_leaf(side, LeafNode(key, Min(Expiries))).ok

(* The orders of a tree, as its iterator yields them. *)
Orders(t) == {[key |-> n.key, expiry |-> n.expiry] : n \in ToSet(BookSideIter(t, 0))}

(* Seen through its iterator the tree is an ordered set of orders: every   *)
(* order once, asks from the lowest key and bids from the highest.  And    *)
(* every operation does to the set what it is for, in any tree that can be *)
(* built: an insert adds its order, in place of one with the same key;     *)
(* a removal takes out the order with that key and no other; find_min and  *)
(* find_max give the ends; and find_earliest_expiry gives an order that    *)
(* expires first, of several the one with the smallest key.                *)
OperationsExact ==
  LET orders == Orders(side)
      Without(key) == {o \in orders : o.key # key}
      first == Min({o.expiry : o \in orders})
      up == BookSideIter(side, 0)
  IN  /\ Len(up) = side.leaf_count /\ BookSideIter(side, 1) = Reverse(up)
      /\ \A i, j \in DOMAIN up : i < j => up[i].key < up[j].key
      /\ \A key \in Keys : Orders(remove_by_key(side, key)) = Without(key)
      /\ ~is_full(side) => \A key \in Keys, expiry \in Expiries :
           Orders(insert_leaf(side, LeafNode(key, expiry)).t)
             = Without(key) \cup {[key |-> key, expiry |-> expiry]}
      /\ orders # {} =>
           /\ find_min(side).key = Min({o.key : o \in orders})
           /\ find_max(side).key = Max({o.key : o \in orders})
           /\ find_earliest_expiry(side).expiry = first
           /\ find_earliest_expiry(side).key = Min({o.key : o \in {p \in orders : p.expiry = first}})
=============================================================================
