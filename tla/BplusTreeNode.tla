---------------------------- MODULE BplusTreeNode ----------------------------
(***************************************************************************)
(* The pages of a B+ tree file and the operations of the node handlers     *)
(* (storage/index/bplus_tree.cpp, bplus_tree_log_entry.cpp).               *)
(*                                                                         *)
(* A mini transaction is a record [tree, entries, bad, ok]: the pages as   *)
(* they are in the buffer pool, the log entries collected so far, the      *)
(* pages that cannot be read just now, and whether the last operation has  *)
(* met one of them.  Every operation of a handler maps a mini transaction  *)
(* to a mini transaction: it changes one page and appends the entry that   *)
(* can redo the change.                                                    *)
(* Positions count from 1, the code's from 0.                              *)
(***************************************************************************)
EXTENDS Naturals, Sequences, FiniteSets, SequencesExt, FiniteSetsExt

CONSTANTS
    leaf_max_size,       \* IndexFileHeader::leaf_max_size
    internal_max_size,   \* IndexFileHeader::internal_max_size
    Attrs,               \* user keys, positive integers
    MaxRid,              \* record ids are 1 .. MaxRid
    MaxPage              \* MAX_PAGE_NUM: pages 2 .. MaxPage can hold nodes

ASSUME SizeAssumption == leaf_max_size \in Nat /\ leaf_max_size > 3 /\ internal_max_size \in Nat /\ internal_max_size > 3
ASSUME KeyAssumption == Attrs \subseteq Nat \ {0} /\ MaxRid \in Nat \ {0} /\ MaxPage \in Nat

Header == 1              \* FIRST_INDEX_PAGE
NoPage == 0              \* BP_INVALID_PAGE_NUM
Pages == 2 .. MaxPage

(* A key is the attribute followed by the record id, so that equal         *)
(* attributes are told apart.  0 and MaxRid + 1 stand for RID::min() and   *)
(* RID::max().                                                             *)
make_key(attr, rid) == attr * (MaxRid + 2) + rid
AttrOf(key) == key \div (MaxRid + 2)
RidOf(key) == key % (MaxRid + 2)
RidMin == 0
RidMax == MaxRid + 1
Keys == {make_key(a, r) : a \in Attrs, r \in 1 .. MaxRid}

(* The item of a leaf holds a record id, the item of an internal node the  *)
(* page number of a child.  Key 0 is the zeroed first key of a new root.   *)
Item == [key : Keys \cup {0}, value : Nat]
Node == [is_leaf : BOOLEAN, items : Seq(Item), parent : Pages \cup {NoPage}, next : Pages \cup {NoPage}]
Blank == [is_leaf |-> FALSE, items |-> <<>>, parent |-> NoPage, next |-> NoPage]
EmptyTree == [node |-> [p \in Pages |-> Blank], header |-> NoPage, root_page |-> NoPage, allocated |-> {}]

Size(n) == Len(n.items)
KeyAt(n, i) == n.items[i].key
ChildAt(n, i) == n.items[i].value
KeysOf(n) == {KeyAt(n, i) : i \in 1 .. Size(n)}
ChildrenOf(n) == {ChildAt(n, i) : i \in 1 .. Size(n)}
max_size(n) == IF n.is_leaf THEN leaf_max_size ELSE internal_max_size
min_size(n) == max_size(n) - max_size(n) \div 2

(* A mutant: a node counts as safe for a deletion when it is exactly       *)
(* half full.                                                              *)
is_safe_AtMin(n, op, is_root_node) ==
    CASE op = "READ" -> TRUE
      [] op = "INSERT" -> Size(n) < max_size(n)
      [] op = "DELETE" -> IF is_root_node THEN Size(n) > (IF n.is_leaf THEN 1 ELSE 2)
                                          ELSE Size(n) >= min_size(n)

(* The operation cannot reach the parent of the node. *)
is_safe(n, op, is_root_node) ==
    CASE op = "READ" -> TRUE
      [] op = "INSERT" -> Size(n) < max_size(n)
      [] op = "DELETE" -> IF is_root_node THEN Size(n) > (IF n.is_leaf THEN 1 ELSE 2)
                                          ELSE Size(n) > min_size(n)

(***************************************************************************)
(* Looking up: the leaf's answer is the position at which the key is or    *)
(* belongs, the internal node's the child to go to; the first key of an    *)
(* internal node is never compared.                                        *)
(***************************************************************************)
LeafLookup(n, key) == 1 + Cardinality({i \in 1 .. Size(n) : KeyAt(n, i) < key})
Found(n, key) == key \in KeysOf(n)

(* A mutant: the child whose key equals the searched one is not taken. *)
InternalLookup_Strict(n, key) == 1 + Cardinality({i \in 2 .. Size(n) : KeyAt(n, i) < key})

InternalLookup(n, key) == 1 + Cardinality({i \in 2 .. Size(n) : KeyAt(n, i) <= key})
InsertPosition(n, key) == 2 + Cardinality({i \in 2 .. Size(n) : KeyAt(n, i) < key})

(***************************************************************************)
(* What a log entry does to the page it names: the same functions serve    *)
(* the operations and their redo.                                          *)
(***************************************************************************)
recover_insert_items(n, i, items) ==
    [n EXCEPT !.items = SubSeq(@, 1, i - 1) \o items \o SubSeq(@, i, Len(@))]
recover_remove_items(n, i, num) ==
    [n EXCEPT !.items = SubSeq(@, 1, i - 1) \o SubSeq(@, i + num, Len(@))]

ApplyToNode(n, e) ==
    CASE e.op = "SET_PARENT_PAGE"    -> [n EXCEPT !.parent = e.page_num]
      [] e.op = "LEAF_INIT_EMPTY"    -> [n EXCEPT !.is_leaf = TRUE, !.items = <<>>, !.parent = NoPage, !.next = NoPage]
      [] e.op = "LEAF_SET_NEXT_PAGE" -> [n EXCEPT !.next = e.page_num]
      [] e.op = "INTERNAL_INIT_EMPTY" -> Blank
      [] e.op = "INTERNAL_CREATE_NEW_ROOT" -> [n EXCEPT !.items = e.items \o @]
      [] e.op = "INTERNAL_UPDATE_KEY" -> [n EXCEPT !.items[e.index].key = e.key]
      [] e.op = "NODE_INSERT"        -> recover_insert_items(n, e.index, e.items)
      [] e.op = "NODE_REMOVE"        -> recover_remove_items(n, e.index, e.num)

(* update_root_page_num_locked changes the header page and the handler's   *)
(* own copy of it.                                                         *)
Apply(tree, e) ==
    IF e.op = "UPDATE_ROOT_PAGE"
      THEN [tree EXCEPT !.header = e.page_num, !.root_page = e.page_num]
      ELSE [tree EXCEPT !.node[e.page] = ApplyToNode(@, e)]

append_log_entry(m, e) == [m EXCEPT !.tree = Apply(@, e), !.entries = Append(@, e)]

set_parent_page_num(m, p, parent) ==
    append_log_entry(m, [op |-> "SET_PARENT_PAGE", page |-> p, page_num |-> parent])
set_next_page(m, p, next) ==
    append_log_entry(m, [op |-> "LEAF_SET_NEXT_PAGE", page |-> p, page_num |-> next])
update_root_page_num_locked(m, root) ==
    append_log_entry(m, [op |-> "UPDATE_ROOT_PAGE", page |-> Header, page_num |-> root])
init_empty(m, p, is_leaf) ==
    append_log_entry(m, [op |-> IF is_leaf THEN "LEAF_INIT_EMPTY" ELSE "INTERNAL_INIT_EMPTY", page |-> p])
create_new_root(m, p, first, key, second) ==
    append_log_entry(m, [op |-> "INTERNAL_CREATE_NEW_ROOT", page |-> p,
                         items |-> <<[key |-> 0, value |-> first], [key |-> key, value |-> second]>>])
set_key_at(m, p, i, key) ==
    append_log_entry(m, [op |-> "INTERNAL_UPDATE_KEY", page |-> p, index |-> i, key |-> key])
node_insert_items(m, p, i, items) ==
    append_log_entry(m, [op |-> "NODE_INSERT", page |-> p, index |-> i, items |-> items])
node_remove_items(m, p, i, num) ==
    append_log_entry(m, [op |-> "NODE_REMOVE", page |-> p, index |-> i, num |-> num])

(* Children that arrive in an internal node get it as their parent, up to  *)
(* the first one whose page cannot be read: the items are in by then.      *)
insert_items(m, p, i, items) ==
    LET inserted == node_insert_items(m, p, i, items)
        unread == {j \in 1 .. Len(items) : items[j].value \in m.bad}
        read == SubSeq(items, 1, Min(unread \cup {Len(items) + 1}) - 1) IN
    IF m.tree.node[p].is_leaf THEN inserted
    ELSE [FoldLeft(LAMBDA acc, item : set_parent_page_num(acc, item.value, p), inserted, read)
            EXCEPT !.ok = unread = {}]

append_items(m, p, items) == insert_items(m, p, Size(m.tree.node[p]) + 1, items)

InternalInsert(m, p, key, child) ==
    node_insert_items(m, p, InsertPosition(m.tree.node[p], key), <<[key |-> key, value |-> child]>>)

(* A move is an insertion there and then a removal here; when the          *)
(* insertion reports a page that cannot be read, the removal is left out   *)
(* and the items are in both nodes.                                        *)
ThenRemove(inserted, p, i, num) == IF inserted.ok THEN node_remove_items(inserted, p, i, num) ELSE inserted

move_half_to(m, p, other) ==
    LET n == m.tree.node[p]
        half == Size(n) \div 2 IN
    ThenRemove(append_items(m, other, SubSeq(n.items, half + 1, Size(n))), p, half + 1, Size(n) - half)

(* Everything to the left neighbour; a leaf hands over its successor too   *)
(* (move_to and the caller coalesce both write it).                        *)
move_to(m, p, left) ==
    LET n == m.tree.node[p]
        appended == append_items(m, left, n.items)
        linked == IF n.is_leaf THEN set_next_page(appended, left, n.next) ELSE appended IN
    ThenRemove(linked, p, 1, Size(n))

move_first_to_end(m, p, left) ==
    ThenRemove(append_items(m, left, <<m.tree.node[p].items[1]>>), p, 1, 1)

move_last_to_front(m, p, right) ==
    LET n == m.tree.node[p] IN
    ThenRemove(insert_items(m, right, 1, <<Last(n.items)>>), p, Size(n), 1)

(***************************************************************************)
(* validate_tree(): the order of the keys inside a node, the keys of a     *)
(* child between the keys of its parent, the parent numbers, the sizes     *)
(* and the chain of leaves.                                                *)
(***************************************************************************)
ValidateNode(tree, p) ==
    LET n == tree.node[p]
        first == IF n.is_leaf THEN 1 ELSE 2
        parent == tree.node[n.parent]
        at == CHOOSE i \in 1 .. Size(parent) : ChildAt(parent, i) = p IN
    /\ \A i \in first + 1 .. Size(n) : KeyAt(n, i - 1) < KeyAt(n, i)
    /\ n.parent = NoPage => Size(n) >= first
    /\ ~n.is_leaf => \A c \in ChildrenOf(n) : tree.node[c].parent = p
    /\ n.parent # NoPage =>
        /\ p \in ChildrenOf(parent)
        /\ at > 1 => KeyAt(n, first) >= KeyAt(parent, at)
        /\ at < Size(parent) => KeyAt(n, Size(n)) < KeyAt(parent, at + 1)

(* Pages below a page, level by level. *)
Descend(tree, ps) == UNION {ChildrenOf(tree.node[p]) : p \in {q \in ps : ~tree.node[q].is_leaf}}
Level(tree, d) == LET level[i \in 0 .. d] == IF i = 0 THEN {tree.header} \ {NoPage} ELSE Descend(tree, level[i - 1])
                  IN level[d]
Reachable(tree) == UNION {Level(tree, d) : d \in 0 .. MaxPage}
Leaves(tree) == {p \in Reachable(tree) : tree.node[p].is_leaf}
TreeKeys(tree) == UNION {KeysOf(tree.node[p]) : p \in Leaves(tree)}

(* The page at which a search for a key ends, going down from the root. *)
FindLeaf(tree, key) ==
    LET at[i \in 0 .. MaxPage] ==
            IF i = 0 THEN tree.header
            ELSE LET n == tree.node[at[i - 1]] IN IF n.is_leaf THEN at[i - 1] ELSE ChildAt(n, InternalLookup(n, key))
    IN at[MaxPage]

(* What the index holds, also while a split or a merge is under way. *)
LeafKeys(tree) == UNION {KeysOf(tree.node[p]) : p \in {q \in tree.allocated : tree.node[q].is_leaf}}

validate_leaf_link(tree) ==
    LET leftmost == {p \in Leaves(tree) : \A q \in Leaves(tree) : tree.node[q].next # p} IN
    /\ Cardinality(leftmost) = 1
    /\ \A p \in Leaves(tree) : LET n == tree.node[p] IN
        n.next # NoPage =>
            /\ n.next \in Leaves(tree)
            /\ KeyAt(n, Size(n)) < KeyAt(tree.node[n.next], 1)
    /\ Cardinality({p \in Leaves(tree) : tree.node[p].next = NoPage}) = 1

validate_tree(tree) ==
    tree.header # NoPage =>
        /\ \A p \in Reachable(tree) : ValidateNode(tree, p)
        /\ validate_leaf_link(tree)
=============================================================================
