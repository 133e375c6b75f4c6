------------------------------ MODULE BplusTree ------------------------------
(***************************************************************************)
(* Threads that insert into, delete from and scan one B+ tree              *)
(* (storage/index/bplus_tree.cpp, latch_memo.cpp).                         *)
(*                                                                         *)
(* A thread goes down from the root with latch crabbing, changes the leaf, *)
(* and walks up again to split or merge.  Its latch memo lists the pins    *)
(* and latches it holds, in the order in which it took them; who holds a   *)
(* latch is read off the memos.  One action is the code between two points *)
(* at which the thread may have to wait, or one level of the way up.       *)
(***************************************************************************)
EXTENDS BplusTreeNode

CONSTANTS
    Threads,     \* the threads that serve clients
    Builder,     \* the one that builds the tree of a scenario
    Scenarios    \* what the threads do: see Init

Root == 0                \* root_lock_ in a latch memo
FirstKey == 0            \* a scan without left bound
LastKey == make_key(1 + Max(Attrs), RidMax)   \* a scan without right bound

VARIABLES
    tree,       \* the pages in the buffer pool and file_header_.root_page
    pc,         \* where a thread is
    call,       \* its operation: [op, key], for a scan [op, key, right]
    frame,      \* the page it works on
    other,      \* the new page after a split, the neighbour during a merge
    up,         \* the key to insert into the parent
    memo,       \* LatchMemo::items_
    disposed,   \* LatchMemo::disposed_pages_
    entries,    \* BplusTreeLogger::entries_
    iter,       \* BplusTreeScanner: iter_index_ and what it has returned
    rc,         \* the result of the operation
    seen,       \* what the index held while a scan ran: [must, may]
    plan,       \* operations and failing reads the scenario still allows
    broken      \* the thread whose operation went on after a failing read, if any

threadVars == <<pc, call, frame, other, up, memo, disposed, entries, iter, rc, seen, plan, broken>>
vars == <<tree, pc, call, frame, other, up, memo, disposed, entries, iter, rc, seen, plan, broken>>

NoCall == [op |-> "NONE", key |-> 0, right |-> 0]
ScanBounds == {make_key(a, r) : a \in Attrs, r \in {RidMin, RidMax}}
Calls == [op : {"INSERT", "DELETE"}, key : Keys, right : {0}]
         \cup [op : {"READ"}, key : ScanBounds \cup {FirstKey}, right : ScanBounds \cup {LastKey}]

TypeOK ==
    /\ tree.node \in [Pages -> Node] /\ tree.allocated \subseteq Pages
    /\ {tree.header, tree.root_page} \subseteq Pages \cup {NoPage}
    /\ pc \in [Threads -> {"idle", "create", "root", "latch", "leaf", "parent", "coalesce", "neighbor",
                           "slatch", "scan", "commit", "rollback", "release", "dispose", "dead"}]
    /\ call \in [Threads -> Calls \cup {NoCall}] /\ frame \in [Threads -> Pages \cup {NoPage}]
    /\ other \in [Threads -> Pages \cup {NoPage}] /\ up \in [Threads -> Keys \cup {0}]
    /\ \A t \in Threads : \A i \in 1 .. Len(memo[t]) :
        memo[t][i] \in {"P", "S", "X"} \X ({Root, Header} \cup Pages)
    /\ disposed \in [Threads -> Seq(Pages)] /\ broken \subseteq Threads

(***************************************************************************)
(* A scenario: the calls that build the tree one after the other, then the *)
(* sets of calls from which each thread makes its own, one after the       *)
(* other, the calls that one thread may go on making for ever, the last    *)
(* page the file can hold, and how many reads of a page may fail.          *)
(***************************************************************************)
Init ==
    /\ plan \in Scenarios /\ broken = {}
    /\ tree = EmptyTree
    /\ pc = [t \in Threads |-> "idle"] /\ call = [t \in Threads |-> NoCall]
    /\ frame = [t \in Threads |-> NoPage] /\ other = [t \in Threads |-> NoPage]
    /\ up = [t \in Threads |-> 0] /\ memo = [t \in Threads |-> <<>>]
    /\ disposed = [t \in Threads |-> <<>>] /\ entries = [t \in Threads |-> <<>>]
    /\ iter = [t \in Threads |-> [index |-> 0, out |-> <<>>]]
    /\ rc = [t \in Threads |-> "SUCCESS"]
    /\ seen = [t \in Threads |-> [must |-> {}, may |-> {}]]

(***************************************************************************)
(* Latches.  Readers share, and a waiting writer does not keep readers out *)
(* (RecursiveSharedMutex).                                                 *)
(***************************************************************************)
Holds(t, mode, p) == <<mode, p>> \in ToSet(memo[t])
Free(t, mode, p) ==
    \A u \in Threads \ {t} : ~Holds(u, "X", p) /\ (mode = "X" => ~Holds(u, "S", p))
Mode(op) == IF op = "READ" THEN "S" ELSE "X"
Latched(m, mode, p) == Append(m, <<mode, p>>)
Pinned(m, p) == Append(m, <<"P", p>>)

(* The pins on the children that got a new parent since the mini           *)
(* transaction was as entries says.                                        *)
AdoptionPins(t, m) ==
    LET adopted == SelectSeq(SubSeq(m.entries, Len(entries[t]) + 1, Len(m.entries)), LAMBDA e : e.op = "SET_PARENT_PAGE")
    IN [i \in 1 .. Len(adopted) |-> <<"P", adopted[i].page>>]

Mtr(t) == [tree |-> tree, entries |-> entries[t], bad |-> {}, ok |-> TRUE]
Changes(t, m) == tree' = m.tree /\ entries' = [entries EXCEPT ![t] = m.entries]
Goto(t, l) == pc' = [pc EXCEPT ![t] = l]
NodeOf(t) == tree.node[frame[t]]

(* The lowest free page, as DiskBufferPool::allocate_page takes it; the    *)
(* file of a scenario may hold fewer than MaxPage pages.                   *)
FreePages == {p \in Pages \ tree.allocated : p <= plan.limit}
HasFree == FreePages # {}
FreePage == Min(FreePages)
allocate_page(m, p) == [m EXCEPT !.tree.allocated = @ \cup {p}]

(* An operation that fails: the destructor of its mini transaction rolls   *)
(* back what it has done.                                                  *)
Fail(t, r) ==
    /\ rc' = [rc EXCEPT ![t] = r] /\ Goto(t, "rollback")
    /\ UNCHANGED <<tree, call, frame, other, up, memo, disposed, entries, iter, seen, plan, broken>>

(* A page that nobody has pinned may have left the buffer pool, and then   *)
(* the read of it may fail: the sets of pages, none or one, that cannot be *)
(* read while a step looks for those in ps.                                *)
Unreadable(ps) == {{}} \cup {{p} : p \in {q \in ps : plan.faults > 0 /\ \A u \in Threads : ~Holds(u, "P", q)}}
Reads(bad) == plan' = [plan EXCEPT !.faults = @ - Cardinality(bad)]
CannotRead(p) == {p} \in Unreadable({p}) /\ Reads({p})

(* get_page answers with an error, which the operation returns. *)
FailedRead(t, p) ==
    /\ CannotRead(p)
    /\ rc' = [rc EXCEPT ![t] = "IOERR_READ"] /\ Goto(t, "rollback")
    /\ UNCHANGED <<tree, call, frame, other, up, disposed, entries, iter, seen, broken>>

(* update_root_page_num_locked does not look at the answer: it latches the *)
(* frame it has not got, and the process dies.                             *)
FailedHeaderRead ==
    /\ CannotRead(Header)
    /\ pc' = [u \in Threads |-> "dead"]
    /\ UNCHANGED <<tree, call, frame, other, up, memo, disposed, entries, iter, rc, seen, broken>>

(***************************************************************************)
(* Starting an operation                                                   *)
(***************************************************************************)
InRange(k, c) == c.key <= k /\ k <= c.right
Present == LeafKeys(tree)

(* The bounds of a scan: left after right, or equal and one excluded. *)
Invalid(c) ==
    /\ c.op = "READ" /\ c.key # FirstKey /\ c.right # LastKey
    /\ \/ AttrOf(c.key) > AttrOf(c.right)
       \/ AttrOf(c.key) = AttrOf(c.right) /\ ~(RidOf(c.key) = RidMin /\ RidOf(c.right) = RidMax)

Chosen(t, c) ==
    \/ /\ plan.build # <<>> /\ t = Builder /\ c = Head(plan.build)
       /\ plan' = [plan EXCEPT !.build = Tail(@)]
    \/ /\ plan.build = <<>> /\ plan.work[t] # <<>> /\ c \in Head(plan.work[t])
       /\ plan' = [plan EXCEPT !.work[t] = Tail(@)]
    \/ /\ plan.build = <<>> /\ t = Builder /\ c \in plan.free
       /\ UNCHANGED plan

Begin(t) ==
    /\ pc[t] = "idle" /\ broken = {}
    /\ \E c \in Calls :
        /\ Chosen(t, c)
        /\ call' = [call EXCEPT ![t] = c]
        /\ Goto(t, CASE Invalid(c) -> "rollback"
                     [] c.op = "INSERT" /\ tree.root_page = NoPage -> "create"
                     [] OTHER -> "root")
        /\ rc' = [rc EXCEPT ![t] = IF Invalid(c) THEN "INVALID_ARGUMENT" ELSE "RUNNING"]
        /\ seen' = [seen EXCEPT ![t] = IF c.op # "READ" THEN [must |-> {}, may |-> {}] ELSE
                       LET in == {k \in Present : InRange(k, c)} IN [must |-> in, may |-> in]]
    /\ UNCHANGED <<tree, frame, other, up, memo, disposed, entries, iter, broken>>

(* What the scans that are under way may and must return. *)
Scanning(u) == call[u].op = "READ" /\ rc[u] = "RUNNING"
Appears(k) == seen' = [u \in Threads |->
                  IF Scanning(u) /\ InRange(k, call[u]) THEN [seen[u] EXCEPT !.may = @ \cup {k}] ELSE seen[u]]
Disappears(k) == seen' = [u \in Threads |-> IF Scanning(u) THEN [seen[u] EXCEPT !.must = @ \ {k}] ELSE seen[u]]

(* insert_entry on an empty tree: create_new_tree under root_lock_, which  *)
(* is given back before the mini transaction commits.                      *)
create_new_tree(t) ==
    /\ pc[t] = "create" /\ Free(t, "X", Root)
    /\ \/ /\ tree.root_page # NoPage /\ Goto(t, "root")
          /\ UNCHANGED <<tree, call, frame, other, up, memo, disposed, entries, iter, rc, seen, plan, broken>>
       \/ tree.root_page = NoPage /\ ~HasFree /\ Fail(t, "NOBUF")
       \/ tree.root_page = NoPage /\ HasFree /\ FailedHeaderRead
       \/ /\ tree.root_page = NoPage /\ HasFree /\ Free(t, "X", Header)
          /\ LET p == FreePage
                 k == call[t].key
                 leaf == init_empty(allocate_page(Mtr(t), p), p, TRUE)
                 full == node_insert_items(leaf, p, 1, <<[key |-> k, value |-> RidOf(k)]>>) IN
             /\ Changes(t, update_root_page_num_locked(full, p))
             /\ memo' = [memo EXCEPT ![t] = <<<<"P", p>>, <<"P", Header>>, <<"X", Header>>>>]
             /\ Appears(k)
          /\ rc' = [rc EXCEPT ![t] = "SUCCESS"] /\ Goto(t, "commit")
          /\ UNCHANGED <<call, frame, other, up, disposed, iter, plan, broken>>

(***************************************************************************)
(* find_leaf_internal                                                      *)
(***************************************************************************)
LockRoot(t) ==
    LET locked == Latched(memo[t], Mode(call[t].op), Root) IN
    /\ pc[t] = "root" /\ Free(t, Mode(call[t].op), Root)
    /\ \/ /\ tree.root_page = NoPage
          /\ rc' = [rc EXCEPT ![t] = CASE call[t].op = "READ" -> "RECORD_EOF"
                                            [] call[t].op = "DELETE" -> "RECORD_NOT_EXIST"
                                            [] OTHER -> "EMPTY"]
          /\ memo' = [memo EXCEPT ![t] = locked] /\ Goto(t, "rollback")
          /\ UNCHANGED <<tree, call, frame, other, up, disposed, entries, iter, seen, plan, broken>>
       \/ /\ tree.root_page # NoPage
          /\ memo' = [memo EXCEPT ![t] = Pinned(locked, tree.root_page)]
          /\ frame' = [frame EXCEPT ![t] = tree.root_page] /\ Goto(t, "latch")
          /\ UNCHANGED <<tree, call, other, up, disposed, entries, iter, rc, seen, plan, broken>>
       \/ /\ tree.root_page # NoPage /\ FailedRead(t, tree.root_page)
          /\ memo' = [memo EXCEPT ![t] = locked]

(* A mutant: everything above is given back whether the node is safe or    *)
(* not.                                                                    *)
Crabbed_Always(m, n, op, is_root_node) == SubSeq(m, Len(m) - 1, Len(m))

(* The memo after the latch on n: when n is safe, what was taken before    *)
(* its pin is released.                                                    *)
Crabbed(m, n, op, is_root_node) ==
    IF is_safe(n, op, is_root_node) THEN SubSeq(m, Len(m) - 1, Len(m)) ELSE m

(* Where the scan goes: the leftmost page or the page of the left key. *)
ChildFor(n, c) == IF c.op = "READ" /\ c.key = FirstKey THEN ChildAt(n, 1) ELSE ChildAt(n, InternalLookup(n, c.key))

crabing_protocal_fetch_page(t) ==
    LET op == call[t].op
        n == NodeOf(t)
        held == Crabbed(Latched(memo[t], Mode(op), frame[t]), n, op, frame[t] = tree.root_page) IN
    /\ pc[t] = "latch" /\ Free(t, Mode(op), frame[t])
    /\ \/ /\ n.is_leaf
          /\ memo' = [memo EXCEPT ![t] = held] /\ Goto(t, "leaf")
          /\ UNCHANGED <<tree, call, frame, other, up, disposed, entries, iter, rc, seen, plan, broken>>
       \/ /\ ~n.is_leaf
          /\ LET child == ChildFor(n, call[t]) IN
             /\ memo' = [memo EXCEPT ![t] = Pinned(held, child)]
             /\ frame' = [frame EXCEPT ![t] = child]
          /\ UNCHANGED <<tree, pc, call, other, up, disposed, entries, iter, rc, seen, plan, broken>>
       \/ /\ ~n.is_leaf /\ FailedRead(t, ChildFor(n, call[t]))
          /\ memo' = [memo EXCEPT ![t] = held]

(***************************************************************************)
(* insert_entry_into_leaf_node and insert_entry_into_parent                *)
(***************************************************************************)
Split(t, m, p, new) ==
    LET parent == m.tree.node[p].parent
        blank == init_empty(allocate_page(m, new), new, m.tree.node[p].is_leaf) IN
    move_half_to(set_parent_page_num(blank, new, parent), p, new)

SplitLeaf(t, p, new, k) ==
    LET pos == LeafLookup(tree.node[p], k)
        item == <<[key |-> k, value |-> RidOf(k)]>>
        half == Split(t, Mtr(t), p, new)
        linked == set_next_page(set_parent_page_num(set_next_page(half, new, half.tree.node[p].next),
                                                    new, half.tree.node[p].parent), p, new)
        left == Size(linked.tree.node[p]) IN
    IF pos <= left THEN node_insert_items(linked, p, pos, item)
                   ELSE node_insert_items(linked, new, pos - left, item)

Inserted(t) ==
    /\ rc' = [rc EXCEPT ![t] = "SUCCESS"]
    /\ Appears(call[t].key)

insert_entry_into_leaf_node(t) ==
    LET k == call[t].key
        n == NodeOf(t)
        p == frame[t] IN
    /\ pc[t] = "leaf" /\ call[t].op = "INSERT"
    /\ \/ /\ Found(n, k) /\ Fail(t, "RECORD_DUPLICATE_KEY")
       \/ /\ ~Found(n, k) /\ Size(n) < max_size(n)
          /\ Changes(t, node_insert_items(Mtr(t), p, LeafLookup(n, k), <<[key |-> k, value |-> RidOf(k)]>>))
          /\ Inserted(t) /\ Goto(t, "commit")
          /\ UNCHANGED <<call, frame, other, up, memo, disposed, iter, plan, broken>>
       \/ /\ ~Found(n, k) /\ Size(n) = max_size(n) /\ ~HasFree /\ Fail(t, "NOBUF")
       \/ /\ ~Found(n, k) /\ Size(n) = max_size(n) /\ HasFree
          /\ LET new == FreePage
                 m == SplitLeaf(t, p, new, k) IN
             /\ Changes(t, m)
             /\ other' = [other EXCEPT ![t] = new]
             /\ up' = [up EXCEPT ![t] = KeyAt(m.tree.node[new], 1)]
             /\ memo' = [memo EXCEPT ![t] = Latched(Pinned(@, new), "X", new)]
          /\ Inserted(t) /\ Goto(t, "parent")
          /\ UNCHANGED <<call, frame, disposed, iter, plan, broken>>

(* The root was split: a new root above both halves.  Its page is pinned   *)
(* only while it is written.                                               *)
NewRoot(t) ==
    LET r == FreePage
        root == create_new_root(init_empty(allocate_page(Mtr(t), r), r, FALSE), r, frame[t], up[t], other[t])
        adopted == set_parent_page_num(set_parent_page_num(root, frame[t], r), other[t], r) IN
    /\ Free(t, "X", Header)
    /\ Changes(t, update_root_page_num_locked(adopted, r))
    /\ memo' = [memo EXCEPT ![t] = Latched(Pinned(@, Header), "X", Header)]
    /\ Goto(t, "commit")
    /\ UNCHANGED <<call, frame, other, up, disposed, iter, rc, seen, plan, broken>>

(* The parent is full: it is split too, and the walk goes on above it.     *)
(* split does not look at the answer of move_half_to.                      *)
SplitParent(t, parent, bad) ==
    LET new == FreePage
        half == Split(t, [Mtr(t) EXCEPT !.bad = bad], parent, new)
        into == IF up[t] > KeyAt(half.tree.node[new], 1) THEN new ELSE parent
        m == set_parent_page_num(InternalInsert(half, into, up[t], other[t]), other[t], into) IN
    /\ half.ok = (bad = {}) /\ Reads(bad)
    /\ Changes(t, m)
    /\ broken' = IF half.ok THEN broken ELSE {t}
    /\ frame' = [frame EXCEPT ![t] = parent]
    /\ other' = [other EXCEPT ![t] = new]
    /\ up' = [up EXCEPT ![t] = KeyAt(m.tree.node[new], 1)]
    /\ memo' = [memo EXCEPT ![t] = Latched(Pinned(Pinned(@, parent), new), "X", new) \o AdoptionPins(t, m)]
    /\ UNCHANGED <<pc, call, disposed, iter, rc, seen>>

insert_entry_into_parent(t) ==
    LET parent == NodeOf(t).parent IN
    /\ pc[t] = "parent"
    /\ \/ /\ parent = NoPage /\ HasFree /\ NewRoot(t)
       \/ /\ parent = NoPage /\ HasFree /\ FailedHeaderRead
       \/ /\ parent # NoPage /\ Size(tree.node[parent]) < max_size(tree.node[parent])
          /\ Changes(t, set_parent_page_num(InternalInsert(Mtr(t), parent, up[t], other[t]), other[t], parent))
          /\ memo' = [memo EXCEPT ![t] = Pinned(@, parent)]
          /\ Goto(t, "commit")
          /\ UNCHANGED <<call, frame, other, up, disposed, iter, rc, seen, plan, broken>>
       \/ /\ parent # NoPage /\ Size(tree.node[parent]) = max_size(tree.node[parent]) /\ HasFree
          /\ \E bad \in Unreadable(ChildrenOf(tree.node[parent])) : SplitParent(t, parent, bad)
       \/ /\ ~HasFree
          /\ parent # NoPage => Size(tree.node[parent]) = max_size(tree.node[parent])
          /\ Fail(t, "NOBUF")

(***************************************************************************)
(* delete_entry_internal, coalesce_or_redistribute and their callees       *)
(***************************************************************************)
delete_entry_internal(t) ==
    LET k == call[t].key
        n == NodeOf(t)
        m == node_remove_items(Mtr(t), frame[t], LeafLookup(n, k), 1) IN
    /\ pc[t] = "leaf" /\ call[t].op = "DELETE"
    /\ \/ /\ ~Found(n, k) /\ Fail(t, "RECORD_NOT_EXIST")
       \/ /\ Found(n, k)
          /\ Changes(t, m)
          /\ rc' = [rc EXCEPT ![t] = "SUCCESS"]
          /\ Disappears(k)
          /\ Goto(t, IF Size(n) - 1 >= min_size(n) THEN "commit" ELSE "coalesce")
          /\ UNCHANGED <<call, frame, other, up, memo, disposed, iter, plan, broken>>

(* The root is empty, or has one child left that becomes the root.  Its    *)
(* frame is not marked dirty, but the read of it cannot fail, although the *)
(* code provides for it: see RootChildPinned.                              *)
adjust_root(t) ==
    LET n == NodeOf(t)
        child == ChildAt(n, 1)
        m == IF n.is_leaf THEN update_root_page_num_locked(Mtr(t), NoPage)
             ELSE update_root_page_num_locked(set_parent_page_num(Mtr(t), child, NoPage), child) IN
    IF n.is_leaf /\ Size(n) > 0
      THEN UNCHANGED <<tree, entries, memo, disposed>>
      ELSE /\ Free(t, "X", Header)
           /\ Changes(t, m)
           /\ memo' = [memo EXCEPT ![t] = Latched(Pinned(IF n.is_leaf THEN @ ELSE Pinned(@, child), Header), "X", Header)]
           /\ disposed' = [disposed EXCEPT ![t] = Append(@, frame[t])]

PositionIn(parent, t) == InternalLookup(tree.node[parent], KeyAt(NodeOf(t), Size(NodeOf(t))))

coalesce_or_redistribute(t) ==
    LET n == NodeOf(t)
        parent == n.parent IN
    /\ pc[t] = "coalesce"
    /\ \/ /\ Size(n) >= min_size(n) \/ (parent = NoPage /\ Size(n) > 1)
          /\ Goto(t, "commit")
          /\ UNCHANGED <<tree, call, frame, other, up, memo, disposed, entries, iter, rc, seen, plan, broken>>
       \/ /\ Size(n) < min_size(n) /\ parent = NoPage /\ Size(n) <= 1
          /\ adjust_root(t)
          /\ Goto(t, "commit") /\ UNCHANGED <<call, frame, other, up, iter, rc, seen, plan, broken>>
       \/ /\ Size(n) < min_size(n) /\ parent = NoPage /\ Size(n) <= 1
          /\ ~(n.is_leaf /\ Size(n) > 0) /\ FailedHeaderRead
       \/ /\ Size(n) < min_size(n) /\ parent # NoPage
          /\ LET at == PositionIn(parent, t)
                 neighbor == ChildAt(tree.node[parent], IF at = 1 THEN 2 ELSE at - 1)
                 held == Pinned(memo[t], parent) IN
             \/ /\ other' = [other EXCEPT ![t] = neighbor]
                /\ memo' = [memo EXCEPT ![t] = Pinned(held, neighbor)]
                /\ Goto(t, "neighbor")
                /\ UNCHANGED <<tree, call, frame, up, disposed, entries, iter, rc, seen, plan, broken>>
             \/ FailedRead(t, neighbor) /\ memo' = [memo EXCEPT ![t] = held]

(* Everything of the right node goes to the left one.  Of the frames only  *)
(* those of the children are marked dirty.  A child that cannot be read    *)
(* ends the operation.                                                     *)
coalesce(t, parent, at, bad) ==
    LET left == IF at = 1 THEN frame[t] ELSE other[t]
        right == IF at = 1 THEN other[t] ELSE frame[t]
        removed == node_remove_items([Mtr(t) EXCEPT !.bad = bad], parent, IF at = 1 THEN 2 ELSE at, 1)
        m == move_to(removed, right, left) IN
    /\ m.ok = (bad = {})
    /\ Changes(t, m)
    /\ memo' = [memo EXCEPT ![t] = Latched(@, "X", other[t]) \o AdoptionPins(t, m)]
    /\ disposed' = IF m.ok THEN [disposed EXCEPT ![t] = Append(@, right)] ELSE disposed
    /\ frame' = IF m.ok THEN [frame EXCEPT ![t] = parent] ELSE frame
    /\ rc' = IF m.ok THEN rc ELSE [rc EXCEPT ![t] = "IOERR_READ"]
    /\ Goto(t, IF m.ok THEN "coalesce" ELSE "rollback")
    /\ UNCHANGED broken

Moved(t, at, bad) ==
    LET m == [Mtr(t) EXCEPT !.bad = bad] IN
    IF at = 1 THEN move_first_to_end(m, other[t], frame[t]) ELSE move_last_to_front(m, other[t], frame[t])

(* A mutant: the key between the two nodes stays as it was. *)
redistribute_KeepKey(t, parent, at, bad) ==
    LET moved == Moved(t, at, bad) IN
    /\ moved.ok = (bad = {})
    /\ Changes(t, moved)
    /\ broken' = IF moved.ok THEN broken ELSE {t}
    /\ memo' = [memo EXCEPT ![t] = Latched(@, "X", other[t]) \o AdoptionPins(t, moved)]
    /\ Goto(t, "commit") /\ UNCHANGED <<frame, disposed, rc>>

(* One item of the neighbour comes over; nobody looks whether it did. *)
redistribute(t, parent, at, bad) ==
    LET moved == Moved(t, at, bad)
        right == IF at = 1 THEN other[t] ELSE frame[t] IN
    /\ moved.ok = (bad = {})
    /\ broken' = IF moved.ok THEN broken ELSE {t}
    /\ Changes(t, set_key_at(moved, parent, IF at = 1 THEN 2 ELSE at, KeyAt(moved.tree.node[right], 1)))
    /\ memo' = [memo EXCEPT ![t] = Latched(@, "X", other[t]) \o AdoptionPins(t, moved)]
    /\ Goto(t, "commit") /\ UNCHANGED <<frame, disposed, rc>>

LatchNeighbor(t) ==
    LET n == NodeOf(t)
        at == PositionIn(n.parent, t)
        children == IF n.is_leaf THEN {} ELSE ChildrenOf(n) \cup ChildrenOf(tree.node[other[t]]) IN
    /\ pc[t] = "neighbor" /\ Free(t, "X", other[t])
    /\ \E bad \in Unreadable(children) :
        /\ IF Size(n) + Size(tree.node[other[t]]) > max_size(n)
             THEN redistribute(t, n.parent, at, bad) ELSE coalesce(t, n.parent, at, bad)
        /\ Reads(bad)
    /\ UNCHANGED <<call, other, up, iter, seen>>

(***************************************************************************)
(* BplusTreeScanner                                                        *)
(***************************************************************************)
TouchEnd(n, i, c) == c.right # LastKey /\ KeyAt(n, i) > c.right
Ended(t, r) == rc' = [rc EXCEPT ![t] = r] /\ Goto(t, "rollback")

(* open: the first entry at or after the left key, perhaps on the next     *)
(* page, whose latch is waited for with the latch on this page held.       *)
ScannerOpen(t) ==
    LET n == NodeOf(t)
        first == IF call[t].key = FirstKey THEN 1 ELSE LeafLookup(n, call[t].key) IN
    /\ pc[t] = "leaf" /\ call[t].op = "READ"
    /\ \/ /\ first <= Size(n)
          /\ iter' = [iter EXCEPT ![t].index = first]
          /\ IF TouchEnd(n, first, call[t]) THEN Ended(t, "RECORD_EOF") ELSE Goto(t, "scan") /\ UNCHANGED rc
          /\ UNCHANGED <<tree, call, frame, other, up, memo, disposed, entries, seen, plan, broken>>
       \/ /\ first > Size(n) /\ n.next = NoPage
          /\ Ended(t, "RECORD_EOF") /\ memo' = [memo EXCEPT ![t] = <<>>]
          /\ UNCHANGED <<tree, call, frame, other, up, disposed, entries, iter, seen, plan, broken>>
       \/ /\ first > Size(n) /\ n.next # NoPage
          /\ memo' = [memo EXCEPT ![t] = Pinned(@, n.next)] /\ frame' = [frame EXCEPT ![t] = n.next]
          /\ Goto(t, "slatch")
          /\ UNCHANGED <<tree, call, other, up, disposed, entries, iter, rc, seen, plan, broken>>
       \/ /\ first > Size(n) /\ n.next # NoPage
          /\ FailedRead(t, n.next) /\ UNCHANGED memo

ScannerOpenNext(t) ==
    /\ pc[t] = "slatch" /\ Free(t, "S", frame[t])
    /\ memo' = [memo EXCEPT ![t] = Latched(@, "S", frame[t])]
    /\ iter' = [iter EXCEPT ![t].index = 1]
    /\ IF TouchEnd(NodeOf(t), 1, call[t]) THEN Ended(t, "RECORD_EOF") ELSE Goto(t, "scan") /\ UNCHANGED rc
    /\ UNCHANGED <<tree, call, frame, other, up, disposed, entries, seen, plan, broken>>

(* A mutant: the scan goes on without the latch on the next page. *)
next_entry_NoLatch(t) ==
    LET n == NodeOf(t)
        i == iter[t].index IN
    /\ pc[t] = "scan"
    /\ \/ /\ i <= Size(n)
          /\ IF TouchEnd(n, i, call[t])
               THEN Ended(t, "RECORD_EOF") /\ UNCHANGED iter
               ELSE /\ iter' = [iter EXCEPT ![t] = [index |-> i + 1, out |-> Append(@.out, KeyAt(n, i))]]
                    /\ UNCHANGED <<pc, rc>>
          /\ UNCHANGED <<frame, memo>>
       \/ /\ i > Size(n) /\ n.next = NoPage
          /\ Ended(t, "RECORD_EOF") /\ UNCHANGED <<frame, memo, iter>>
       \/ /\ i > Size(n) /\ n.next # NoPage
          /\ frame' = [frame EXCEPT ![t] = n.next]
          /\ memo' = [memo EXCEPT ![t] = <<<<"P", n.next>>>>]
          /\ iter' = [iter EXCEPT ![t].index = 1] /\ UNCHANGED <<pc, rc>>
    /\ UNCHANGED <<tree, call, other, up, disposed, entries, seen, plan, broken>>

(* next_entry: the next page is only tried; when its latch is taken the    *)
(* scan gives up with LOCKED_NEED_WAIT.                                    *)
next_entry(t) ==
    LET n == NodeOf(t)
        i == iter[t].index IN
    /\ pc[t] = "scan"
    /\ \/ /\ i <= Size(n)
          /\ IF TouchEnd(n, i, call[t])
               THEN Ended(t, "RECORD_EOF") /\ UNCHANGED iter
               ELSE /\ iter' = [iter EXCEPT ![t] = [index |-> i + 1, out |-> Append(@.out, KeyAt(n, i))]]
                    /\ UNCHANGED <<pc, rc>>
          /\ UNCHANGED <<tree, call, frame, other, up, memo, disposed, entries, seen, plan, broken>>
       \/ /\ i > Size(n) /\ n.next = NoPage
          /\ Ended(t, "RECORD_EOF")
          /\ UNCHANGED <<tree, call, frame, other, up, memo, disposed, entries, iter, seen, plan, broken>>
       \/ /\ i > Size(n) /\ n.next # NoPage
          /\ frame' = [frame EXCEPT ![t] = n.next]
          /\ IF Free(t, "S", n.next)
               THEN /\ memo' = [memo EXCEPT ![t] = <<<<"P", n.next>>, <<"S", n.next>>>>]
                    /\ iter' = [iter EXCEPT ![t].index = 1] /\ UNCHANGED <<pc, rc>>
               ELSE /\ memo' = [memo EXCEPT ![t] = Pinned(@, n.next)]
                    /\ Ended(t, "LOCKED_NEED_WAIT") /\ UNCHANGED iter
          /\ UNCHANGED <<tree, call, other, up, disposed, entries, seen, plan, broken>>
       \/ /\ i > Size(n) /\ n.next # NoPage
          /\ FailedRead(t, n.next) /\ UNCHANGED memo

(***************************************************************************)
(* The end of an operation: the mini transaction commits or rolls back     *)
(* before its latch memo is released, and only then are pages given back.  *)
(***************************************************************************)
Commit(t) ==
    /\ pc[t] = "commit" /\ Goto(t, "release")
    /\ entries' = [entries EXCEPT ![t] = <<>>]
    /\ UNCHANGED <<tree, call, frame, other, up, memo, disposed, iter, rc, seen, plan, broken>>

(* Undoing the removal of items goes through the base class of the node    *)
(* handlers, whose __item_at is nullptr: the process dies.                 *)
UndoKills(t) == \E i \in 1 .. Len(entries[t]) : entries[t][i].op = "NODE_REMOVE"

Rollback(t) ==
    /\ pc[t] = "rollback"
    /\ IF UndoKills(t) THEN pc' = [u \in Threads |-> "dead"] /\ UNCHANGED entries
                       ELSE Goto(t, "release") /\ entries' = [entries EXCEPT ![t] = <<>>]
    /\ UNCHANGED <<tree, call, frame, other, up, memo, disposed, iter, rc, seen, plan, broken>>

release(t) ==
    /\ pc[t] = "release"
    /\ memo' = [memo EXCEPT ![t] = <<>>]
    /\ Goto(t, IF disposed[t] = <<>> THEN "idle" ELSE "dispose")
    /\ call' = [call EXCEPT ![t] = NoCall] /\ frame' = [frame EXCEPT ![t] = NoPage]
    /\ other' = [other EXCEPT ![t] = NoPage] /\ up' = [up EXCEPT ![t] = 0]
    /\ iter' = [iter EXCEPT ![t] = [index |-> 0, out |-> <<>>]]
    /\ seen' = [seen EXCEPT ![t] = [must |-> {}, may |-> {}]]
    /\ UNCHANGED <<tree, disposed, entries, rc, plan, broken>>

dispose_page(t) ==
    /\ pc[t] = "dispose"
    /\ tree' = [tree EXCEPT !.allocated = @ \ {Head(disposed[t])}]
    /\ disposed' = [disposed EXCEPT ![t] = Tail(@)]
    /\ Goto(t, IF Len(disposed[t]) = 1 THEN "idle" ELSE "dispose")
    /\ UNCHANGED <<call, frame, other, up, memo, entries, iter, rc, seen, plan, broken>>

Work(t) ==
    \/ create_new_tree(t) \/ LockRoot(t) \/ crabing_protocal_fetch_page(t)
    \/ insert_entry_into_leaf_node(t) \/ insert_entry_into_parent(t)
    \/ delete_entry_internal(t) \/ coalesce_or_redistribute(t) \/ LatchNeighbor(t)
    \/ ScannerOpen(t) \/ ScannerOpenNext(t) \/ next_entry(t)
    \/ Commit(t) \/ Rollback(t) \/ release(t) \/ dispose_page(t)

(* A thread that has gone on after a failing read ends its operation; what *)
(* later operations make of the tree it leaves is not followed.            *)
Next == \E t \in Threads : Begin(t) \/ (broken \subseteq {t} /\ Work(t))

Spec == Init /\ [][Next]_vars
-----------------------------------------------------------------------------
(* Nobody is inside an operation. *)
Quiet == \A t \in Threads : pc[t] \in {"idle", "dispose"}

(* Between operations the tree passes the code's own validate_tree: keys   *)
(* in order inside and across nodes, separators around their children,     *)
(* parent numbers and the chain of leaves right, and every page in use is  *)
(* allocated, whatever splits, merges and redistributions led there,       *)
(* unless an operation went on after a failing read.                       *)
ValidTree == (Quiet /\ broken = {}) =>
    /\ validate_tree(tree) /\ tree.header = tree.root_page
    /\ Reachable(tree) \subseteq tree.allocated /\ TreeKeys(tree) = LeafKeys(tree)

(* No node is over-full, and every node below the root keeps half of what  *)
(* fits into it, rounded down (min_size() rounds up, but a split leaves    *)
(* the smaller half behind): the next deletion finds a key to look the     *)
(* node up by and a neighbour to merge with.                               *)
Balanced == (Quiet /\ broken = {}) =>
    \A p \in Reachable(tree) : LET n == tree.node[p] IN
        Size(n) <= max_size(n) /\ (p # tree.header => Size(n) >= max_size(n) \div 2)

(* A scan that reaches its end has returned, in order, every key that was  *)
(* in its range all the time it ran and no key that never was.             *)
ScanExact == \A t \in Threads :
    (call[t].op = "READ" /\ rc[t] = "RECORD_EOF") =>
        LET out == iter[t].out IN
        /\ seen[t].must \subseteq ToSet(out)
        /\ \A i \in 1 .. Len(out) : out[i] \in seen[t].may /\ InRange(out[i], call[t])
        /\ \A i \in 1 .. Len(out) - 1 : out[i] < out[i + 1]

(* The latch a thread is waiting for and the threads that keep it. *)
Wanted(t) ==
    CASE pc[t] = "create" -> {<<"X", Root>>}
      [] pc[t] = "root" -> {<<Mode(call[t].op), Root>>}
      [] pc[t] = "latch" -> {<<Mode(call[t].op), frame[t]>>}
      [] pc[t] = "neighbor" -> {<<"X", other[t]>>}
      [] pc[t] = "slatch" -> {<<"S", frame[t]>>}
      [] pc[t] \in {"parent", "coalesce"} /\ NodeOf(t).parent = NoPage -> {<<"X", Header>>}
      [] OTHER -> {}
WaitsFor(t) == {u \in Threads \ {t} : \E w \in Wanted(t) :
                   Holds(u, "X", w[2]) \/ (w[1] = "X" /\ Holds(u, "S", w[2]))}

(* The threads of a deadlock include a scan that is being opened and waits *)
(* for the page after the one on which it holds a latch: writers, point    *)
(* reads and running scans never wait in a circle.                         *)
DeadlockNeedsScanOpen == \A group \in SUBSET Threads \ {{}} :
    (\A t \in group : WaitsFor(t) \cap group # {}) => \E t \in group : pc[t] = "slatch"

(* A page that is given back is pinned by nobody, and nobody can still     *)
(* reach it from the root or along the chain of leaves.                    *)
DisposeUnused == \A t \in Threads :
    pc[t] = "dispose" =>
        /\ \A u \in Threads : ~Holds(u, "P", Head(disposed[t]))
        /\ Head(disposed[t]) \notin Reachable(tree)
        /\ \A p \in Leaves(tree) : tree.node[p].next # Head(disposed[t])

(* The items of a page change only while the thread that changes them      *)
(* holds its exclusive latch, or has just allocated it; nobody else holds  *)
(* a latch on it.                                                          *)
WritesLatched == [][\A p \in Pages :
    (tree'.node[p].items # tree.node[p].items /\ p \in tree.allocated) =>
        \E t \in Threads : /\ <<"X", p>> \in ToSet(memo'[t])
                           /\ \A u \in Threads \ {t} : ~Holds(u, "S", p) /\ ~Holds(u, "X", p)]_vars

(* Every key is found from the root, and every leaf is on the chain: also  *)
(* in a tree in which a failing read has left items in two nodes or a root *)
(* with one child.                                                         *)
Searchable == (Quiet /\ tree.header # NoPage) =>
    /\ \A k \in LeafKeys(tree) : Found(tree.node[FindLeaf(tree, k)], k)
    /\ validate_leaf_link(tree)

(* The child that becomes the root is the node that a merge has just       *)
(* filled, and its frame is still pinned: adjust_root finds it in memory,  *)
(* and the error that its caller does not look at never happens.           *)
RootChildPinned == \A t \in Threads :
    (pc[t] = "coalesce" /\ ~NodeOf(t).is_leaf /\ NodeOf(t).parent = NoPage /\ Size(NodeOf(t)) = 1) =>
        Holds(t, "P", ChildAt(NodeOf(t), 1))

(* The tree with its latches implements the index.  An operation that      *)
(* fails when it has taken effect is about to undo it.                     *)
Result(t) == IF rc[t] \in {"NOBUF", "IOERR_READ"} /\ entries[t] # <<>> THEN "UNDO" ELSE rc[t]
Abstract == INSTANCE OrderedIndex WITH index <- LeafKeys(tree), call <- call, rc <- [t \in Threads |-> Result(t)]
ImplementsIndex == Abstract!Spec

(* Through every sequence and interleaving of operations the tree is a B+  *)
(* tree, and a page that leaves it is out of everybody's reach.            *)
TreeSound == TypeOK /\ ValidTree /\ Balanced /\ Searchable /\ RootChildPinned /\ DisposeUnused
=============================================================================
