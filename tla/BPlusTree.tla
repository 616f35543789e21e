------------------------------ MODULE BPlusTree ------------------------------
(***************************************************************************)
(* The B+ tree of src/index/btree.rs over the pages of src/index/page.rs,  *)
(* the bottom-up loader of src/index/bulk.rs, the range cursor of          *)
(* src/index/cursor.rs and the prefix scans of the secondary indexes.      *)
(*                                                                         *)
(* Every mutation runs under the exclusive structural latch, so one        *)
(* operation is one step; the races that remain are in IndexLatch.  Keys   *)
(* are integers in the order of their encoding; the prefix of a composite  *)
(* key is its quotient by Group.  All records have the same length:        *)
(* records of mixed lengths can overflow a half of a split, because        *)
(* split_leaf ignores the result of insert_raw.                            *)
(***************************************************************************)
EXTENDS Integers, Sequences, FiniteSets, TLC
LOCAL INSTANCE SequencesExt

CONSTANTS
    BTKeys,     \* the keys a caller may insert or delete, positive integers
    BTRewrites, \* the keys that are also written with a second value
    BTStarts,   \* how the tree was built: <<"load" or "insert", number of keys>>
    BTEnd,      \* a key above all others
    BTMaxOps,   \* bound on the number of operations
    Group,      \* keys per prefix
    RecLen,     \* length of a record
    SlotLen,    \* length of a slot
    Usable,     \* length of the record area of a page
    MinFill     \* min_fill_ratio, in percent

VARIABLES
    tree,   \* [pages, root, next]: the pages, root_page_id and next_page_id
    btresult, \* what the last operation returned
    btcontent,\* the dictionary the tree stands for
    btops   \* number of operations so far

btvars == <<tree, btresult, btcontent, btops>>

(***************************************************************************)
(* Pages.                                                                  *)
(***************************************************************************)

Leaf(entries, prev, next) ==
    [leaf |-> TRUE, entries |-> entries, prev |-> prev, next |-> next]

Branch(seps, kids) == [leaf |-> FALSE, seps |-> seps, kids |-> kids]

IsLeaf(t, id) == t.pages[id].leaf

KeyCount(page) == IF page.leaf THEN Len(page.entries) ELSE Len(page.seps)

\* has_room_for, for a page that is to hold n records
FitsCount(n) == n * (RecLen + SlotLen) <= Usable

has_room_for(page) == FitsCount(KeyCount(page) + 1)

\* fill_ratio(page) < min_fill_ratio, or no entry at all
is_underfull(page) ==
    \/ KeyCount(page) = 0
    \/ 100 * KeyCount(page) * RecLen < MinFill * Usable

\* What is left without the largest record must reach the minimum
can_lend(page) ==
    /\ KeyCount(page) > 1
    /\ 100 * (KeyCount(page) - 1) * RecLen >= MinFill * Usable

put_page(t, id, page) == [t EXCEPT !.pages = (id :> page) @@ @]

bt_free_page(t, id) ==
    [t EXCEPT !.pages = [p \in DOMAIN t.pages \ {id} |-> t.pages[p]]]

alloc_page(t) == [t EXCEPT !.next = @ + 1]

(***************************************************************************)
(* Descent.                                                                *)
(***************************************************************************)

\* The first separator strictly greater than the key, or the rightmost child
branch_slot(page, k) == 1 + Cardinality({i \in DOMAIN page.seps : page.seps[i] <= k})

branch_slot_strict(page, k) == 1 + Cardinality({i \in DOMAIN page.seps : page.seps[i] < k})

leaf_lower_bound(page, k) ==
    1 + Cardinality({i \in DOMAIN page.entries : page.entries[i][1] < k})

RECURSIVE DescendFrom(_, _, _, _)
DescendFrom(t, id, k, path) ==
    IF IsLeaf(t, id) THEN [leaf |-> id, path |-> path]
    ELSE LET i == branch_slot(t.pages[id], k)
         IN DescendFrom(t, t.pages[id].kids[i], k, Append(path, <<id, i>>))

descend_to_leaf_with_path(t, k) == DescendFrom(t, t.root, k, <<>>)

find_leaf(t, k) == descend_to_leaf_with_path(t, k).leaf

KeyAt(page, i) == page.entries[i][1]

HasKey(page, k) ==
    LET i == leaf_lower_bound(page, k)
    IN i <= Len(page.entries) /\ KeyAt(page, i) = k

\* search_unlatched and leaf_value: <<>> when the key is absent
bt_search(t, k) ==
    LET page == t.pages[find_leaf(t, k)]
    IN IF HasKey(page, k) THEN <<page.entries[leaf_lower_bound(page, k)][2]>> ELSE <<>>

(***************************************************************************)
(* Insertion and splits.                                                   *)
(***************************************************************************)

RECURSIVE insert_into_parent(_, _, _, _, _)
insert_into_parent(t, left, right, sep, path) ==
    IF path = <<>>
    THEN LET id == t.next
         IN [put_page(alloc_page(t), id, Branch(<<sep>>, <<left, right>>)) EXCEPT !.root = id]
    ELSE LET id    == Last(path)[1]
             i     == Last(path)[2]
             seps  == InsertAt(t.pages[id].seps, i, sep)
             kids  == InsertAt([t.pages[id].kids EXCEPT ![i] = left], i + 1, right)
             mid   == (Len(seps) \div 2) + 1
             upper == t.next
             parts == put_page(
                        put_page(alloc_page(t), id,
                            Branch(SubSeq(seps, 1, mid - 1), SubSeq(kids, 1, mid))),
                        upper,
                        Branch(SubSeq(seps, mid + 1, Len(seps)), SubSeq(kids, mid + 1, Len(kids))))
         IN IF FitsCount(Len(seps)) THEN put_page(t, id, Branch(seps, kids))
            ELSE insert_into_parent(parts, id, upper, seps[mid], Front(path))

\* an off-by-one in the split: the separator is the last key of the left half
split_leaf_LeftKey(t, id, entries, path) ==
    LET page  == t.pages[id]
        mid   == Len(entries) \div 2
        upper == t.next
        parts == put_page(
                   put_page(alloc_page(t), id, Leaf(SubSeq(entries, 1, mid), page.prev, upper)),
                   upper, Leaf(SubSeq(entries, mid + 1, Len(entries)), id, page.next))
    IN insert_into_parent(parts, id, upper, entries[mid][1], path)

split_leaf(t, id, entries, path) ==
    LET page  == t.pages[id]
        mid   == Len(entries) \div 2
        upper == t.next
        parts == put_page(
                   put_page(alloc_page(t), id, Leaf(SubSeq(entries, 1, mid), page.prev, upper)),
                   upper, Leaf(SubSeq(entries, mid + 1, Len(entries)), id, page.next))
    IN insert_into_parent(parts, id, upper, entries[mid + 1][1], path)

insert_locked(t, k, v) ==
    LET d      == descend_to_leaf_with_path(t, k)
        page   == t.pages[d.leaf]
        i      == leaf_lower_bound(page, k)
        longer == InsertAt(page.entries, i, <<k, v>>)
    IN IF HasKey(page, k)
       THEN put_page(t, d.leaf, [page EXCEPT !.entries[i] = <<k, v>>])
       ELSE IF has_room_for(page)
       THEN put_page(t, d.leaf, [page EXCEPT !.entries = longer])
       ELSE split_leaf(t, d.leaf, longer, d.path)

(***************************************************************************)
(* Deletion: borrow from a sibling, merge with it, collapse the root.  An  *)
(* outcome is the tree with what the operation returns; "panic" is an      *)
(* index out of bounds.                                                    *)
(***************************************************************************)

Outcome(t, returns) == [tree |-> t, returns |-> returns]

\* borrow_leaf_from_left: [tree, sep]
borrow_leaf_from_left(t, left, right) ==
    LET l == t.pages[left]
        r == t.pages[right]
        e == Last(l.entries)
    IN [tree |-> put_page(put_page(t, left, [l EXCEPT !.entries = Front(@)]),
                          right, [r EXCEPT !.entries = <<e>> \o @]),
        sep  |-> e[1]]

borrow_leaf_from_right(t, left, right) ==
    LET l == t.pages[left]
        r == t.pages[right]
    IN [tree |-> put_page(put_page(t, left, [l EXCEPT !.entries = Append(@, Head(r.entries))]),
                          right, [r EXCEPT !.entries = Tail(@)]),
        sep  |-> r.entries[2][1]]

borrow_branch_from_left(t, left, right, sep) ==
    LET l == t.pages[left]
        r == t.pages[right]
    IN [tree |-> put_page(put_page(t, left, Branch(Front(l.seps), Front(l.kids))),
                          right, Branch(<<sep>> \o r.seps, <<Last(l.kids)>> \o r.kids)),
        sep  |-> Last(l.seps)]

borrow_branch_from_right(t, left, right, sep) ==
    LET l == t.pages[left]
        r == t.pages[right]
    IN [tree |-> put_page(put_page(t, left, Branch(Append(l.seps, sep), Append(l.kids, Head(r.kids)))),
                          right, Branch(Tail(r.seps), Tail(r.kids))),
        sep  |-> Head(r.seps)]

\* One record moves from the lender to its neighbour, and the parent's
\* separator number i with it
Borrow(t, left, right, sep, fromLeft) ==
    IF IsLeaf(t, left)
    THEN IF fromLeft THEN borrow_leaf_from_left(t, left, right)
                     ELSE borrow_leaf_from_right(t, left, right)
    ELSE IF fromLeft THEN borrow_branch_from_left(t, left, right, sep)
                     ELSE borrow_branch_from_right(t, left, right, sep)

merge_leaves(t, left, right) ==
    LET l     == t.pages[left]
        r     == t.pages[right]
        chain == put_page(t, left, Leaf(l.entries \o r.entries, l.prev, r.next))
    IN IF r.next = 0 THEN chain
       ELSE put_page(chain, r.next, [t.pages[r.next] EXCEPT !.prev = left])

merge_branches(t, left, right, sep) ==
    LET l == t.pages[left]
        r == t.pages[right]
    IN put_page(t, left, Branch(Append(l.seps, sep) \o r.seps, l.kids \o r.kids))

\* The merged page must hold the records of both, for branches the separator too
MergedCount(t, left, right) ==
    KeyCount(t.pages[left]) + KeyCount(t.pages[right]) + (IF IsLeaf(t, left) THEN 0 ELSE 1)

RECURSIVE rebalance_node(_, _, _)
rebalance_node(t, node, path) ==
    LET id     == Last(path)[1]
        i      == Last(path)[2]
        parent == t.pages[id]
        n      == Len(parent.kids)
        Lends(j) == j \in 1..n /\ can_lend(t.pages[parent.kids[j]])
        borrowed == IF Lends(i - 1)
                    THEN Borrow(t, parent.kids[i - 1], node, parent.seps[i - 1], TRUE)
                    ELSE Borrow(t, node, parent.kids[i + 1], parent.seps[i], FALSE)
        at     == IF Lends(i - 1) THEN i - 1 ELSE i
        m      == IF i > 1 THEN i - 1 ELSE i
        left   == parent.kids[m]
        right  == parent.kids[m + 1]
        merged == bt_free_page(IF IsLeaf(t, left) THEN merge_leaves(t, left, right)
                            ELSE merge_branches(t, left, right, parent.seps[m]), right)
        shrunk == Branch(RemoveAt(parent.seps, m), RemoveAt(parent.kids, m + 1))
        kept   == put_page(merged, id, shrunk)
    IN IF Lends(i - 1) \/ Lends(i + 1)
       THEN Outcome(put_page(borrowed.tree, id, [parent EXCEPT !.seps[at] = borrowed.sep]), "found")
       ELSE IF n = 1 THEN Outcome(t, "panic")
       ELSE IF ~ FitsCount(MergedCount(t, left, right)) THEN Outcome(t, "merge_failed")
       ELSE IF Len(path) = 1 /\ shrunk.seps = <<>>
       THEN Outcome([bt_free_page(merged, id) EXCEPT !.root = shrunk.kids[1]], "found")
       ELSE IF is_underfull(shrunk) /\ Len(path) > 1
       THEN rebalance_node(kept, id, Front(path))
       ELSE Outcome(kept, "found")

\* The removal is written before the leaf is rebalanced
bt_delete(t, k) ==
    LET d    == descend_to_leaf_with_path(t, k)
        page == t.pages[d.leaf]
        less == [page EXCEPT !.entries = RemoveAt(@, leaf_lower_bound(page, k))]
        gone == put_page(t, d.leaf, less)
    IN IF ~ HasKey(page, k) THEN Outcome(t, "absent")
       ELSE IF d.path = <<>> \/ ~ is_underfull(less) THEN Outcome(gone, "found")
       ELSE rebalance_node(gone, d.leaf, d.path)

(***************************************************************************)
(* The bottom-up loader.                                                   *)
(***************************************************************************)

NewTree == [pages |-> (1 :> Leaf(<<>>, 0, 0)), root |-> 1, next |-> 2]

MaxCount == CHOOSE n \in 0..Usable : FitsCount(n) /\ ~ FitsCount(n + 1)

\* The members of s in groups of at most n, in order
Groups(s, n) == [g \in 1..((Len(s) + n - 1) \div n) |-> SubSeq(s, (g - 1) * n + 1, LET m == g * n IN IF m > Len(s) THEN Len(s) ELSE m)]

\* One internal level over the children <<first key, page>>; a branch takes
\* children as long as its separators fit, so its last one may take a single child
RECURSIVE BuildLevels(_, _)
BuildLevels(t, kids) ==
    LET groups == Groups(kids, MaxCount + 1)
        Id(g)  == t.next + g - 1
        above  == [t EXCEPT !.next = @ + Len(groups),
                            !.pages = @ @@ [p \in {Id(g) : g \in DOMAIN groups} |->
                                LET grp == groups[p - t.next + 1]
                                IN Branch([i \in 1..(Len(grp) - 1) |-> grp[i + 1][1]],
                                          [i \in DOMAIN grp |-> grp[i][2]])]]
    IN IF Len(kids) = 1 THEN [t EXCEPT !.root = kids[1][2]]
       ELSE BuildLevels(above, [g \in DOMAIN groups |-> <<groups[g][1][1], Id(g)>>])

\* The old root stays in the page table, unreferenced
load_into(t, entries) ==
    LET groups == IF entries = <<>> THEN <<<<>>>> ELSE Groups(entries, MaxCount)
        n      == Len(groups)
        Id(g)  == t.next + g - 1
        packed == [t EXCEPT !.next = @ + n,
                            !.pages = @ @@ [p \in {Id(g) : g \in 1..n} |->
                                LET g == p - t.next + 1
                                IN Leaf(groups[g], IF g = 1 THEN 0 ELSE Id(g - 1),
                                                   IF g = n THEN 0 ELSE Id(g + 1))]]
    IN BuildLevels(packed, [g \in 1..n |-> <<IF groups[g] = <<>> THEN 0 ELSE groups[g][1][1], Id(g)>>])

RECURSIVE InsertAll(_, _)
InsertAll(t, entries) ==
    IF entries = <<>> THEN t
    ELSE InsertAll(insert_locked(t, Head(entries)[1], Head(entries)[2]), Tail(entries))

Built(start) ==
    LET entries == [i \in 1..start[2] |-> <<2 * i, "a">>]
    IN IF start[1] = "load" THEN load_into(NewTree, entries) ELSE InsertAll(NewTree, entries)

(***************************************************************************)
(* Reads that walk the leaf chain.                                         *)
(***************************************************************************)

Within(entries, from, to) ==
    SelectSeq(entries, LAMBDA e : from <= e[1] /\ e[1] < to)

RECURSIVE ChainFrom(_, _)
ChainFrom(t, id) ==
    IF id = 0 THEN <<>> ELSE t.pages[id].entries \o ChainFrom(t, t.pages[id].next)

\* The leaves are read until a key reaches the end of the range
range_search(t, from, to) == Within(ChainFrom(t, find_leaf(t, from)), from, to)

\* collect_range: from the current slot on, as long as it is within bounds;
\* next crosses to the sibling only from the last slot of a leaf
RECURSIVE CollectFrom(_, _, _, _)
CollectFrom(t, id, slot, to) ==
    LET page == t.pages[id]
    IN IF slot > Len(page.entries) \/ (slot \in DOMAIN page.entries /\ KeyAt(page, slot) >= to)
       THEN <<>>
       ELSE <<page.entries[slot]>> \o
            (IF slot < Len(page.entries) THEN CollectFrom(t, id, slot + 1, to)
             ELSE IF page.next = 0 THEN <<>>
             ELSE CollectFrom(t, page.next, 1, to))

\* cursor_from and collect_range
into_range(t, from, to) ==
    LET id == find_leaf(t, from)
    IN CollectFrom(t, id, leaf_lower_bound(t.pages[id], from), to)

\* advance_to hops over the leaves whose last key is below the target
RECURSIVE HopTo(_, _, _)
HopTo(t, id, k) ==
    LET page == t.pages[id]
    IN IF page.entries # <<>> /\ Last(page.entries)[1] < k
       THEN IF page.next = 0 THEN [leaf |-> id, slot |-> Len(page.entries) + 1]
            ELSE HopTo(t, page.next, k)
       ELSE [leaf |-> id, slot |-> leaf_lower_bound(page, k)]

\* cursor_from(from, to), advance_to(k), collect_range
advance_to(t, from, k, to) ==
    LET c == HopTo(t, find_leaf(t, from), k) IN CollectFrom(t, c.leaf, c.slot, to)

\* The secondary indexes descend with their own branch_child, which takes the
\* first separator that is not less than the key
RECURSIVE ScanLeaf(_, _, _)
ScanLeaf(t, id, k) ==
    IF IsLeaf(t, id) THEN id
    ELSE ScanLeaf(t, t.pages[id].kids[branch_slot_strict(t.pages[id], k)], k)

\* They read every leaf to the end of the chain and keep the keys with the prefix
bt_scan(t, prefix) ==
    SelectSeq(ChainFrom(t, ScanLeaf(t, t.root, prefix * Group)), LAMBDA e : e[1] \div Group = prefix)

(***************************************************************************)
(* The specification.                                                      *)
(***************************************************************************)

BTInit ==
    /\ \E start \in BTStarts :
         /\ tree = Built(start)
         /\ btcontent = [k \in {2 * i : i \in 1..start[2]} |-> "a"]
    /\ btresult = "none"
    /\ btops = 0

BTCounted == btops < BTMaxOps /\ btops' = btops + 1

BTAlive == btresult # "panic"

BTInsert(k, v) ==
    /\ BTCounted /\ BTAlive
    /\ tree' = insert_locked(tree, k, v)
    /\ btcontent' = (k :> v) @@ btcontent
    /\ btresult' = "ok"

BTDelete(k) ==
    /\ BTCounted /\ BTAlive
    /\ tree' = bt_delete(tree, k).tree
    /\ btcontent' = [j \in DOMAIN btcontent \ {k} |-> btcontent[j]]
    /\ btresult' = bt_delete(tree, k).returns

BTNext ==
    \/ \E k \in BTKeys : BTInsert(k, "a")
    \/ \E k \in BTRewrites : BTInsert(k, "b")
    \/ \E k \in BTKeys : BTDelete(k)

BTSpec == BTInit /\ [][BTNext]_btvars

(***************************************************************************)
(* Properties.                                                             *)
(***************************************************************************)

RECURSIVE Under(_, _)
Under(t, id) ==
    {id} \cup (IF IsLeaf(t, id) THEN {}
               ELSE UNION {Under(t, t.pages[id].kids[i]) : i \in DOMAIN t.pages[id].kids})

Bounds == 0..BTEnd

\* The entries of the dictionary in key order, and those of them in [from, to)
Entries ==
    LET ks == SelectSeq([i \in 1..BTEnd |-> i], LAMBDA k : k \in DOMAIN btcontent)
    IN [i \in DOMAIN ks |-> <<ks[i], btcontent[ks[i]]>>]
Between(all, from, to) == SelectSeq(all, LAMBDA e : from <= e[1] /\ e[1] < to)

\* The pages are well formed: no leaf or branch holds more than fits, and a
\* branch has one child more than it has separators (BTreePage, decode_branch).
BTTypeOK ==
    /\ tree.root \in DOMAIN tree.pages
    /\ \A id \in DOMAIN tree.pages :
         LET page == tree.pages[id]
         IN /\ id < tree.next
            /\ FitsCount(KeyCount(page))
            /\ ~ page.leaf => Len(page.kids) = Len(page.seps) + 1
    /\ btresult \in {"none", "ok", "found", "absent", "merge_failed", "panic"}

\* The tree is the dictionary its operations build: after any insertions,
\* overwrites, splits, deletions, borrows and merges - also after a delete that
\* returned an error - search finds exactly the keys that are in it, with the
\* value last written.
SearchIsDictionary ==
    \A k \in Bounds : bt_search(tree, k) = IF k \in DOMAIN btcontent THEN <<btcontent[k]>> ELSE <<>>

\* range_search returns every entry of the range once and in order: the chain
\* of leaves that splits and merges relink always agrees with the branches.
RangeIsDictionary ==
    LET all == Entries
    IN \A k \in Bounds : /\ range_search(tree, k, BTEnd) = Between(all, k, BTEnd)
                         /\ range_search(tree, 0, k) = Between(all, 0, k)

\* The cursor agrees with range_search when it starts on a key of the tree, and
\* after advance_to has moved it to any later key.
CursorFromKey ==
    LET all == Entries
    IN \A k \in Bounds :
        LET rest == Between(all, k, BTEnd)
        IN /\ k \in DOMAIN btcontent => into_range(tree, k, BTEnd) = rest
           /\ \A from \in DOMAIN btcontent : k > from => advance_to(tree, from, k, BTEnd) = rest

\* The scans of the secondary indexes descend by another rule than the tree
\* (sep < key instead of sep <= key) and still miss no entry of their prefix.
ScanIsComplete ==
    LET all == Entries
    IN \A p \in {k \div Group : k \in Bounds} :
        bt_scan(tree, p) = Between(all, p * Group, (p + 1) * Group)

\* No page that the tree can reach is freed, and none that it cannot is kept,
\* other than the root that load_into replaced (bt_free_page, merges, collapse).
PagesAreReachable ==
    /\ Under(tree, tree.root) \subseteq DOMAIN tree.pages
    /\ DOMAIN tree.pages \ Under(tree, tree.root) \subseteq {1}

\* After any sequence of operations the tree is one dictionary to all its readers: the search, the
\* range search over the chain of leaves, the cursor and the scans of the secondary indexes, which
\* descend by another rule; and no page of it is lost or freed (BTree, BTreeCursor, bulk loader).
TreeIsDictionary ==
    /\ SearchIsDictionary /\ RangeIsDictionary /\ CursorFromKey /\ ScanIsComplete
    /\ PagesAreReachable

\* Refuted: rebalance_node always finds a sibling of the page that underflowed; the bulk loader can
\* close a branch over a single child (13 entries), and a delete below it finds none.
NoPanic == btresult # "panic"

\* into_range and range_search return the same entries, for every range.
\* Refuted: README, section 5.
CursorIsRangeSearch ==
    \A from \in Bounds : \A to \in Bounds :
        from <= to => into_range(tree, from, to) = range_search(tree, from, to)

==============================================================================
