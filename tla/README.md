# Verification of whery's engine

whery (`src/source`) is an embedded database engine in C++ in its early stages:
a B+-tree over pages of binary tuples, the comparators that order tuples by
(prefixes of) a key, and the typed fields tuples are made of.  It is a
single-threaded library: nothing is written to disk, no messages are sent, no
timers run.  What is hard about it is the bookkeeping of the B+-tree, where one
call rewires sibling links, parent pointers, index entries, node IDs, a cached
last leaf and a counter, in recursive frames that report splits and merges to
one another.

These TLA+ modules model the engine from its bytes up: the layout of a tuple in
memory, fields and their conversions, tuples as objects that share memory, the
order of tuples, pages, node IDs, and the B+-tree handler by handler with its
queries and iterators.  TLC checks them on small instances, and TLAPS proves
results about most of them for every instance.

## 1. Inventory

| Component | State | Operations | Correct if | Modelled |
|---|---|---|---|---|
| **B+-tree updates** (`db/btrees/BTree.cpp`, `BTree.h`) | node table (`m_nodes`: page, first child, parent, two siblings), `m_rootID`, `m_firstLeafID`, `m_lastLeafID`, `m_tupleCount`, a node ID allocator; per call a stack of frames and the `Split` or `Merge` each returns | `insert_tuple`, `erase_tuple` | an insertion adds exactly its tuple, an erasure removes exactly the first match, every call returns without a failed assertion, the links of the tree agree with one another, pages stay within their bounds | `BTree` |
| **B+-tree queries** (same files) | none of their own; `ConstIterator` is a leaf ID and a position in its page | `begin`, `end`, `find`, `lower_bound`, `upper_bound`, `equal_range`, `++`, `--` | iteration visits every tuple once and in order; `find` returns the first match; a range visits exactly its tuples | `BTreeLookup`, `BTreeLongKeys` |
| **Range keys** (`db/base/RangeKey`, `RangeEndpoint`) | two optional endpoints, open or closed, that copies of a key share | accessors that make endpoints, `clear`, `is_valid` | an invalid range is empty, a valid one exact | `RangeKeys`, as values |
| **ID allocator** (`util/IDAllocator`) | the set of used IDs, the set of gaps below the largest | `allocate`, `deallocate`, `reset` | an ID is never handed out twice, the smallest unused one is next | `IDAllocator` |
| **In-memory sorted page** (`db/pages/InMemorySortedPage`, `SortedPage`) | a buffer of slots, which copies of a page share, a free list of slots, a multiset of the backed tuples | `add_tuple`, `erase_tuple`, `clear`, searches, copying | slots in use and free slots are the first of the buffer, each once; the multiset stays sorted; ranges are exact | `InMemorySortedPage`, `CopiedPages`; in `BTree` a page is a bounded sorted set |
| **Comparators** (`PrefixTupleComparator`, `TupleComparator`) | field indices and sort directions | `compare` | a strict weak order for every multiset they are given to; a key matches an interval of tuples | `TupleOrder` |
| **Tuples and keys** (`BackedTuple`, `FreshTuple`, `ProjectedTuple`, `ValueKey`) | a location in memory, a read-only flag, a buffer of their own or not | field access, copying, assigning, projecting | a copied tuple equals its source; what is read-only stays as it is; no two fresh tuples share a buffer | `Tuples` |
| **Fields** (`FieldManipulator` and its int, double and UUID variants, `Field`) | a location and a read-only flag | typed reads and writes, conversion, comparison | comparison agrees from both sides | `Fields`, inside `Tuples` and `TupleOrder` |
| **Tuple layout** (`TupleManipulator`, `AlignmentTracker`) | field offsets, the tracker's offset, the size | `initialise`, projecting | fields are aligned in every slot of a page and do not overlap | `TupleLayout` |
| **Page controller interface** (`BTreePageController.h`) | none (an interface; only the tests implement it) | makes pages | | its page sizes are constants of `BTree` |
| Text utilities, `wcl` application, tests, build files | | | | no |

How they interact: a caller calls the B+-tree and nothing else.  The tree asks
its allocator for node IDs and its page controller for pages, copies tuples in
and out of pages, and searches pages with the prefix comparator.  A page keeps
backed tuples in slots as wide as the layout says and sorts them with a
comparator, which compares fields and converts them on the way.  An iterator
reads the tree's sibling links and pages.  All of it is by direct calls on one
thread; there are no callbacks.  The allocator reuses the smallest free ID, so
a node record is reincarnated as another node, of the other kind perhaps; pages,
backed tuples and fields refer to memory that others write.

Behaviours that are hard, and where they bite, are the `hazards` of
`PROJECT.json`.  The kinds that matter in this code: *stale state* (index
entries that keep the key of an erased tuple, parent pointers, the cached last
leaf, references into memory that is written through others), *protocol
sequences* (a long series of legal calls that ends in an illegal tree or page),
*ordering* of the steps inside one handler, *numeric edges* (unsigned counts,
the first and last leaf, an empty page, padding, NaN), *partial failure* (a copy
that throws half-way), *resource bounds* (full pages on every level) and *the
return of every recursive frame*.  Concurrency, crashes, lost messages and
timeouts do not occur in it.

## 2. Modules

| Module | What it is | Extends / instantiates |
|---|---|---|
| `IDAllocator` | the allocator: its method bodies as operators on the pair (free, used), and a specification of it used on its own | |
| `TupleLayout` | laying a tuple or a key out in memory, one field per step | |
| `Fields` | fields of the three types: reading, converting, comparing | |
| `Tuples` | fresh, backed and projected tuples and a held field, over buffers | extends `Fields` |
| `TupleOrder` | the two comparators on sequences of fields, inside a multiset | extends `Fields` |
| `RangeKeys` | range keys, their validity and their meaning | |
| `InMemorySortedPage` | a page: slots, free list and multiset, with an addition that may throw half-way; its searches | instantiates `RangeKeys` |
| `SortedPage` | the abstract page: how often each tuple is on it | |
| `CopiedPages` | a page and its copy, over one buffer; the refinement of `SortedPage` | extends `InMemorySortedPage`, instantiates it for the copy, instantiates `SortedPage` |
| `BTree` | insertion and erasure, one action per handler | instantiates `IDAllocator` for the node IDs |
| `BTreeLookup` | queries and iterators, as operators on the state of `BTree` | extends `BTree`, instantiates `RangeKeys` |
| `TupleStore` | the abstract specification: a set of tuples and one pending call | |
| `BTreeWorkloads` | the refinement of `TupleStore`; the tree as a primary index, and the tree that is only loaded | extends `BTreeLookup`, instantiates `TupleStore` |
| `BTreeLoading` | the inductive invariant of a tree that is only loaded | extends `BTreeWorkloads` |
| `BTreeDrain` | the tree under callers that load it and then drain it | extends `BTreeWorkloads` |
| `BTreeServed` | the tree under callers that load it and keep what they loaded, or use it as a deque or as a log; fairness | extends `BTreeWorkloads` |
| `BTreeLongKeys` | searches with keys longer than a branch key | extends `BTreeWorkloads` |
| `MCBTree`, `MCDrain`, `MCServed`, `MCLongKeys`, `MCLoading`, `MCPage`, `MCCopiedPages`, `MCLayout`, `MCOrder`, `MCTuples` | constants for TLC | extend the above |
| `SequenceLemmas` | lemmas on inserting into and removing from sequences, least elements and initial segments | |
| `IDAllocatorProofs`, `BTreeProofs`, `BTreeLoadProofs`, `CopiedPagesProofs`, `TupleOrderProofs`, `TuplesProofs`, `TupleLayoutProofs` | theorems and proofs | extend the module they are about; `BTreeLoadProofs` extends `BTreeProofs` |

The layers are composed where they interact: the tree with its allocator, the
page with its copy and both with the multiset's contract.  Between the others
the lower one establishes the abstraction the upper one starts from: `TupleOrder`
shows that tuples of one signature are linearly preordered and that keys match
intervals, which is all `InMemorySortedPage` and `BTree` know of them, and the
page shows that it is a bounded sorted multiset, which is what a page is in
`BTree`.

### BTree and the code

* **Data.**  A tuple is the natural number that gives its place in the order of
  its key.  A search key (a `ValueKey` compared by prefix) is the interval
  `<<low, high>>` of tuples it compares equal to: a full key is `<<t, t>>`, a
  prefix a longer interval.  A page is a *set* of entries: the code's
  `std::multiset` holds no entry twice as long as `KeysAreUnique` holds, which
  is checked.  Entries are ordered by key and then by child ID, since index
  entries are whole tuples to the comparator.  A node record without a page in
  the code is `BlankNode`.  `m_nodeIDAllocator` is a record of the allocator's
  two sets and every ID comes from `IDAllocator`'s operators.
* **Calls.**  The code is recursive; the model makes the stack explicit.  `pc`
  says what the call in progress does next, `key` is its argument, `node` the
  subtree about to be entered, `path` the branches whose frames are on the
  stack and `result` what the last frame returned.  A call walks down
  (`InsertDescend`, `EraseDescend`), one action does the complete leaf handler
  (e.g. `SplitLeafAndInsert`: the erasure of an index entry, the transfers, the
  new node and the re-added entries), and one action per frame deals with what
  comes back (`SplitBranchAndInsert`, `MergeWithLeftBranch`, `DecreaseHeight`,
  ...).  With one thread no other call can see the state in the middle of a
  handler, so the handler is the unit of atomicity, and properties that say
  "between calls" are about `pc = "idle"`.
* **Order within a handler.**  A handler that finds an index entry *by key*
  depends on the order of its steps; the model keeps it, as a chain `ns1`,
  `ns2`, ... of node tables.
* **Errors.**  `Abort` stands for a failed assertion, an exception out of a page
  and a dereferenced end iterator alike; after it nothing is claimed.  The
  model is of the build with assertions on.
* **Deliberately odd lines.**  `MergeWithLeftBranch` and `MergeWithRightBranch`
  merge the node of the frame where they checked the relevant node (line 350,
  356); `EraseReturns` uncounts a tuple whether or not one was erased (line
  68); `HasAtLeastMinTuples` has the unsigned wrap-around of line 489.
  `ConnectFresh` leaves `firstChildID` alone, as `add_node` does.
* **What callers owe.**  Keys are unique (`BTree.h:21-23`), so `InsertCall` takes
  a tuple that is not stored.  Keys that are erased are no longer than a branch
  key; searches with longer ones are in `BTreeLongKeys`.

### InMemorySortedPage and the code

A slot of the buffer is its number (the code's `char*` is the buffer plus the
number times the size of a tuple).  `m_tuples` is the multiset as the sequence of
its slots: the order is that of what the slots hold, so a tuple that is written
while its slot is in the multiset is visibly out of place.  `FailToAddTuple` is
`add_tuple` when `copy_from` throws: the slot is off the free list, some fields
are overwritten, nothing is inserted.  `CompatibleSpec` is the page without it,
as the B+-tree uses it when all its tuples have the page's fields.

`CopiedPages` adds the generated copy constructor: `m_buffer` is a `shared_ptr`, so
the copy has a free list and a multiset of its own and the same memory, here an
instance of the module with two variables replaced and the third shared.  A page
returned by value, as the tests do, is copied and its original destroyed
(`HandOverSpec`); `BothSpec` lets both be used.

### BTreeLookup, BTreeLongKeys and the code

`BTreeLookup` represents an iterator as a leaf and the set holding the entry it
points to (empty: the page's end).  Loops over tuples are recursive functions.
In `BTreeLongKeys` a search key has one field more than the branch key.  In a
branch the prefix comparator then compares that field with the child ID that
`make_branch_tuple` puts behind the key.  A leaf tuple's own such field is a
constant function, `Payload`, and `MCPayload` takes values below, among and above
the node IDs.

### TupleLayout and the code

`Construct` and `ConstructProjected` are the two constructors, both of which end
in `initialise()`; `LayOutField` is one turn of its loop and `Finish` what follows
the loop.  Sizes, alignments and `max_alignment()` are constants, since they are
the compiler's: with GCC on x86-64 the latter is 16, with Visual C++ 8.

### Fields, Tuples, TupleOrder and the code

A field is a type and a value.  Doubles are counted in halves, so that casting one
to int has something to drop, and ints have a small width, so that there are
doubles beyond them; such a cast is undefined, and any int.  A conversion that
throws `bad_cast` has no result, so reads are sets of values.  `compare_to`
converts the other field to the type of the one that is asked, as the code does.

`Tuples` has two `FreshTuple`s, a `BackedTuple` and one `Field` for the caller to
hold.  `m_location` and `m_readOnly` are per object and the buffers are what they
refer to, so aliasing is visible.  `CopyFrom` copies one field after the other
within its step: what was written by then is what the next read sees, and a
conversion that throws leaves the copy half done.  `Spec` has every call the
interface allows; `CarefulSpec` leaves out two misuses (see section 4).

In `TupleOrder` a `TupleComparator` is its list of columns and a
`PrefixTupleComparator` the empty list.  `InsertPositions` says where a
`std::multiset` may put a tuple given only what it may ask of its comparator; if
that is no strict weak order, there may be several places or none that is right.

## 3. Runs

| Run | Instance | Shows |
|---|---|---|
| `id_allocator` | 8 IDs | the allocator in every order of calls |
| `layout` | up to 4 fields of 3 types, keys of them in any order, 3 slots of a page | `FieldsAreAligned`, `FieldsDoNotOverlap`, and that no ordered layout is tighter |
| `order` | tuples of an int, a double and a UUID, 5 comparators, 3 tuples at a time, keys of one to three fields and whole doubles | the multiset stays sorted column by column, and keys match intervals that searches find |
| `tuples` | 2 fresh tuples, 1 backed tuple, 5 projections | no buffer is shared, copies are faithful up to conversion, memory without a writable reference never changes again |
| `page` | 3 slots, 4 tuples, any number of times each, keys matching one or two; handed over to a copy at any time | of the page and the copy: `BothPagesFit`, `BothKeepTheirSlots`, `BothStayInOrder`, `BothRangesAreExact`; and that the page in use implements `SortedPage` |
| `btree_any_calls` | 5 tuples, pages of 2, every call sequence | the local structure survives *anything*, including histories that hit the defects below: `SiblingLinksAgree`, `FreeNodesAreBlank`, `SplitsTakeUnusedNodes`, `PagesHalfFull`, `KeysAreUnique`, `TypeOK` |
| `btree_served` | 7 tuples, pages of 2, loaded in any order and kept, or 8 others used as a deque, in trees of height three; or 16 as a log that is erased from either end, of height four | refinement of `TupleStore` with liveness, `CallsReturn`, `ParentsAgree` through every redistribution, split and merge of leaves and branches |
| `btree_drain` | 9 tuples, leaves of 4, branches of 6, inserted in any order, then erased in any order, by full and prefix keys | no abort, the count, page bounds where a leaf underflows with tuples left in it, refinement (safety) |
| `btree_ascending` | 7 tuples, pages of 2, inserted in ascending order, erased in any order | every query is exact however stale the index entries have become, with long keys `find` too |
| `btree_wrong_merge`, `btree_stale_separator`, `page_lost_slot` | | findings 1 to 3 below |

**Why the workloads.**  Under `BTree!Spec`, where any call may follow any other,
the global properties do not hold: see the findings.  `BTreeWorkloads`,
`BTreeServed` and `BTreeDrain` restrict the *callers* (never the code) to usage
patterns under which they hold, each reaching code the others do not: a primary
key that only grows, loading in any order, a double-ended queue, a log, loading
then draining.  The queue's tuples are numbered consecutively: only the order of
keys matters to the code, and gaps would multiply the states of the run without
adding a new shape of tree.  The log is what makes a tree of height four small
enough to check: its tuples come in one order, so that there is one tree for each
number of them until the first is erased.

**Why the bounds are enough.**  Every handler depends on one node, its two
siblings, its parent and at most one grandchild layer.  With pages of two, five
tuples reach height two with three leaves, including leaves emptied and
re-filled; seven or eight reach height three, where every branch
handler runs.  Pages of
two tuples may fall to one, so a leaf that underflows is empty; with leaves of
four, in `btree_drain`, it still has a tuple, which is lent to or merged, and nine
tuples fill three such leaves.  `MaxNodes` and `CountModulus` are never reached by
these trees, except that the count wraps below zero when it should not.  The
sixteen tuples of the log reach height four, where a branch has branches below and
above it: the fifteenth splits a full leaf, branch and root in one call, which
takes four node IDs, and erasing from either end merges them all again.  Other
orders of calls are out of reach at that height; for loading, the theorems of
section 5 are about trees of any height.  Four fields reach every padding between
two fields and behind the last.  Three tuples are what it takes for a multiset to have one in the middle.

**Deadlock.**  `CHECK_DEADLOCK FALSE` in the B+-tree runs: the tree really stops
after a failed assertion, and when every tuple has been inserted and the
workload allows no more.  That a call does not get stuck half-way is
`CallsReturn` and the liveness part of `ImplementsTupleStore`.

**Fairness.**  `BTreeServed` assumes weak fairness of `InsertStep \/ EraseStep`: a
call in progress runs on its caller's thread and takes its next step.  Nothing is assumed of callers.
`TupleStore` has weak fairness of serving a pending call.

**The refinement.**  `stored` is the set of tuples in the leaves, `pending` is the
call while it walks down.  The step in which the leaf is dealt with serves the
call; everything before and after it must leave the set of tuples alone.

## 4. Findings

1. **The wrong branch is merged** (`BTree.cpp:350, 356`, run
   `btree_wrong_merge`).  When a merge leaves a branch too small, the code looks
   for siblings of `relevantNodeID` but merges `nodeID`, the node of its frame.
   They differ after an erasure that moved on to the right sibling of the leaf
   it reached, across parents.  An assertion then fails (line 456).
2. **A tuple goes to the wrong side of its neighbour**
   (`BTree.cpp:861`, run `btree_stale_separator`).  An erasure leaves the index
   entry of a leaf as it was when the leaf's first tuple goes.  A later
   insertion below the new first tuple, sent there by the stale entry,
   contradicts the comment "the tuple being inserted must be at least as large
   as the first tuple on this page"; when the leaf is full the old first tuple
   is moved left and the new, smaller one is put right of it.  `find` misses a
   stored tuple.
3. **A free slot is lost** (`InMemorySortedPage.cpp:39`, run `page_lost_slot`).
   `add_tuple` takes a slot off the free list before it copies the tuple, which
   throws if the tuple has other fields than the page.  Later, with an empty free
   list, it takes the slot numbered `tuple_count()` to be unused and overwrites a
   tuple that is on the page.

The models show further disagreements with the comments.  They are not runs of
`PROJECT.json`; where a configuration is named, TLC shows them.

4. **The count goes wrong** (`BTree.cpp:68`; `CountIsExact` under `BTree!Spec`).
   `erase_tuple` uncounts a tuple when the key matches none; in an empty tree the
   count wraps.
5. **A copied page shares its memory** (`InMemorySortedPage.h:21`;
   `MCCopiedPages.cfg`).  If the original is used after it was copied, an addition
   to one overwrites tuples of the other.  Handing a page over is safe.
6. **A long key misses its range** (`BTree.cpp:164-186`; `MCLongRange.cfg`).  A key
   longer than a branch key may be led one leaf too far to the left, since its
   last field is compared with a child ID.  `lower_bound` and `upper_bound` both
   move on to the start of the next leaf, so `equal_range` is empty for a stored
   tuple.  `find` still finds it.
7. **A UUID out of line** (`AlignmentTracker.cpp:41`; `MCLayoutMSVC.cfg`).  Where
   `long double` takes 8 bytes, `max_alignment()` is 8, and the UUID of every
   second tuple is not aligned as its type asks.
8. **NaN** (`FieldManipulator.h:165`; `MCOrderNaN.cfg`).  NaN compares equal to
   every number, and the multiset is no longer sorted.
9. **Comparing an int with a double** (`IntFieldManipulator.cpp:35`;
   `MCOrderMixed.cfg`).  The int's side truncates the double, the double's does
   not, so they disagree about a key of another type than the tuple's field.
10. **Assigning to a read-only tuple** (`FreshTuple.cpp:32`; `MCTuplesAssign.cfg`)
    changes it.
11. **Copying a projection of a tuple to itself** (`BackedTuple.cpp:51`;
    `MCTuplesProject.cfg`) to swap two fields reads a field just overwritten.

`CarefulSpec` of `Tuples` is without 10 and 11, `MCOrder.cfg` without 8 and 9,
`HandOverSpec` of `CopiedPages` without 5, and `MCLayout.cfg` without 7.

## 5. Proofs

Proved by TLAPS, for every value of the constants that meets the named
assumptions of the modules and, where it says so, of the theorem:

* **Node IDs.**  `IDAllocatorProofs!AllocatorIsConsistent`: `Spec => []FreeIsTheGaps`,
  and `AllocatesSmallestUnused`: `Spec => []NextIDIsSmallestUnused`.  The inductive
  invariant is `TypeOK /\ FreeIsTheGaps`, stated as a predicate `Consistent` on
  the two sets so that the lemmas hold for sets that are not a state.  That no
  gap remains when the free list is empty makes the used IDs an initial segment
  `0..n-1`, whose size is what `allocate` returns: this step is about
  cardinalities and uses the library's theorems on finite intervals.  For
  `deallocate` of the largest ID, the gaps kept are those below the new largest
  one.
* **Node IDs in the tree.**  `BTreeProofs!SplitsNeverTakeNodesInUse`:
  `Spec => []SplitsTakeUnusedNodes`.  Each action of the tree takes no ID, one,
  two, or gives back one in use (one case per action); each of these keeps
  `Consistent`.  A root split takes its second ID from the pair of sets the first
  one left, which is never a state of the tree, hence the predicate.
* **The node table.**  `BTreeProofs!TypeCorrect`: `Spec => []TypeOK`.  `TypeOK` is
  inductive as it stands; what is not typing in it is that every handler leaves
  `m_rootID`, `m_lastLeafID`, the node about to be entered and the nodes named in
  a `Split` or `Merge` inside the node table.  There is a lemma for each helper on
  node tables, one for each action, and a theorem that puts them together.
* **A tree that is loaded.**  `BTreeLoadProofs`, about `LoadingSpec`: `insert_tuple`
  is called with any tuples that are not stored, in any order, and nothing is
  erased.  For every set of tuples and every page size the tree then never aborts
  (`LoadingNeverAborts`) and has `ParentsAgree`, `SiblingLinksAgree`,
  `LeafChainInOrder`, `FreeNodesAreBlank`, `KeysAreUnique`, `PagesHalfFull` and
  `CountIsExact` (a theorem for each), and it implements `TupleStore` step by step
  (`LoadingImplementsTupleStore`).  None of these is inductive: whether an index
  entry is found, a page has room or a tuple is in order depends on which keys may
  be where in the whole tree.  The invariant, `LoadInv` in `BTreeLoading`, gives
  each node two ghosts, its height and the key from which its range begins, and says
  that ranges of a level are disjoint and in the order of the sibling links, that
  keys are in the range of their node, that the entry of a child has the key its
  range begins with, and that a node whose split has not been reported yet is the
  only one without an entry.  Of the call in progress it says that the path is one
  of parents, that on the way down the key is in the range of the node ahead and
  stored nowhere, and that a split on its way up is one that the frame above has
  room in its range for.  The proof first shows of relations between two node
  tables that they keep a tree a tree (`MovedBoundary`, `AddedTuple`,
  `AdoptedOrphan`, `AddedRoot`, `DividedLeaf`, `DividedBranch`), then that the code's
  functions bring these relations about (`LentToLeft`, `LentToRight`, `SplitLeaf`,
  `SplitBranch`, with the arithmetic of what half of a full page is), both in
  `BTreeProofs`, and then that each action calls them when it may.  Height and number of nodes are arbitrary, so
  this covers the trees of height four and more, of which the runs reach
  only those of a log.  Assumed are
  `PageSizeAssumption` (two tuples or more fit on a page) and `BoundsAssumption`.
  `MCLoading.cfg` checks the invariant with TLC, the ghosts computed from the tree
  (8 tuples, height three).  It is about loading only, and must be: an erasure that
  takes the first tuple of a leaf leaves the entry's key behind, and findings 1
  and 2 are what may come of it.
* **Searching a tree that is loaded.**  `BTreeLoadProofs` again: `LoadingSpec` has
  `FindsFirstMatch`, `FindsTheLongKey`, `IterationIsComplete` and `RangesAreExact`
  (`LoadingFindsFirstMatch`, `LoadingFindsLongKeys`, `LoadingIterates`,
  `LoadingSearchesRanges`).  `LoadInv` between two calls says that the tree has no
  orphan (`IdleTree`), and the queries change nothing, so the rest is about one such
  tree.  Down: a search passes the entries of a page that are before its key, and
  takes the child behind them; `Between`, that the node begins before the key and
  that no node of its level begins between it and the key, is kept by each step
  (`SearchStep`).  A search with a long key may pass an index entry with its own
  branch key or stop at it, depending on a child's ID, so `Between` has two bounds;
  for the others the two are the same.  A step down is one level down, and the path
  visits no node twice, so by the pigeonhole principle the `MaxNodes` steps of
  `LeafAfter` are enough for a tree of any height (`WalkReachesLeaf`).  Sideways: an
  iterator is known by the tuples that are ahead of it (`Points`).  These are a tail
  of the stored tuples (`IsTail`), each tail has exactly one iterator, normalised as
  the code leaves it, `operator++` takes the first tuple away (`IncrementPoints`) and
  `operator--` puts the last one of the others back (`DecrementPoints`), across the
  boundaries of leaves.  What is ahead after `n` steps is the tail without its first
  `n` (`AfterFirst`, by the ranks of its elements), so a scan from one tail to
  another yields the tuples between them, each at its rank (`ScanVisits`).  The
  bounds of a key are two tails, and an open endpoint is the walk over the tuples that
  match, forwards (`SkipStep`) or backwards (`BackStep`).  The walks are recursive
  functions, defined by `CHOOSE`: each is shown to exist, from the tails it should
  point to, and then to point to them by an induction over the steps that the prover
  accepts as a lemma on sets (`UpTo`).  Besides the assumptions above it needs
  `KeysAssumption` of `BTreeLookup`: no tuple is both before a key and after it, and
  two keys with values for the same fields, which is what the two endpoints of a range
  are (`RangeKey.cpp:128-135`), are equal or match different tuples.  A comparator
  that looks at the same fields of both has it no other way.
* **Pages.**  `CopiedPagesProofs!PageKeepsItsSlots`: the slots in use and the free
  ones are the first slots of the buffer, each once, and the tuples are in order
  (`CompatibleSpec => [](TypeOK /\ SlotsArePartitioned /\ TuplesStayInOrder)`), and
  `HandingOverKeepsSlots` and `HandingOverKeepsOrder`, the same of a page and the copy
  it is handed over to (`BothKeepTheirSlots`, `BothStayInOrder`).  The
  invariant is about a buffer, a sequence of slots and a free list, so that it
  serves for both pages: the two sequences are injective, disjoint and dense.
  Density makes slot `tuple_count()` a new one when the free list is empty, so no
  slot in use is written, so the sequence stays sorted; and in a sorted sequence
  one more than the number of tuples not larger is the place for a new one, by
  the cardinality of an initial segment.  For the copy, the invariant adds that
  both pages refer to the same slots as long as both are there.  `PagesFitTheirBuffer`
  (`BothPagesFit`) follows from density: if more slots were in use or free than
  `max_tuple_count()`, slot `max_tuple_count()` would be one of them, and it is behind
  the buffer.  `PageRangesAreExact` (`HandOverSpec => []BothRangesAreExact`) rests on
  the order alone: in a sorted sequence the tuples below a key are an initial segment, and
  so are those not above it, and each kind of endpoint picks one of the two.
* **A page is a multiset.**  `CopiedPagesProofs!HandOverImplementsSortedPage`:
  `HandOverSpec => ImplementsSortedPage`, the refinement of `SortedPage`.  The
  mapping counts the places of the sequence whose slot holds a tuple.  An
  insertion or a removal shifts the places behind it, which is a bijection
  (`SequenceLemmas!PlacesAfterInsertion`, `PlacesAfterRemoval`), so one count
  changes by one and no other does.  A copy that is made leaves the counts as
  they are: they are mapped from whichever page is in use.
* **Order.**  `TupleOrderProofs!PageStaysSorted`: for tuples of one signature
  without NaN, `Spec => []PageIsSorted`, whatever the columns and directions, the
  prefix order included.  On such tuples a comparator is a lexicographic order of
  integers, negated for descending columns; that not being before is transitive
  is what the invariant needs for an insertion in the middle.  The hypotheses
  `OneSignature` and `ColumnsExist` are what `MCOrderNaN.cfg` shows to be needed.
  `ColumnsStaySorted` takes `PageIsSorted` apart into its columns.
  `KeysFindTheirIntervals`: under `KeysFit` as well (a key's fields have the types
  of the tuple's, or are doubles without a fraction where the tuple has ints) a
  comparison of a tuple with a key agrees with one of the tuple with the key
  converted, so the tuples below a key and those it matches are initial segments
  of the page.  `MCOrderMixed.cfg` shows that the hypothesis is needed.
* **Tuples.**  `TuplesProofs!TuplesAreTyped` and `BuffersAreOwned` hold for `Spec`,
  `MemoryIsProtected` (an action property) and `CopyingIsFaithful` for `CarefulSpec`.
  The inductive invariant `IInv` is typing and that an existing fresh tuple is at
  its own buffer.  `copy_from` is a recursive function over the fields, so its
  lemmas are inductions: of the fields for which a statement fails there would
  be a least one, and the step before it refutes that.  Assumed are
  `TuplesAssumption` (the given tuples and buffers are of the right kind) and
  `DoublesAssumption` (every int is a double).
* **Layout.**  `TupleLayoutProofs!LayoutTypeCorrect`, `FieldsAreDisjoint`,
  `NoLayoutWastesLess` and, if `max_alignment` is a multiple of every type's
  alignment, `PagesAreAligned`.  The loop invariant says that the offsets so far
  are aligned, follow one another without overlap and are no larger than those of
  any other layout, and that the tracker is at the end of the last field; that
  rounding up yields the least multiple is a lemma on `%` and `\div`.

Only model-checked: the tree under callers that erase.  With erasures the sibling
links, the bounds of pages, the blank free nodes and the unique keys hold under every
sequence of calls (`btree_any_calls`), but not by the invariant above: a separator may
be smaller than the first tuple of its leaf, and a redistribution then moves a tuple
out of its range (finding 2); parents, the order of the leaf chain, the count and the
queries hold under workloads only, since the findings break them.  Liveness
(`CallsReturn`, the fair part of `ImplementsTupleStore`) is beyond the prover.  So
would be an induction principle for any property, as it takes the property as a
parameter; where a recursive function is reasoned about above, the induction is over
the numbers or the fields for which one statement fails, which are a set.

## 6. Not modelled

* what an exception out of `add_tuple` leaves behind in the tree (an index entry
  already erased, for example): `BTree` aborts there;
* `RangeKey` as an object: its accessors make an endpoint when there is none, and
  copies of a key share endpoints until one is cleared.  A search reads both
  endpoints before anything can change them, so a range is a value here;
* erasing with a key longer than a branch key;
* tuples of several signatures at a time: assigning a `FreshTuple` of another
  signature makes a new buffer, which needs no sharing to be right;
* several pages over one controller: the controller is an interface, implemented
  by the tests alone;
* `buffer_size` and `percentage_full` of a page, `get_string` of a field,
  `BTree::print`, `TextUtil`, the `wcl` program: output only;
* `erase_tuples` is declared in `BTree.h` and defined nowhere.

## 7. Plan

Built, in this order: `IDAllocator`, `BTree`, `BTreeLookup`, `TupleStore` with the
workloads, `InMemorySortedPage` with `SortedPage`, then `TupleLayout`, `Fields`,
`Tuples`, `TupleOrder`, `CopiedPages`, `BTreeLongKeys`, each with its runs and its
proofs.  `BTreeLoading` came last, with the proofs about trees that are loaded: their
shape, and then the queries on them.

To do: sibling links, unique keys and the bounds of pages under every sequence of
calls, for which an invariant without ranges is needed; searches in a tree that is
loaded and then drained, whose separators are stale but in order.
