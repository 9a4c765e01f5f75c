------------------------------- MODULE BTree --------------------------------
(***************************************************************************)
(* The B-tree of a unique index (src/MVCCS-cicili/mvccs-lib.cicili), as    *)
(* records in the store: a node knows its degree and the first of its keys *)
(* and the keys of a node are a doubly linked list that shares its         *)
(* children. The degree is a field beside the list: insertion stops at     *)
(* degree - 1, walks at the end of the list.                               *)
(*                                                                         *)
(* A walk gives the guard back at every row it delivers (StreamsGuard),    *)
(* and keys are mapped in between. unmap_key and drop_storage have no      *)
(* caller beside a walk, and none here.                                    *)
(***************************************************************************)
EXTENDS Integers, Sequences, SequencesExt, FiniteSets, FiniteSetsExt, TLC

CONSTANTS
    Key,        \* the keys that are mapped and unmapped
    Bases,      \* the trees to begin with, as the keys that were mapped, in order
    MinDegree,  \* min_degree
    MaxDegree,  \* max_degree
    Bounds,     \* the keys a walk can have as its bound
    MaxOps      \* bound: the keys mapped and unmapped in a run

Nil == 0
Comparison == {"all", "ne", "lt", "le", "gt", "ge"}

VARIABLES
    tree,     \* the records, root_address and the hint for appends
    content,  \* history: the keys that were mapped and not unmapped since
    walk,     \* the cursor that is open, if one is
    ops       \* how many keys were mapped and unmapped

vars == <<tree, content, walk, ops>>

-----------------------------------------------------------------------------
(* Records                                                                 *)

NoTail == [leaf |-> Nil]
Empty == [node |-> << >>, key |-> << >>, chains |-> {}, root |-> Nil, tail |-> NoTail]

\* offline_insert: a record comes where there is room. Which address that is says
\* nothing, so a key's record is at its own number if that is free.
FreeAddress(f) == Min(1..Cardinality(DOMAIN f) + 1 \ DOMAIN f)
NewKey(t, k) == IF k \in DOMAIN t.key THEN Min(1..2 * Max(Key) \ DOMAIN t.key) ELSE k

Without(f, a) == [x \in DOMAIN f \ {a} |-> f[x]]
\* a key of its own, and its rows
Fresh(k) == [key |-> k, rows |-> k, left |-> Nil, right |-> Nil, lnode |-> Nil, rnode |-> Nil]

RECURSIVE From(_, _)
From(t, a) == IF a = Nil THEN << >> ELSE <<a>> \o From(t, t.key[a].right)

List(t, n) == From(t, t.node[n].head)

-----------------------------------------------------------------------------
(* map                                                                     *)

\* Where an insertion's loop over the keys of n stops: at the first key that is not
\* below k, or at the degree-th.
Place(t, n, k) ==
    LET s == List(t, n)
        stops == {i \in 1..Len(s) : k <= t.key[s[i]].key \/ i = t.node[n].degree}
    IN  IF stops = {} THEN 0 ELSE Min(stops)

\* mutant: the neighbour keeps its left child
Neighbour(c, a, child) == [c EXCEPT !.left = a]

\* the key c when a comes before it: its left child is a's right one
Behind(c, a, child) == [c EXCEPT !.left = a, !.lnode = child]

\* The record a joins the keys of n, before the first larger one or after the last.
Link(t, n, a) ==
    LET s == List(t, n)
        i == Place(t, n, t.key[a].key)
        before == t.key[a].key < t.key[s[i]].key
        left == IF ~before THEN s[i] ELSE IF i = 1 THEN Nil ELSE s[i - 1]
    IN  [t EXCEPT !.node[n].degree = @ + 1,
                  !.node[n].head = IF left = Nil THEN a ELSE @,
                  !.key[a].left = left,
                  !.key[a].right = IF before THEN s[i] ELSE Nil,
                  !.key[s[i]] = IF before THEN Behind(@, a, t.key[a].rnode) ELSE @,
                  !.key = IF left = Nil THEN @ ELSE [@ EXCEPT ![left].right = a]]

\* a node without keys gets its first, another one more
Joins(t, n, a) ==
    IF t.node[n].head # Nil THEN Link(t, n, a)
    ELSE [t EXCEPT !.node[n].degree = 1, !.node[n].head = a]

\* bt_tail_forget
Forget(t, n) == IF t.tail.leaf = n THEN [t EXCEPT !.tail = NoTail] ELSE t
ForgetAny(t) == [t EXCEPT !.tail = NoTail]

\* mutant: as many keys as the lower half, as it once was
HalfAgain(degree) == MinDegree

\* how many keys the upper half of a split has
Upper(degree) == degree - (MinDegree + 1)

AddNode(t, record) == [t EXCEPT !.node = (FreeAddress(@) :> record) @@ @]

\* the keys s of n, and those behind the median in the new node u
Halves(t, n, s, u) ==
    [t EXCEPT !.node[u].degree = Upper(t.node[n].degree),
              !.node[u].head = s[MinDegree + 2],
              !.node[n].degree = MinDegree,
              !.key[s[MinDegree]].right = Nil,
              !.key[s[MinDegree + 1]] = [@ EXCEPT !.left = Nil, !.right = Nil, !.lnode = n, !.rnode = u],
              !.key[s[MinDegree + 2]].left = Nil]

\* The first MinDegree keys of n stay, those behind the next one go to a node of
\* their own, and that one to the parent: the last of path, or a new root.
RECURSIVE Split(_, _, _), Fits(_, _, _)
Split(t, path, n) ==
    LET median == List(t, n)[MinDegree + 1]
        made == AddNode(Forget(t, n), [degree |-> 0, head |-> Nil, internal |-> t.node[n].internal])
        t1 == Halves(made, n, List(t, n), FreeAddress(t.node))
        r == FreeAddress(made.node)
    IN  IF path # << >>
        THEN Fits(Joins(t1, Last(path), median), Front(path), Last(path))
        ELSE [Joins(AddNode(t1, [degree |-> 0, head |-> Nil, internal |-> TRUE]), r, median)
              EXCEPT !.root = r]

\* how bt_map_to_internal and bt_map_rec end
Fits(t, path, n) == IF t.node[n].degree > MaxDegree THEN Split(t, path, n) ELSE t

\* bt_tail_record
Remember(t, n, a) ==
    [t EXCEPT !.tail = [leaf |-> n, head |-> t.node[n].head, degree |-> t.node[n].degree,
                        last |-> a, max |-> t.key[a].key, root |-> t.root]]

\* a record for k, which is not in the tree yet
Made(t, k) == [t EXCEPT !.key = (NewKey(t, k) :> Fresh(k)) @@ @, !.chains = @ \cup {k}]

\* it joins the leaf n; at the end of the last leaf the place is remembered
AddToLeaf(t, n, k, last) ==
    LET joined == Joins(Made(t, k), n, NewKey(t, k))
    IN  IF last THEN Remember(joined, n, NewKey(t, k)) ELSE joined

\* bt_map_rec: down to the leaf, and back up where a node has become too large.
\* rightmost is tl_tail_path: no key was larger yet.
RECURSIVE MapRec(_, _, _, _, _)
MapRec(t, path, n, k, rightmost) ==
    LET i == Place(t, n, k)
        c == t.key[List(t, n)[i]]
        last == rightmost /\ (i = 0 \/ c.key < k)
    IN  Fits(IF ~t.node[n].internal THEN AddToLeaf(t, n, k, last)
             ELSE MapRec(t, Append(path, n), IF k < c.key THEN c.lnode ELSE c.rnode, k, last),
             path, n)

\* what bt_tail_append asks of the hint before it reads anything, and after
TailAsked(t, k) ==
    /\ t.tail # NoTail
    /\ k > t.tail.max /\ t.tail.root = t.root /\ t.tail.degree < MaxDegree

TailHolds(t) ==
    /\ t.tail.leaf \in DOMAIN t.node /\ t.tail.last \in DOMAIN t.key
    /\ LET leaf == t.node[t.tail.leaf]
           last == t.key[t.tail.last]
       IN  /\ ~leaf.internal /\ leaf.degree = t.tail.degree /\ leaf.head = t.tail.head
           /\ last.right = Nil /\ last.rnode = Nil /\ last.key = t.tail.max

\* bt_map: where the last key went, or down from the root
MapKey(t, k) ==
    IF t.root = Nil
    THEN LET n == FreeAddress(t.node)
         IN  MapRec([AddNode(t, [degree |-> 0, head |-> Nil, internal |-> FALSE]) EXCEPT !.root = n],
                    << >>, n, k, TRUE)
    ELSE IF TailAsked(t, k) /\ TailHolds(t)
    THEN AddToLeaf(t, t.tail.leaf, k, TRUE)
    ELSE MapRec(IF TailAsked(t, k) THEN ForgetAny(t) ELSE t, << >>, t.root, k, TRUE)

-----------------------------------------------------------------------------
(* unmap_key                                                               *)

RECURSIVE Leftmost(_, _)
Leftmost(t, n) ==
    LET first == t.node[n].head
    IN  IF t.node[n].internal THEN Leftmost(t, t.key[first].lnode) ELSE first

\* the separator a between the last key of the left node and the first of the right
Seam(t, a, low, high) ==
    [t.key[a] EXCEPT !.left = low, !.right = high,
                     !.lnode = t.key[low].rnode, !.rnode = t.key[high].lnode]

\* The children of sep = t.key[a], a key of n, become one node, with a between their
\* keys.
Merged(t, n, a, sep, low, high) ==
    [t EXCEPT !.node[n].head = IF sep.left = Nil THEN sep.right ELSE @,
              !.node[n].degree = @ - 1,
              !.node[sep.lnode].degree = @ + 1 + t.node[sep.rnode].degree,
              !.node = Without(@, sep.rnode),
              !.key[a] = Seam(t, a, low, high),
              !.key[low].right = a,
              !.key[high].left = a,
              !.key = IF sep.left = Nil THEN @ ELSE [@ EXCEPT ![sep.left].right = sep.right],
              !.key = IF sep.right = Nil THEN @
                      ELSE [@ EXCEPT ![sep.right].lnode = sep.lnode, ![sep.right].left = sep.left]]

\* a root without keys gives way to its child
Shrunk(t, n, child) == IF t.node[n].degree = 0 /\ n = t.root THEN [t EXCEPT !.root = child] ELSE t

\* bt_combine_nodes; too large a node is split again
Combine(t, n, a) ==
    LET sep == t.key[a]
        low == Last(List(t, sep.lnode))
        high == t.node[sep.rnode].head
    IN  Shrunk(Fits(Merged(t, n, a, sep, low, high), <<n>>, sep.lnode), n, sep.lnode)

\* the i-th key s[i] = a leaves the list of the leaf n, and its record is free
Unlink(t, n, s, i) ==
    LET c == t.key[s[i]]
        low == IF i = 1 THEN Nil ELSE s[i - 1]
        high == IF i > 1 /\ i = t.node[n].degree THEN Nil ELSE c.right
    IN  [t EXCEPT !.node[n].degree = @ - 1,
                  !.node[n].head = IF i = 1 THEN high ELSE @,
                  !.key = IF low = Nil THEN @ ELSE [@ EXCEPT ![low].right = high],
                  !.key = IF high = Nil THEN @ ELSE [@ EXCEPT ![high].left = low],
                  !.key = Without(@, s[i]),
                  !.chains = @ \ {c.rows}]

\* mutant: the successor's record keeps the rows it gave away
HandsOver(t, a, succ) ==
    [t EXCEPT !.chains = @ \ {t.key[a].rows}, !.key[a].key = t.key[succ].key, !.key[a].rows = t.key[succ].rows]

\* the rows of the record a are freed, and the key and the rows of succ move there
Moved(t, a, succ) ==
    [t EXCEPT !.chains = @ \ {t.key[a].rows}, !.key[a].key = t.key[succ].key, !.key[a].rows = t.key[succ].rows,
              !.key[succ].rows = Nil]

\* Where a search's loop over the keys of n stops: at the first key that is not below
\* k, or at the end of the list.
Seek(t, n, k) ==
    LET s == List(t, n)
        stops == {i \in 1..Len(s) : k <= t.key[s[i]].key \/ t.key[s[i]].right = Nil}
    IN  IF stops = {} THEN 0 ELSE Min(stops)

\* a node that has become too small joins its neighbour under sep, a key of parent
Holds(t, n, parent, sep) ==
    IF t.node[n].degree < MinDegree /\ parent # Nil THEN Combine(t, parent, sep) ELSE t

\* bt_unmap_key_rec: n was reached from the key sep of parent
RECURSIVE UnmapRec(_, _, _, _, _)
UnmapRec(t, n, k, parent, sep) ==
    LET s == List(t, n)
        i == Seek(t, n, k)
        c == t.key[s[i]]
        succ == Leftmost(t, c.rnode)
        found == i # 0 /\ c.key = k
    IN  Holds(CASE ~t.node[n].internal /\ found -> Unlink(t, n, s, i)
                [] ~t.node[n].internal /\ ~found -> t
                [] t.node[n].internal /\ found ->
                     UnmapRec(Moved(t, s[i], succ), c.rnode, t.key[succ].key, n, s[i])
                [] t.node[n].internal /\ ~found ->
                     UnmapRec(t, IF k < c.key THEN c.lnode ELSE c.rnode, k, n, s[i]),
              n, parent, sep)

UnmapKey(t, k) ==
    IF t.root = Nil THEN ForgetAny(t) ELSE UnmapRec(ForgetAny(t), t.root, k, Nil, Nil)

-----------------------------------------------------------------------------
(* Walks                                                                   *)

\* bt_equal_rec: the records it delivers, one or none
RECURSIVE EqualRec(_, _, _)
EqualRec(t, n, k) ==
    LET i == Seek(t, n, k)
        a == List(t, n)[i]
        c == t.key[a]
    IN  CASE i = 0 -> {}
          [] i # 0 /\ c.key = k -> {a}
          [] i # 0 /\ c.key # k -> IF ~t.node[n].internal THEN {}
                                   ELSE EqualRec(t, IF k < c.key THEN c.lnode ELSE c.rnode, k)

Equal(t, k) == IF t.root = Nil THEN {} ELSE EqualRec(t, t.root, k)

\* A call of the walk: the node, the copy of the key it is at, the address it read
\* there of the next, and what it does next.
Enter(t, n) == [node |-> n, internal |-> t.node[n].internal, next |-> t.node[n].head,
                started |-> FALSE, rnode |-> Nil, key |-> Nil, does |-> "read"]

\* mutant: the bound is delivered
TooSoon(w, k) == w.by \in {"gt", "ge"} /\ k < w.bound

\* keys the walk passes without delivering
Below(w, k) == CASE w.by = "gt" -> k <= w.bound
                 [] w.by = "ge" -> k < w.bound
                 [] OTHER -> FALSE
\* keys that end the walk of a node
Past(w, k) == CASE w.by = "lt" -> k >= w.bound
                [] w.by = "le" -> k > w.bound
                [] OTHER -> FALSE

\* a key whose rows the statement cannot see is passed without a callback
Delivers(w, k) == ~(w.by = "ne" /\ k = w.bound) /\ k \in w.visible

\* One turn of the innermost call. The right child and the next key are those that
\* were read before the key was delivered.
Turn(t, w) ==
    LET top == Head(w.stack)
        rest == Tail(w.stack)
        c == t.key[top.next]
        seen == [top EXCEPT !.key = c.key, !.rnode = c.rnode, !.next = c.right]
        begins == ~top.started
        reads == top.does = "read" /\ top.next # Nil
        passes == reads /\ begins /\ Below(w, c.key)
    IN  CASE top.does = "read" /\ top.next = Nil -> rest
          [] passes /\ ~(top.internal /\ c.right = Nil) -> <<seen>> \o rest
          [] passes /\ top.internal /\ c.right = Nil -> <<Enter(t, c.rnode)>> \o rest
          [] reads /\ ~passes ->
               (IF top.internal /\ begins THEN <<Enter(t, c.lnode)>> ELSE << >>)
               \o <<[seen EXCEPT !.started = TRUE, !.does = "deliver"]>> \o rest
          [] top.does = "deliver" ->
               IF Past(w, top.key) THEN rest ELSE <<[top EXCEPT !.does = "right"]>> \o rest
          [] top.does = "right" ->
               IF w.by = "le" /\ top.key = w.bound THEN rest
               ELSE (IF top.internal THEN <<Enter(t, top.rnode)>> ELSE << >>)
                    \o <<[top EXCEPT !.does = "read"]>> \o rest

\* what runs under the guard: up to the next delivery, or to the end
RECURSIVE Run(_, _)
Run(t, w) ==
    IF w.stack = << >> THEN w
    ELSE LET top == Head(w.stack)
             on == [w EXCEPT !.stack = Turn(t, w)]
         IN  IF top.does = "deliver" /\ ~Past(w, top.key) /\ Delivers(w, top.key)
             THEN [on EXCEPT !.got = Append(@, top.key)]
             ELSE Run(t, on)

-----------------------------------------------------------------------------
(* The index                                                               *)

Idle == [by |-> "none", bound |-> Nil, visible |-> {}, got |-> << >>, stack |-> << >>,
         crossed |-> FALSE]
Walking == walk.stack # << >>

Base(keys) == FoldLeft(MapKey, Empty, keys)

Init ==
    /\ \E keys \in Bases : tree = Base(keys) /\ content = ToSet(keys)
    /\ walk = Idle
    /\ ops = 0

\* the nodes a walk will go on from: of its calls, and the right children they copied
Ahead(w) == {w.stack[i].node : i \in DOMAIN w.stack}
            \cup {w.stack[i].rnode : i \in {j \in DOMAIN w.stack : w.stack[j].does # "read"}}

\* nodes lose keys in a map only when they split
SplitIn(old, new) == {n \in DOMAIN old.node : new.node[n].degree < old.node[n].degree}

\* bt_map: a key that is there is refused
Map(k) ==
    /\ ops < MaxOps
    /\ tree' = IF Equal(tree, k) = {} THEN MapKey(tree, k) ELSE tree
    /\ content' = content \cup {k}
    /\ walk' = IF Walking THEN [walk EXCEPT !.crossed = @ \/ SplitIn(tree, tree') \cap Ahead(walk) # {}]
                          ELSE Idle
    /\ ops' = ops + 1

\* bt_unmap_key
Unmap(k) ==
    /\ ~Walking /\ ops < MaxOps
    /\ tree' = UnmapKey(tree, k)
    /\ content' = content \ {k}
    /\ walk' = Idle
    /\ ops' = ops + 1

\* bt_drop_storage
Drop ==
    /\ ~Walking /\ ops < MaxOps
    /\ tree' = Empty /\ content' = {}
    /\ walk' = Idle
    /\ ops' = ops + 1

\* bt_cursor, bt_cursor_not_equal, bt_cursor_less_than ...: the statement sees the
\* rows of the keys that are there when it begins
Start(by, bound) ==
    /\ ~Walking
    /\ LET stack == IF tree.root = Nil THEN << >> ELSE <<Enter(tree, tree.root)>>
       IN  walk' = Run(tree, [Idle EXCEPT !.by = by, !.bound = bound, !.visible = content, !.stack = stack])
    /\ UNCHANGED <<tree, content, ops>>

\* the callback returns
Continue ==
    /\ Walking
    /\ walk' = Run(tree, walk)
    /\ UNCHANGED <<tree, content, ops>>

Next ==
    \/ \E k \in Key : Map(k) \/ Unmap(k)
    \/ Drop \/ Continue
    \/ \E by \in Comparison, bound \in Bounds : Start(by, bound)

Spec == Init /\ [][Next]_vars

-----------------------------------------------------------------------------
(* Properties                                                              *)

\* A search finds exactly the keys that were mapped and not unmapped, each with its
\* own rows, and no rows are held by no key: splits, the hint for appends, merges and
\* the move of a successor's rows lose and strand nothing.
Searchable ==
    /\ \A k \in content : \E a \in DOMAIN tree.key :
         Equal(tree, k) = {a} /\ tree.key[a].key = k /\ tree.key[a].rows = k
    /\ \A k \in Key \ content : Equal(tree, k) = {}
    /\ tree.chains = content

Children(n) ==
    LET s == List(tree, n)
    IN  IF ~tree.node[n].internal THEN << >>
        ELSE <<tree.key[s[1]].lnode>> \o [i \in DOMAIN s |-> tree.key[s[i]].rnode]

RECURSIVE Under(_), Height(_)
Under(n) == {n} \cup UNION {Under(c) : c \in ToSet(Children(n))}
Height(n) == IF tree.node[n].internal THEN 1 + Height(Children(n)[1]) ELSE 0

Joined(n) ==
    LET s == List(tree, n) IN
    /\ tree.node[n].degree = Len(s)
    /\ \A i \in DOMAIN s :
         /\ tree.key[s[i]].left = IF i = 1 THEN Nil ELSE s[i - 1]
         /\ i > 1 => tree.key[s[i]].lnode = tree.key[s[i - 1]].rnode
    /\ \A i \in DOMAIN Children(n) : Height(Children(n)[i]) = Height(n) - 1

\* The degree of a node is what its list holds, no node is too full or too empty, the
\* leaves are equally deep, neighbours share their child, and no record is left over
\* but those of roots that ran out of keys, which the code never gives back.
Balanced ==
    LET used == IF tree.root = Nil THEN {} ELSE Under(tree.root) IN
    /\ UNION {ToSet(List(tree, n)) : n \in used} = DOMAIN tree.key
    /\ \A n \in DOMAIN tree.node \ used : tree.node[n].internal /\ tree.node[n].head = Nil
    /\ \A n \in used :
         /\ Joined(n)
         /\ tree.node[n].degree <= MaxDegree
         /\ n # tree.root => tree.node[n].degree >= MinDegree

Within(w) ==
    {k \in w.visible : CASE w.by = "ne" -> k # w.bound
                         [] w.by = "lt" -> k < w.bound
                         [] w.by = "le" -> k <= w.bound
                         [] w.by = "gt" -> k > w.bound
                         [] w.by = "ge" -> k >= w.bound
                         [] OTHER -> TRUE}

InOrder(S) ==
    [i \in 1..Cardinality(S) |-> CHOOSE k \in S : Cardinality({x \in S : x < k}) = i - 1]

Due == InOrder(Within(walk))

\* A walk delivers the keys within its bound that it can see once each and in order,
\* whatever is mapped in its callbacks, unless a node it goes on from was split.
WalkExact ==
    ~walk.crossed => IF Walking THEN IsPrefix(walk.got, Due) ELSE walk.got = Due

\* Every statement reads one version of the store: the same without the exception.
WalksAreWhole == ~Walking => walk.got = Due
=============================================================================
