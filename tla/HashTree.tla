------------------------------- MODULE HashTree -------------------------------
(***************************************************************************)
(* The red-black tree that finds a metadata entry from the hash of its     *)
(* path (mcachefs-metadata.c): insertion, removal, the chains of entries   *)
(* whose hashes collide, and the search.                                   *)
(*                                                                         *)
(* An entry is named by its path, which stands for the identifier of its   *)
(* record in the metafile; 0 is no entry.  Every operation holds the       *)
(* metadata lock from end to end, so each is one step; the recursion of    *)
(* the code is recursion here, on the value of the whole tree.             *)
(***************************************************************************)
EXTENDS Naturals, FiniteSets

CONSTANTS
  Paths,    (* the paths that may have an entry                             *)
  Root,     (* "/", the entry mcachefs_metadata_format makes                *)
  Hash,     (* the hash of each path                                        *)
  Ops       (* optional behaviours, a subset of AllOps                      *)

(* remove_root: the entry at the root of the tree may be removed or renamed
   remove_head: so may the first entry of a chain of collisions
   rename:      entries are renamed
   rename_chain: the entries of a chain too *)
AllOps == {"remove_root", "remove_head", "rename", "rename_chain"}

ASSUME PathsAssumption == Paths \subseteq Nat \ {0} /\ Root \in Paths
ASSUME HashAssumption == Hash \in [Paths -> Nat]
ASSUME OpsAssumption == Ops \subseteq AllOps

VARIABLES
  tree,     (* [node: the entries' links and colours; root: hash_root; bug] *)
  present   (* history: the paths that have an entry                        *)

vars == <<tree, present>>

BLACK == 0
RED == 1
None == "none"
Blank == [up |-> 0, left |-> 0, right |-> 0, color |-> BLACK, next |-> 0, previous |-> 0]

Opposite(side) == IF side = "left" THEN "right" ELSE "left"
Side(n, i) == IF n[n[i].up].left = i THEN "left" ELSE "right"

(* An assignment through a pointer the code tests for NULL first *)
Put(n, i, field, value) == IF i = 0 THEN n ELSE [n EXCEPT ![i][field] = value]

Color(h, i, c) == [h EXCEPT !.node[i].color = c]
IsRed(h, i) == i # 0 /\ h.node[i].color = RED
Bug(h, what) == [h EXCEPT !.bug = what]

-----------------------------------------------------------------------------
(* mcachefs_metadata_do_insert_hash: down from entry c; equal hashes make a
   chain. *)
RECURSIVE InsertBelow(_, _, _)
InsertBelow(h, i, c) ==
  LET n == h.node
      side == IF Hash[i] < Hash[c] THEN "left" ELSE "right" IN
  IF Hash[i] = Hash[c]
  THEN IF n[c].next # 0
       THEN InsertBelow(h, i, n[c].next)
       ELSE [h EXCEPT !.node[c].next = i, !.node[i].previous = c]
  ELSE IF n[c][side] # 0
       THEN InsertBelow(h, i, n[c][side])
       ELSE [h EXCEPT !.node[c][side] = i, !.node[i].up = c]

(* mcachefs_metadata_brother: 0 for none *)
Brother(h, i) ==
  LET n == h.node IN
  IF n[i].up = 0 THEN 0 ELSE n[n[i].up][Opposite(Side(n, i))]

Uncle(h, i) == IF h.node[i].up = 0 THEN 0 ELSE Brother(h, h.node[i].up)

(* Mistake: the subtree that changes sides keeps its father. *)
Bad_Rotate(h, x, side) ==
  LET n == h.node
      y == n[x][Opposite(side)] IN
  IF y = 0 THEN h
  ELSE LET p == n[x].up
           n1 == [n EXCEPT ![x][Opposite(side)] = n[y][side], ![x].up = y, ![y][side] = x, ![y].up = p] IN
       [h EXCEPT !.node = IF p = 0 THEN n1 ELSE Put(n1, p, Side(n, x), y),
                 !.root = IF p = 0 THEN y ELSE @]

(* mcachefs_metadata_rotate_left and _right: x goes down on the given side *)
Rotate(h, x, side) ==
  LET n == h.node
      y == n[x][Opposite(side)] IN
  IF y = 0 THEN h
  ELSE LET p == n[x].up
           b == n[y][side]
           n1 == [n EXCEPT ![x][Opposite(side)] = b, ![x].up = y, ![y][side] = x, ![y].up = p]
           n2 == Put(n1, b, "up", x) IN
       [h EXCEPT !.node = IF p = 0 THEN n2 ELSE Put(n2, p, Side(n, x), y),
                 !.root = IF p = 0 THEN y ELSE @]

(* mcachefs_metadata_repair_hash_step4_2 *)
RepairStep4_2(h, i) ==
  LET father == h.node[i].up
      grandfather == h.node[father].up
      h1 == Rotate(h, grandfather, IF h.node[father].left = i THEN "right" ELSE "left") IN
  Color(Color(h1, father, BLACK), grandfather, RED)

(* mcachefs_metadata_repair_hash *)
RECURSIVE RepairHash(_, _)
RepairHash(h, i) ==
  LET n == h.node
      father == n[i].up
      grandfather == n[father].up
      side == Side(n, father)
      inner == n[father][Opposite(side)] = i IN
  CASE father = 0 -> Color(h, i, BLACK)
    [] father # 0 /\ ~IsRed(h, father) -> h
    [] father # 0 /\ IsRed(h, father) /\ IsRed(h, Uncle(h, i)) ->
         RepairHash(Color(Color(Color(h, father, BLACK), Uncle(h, i), BLACK), grandfather, RED),
                    grandfather)
    [] OTHER ->
         IF inner
         THEN LET h1 == Rotate(h, father, side) IN RepairStep4_2(h1, h1.node[i][side])
         ELSE RepairStep4_2(h, i)

(* mcachefs_metadata_insert_hash.  cleanup_hash clears up, left and right; the
   links of a collision chain are left as they are. *)
InsertHash(h, i) ==
  LET h1 == [h EXCEPT !.node[i].up = 0, !.node[i].left = 0, !.node[i].right = 0] IN
  RepairHash(Color(InsertBelow(h1, i, h.root), i, RED), i)

-----------------------------------------------------------------------------
(* Mistake: the entry before the one that leaves becomes the last. *)
Bad_RemoveHashCollision(h, i) ==
  [h EXCEPT !.node = Put(@, h.node[i].previous, "next", 0)]

(* mcachefs_metadata_do_remove_hash_collision *)
RemoveHashCollision(h, i) ==
  LET n == h.node
      e == n[i]
      n1 == Put(n, e.next, "previous", e.previous)
      linked == [n1 EXCEPT ![e.next].left = e.left, ![e.next].right = e.right]
      headed == Put(Put(linked, e.left, "up", e.next), e.right, "up", e.next) IN
  IF e.previous # 0
  THEN [h EXCEPT !.node = [n1 EXCEPT ![e.previous].next = e.next]]
  ELSE IF \E side \in {"left", "right"} : e[side] # 0 /\ n[e.next][side] # 0
  THEN Bug(h, "Next collider can not have a child")
  ELSE IF e.up # 0
  THEN [h EXCEPT !.node = Put(headed, e.up, Side(n, i), e.next)]
  ELSE IF h.root # i
  THEN Bug(h, "head of a collision list, no up, but not root")
  ELSE [h EXCEPT !.node = headed, !.root = e.next]

(* mcachefs_metadata_find_successor, _find_replacer *)
RECURSIVE FindSuccessor(_, _)
FindSuccessor(h, i) ==
  IF h.node[i].left = 0 THEN i ELSE FindSuccessor(h, h.node[i].left)

FindReplacer(h, i) ==
  LET e == h.node[i] IN
  CASE e.left # 0 /\ e.right # 0 -> FindSuccessor(h, e.right)
    [] e.left # 0 /\ e.right = 0 -> e.left
    [] OTHER -> e.right

(* mcachefs_metadata_fix_double_black *)
RECURSIVE FixDoubleBlack(_, _)
FixDoubleBlack(h, i) ==
  LET n == h.node
      up == n[i].up
      brother == Brother(h, i)
      side == Opposite(Side(n, i))      \* the brother's
      far == n[brother][side]
      near == n[brother][Opposite(side)]
      (* the code looks for a red child on the left first *)
      outer == IF side = "left" THEN IsRed(h, far) ELSE ~IsRed(h, near) IN
  CASE up = 0 -> h
    [] up # 0 /\ brother = 0 -> FixDoubleBlack(h, up)
    [] up # 0 /\ brother # 0 /\ IsRed(h, brother) ->
         FixDoubleBlack(Rotate(Color(Color(h, up, RED), brother, BLACK), up, Opposite(side)), i)
    [] up # 0 /\ brother # 0 /\ ~IsRed(h, brother) /\ (IsRed(h, far) \/ IsRed(h, near)) ->
         Color(IF outer
               THEN Rotate(Color(Color(h, far, n[brother].color), brother, n[up].color), up, Opposite(side))
               ELSE Rotate(Rotate(Color(h, near, n[up].color), brother, side), up, Opposite(side)),
               up, BLACK)
    [] OTHER ->
         LET h1 == Color(h, brother, RED) IN
         IF n[up].color = BLACK THEN FixDoubleBlack(h1, up) ELSE Color(h1, up, BLACK)

(* Mistake: the father keeps the link to the entry swapped away. *)
Bad_SwapRestore(n, i, isleft) == Put(Put(n, n[i].left, "up", i), n[i].right, "up", i)

(* mcachefs_metadata_hash_swap_restore *)
SwapRestore(n, i, isleft) ==
  LET n1 == Put(n, n[i].up, IF isleft THEN "left" ELSE "right", i) IN
  Put(Put(n1, n1[i].left, "up", i), n1[i].right, "up", i)

(* mcachefs_metadata_hash_swap: the two entries change places and colours.
   hash_root is not touched. *)
RECURSIVE HashSwap(_, _, _)
HashSwap(h, first, second) ==
  LET n == h.node
      f == n[first]
      s == n[second]
      fleft == f.up # 0 /\ n[f.up].left = first
      sleft == s.up # 0 /\ n[s.up].left = second
      other == IF s.left = first THEN s.right ELSE s.left
      son == f.up = second
      f1 == [f EXCEPT !.color = s.color, !.up = s.up,
                      !.left = IF ~son THEN s.left ELSE IF fleft THEN second ELSE other,
                      !.right = IF ~son THEN s.right ELSE IF fleft THEN other ELSE second]
      s1 == [s EXCEPT !.color = f.color, !.up = IF son THEN first ELSE f.up,
                      !.left = f.left, !.right = f.right] IN
  IF s.up = first
  THEN HashSwap(h, second, first)
  ELSE [h EXCEPT !.node = SwapRestore(SwapRestore([n EXCEPT ![first] = f1, ![second] = s1],
                                                  first, sleft),
                                      second, fleft)]

(* mcachefs_metadata_do_remove_hash *)
RECURSIVE DoRemoveHash(_, _)
DoRemoveHash(h, i) ==
  LET n == h.node
      up == n[i].up
      side == Side(n, i)
      replacer == FindReplacer(h, i)
      uvBlack == ~IsRed(h, replacer) /\ ~IsRed(h, i)
      brother == Brother(h, i) IN
  CASE n[i].previous # 0 \/ n[i].next # 0 -> RemoveHashCollision(h, i)
    [] n[i].previous = 0 /\ n[i].next = 0 /\ replacer = 0 ->
         IF i = h.root THEN Bug(h, "Deleted the root with no child")
         ELSE IF up = 0 THEN Bug(h, "no father")      \* a NULL dereference
         ELSE LET h1 == IF uvBlack THEN FixDoubleBlack(h, i)
                        ELSE IF brother # 0 THEN Color(h, brother, RED) ELSE h IN
              [h1 EXCEPT !.node[up][side] = 0]
    [] n[i].previous = 0 /\ n[i].next = 0 /\ replacer # 0 /\ (n[i].left = 0 \/ n[i].right = 0) ->
         IF up = 0 THEN Bug(h, "removed the root")
         ELSE LET h1 == [h EXCEPT !.node[up][side] = replacer, !.node[replacer].up = up] IN
              IF uvBlack THEN FixDoubleBlack(h1, replacer) ELSE Color(h1, replacer, BLACK)
    [] OTHER -> DoRemoveHash(HashSwap(h, replacer, i), i)

(* mcachefs_metadata_find_hash, from entry c; the paths compared are the
   names of the entries. *)
RECURSIVE FindBelow(_, _, _)
FindBelow(h, p, c) ==
  CASE c = 0 -> 0
    [] c # 0 /\ c = p -> c
    [] c # 0 /\ c # p /\ Hash[p] < Hash[c] -> FindBelow(h, p, h.node[c].left)
    [] c # 0 /\ c # p /\ Hash[p] > Hash[c] -> FindBelow(h, p, h.node[c].right)
    [] OTHER -> FindBelow(h, p, h.node[c].next)

FindHash(h, p) == FindBelow(h, p, h.root)

-----------------------------------------------------------------------------
Init ==
  /\ tree = [node |-> [p \in Paths |-> Blank], root |-> Root, bug |-> None]
  /\ present = {Root}

(* mcachefs_metadata_do_add_child, mcachefs_metadata_make_entry: a record just
   allocated, all zero *)
Insert(p) ==
  /\ p \notin present
  /\ tree' = InsertHash(tree, p)
  /\ present' = present \cup {p}

MayLeave(p) ==
  /\ p \in present \ {Root}
  /\ p = tree.root => "remove_root" \in Ops
  /\ tree.node[p].next # 0 /\ tree.node[p].previous = 0 => "remove_head" \in Ops

(* Mistake: the record goes back to the free list as it is. *)
Bad_Remove(p) ==
  /\ MayLeave(p)
  /\ tree' = DoRemoveHash(tree, p)
  /\ present' = present \ {p}

(* mcachefs_metadata_remove_hash, then mcachefs_metadata_remove, which clears
   the record *)
Remove(p) ==
  /\ MayLeave(p)
  /\ LET h == DoRemoveHash(tree, p) IN
     tree' = IF h.bug = None THEN [h EXCEPT !.node[p] = Blank] ELSE h
  /\ present' = present \ {p}

(* mcachefs_metadata_rename_entry and _rehash_children: remove_hash, a new
   hash, insert_hash of the same record *)
Rename(p, q) ==
  /\ "rename" \in Ops
  /\ MayLeave(p)
  /\ tree.node[p].next # 0 \/ tree.node[p].previous # 0 => "rename_chain" \in Ops
  /\ q \notin present
  /\ LET h == DoRemoveHash(tree, p)
         moved == [h EXCEPT !.node[q] = h.node[p], !.node[p] = Blank,
                            !.root = IF @ = p THEN q ELSE @] IN
     tree' = IF h.bug = None THEN InsertHash(moved, q) ELSE h
  /\ present' = (present \ {p}) \cup {q}

(* Bug() stops the process. *)
Next ==
  /\ tree.bug = None
  /\ \/ \E p \in Paths : Insert(p) \/ Remove(p)
     \/ \E p, q \in Paths : Rename(p, q)

Spec == Init /\ [][Next]_vars

-----------------------------------------------------------------------------
(* Properties *)

Ids == Paths \cup {0}

(* The links are paths, or 0; a record that is free is all zero, which
   mcachefs_metadata_allocate and mcachefs_metadata_get_child count on when
   they take it from the free list without clearing it.  None of the Bug()
   of the hash functions is reached. *)
TypeOK ==
  /\ tree.root \in Ids
  /\ \A p \in Paths :
       /\ {tree.node[p][f] : f \in {"up", "left", "right", "next", "previous"}} \subseteq Ids
       /\ tree.node[p].color \in {BLACK, RED}
       /\ p \notin present => tree.node[p] = Blank
  /\ present \subseteq Paths
  /\ tree.bug = None

(* The entries that hang below c, and the black depths of its leaves. *)
RECURSIVE Below(_), BlackDepths(_)
Below(c) ==
  IF c = 0 THEN {}
  ELSE {c} \cup Below(tree.node[c].left) \cup Below(tree.node[c].right)

BlackDepths(c) ==
  IF c = 0 THEN {0}
  ELSE {d + (1 - tree.node[c].color) : d \in BlackDepths(tree.node[c].left) \cup BlackDepths(tree.node[c].right)}

(* What mcachefs_metadata_dump_hash verifies at every entry: hashes smaller on
   the left and larger on the right, the up link, no red child of a red
   entry, and one black depth for all the leaves. *)
RedBlackTree ==
  /\ \A c \in Below(tree.root) :
       LET e == tree.node[c] IN
       /\ \A l \in Below(e.left) : Hash[l] < Hash[c]
       /\ \A r \in Below(e.right) : Hash[r] > Hash[c]
       /\ \A side \in {"left", "right"} :
            e[side] # 0 => tree.node[e[side]].up = c /\ (e.color = RED => tree.node[e[side]].color = BLACK)
  /\ Cardinality(BlackDepths(tree.root)) = 1

(* mcachefs_metadata_find_hash finds exactly the entries that exist, after any
   sequence of insertions, removals and renamings. *)
FindsWhatExists == \A p \in Paths : FindHash(tree, p) = (IF p \in present THEN p ELSE 0)

================================================================================
