----------------------------- MODULE LinkedList -----------------------------
(***************************************************************************)
(* The doubly linked lists of include/lib/list.h on which devices, boot    *)
(* devices, threads and interrupts are kept.  Every operation is its row   *)
(* of pointer assignments on the memory m = [next, prev]; the reference is *)
(* the sequence of entries that each list stands for.                      *)
(***************************************************************************)
EXTENDS Naturals, Sequences, SequencesExt, FiniteSets

CONSTANTS ListHeads, ListEntries, NULL
ASSUME ListAssumption == /\ IsFiniteSet(ListHeads \cup ListEntries)
                         /\ ListHeads \cap ListEntries = {}
                         /\ NULL \notin ListHeads \cup ListEntries

VARIABLES
  lmem,     \* the next and prev pointers of all heads and entries
  lseq,     \* the entries of each list, as the callers think of them
  lstale,   \* heads and entries whose pointers an operation has left undefined
  lloop     \* the list_for_each loop under way, or NoLoop
listVars == <<lmem, lseq, lstale, lloop>>

Nodes == ListHeads \cup ListEntries
NoLoop == [kind |-> "none", head |-> NULL, pos |-> NULL, n |-> NULL, seen |-> <<>>, due |-> <<>>]

-----------------------------------------------------------------------------
(* Assignments through a pointer, and the rows of them.                    *)
SetNext(m, p, q) == [m EXCEPT !.next[p] = q]
SetPrev(m, p, q) == [m EXCEPT !.prev[p] = q]

INIT_LIST_HEAD(m, list) == SetPrev(SetNext(m, list, list), list, list)
__list_add(m, new, prev, next) ==
  SetNext(SetPrev(SetNext(SetPrev(m, next, new), new, next), new, prev), prev, new)
list_add(m, new, head) == __list_add(m, new, head, m.next[head])
list_add_tail(m, new, head) == __list_add(m, new, m.prev[head], head)
__list_del(m, prev, next) == SetNext(SetPrev(m, next, prev), prev, next)
__list_del_entry(m, entry) == __list_del(m, m.prev[entry], m.next[entry])
__list_del_clearprev(m, entry) == SetPrev(__list_del_entry(m, entry), entry, NULL)
list_del(m, entry) == SetPrev(SetNext(__list_del_entry(m, entry), entry, NULL), entry, NULL)
list_del_init(m, entry) == INIT_LIST_HEAD(__list_del_entry(m, entry), entry)

ReplaceNext(m, old, new) == SetPrev(SetNext(m, new, m.next[old]), m.next[old], new)
ReplacePrev(m, old, new) == SetNext(SetPrev(m, new, m.prev[old]), m.prev[old], new)
list_replace(m, old, new) == ReplacePrev(ReplaceNext(m, old, new), old, new)
list_replace_init(m, old, new) == INIT_LIST_HEAD(list_replace(m, old, new), old)

SwapAnywhere(m, entry1, entry2) ==
  list_add(list_replace(list_del(m, entry2), entry1, entry2), entry1, m.prev[entry2])
list_swap(m, entry1, entry2) ==
  list_add(list_replace(list_del(m, entry2), entry1, entry2), entry1,
           IF m.prev[entry2] = entry1 THEN entry2 ELSE m.prev[entry2])

list_move(m, list, head) == list_add(__list_del_entry(m, list), list, head)
list_move_tail(m, list, head) == list_add_tail(__list_del_entry(m, list), list, head)

Unhook(m, first, last) == SetPrev(SetNext(m, m.prev[first], m.next[last]), m.next[last], m.prev[first])
HookBefore(m, head, first, last) ==
  SetPrev(SetNext(SetPrev(SetNext(m, m.prev[head], first), first, m.prev[head]), last, head), head, last)
list_bulk_move_tail(m, head, first, last) == HookBefore(Unhook(m, first, last), head, first, last)

list_is_first(m, list, head) == m.prev[list] = head
list_is_last(m, list, head) == m.next[list] = head
list_is_head(list, head) == list = head
list_empty(m, head) == m.next[head] = head
list_is_singular(m, head) == ~list_empty(m, head) /\ m.next[head] = m.prev[head]

list_rotate_left(m, head) == IF list_empty(m, head) THEN m ELSE list_move_tail(m, m.next[head], head)
list_rotate_to_front(m, list, head) == list_move_tail(m, head, list)

CutList(m, list, head, entry) == SetNext(SetPrev(SetPrev(SetNext(m, list, m.next[head]), m.next[head], list),
                                                 list, entry), entry, list)
__list_cut_position(m, list, head, entry) ==
  SetPrev(SetNext(CutList(m, list, head, entry), head, m.next[entry]), m.next[entry], head)
list_cut_position(m, list, head, entry) ==
  IF \/ list_empty(m, head)
     \/ list_is_singular(m, head) /\ ~list_is_head(entry, head) /\ entry # m.next[head]
  THEN m
  ELSE IF list_is_head(entry, head) THEN INIT_LIST_HEAD(m, list)
                                    ELSE __list_cut_position(m, list, head, entry)
list_cut_before(m, list, head, entry) ==
  IF m.next[head] = entry THEN INIT_LIST_HEAD(m, list)
  ELSE SetPrev(SetNext(CutList(m, list, head, m.prev[entry]), head, entry), entry, head)

__list_splice(m, list, prev, next) ==
  SetPrev(SetNext(SetNext(SetPrev(m, m.next[list], prev), prev, m.next[list]), m.prev[list], next),
          next, m.prev[list])
list_splice(m, list, head) ==
  IF list_empty(m, list) THEN m ELSE __list_splice(m, list, head, m.next[head])
list_splice_tail(m, list, head) ==
  IF list_empty(m, list) THEN m ELSE __list_splice(m, list, m.prev[head], head)
list_splice_init(m, list, head) ==
  IF list_empty(m, list) THEN m ELSE INIT_LIST_HEAD(__list_splice(m, list, head, m.next[head]), list)
list_splice_tail_init(m, list, head) ==
  IF list_empty(m, list) THEN m ELSE INIT_LIST_HEAD(__list_splice(m, list, m.prev[head], head), list)

\* list_for_each and list_for_each_prev: the nodes met from head until head is met again.
Walk(to, head) ==
  LET far == Cardinality(Nodes) + 1
      at[k \in 1..far] == IF k = 1 THEN to[head] ELSE to[at[k - 1]]
      end == CHOOSE k \in 1..far :
               (at[k] \in {head, NULL} \/ k = far) /\ \A j \in 1..k - 1 : at[j] \notin {head, NULL}
  IN [k \in 1..end - 1 |-> at[k]]
list_for_each(m, head) == Walk(m.next, head)
list_for_each_prev(m, head) == Walk(m.prev, head)
list_count_nodes(m, head) == Len(list_for_each(m, head))
list_next_entry_circular(m, pos, head) == IF list_is_last(m, pos, head) THEN m.next[head] ELSE m.next[pos]
list_prev_entry_circular(m, pos, head) == IF list_is_first(m, pos, head) THEN m.prev[head] ELSE m.prev[pos]

-----------------------------------------------------------------------------
ListInit ==
  /\ lmem = [next |-> [x \in Nodes |-> IF x \in ListHeads THEN x ELSE NULL],
             prev |-> [x \in Nodes |-> IF x \in ListHeads THEN x ELSE NULL]]
  /\ lseq = [h \in ListHeads |-> <<>>]
  /\ lstale = ListEntries
  /\ lloop = NoLoop

NoLoopRuns == lloop = NoLoop
Live == ListHeads \ lstale
On(h) == Range(lseq[h])
Without(s, e) == SelectSeq(s, LAMBDA x : x # e)
Exchange(s, a, b) == [i \in DOMAIN s |-> IF s[i] = a THEN b ELSE IF s[i] = b THEN a ELSE s[i]]
Index(h, e) == CHOOSE i \in DOMAIN lseq[h] : lseq[h][i] = e

\* What the pointers of a removed entry or a spliced head hold is undefined to
\* the callers: NULL here, so that a step that follows one does not go unseen.
Poison(m, stale) == [f \in {"next", "prev"} |-> [x \in Nodes |-> IF x \in stale THEN NULL ELSE m[f][x]]]
Leaves(m, s, stale) == lmem' = Poison(m, stale) /\ lseq' = s /\ lstale' = stale
Becomes(m, s, stale) == Leaves(m, s, stale) /\ lloop' = lloop

Add == \E e \in ListEntries \cap lstale, h \in Live :
  \/ Becomes(list_add(lmem, e, h), [lseq EXCEPT ![h] = <<e>> \o @], lstale \ {e})
  \/ Becomes(list_add_tail(lmem, e, h), [lseq EXCEPT ![h] = Append(@, e)], lstale \ {e})
  \/ \E p \in On(h) :
       Becomes(list_add(lmem, e, p), [lseq EXCEPT ![h] = InsertAt(@, Index(h, p) + 1, e)], lstale \ {e})

RemoveEntry == \E h \in Live : \E e \in On(h) :
  \/ Becomes(list_del(lmem, e), [lseq EXCEPT ![h] = Without(@, e)], lstale \cup {e})
  \/ Becomes(list_del_init(lmem, e), [lseq EXCEPT ![h] = Without(@, e)], lstale \cup {e})
  \/ Becomes(__list_del_clearprev(lmem, e), [lseq EXCEPT ![h] = Without(@, e)], lstale \cup {e})

ReplaceEntry == \E h \in Live, new \in ListEntries \cap lstale : \E old \in On(h) :
  \E m \in {list_replace(lmem, old, new), list_replace_init(lmem, old, new)} :
    Becomes(m, [lseq EXCEPT ![h] = [@ EXCEPT ![Index(h, old)] = new]], (lstale \cup {old}) \ {new})

Swap == \E g, h \in Live : \E a \in On(g), b \in On(h) :
  /\ a # b
  /\ Becomes(list_swap(lmem, a, b), [l \in ListHeads |-> Exchange(lseq[l], a, b)], lstale)

Moved(e, g, s) == [l \in ListHeads |-> IF l = g THEN s ELSE Without(lseq[l], e)]
Move == \E g, h \in Live : \E e \in On(h) :
  \/ Becomes(list_move(lmem, e, g), Moved(e, g, <<e>> \o Without(lseq[g], e)), lstale)
  \/ Becomes(list_move_tail(lmem, e, g), Moved(e, g, Append(Without(lseq[g], e), e)), lstale)

MoveRow == \E h \in Live : \E i \in DOMAIN lseq[h] : \E j \in i..Len(lseq[h]) :
  Becomes(list_bulk_move_tail(lmem, h, lseq[h][i], lseq[h][j]),
          [lseq EXCEPT ![h] = SubSeq(@, 1, i - 1) \o SubSeq(@, j + 1, Len(@)) \o SubSeq(@, i, j)], lstale)

Rotate == \E h \in Live :
  \/ Becomes(list_rotate_left(lmem, h),
             [lseq EXCEPT ![h] = IF @ = <<>> THEN @ ELSE Append(Tail(@), Head(@))], lstale)
  \/ \E i \in DOMAIN lseq[h] :
       Becomes(list_rotate_to_front(lmem, lseq[h][i], h),
               [lseq EXCEPT ![h] = SubSeq(@, i, Len(@)) \o SubSeq(@, 1, i - 1)], lstale)

\* The callers give an empty list for the part that is cut off; the entry is on head or is head.
CutAt(g, h, n) == [lseq EXCEPT ![g] = SubSeq(lseq[h], 1, n), ![h] = SubSeq(@, n + 1, Len(@))]
Cut == \E g, h \in Live :
  /\ g # h /\ lseq[g] = <<>>
  /\ \E i \in 0..Len(lseq[h]) :
       Becomes(list_cut_position(lmem, g, h, IF i = 0 THEN h ELSE lseq[h][i]), CutAt(g, h, i), lstale)
     \/ Becomes(list_cut_before(lmem, g, h, IF i = Len(lseq[h]) THEN h ELSE lseq[h][i + 1]),
                CutAt(g, h, i), lstale)

\* list_splice and list_splice_tail leave the pointers of a list that was not empty behind.
Spliced(g, h, s) == [lseq EXCEPT ![h] = s, ![g] = <<>>]
Left(g) == IF lseq[g] = <<>> THEN lstale ELSE lstale \cup {g}
Splice == \E g, h \in Live :
  /\ g # h
  /\ \/ Becomes(list_splice(lmem, g, h), Spliced(g, h, lseq[g] \o lseq[h]), Left(g))
     \/ Becomes(list_splice_tail(lmem, g, h), Spliced(g, h, lseq[h] \o lseq[g]), Left(g))
     \/ Becomes(list_splice_init(lmem, g, h), Spliced(g, h, lseq[g] \o lseq[h]), lstale)
     \/ Becomes(list_splice_tail_init(lmem, g, h), Spliced(g, h, lseq[h] \o lseq[g]), lstale)

InitHead == \E h \in ListHeads \cap lstale : Becomes(INIT_LIST_HEAD(lmem, h), lseq, lstale \ {h})

-----------------------------------------------------------------------------
(* Loops.  The body of a safe one may take its entry off the list, or to   *)
(* the end of another one; that of the others leaves the list alone.       *)
Way(k) == IF k \in {"reverse", "safe_reverse"} THEN lmem.prev ELSE lmem.next
Due(k, h, p) ==
  IF k \in {"reverse", "safe_reverse"} THEN Reverse(SubSeq(lseq[h], 1, p)) ELSE SubSeq(lseq[h], p, Len(lseq[h]))
\* A loop from the first (or last) entry; the others continue from a given one.
LoopFrom(k, h, pos, due) ==
  lloop' = [kind |-> k, head |-> h, pos |-> pos, n |-> IF pos = NULL THEN NULL ELSE Way(k)[pos],
            seen |-> <<>>, due |-> due]
list_for_each_entry(k, h) ==
  LoopFrom(k, h, Way(k)[h], Due(k, h, IF k \in {"reverse", "safe_reverse"} THEN Len(lseq[h]) ELSE 1))
list_for_each_entry_from(k, h, i) == LoopFrom(k, h, lseq[h][i], Due(k, h, i))
Kinds == {"entry", "reverse", "safe", "safe_reverse"}
Begin_loop == \E h \in Live, k \in Kinds :
  /\ \/ list_for_each_entry(k, h)
     \/ \E i \in DOMAIN lseq[h] : list_for_each_entry_from(k, h, i)
  /\ UNCHANGED <<lmem, lseq, lstale>>

Body ==
  \/ UNCHANGED <<lmem, lseq, lstale>>
  \/ /\ lloop.kind \in {"safe", "safe_reverse"}
     /\ \/ Leaves(list_del(lmem, lloop.pos), [lseq EXCEPT ![lloop.head] = Without(@, lloop.pos)],
                  lstale \cup {lloop.pos})
        \/ \E g \in Live \ {lloop.head} :
             Leaves(list_move_tail(lmem, lloop.pos, g), Moved(lloop.pos, g, Append(lseq[g], lloop.pos)), lstale)
Advance(l, to) ==
  [l EXCEPT !.seen = Append(@, l.pos),
            !.pos = IF l.kind \in {"safe", "safe_reverse"} THEN l.n ELSE to[l.pos],
            !.n = to[l.n]]
LoopTurn ==
  /\ ~NoLoopRuns /\ ~list_is_head(lloop.pos, lloop.head)
  /\ Body
  /\ lloop' = Advance(lloop, IF lloop.kind \in {"reverse", "safe_reverse"} THEN lmem'.prev ELSE lmem'.next)
LoopEnds ==
  /\ ~NoLoopRuns /\ list_is_head(lloop.pos, lloop.head)
  /\ lloop' = NoLoop /\ UNCHANGED <<lmem, lseq, lstale>>

ListNext ==
  \/ NoLoopRuns /\ (Add \/ RemoveEntry \/ ReplaceEntry \/ Swap \/ Move \/ MoveRow \/ Rotate \/ Cut \/ Splice \/ InitHead
              \/ Begin_loop)
  \/ LoopTurn \/ LoopEnds

ListSpec == ListInit /\ [][ListNext]_listVars

-----------------------------------------------------------------------------
\* Every pointer of a head or an entry that is in use leads to a head or an
\* entry in use; a loop stands on the head or an entry of its list.
ListTypeOK ==
  /\ \A x \in Nodes \ lstale : {lmem.next[x], lmem.prev[x]} \subseteq Nodes \ lstale
  /\ ~NoLoopRuns => lloop.pos \in Nodes \ lstale /\ lloop.n \in Nodes \ lstale

\* Walking a list forwards and backwards meets exactly the entries the
\* operations should have left on it, in order (list.h, all operations), and
\* the tests for first, last, single and the circular steps agree with them.
ListsExact == \A h \in Live :
  /\ list_for_each(lmem, h) = lseq[h]
  /\ list_for_each_prev(lmem, h) = Reverse(lseq[h])
  /\ list_count_nodes(lmem, h) = Len(lseq[h])
  /\ list_empty(lmem, h) = (lseq[h] = <<>>)
  /\ list_is_singular(lmem, h) = (Len(lseq[h]) = 1)
  /\ \A i \in DOMAIN lseq[h] :
       /\ list_is_first(lmem, lseq[h][i], h) = (i = 1)
       /\ list_is_last(lmem, lseq[h][i], h) = (i = Len(lseq[h]))
       /\ list_next_entry_circular(lmem, lseq[h][i], h) = lseq[h][(i % Len(lseq[h])) + 1]
       /\ list_prev_entry_circular(lmem, lseq[h][(i % Len(lseq[h])) + 1], h) = lseq[h][i]

\* A loop visits every entry it should exactly once and in order, also when
\* its body takes the entries away (list_for_each_entry_safe).
LoopVisitsAll == ~NoLoopRuns =>
  /\ IsPrefix(lloop.seen, lloop.due)
  /\ list_is_head(lloop.pos, lloop.head) => lloop.seen = lloop.due

\* Lists hold what was put into them, and a loop over one visits all of it.
ListsSound == ListTypeOK /\ ListsExact /\ LoopVisitsAll
=============================================================================
