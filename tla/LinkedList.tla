----------------------------- MODULE LinkedList -----------------------------
(***************************************************************************)
(* The doubly linked lists of the host tools and of the boards             *)
(* (lib/list.h): heads and entries linked in rings by next and prev.  A    *)
(* call follows pointers it has just changed, and a loop over a list may   *)
(* remove the entry it is at.                                              *)
(***************************************************************************)
EXTENDS Integers, Sequences, FiniteSets

CONSTANTS
    Heads,          \* the list heads, INIT_LIST_HEAD done
    Entries,        \* the entries that may be added to a list
    NULL

ASSUME ListConstants ==
    Heads \cap Entries = {} /\ NULL \notin Heads \cup Entries /\ IsFiniteSet(Entries)

Nodes == Heads \cup Entries

VARIABLES
    next, prev,
    walked,         \* list_for_each_safe: the head of the list, or NULL
    pos, n          \* and its two cursors

links == <<next, prev>>
list_vars == <<links, walked, pos, n>>

Linked(x) == next[x] # NULL

\* INIT_LIST_HEAD, or LIST_HEAD_INIT; the entries are in no list.
ListInit ==
    /\ next = [x \in Nodes |-> IF x \in Heads THEN x ELSE NULL]
    /\ prev = [x \in Nodes |-> IF x \in Heads THEN x ELSE NULL]
    /\ walked = NULL /\ pos = NULL /\ n = NULL

----------------------------------------------------------------------------
(* __list_add and __list_del on links l = [next, prev]: the writes in their order. *)

Links == [next |-> next, prev |-> prev]

\* Mutant: the entry is not made the previous one of what follows it.
AddForward(l, new, before, after) ==
    [next |-> [l.next EXCEPT ![new] = after, ![before] = new],
     prev |-> [l.prev EXCEPT ![new] = before]]
Add(l, new, before, after) ==
    [next |-> [l.next EXCEPT ![new] = after, ![before] = new],
     prev |-> [l.prev EXCEPT ![after] = new, ![new] = before]]

Del(l, entry) ==
    LET before == l.prev[entry]
        after == l.next[entry]
    IN [next |-> [[l.next EXCEPT ![before] = after] EXCEPT ![entry] = NULL],
        prev |-> [[l.prev EXCEPT ![after] = before] EXCEPT ![entry] = NULL]]

MoveTail(l, entry, head) ==
    LET rest == Del(l, entry) IN Add(rest, entry, rest.prev[head], head)

Becomes(l) == next' = l.next /\ prev' = l.prev

\* While a list is walked, the body removes or moves nothing but the entry it is at.
MayRemove(entry) == Linked(entry) /\ (walked = NULL \/ entry = pos)

list_add(new, head) ==
    /\ ~Linked(new)
    /\ Becomes(Add(Links, new, head, next[head]))
    /\ UNCHANGED <<walked, pos, n>>

list_add_tail(new, head) ==
    /\ ~Linked(new)
    /\ Becomes(Add(Links, new, prev[head], head))
    /\ UNCHANGED <<walked, pos, n>>

list_del(entry) ==
    /\ MayRemove(entry)
    /\ Becomes(Del(Links, entry))
    /\ UNCHANGED <<walked, pos, n>>

list_move_tail(entry, head) ==
    /\ MayRemove(entry)
    /\ Becomes(MoveTail(Links, entry, head))
    /\ UNCHANGED <<walked, pos, n>>

list_empty(head) == next[head] = head

list_rotate_left(head) ==
    /\ walked = NULL /\ ~list_empty(head)
    /\ Becomes(MoveTail(Links, next[head], head))
    /\ UNCHANGED <<walked, pos, n>>

----------------------------------------------------------------------------
(* list_for_each_safe, list_for_each_entry_safe. *)

ForEach(head) ==
    /\ walked = NULL
    /\ walked' = head /\ pos' = next[head] /\ n' = next[next[head]]
    /\ UNCHANGED links

Following == n

ForEachStep ==
    /\ walked # NULL /\ pos # walked
    /\ pos' = Following /\ n' = IF Following = NULL THEN NULL ELSE next[Following]
    /\ UNCHANGED <<links, walked>>

ForEachEnds ==
    /\ walked # NULL /\ pos = walked
    /\ walked' = NULL /\ pos' = NULL /\ n' = NULL
    /\ UNCHANGED links

ListNext ==
    \/ \E e \in Entries, h \in Heads : list_add(e, h) \/ list_add_tail(e, h) \/ list_move_tail(e, h)
    \/ \E e \in Entries : list_del(e)
    \/ \E h \in Heads : list_rotate_left(h) \/ ForEach(h)
    \/ ForEachStep \/ ForEachEnds

ListSpec == ListInit /\ [][ListNext]_list_vars

----------------------------------------------------------------------------
ListTypeOK ==
    /\ next \in [Nodes -> Nodes \cup {NULL}] /\ prev \in [Nodes -> Nodes \cup {NULL}]
    /\ walked \in Heads \cup {NULL} /\ pos \in Nodes \cup {NULL} /\ n \in Nodes \cup {NULL}

\* The two directions of every list agree: from an entry, or a head, the next
\* one's previous is the entry itself, and so is the previous one's next.
LinksAgree ==
    \A x \in Nodes :
        /\ Linked(x) <=> prev[x] # NULL
        /\ Linked(x) => /\ next[x] \in Nodes /\ prev[next[x]] = x
                        /\ prev[x] \in Nodes /\ next[prev[x]] = x

\* A walk stays in a list: what it goes to next has been removed by nobody.
WalkStaysLinked == walked # NULL => n # NULL /\ Linked(n)

\* The ring of a head h and the sequence s: h is before the first and after the last.
Node(s, h, i) == IF i \in 1 .. Len(s) THEN s[i] ELSE h

\* The entries from a head along next, back to the head, unless a link is broken.
Along(h, s) == \A i \in 0 .. Len(s) : next[Node(s, h, i)] = Node(s, h, i + 1)
OnceEach ==
    {s \in UNION {[1 .. k -> Entries] : k \in 0 .. Cardinality(Entries)} :
        \A i, j \in 1 .. Len(s) : s[i] = s[j] => i = j}
Broken == <<NULL>>
Reached(h) == IF \E s \in OnceEach : Along(h, s) THEN CHOOSE s \in OnceEach : Along(h, s) ELSE Broken

\* The lists are the sequences their comments describe: Abstract!SeqSpec, where a
\* step that changes no link, a walk's, is a stutter.
Abstract == INSTANCE ListSequences WITH contents <- [h \in Heads |-> Reached(h)]
ListsAreSequences == Abstract!SeqInit /\ [][UNCHANGED links \/ Abstract!SeqNext]_links

============================================================================
