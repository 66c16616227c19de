--------------------------- MODULE ListSequences ---------------------------
(***************************************************************************)
(* What the lists of lib/list.h promise: each head has a sequence of the   *)
(* entries, an entry is in one of them at most, and each call changes it   *)
(* as its comment says.                                                    *)
(***************************************************************************)
EXTENDS SequencesExt

CONSTANTS Heads, Entries

VARIABLE contents

Listed == UNION {ToSet(contents[h]) : h \in Heads}

SeqInit == contents = [h \in Heads |-> << >>]

SeqAdd(e, h) == e \notin Listed /\ contents' = [contents EXCEPT ![h] = <<e>> \o @]
SeqAddTail(e, h) == e \notin Listed /\ contents' = [contents EXCEPT ![h] = Append(@, e)]
Without(h, i) == [contents EXCEPT ![h] = RemoveAt(@, i)]
SeqDel(e) ==
    \E h \in Heads : \E i \in DOMAIN contents[h] :
        contents[h][i] = e /\ contents' = Without(h, i)
SeqMoveTail(e, h) ==
    \E g \in Heads : \E i \in DOMAIN contents[g] :
        contents[g][i] = e /\ contents' = [Without(g, i) EXCEPT ![h] = Append(@, e)]
SeqRotate(h) ==
    /\ contents[h] # << >>
    /\ contents' = [contents EXCEPT ![h] = Append(Tail(@), Head(@))]

SeqNext ==
    \/ \E e \in Entries, h \in Heads : SeqAdd(e, h) \/ SeqAddTail(e, h) \/ SeqMoveTail(e, h)
    \/ \E e \in Entries : SeqDel(e)
    \/ \E h \in Heads : SeqRotate(h)

SeqSpec == SeqInit /\ [][SeqNext]_contents

============================================================================
