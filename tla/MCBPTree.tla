------------------------------ MODULE MCBPTree ------------------------------
(* BPTree in two sizes at once.  Small keys come in any order, eight of them *)
(* to insert, which is what three levels take when FANOUT is 3, and one more *)
(* that a delete or a range may name.  Large keys make a tall tree, with so  *)
(* many internal nodes on a level that they lend and grow past FANOUT: they  *)
(* are inserted in increasing order, every second one, so that each leaf has *)
(* a key it lacks, and deleted from or asked for while the tree is tall.     *)
(* A tree holds keys of one kind.  The record of a key is the key itself.    *)
EXTENDS BPTree

CONSTANTS SmallKeys, LargeKeys, LoadedKeys

MCKeys == SmallKeys \cup LargeKeys
MCEntries == {<<k, k>> : k \in (SmallKeys \ {Max(SmallKeys)}) \cup {j \in LargeKeys : j % 2 = 0}}
MCKeyRanges ==
    {<<k, k>> : k \in SmallKeys} \cup {<<2, Max(SmallKeys)>>, <<3, 6>>, <<6, 3>>}
      \cup {<<13, 18>>, <<18, 13>>, <<Min(LargeKeys), Max(LargeKeys)>>}

MayAsk(k) ==
    IF k \in SmallKeys THEN StoredKeys \subseteq SmallKeys
    ELSE StoredKeys \subseteq LargeKeys /\ Cardinality(StoredKeys) >= LoadedKeys

MCNext ==
    \/ \E entry \in Entries :
          /\ IF entry[1] \in SmallKeys THEN StoredKeys \subseteq SmallKeys
             ELSE StoredKeys \subseteq LargeKeys /\ \A k \in StoredKeys : k < entry[1]
          /\ BeginInsert(entry[1], entry[2])
    \/ \E k \in Keys : MayAsk(k) /\ BeginDelete(k)
    \/ \E range \in KeyRanges : MayAsk(range[1]) /\ BeginRange(range[1], range[2])
    \/ Work

MCSpec == Init /\ [][MCNext]_vars /\ WF_vars(Work)
=============================================================================
