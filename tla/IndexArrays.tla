---------------------------- MODULE IndexArrays ----------------------------
(***************************************************************************)
(* The arrays of ids that PositionManager and AgentRegistry keep beside    *)
(* their mappings, and how an id leaves one.                               *)
(***************************************************************************)
EXTENDS Integers, Sequences

\* ids[i] = ids[len - 1]; ids.pop() for the first i holding id.  A missing id leaves the
\* array alone.
PopWithoutSwap(ids, id) ==
    IF \A i \in DOMAIN ids : ids[i] # id THEN ids ELSE SubSeq(ids, 1, Len(ids) - 1)
SwapAndPop(ids, id) ==
    IF \A i \in DOMAIN ids : ids[i] # id
    THEN ids
    ELSE LET i == CHOOSE k \in DOMAIN ids : ids[k] = id /\ \A j \in 1 .. k - 1 : ids[j] # id
         IN  SubSeq([ids EXCEPT ![i] = ids[Len(ids)]], 1, Len(ids) - 1)
=============================================================================
