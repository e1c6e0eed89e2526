-------------------------------- MODULE Lists --------------------------------
(***************************************************************************)
(* The doubly linked lists of rtservice.h.  A list is the sequence of the  *)
(* objects whose nodes are linked in it.                                   *)
(***************************************************************************)
EXTENDS Integers, Sequences, SequencesExt

\* rt_list_remove on a node that is in the list, or is not in any.
Without(s, t) ==
    IF t \in ToSet(s)
    THEN RemoveAt(s, CHOOSE i \in DOMAIN s : s[i] = t)
    ELSE s

NoRepeats(s) == \A i, j \in 1 .. Len(s) : s[i] = s[j] => i = j
=============================================================================
