------------------------------- MODULE KeyBag -------------------------------
(***************************************************************************)
(* What SeqBPlusTree promises: a bag of keys, each call one step.  get and *)
(* remove tell whether the key is there, and remove takes one copy of it.  *)
(*                                                                         *)
(* The promise is weaker for a key that is inserted while it is in the bag:*)
(* until all its copies are gone, get and remove may miss it.  Other keys  *)
(* are not affected.                                                       *)
(***************************************************************************)
EXTENDS Integers

CONSTANT Keys

VARIABLES bag,       \* key -> copies of it
          doubtful,  \* keys that may be missed
          answer     \* what the last call returned

bagVars == <<bag, doubtful, answer>>

Answers == {"none", "found", "missed"}

BagInit == bag = [k \in Keys |-> 0] /\ doubtful = {} /\ answer = "none"

MayFind(k) == bag[k] > 0
MayMiss(k) == bag[k] = 0 \/ k \in doubtful

Insert(k) ==
    /\ bag' = [bag EXCEPT ![k] = @ + 1]
    /\ doubtful' = IF bag[k] > 0 THEN doubtful \cup {k} ELSE doubtful
    /\ answer' = "none"

Get(k) ==
    /\ \/ MayFind(k) /\ answer' = "found"
       \/ MayMiss(k) /\ answer' = "missed"
    /\ UNCHANGED <<bag, doubtful>>

RemoveOne(k) ==
    /\ MayFind(k) /\ answer' = "found"
    /\ bag' = [bag EXCEPT ![k] = @ - 1]
    /\ doubtful' = IF bag[k] = 1 THEN doubtful \ {k} ELSE doubtful

RemoveNone(k) ==
    /\ MayMiss(k) /\ answer' = "missed"
    /\ UNCHANGED <<bag, doubtful>>

BagNext == \E k \in Keys : Insert(k) \/ Get(k) \/ RemoveOne(k) \/ RemoveNone(k)

BagSpec == BagInit /\ [][BagNext]_bagVars
=============================================================================
