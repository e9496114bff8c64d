------------------------------- MODULE Seckill --------------------------------
(***************************************************************************)
(* One flash sale: the head of the activity and the list of its goods      *)
(* (SeckillHandler, SeckillRepo).  The admin saves both in one             *)
(* transaction, which updates the head, deletes the goods and inserts them *)
(* anew; deleting the activity deletes the goods first, then the head.     *)
(* No one buys from a sale yet: ClaimStock is never called, and every save *)
(* sets sold_count to 0.                                                   *)
(*                                                                         *)
(* PostgreSQL at READ COMMITTED: a DELETE removes the rows that were       *)
(* committed when the statement began and are still there when it gets     *)
(* their locks.  What a transaction has written is seen at its commit.     *)
(* Creating is one step, its rows being unknown to anyone before.          *)
(*                                                                         *)
(* LocksHeadLast is not part of the specification: LocksHead with a        *)
(* plausible defect, kept to see that the property can fail.               *)
(***************************************************************************)
EXTENDS Calls

CONSTANT MaxSaves   \* saves of the activity (bound of the model)

ASSUME SeckillAssumption == MaxSaves \in Nat \ {0}

VARIABLES
  activity,  \* the head of the activity
  products,  \* the saves whose goods are committed
  lastSave,  \* the last save begun, the creation being the first
  batch      \* [Requests -> BatchState]

seckillVars == <<activity, products, lastSave, batch>>

-----------------------------------------------------------------------------
(* Rows and transactions *)

Saves == 1..MaxSaves

Activity == [exists : BOOLEAN, save : 0..MaxSaves]

\* "head": at the head; "goods": at the DELETE of the goods; "lock": that DELETE
\* waits for the rows it has seen; "insert": at the INSERT.
BatchState == [pc : {"idle", "head", "goods", "lock", "insert"},
               save : 0..MaxSaves,        \* 0 for a transaction that deletes
               head : BOOLEAN,            \* holds the lock of the head
               seen : SUBSET Saves,
               removed : SUBSET Saves]    \* goods it deleted, and so holds

NoBatch == [pc |-> "idle", save |-> 0, head |-> FALSE, seen |-> {}, removed |-> {}]

HeadIsFree(r) == \A q \in Requests \ {r} : ~batch[q].head
AreFree(r, S) == \A q \in Requests \ {r} : batch[q].removed \cap S = {}

-----------------------------------------------------------------------------
(* Create, Update *)

CreateActivity ==
  /\ lastSave = 0
  /\ activity' = [exists |-> TRUE, save |-> 1]
  /\ products' = {1}
  /\ lastSave' = 1
  /\ UNCHANGED batch

FindActivity(r) ==
  /\ batch[r].pc = "idle"
  /\ activity.exists
  /\ lastSave < MaxSaves
  /\ lastSave' = lastSave + 1
  /\ batch' = [batch EXCEPT ![r] = [NoBatch EXCEPT !.pc = "head", !.save = lastSave']]
  /\ UNCHANGED <<activity, products>>

\* An UPDATE locks the row it matches.
LocksHeadLast == FALSE
LocksHead == activity.exists

UpdateHead(r) ==
  /\ batch[r].pc = "head" /\ batch[r].save # 0
  /\ HeadIsFree(r)
  /\ batch' = [batch EXCEPT ![r] = [@ EXCEPT !.pc = "goods", !.head = LocksHead]]
  /\ UNCHANGED <<activity, products, lastSave>>

SeeGoods(r) ==
  /\ batch[r].pc = "goods"
  /\ batch' = [batch EXCEPT ![r] = [@ EXCEPT !.pc = "lock", !.seen = products]]
  /\ UNCHANGED <<activity, products, lastSave>>

RemoveGoods(r) ==
  LET S == batch[r].seen \cap products IN
    /\ batch[r].pc = "lock"
    /\ AreFree(r, S)
    /\ batch' = [batch EXCEPT ![r] =
         [@ EXCEPT !.pc = IF batch[r].save = 0 THEN "head" ELSE "insert",
                   !.removed = S]]
    /\ UNCHANGED <<activity, products, lastSave>>

\* The goods refer to no activity that the database would look for.
InsertGoods(r) ==
  LET b == batch[r] IN
    /\ b.pc = "insert"
    /\ products' = (products \ b.removed) \cup {b.save}
    /\ activity' = IF activity.exists THEN [activity EXCEPT !.save = b.save] ELSE activity
    /\ batch' = [batch EXCEPT ![r] = NoBatch]
    /\ UNCHANGED lastSave

-----------------------------------------------------------------------------
(* Delete, and transactions that end otherwise *)

DeleteActivity(r) ==
  /\ batch[r].pc = "idle"
  /\ batch' = [batch EXCEPT ![r] = [NoBatch EXCEPT !.pc = "goods"]]
  /\ UNCHANGED <<activity, products, lastSave>>

DeleteHead(r) ==
  LET b == batch[r] IN
    /\ b.pc = "head" /\ b.save = 0
    /\ HeadIsFree(r)
    /\ products' = products \ b.removed
    /\ activity' = [exists |-> FALSE, save |-> 0]
    /\ batch' = [batch EXCEPT ![r] = NoBatch]
    /\ UNCHANGED lastSave

\* An error, a connection that is lost, the victim of a deadlock: an Update has
\* the head and waits for the goods of a Delete that waits for the head.
RollBack(r) ==
  /\ batch[r].pc # "idle"
  /\ batch' = [batch EXCEPT ![r] = NoBatch]
  /\ UNCHANGED <<activity, products, lastSave>>

-----------------------------------------------------------------------------
SeckillInit ==
  /\ activity = [exists |-> FALSE, save |-> 0]
  /\ products = {}
  /\ lastSave = 0
  /\ batch = [r \in Requests |-> NoBatch]

BatchStep(r) ==
  \/ FindActivity(r) \/ UpdateHead(r)
  \/ SeeGoods(r) \/ RemoveGoods(r) \/ InsertGoods(r)
  \/ DeleteActivity(r) \/ DeleteHead(r)
  \/ RollBack(r)

SeckillNext == CreateActivity \/ \E r \in Requests : BatchStep(r)

SeckillSpec == SeckillInit /\ [][SeckillNext]_seckillVars

-----------------------------------------------------------------------------
(* Properties *)

\* The variables keep their types.
SeckillTypeOK ==
  /\ activity \in Activity
  /\ products \subseteq Saves
  /\ lastSave \in 0..MaxSaves
  /\ batch \in [Requests -> BatchState]

\* The goods of an activity are those of one save, the one its head shows, however
\* Updates and Deletes of it overlap and whichever are rolled back
\* (SeckillRepo.UpdateActivity).  Of an activity that is deleted goods can be left.
GoodsOfOneSave == activity.exists => products = {activity.save}
=============================================================================
