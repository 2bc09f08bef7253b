------------------------------ MODULE LinkHash ------------------------------
(***************************************************************************)
(* lh_table (src/src/json-c/linkhash.c), the open-addressed hash table     *)
(* behind every JSON object, under the calls that the program makes of it: *)
(* json_object_object_add, which deletes the key and then inserts it, and  *)
(* json_object_object_get.                                                 *)
(*                                                                         *)
(* The probe loops and the loop that moves the entries to a larger table   *)
(* take one entry per step, so that a loop that does not end is a          *)
(* behaviour of the model.  The list of the entries (head, next, prev and  *)
(* tail) is the sequence of their places in the table.  The names are      *)
(* other than those of Persistence, whose proofs extend both modules.      *)
(***************************************************************************)
EXTENDS Integers, Sequences, SequencesExt

CONSTANTS
  Key, Value,
  EMPTY,       \* LH_EMPTY: never used
  FREED,       \* LH_FREED: used before
  NoValue,     \* NULL: the value of a lookup that finds nothing
  InitialSize, \* JSON_OBJECT_DEF_HASH_ENTRIES (16)
  Hashes,      \* functions that lh_char_hash may be on the keys
  MaxAdds      \* bound: the calls of json_object_object_add

(* lh_table_insert doubles the table at two thirds.  A table of less than   *)
(* three entries would be full before that.                                 *)
ASSUME LinkHashAssumption ==
  /\ InitialSize \in Nat /\ InitialSize >= 3
  /\ Hashes \subseteq [Key -> Nat] /\ MaxAdds \in Nat
  /\ EMPTY # FREED /\ EMPTY \notin Key /\ FREED \notin Key
  /\ NoValue \notin Value

VARIABLES
  hash,        \* lh_char_hash
  t,           \* the table: its entries (0 ..) and their list
  new,         \* new_t of lh_table_resize
  call,        \* what goes on: "idle", "delete", "insert", "resize", "get"
  key, val,    \* the arguments of the call
  n,           \* the place in the table that is looked at
  result,      \* of the last get
  adds         \* how many calls of json_object_object_add there were

lh_vars == <<hash, t, new, call, key, val, n, result, adds>>

Unused == [k |-> EMPTY, v |-> NoValue]
lh_table_new(size) == [at |-> [i \in 0 .. size - 1 |-> Unused], list |-> <<>>]

NoTable == lh_table_new(0)

SizeOf(table) == Cardinality(DOMAIN table.at)
size == SizeOf(t)
count == Len(t.list)

lh_Init ==
  /\ hash \in Hashes
  /\ t = lh_table_new(InitialSize) /\ new = NoTable
  /\ call = "idle" /\ key = NoValue /\ val = NoValue /\ n = 0
  /\ result = NoValue /\ adds = 0

------------------------------------------------------------------------------
FirstPlace(table, k) == hash[k] % SizeOf(table)

(* For the sensitivity check: the place after the last is not the first. *)
NoWrap(i) == IF i + 1 = size THEN i ELSE i + 1

NextPlace(i) == IF i + 1 = size THEN 0 ELSE i + 1

(* The entry takes the place and goes to the end of the list. *)
Put(table, i, k, v) ==
  [at |-> [table.at EXCEPT ![i] = [k |-> k, v |-> v]],
   list |-> Append(table.list, i)]

(* For the sensitivity check: the entry stays in the list. *)
DeleteKeepsLink(i) == [t EXCEPT !.at[i] = [k |-> FREED, v |-> NoValue]]

(* Where the list has the entry at place i. *)
LinkOf(i) == CHOOSE l \in DOMAIN t.list : t.list[l] = i

lh_table_delete_entry(i) ==
  [at |-> [t.at EXCEPT ![i] = [k |-> FREED, v |-> NoValue]],
   list |-> RemoveAt(t.list, LinkOf(i))]

(* json_object_object_add. *)
CallAdd(k, v) ==
  /\ call = "idle" /\ adds < MaxAdds
  /\ call' = "delete" /\ key' = k /\ val' = v /\ n' = FirstPlace(t, k)
  /\ adds' = adds + 1
  /\ result' = NoValue
  /\ UNCHANGED <<hash, t, new>>

(* json_object_object_get. *)
CallGet(k) ==
  /\ call = "idle"
  /\ call' = "get" /\ key' = k /\ n' = FirstPlace(t, k) /\ result' = NoValue
  /\ UNCHANGED <<hash, t, new, val, adds>>

(* For the sensitivity check: the table grows when it is full. *)
FullAtSize(entries) == entries >= size

(* t->count > t->size * 0.66 *)
IsFull(entries) == 100 * entries > 66 * size

(* lh_table_insert, when lh_table_delete has found the key or has not. *)
GoInsert(entries) ==
  IF IsFull(entries)
  THEN call' = "resize" /\ new' = lh_table_new(2 * size) /\ n' = 0
  ELSE call' = "insert" /\ UNCHANGED new /\ n' = FirstPlace(t, key)

(* One round of the loop of lh_table_lookup_entry for lh_table_delete. *)
DeleteMissing ==
  /\ call = "delete" /\ t.at[n].k = EMPTY
  /\ GoInsert(count)
  /\ UNCHANGED <<hash, t, key, val, result, adds>>

DeleteFound ==
  /\ call = "delete" /\ t.at[n].k = key
  /\ t' = lh_table_delete_entry(n)
  /\ GoInsert(count - 1)
  /\ UNCHANGED <<hash, key, val, result, adds>>

Probe ==
  /\ \/ call \in {"delete", "get"} /\ t.at[n].k \notin {EMPTY, key}
     \/ call = "insert" /\ t.at[n].k \notin {EMPTY, FREED}
  /\ n' = NextPlace(n)
  /\ UNCHANGED <<hash, t, new, call, key, val, result, adds>>

(* One entry of the old table, the n-th of the list, is inserted to the new *)
(* one: its loop over the new table is one step.                            *)
FirstFree(table, start) ==
  LET Place(d) == (start + d) % SizeOf(table)
      Free(d) == table.at[Place(d)].k \in {EMPTY, FREED}
  IN Place(CHOOSE d \in 0 .. SizeOf(table) - 1 :
             Free(d) /\ \A e \in 0 .. d - 1 : ~Free(e))

(* For the sensitivity check: the old size gives the place. *)
OldFreePlace(k) == FirstFree(new, FirstPlace(t, k))

FreePlace(k) == FirstFree(new, FirstPlace(new, k))

Move ==
  /\ call = "resize" /\ n < count
  /\ LET e == t.at[t.list[n + 1]]
     IN new' = Put(new, FreePlace(e.k), e.k, e.v)
  /\ n' = n + 1
  /\ UNCHANGED <<hash, t, call, key, val, result, adds>>

Resized ==
  /\ call = "resize" /\ n = count
  /\ t' = new /\ new' = NoTable
  /\ call' = "insert" /\ n' = FirstPlace(new, key)
  /\ UNCHANGED <<hash, key, val, result, adds>>

Return == call' = "idle" /\ key' = NoValue /\ val' = NoValue /\ n' = 0

Insert ==
  /\ call = "insert" /\ t.at[n].k \in {EMPTY, FREED}
  /\ t' = Put(t, n, key, val)
  /\ Return
  /\ UNCHANGED <<hash, new, result, adds>>

Get ==
  /\ call = "get" /\ t.at[n].k \in {EMPTY, key}
  /\ result' = t.at[n].v     \* an EMPTY entry has none
  /\ Return
  /\ UNCHANGED <<hash, t, new, adds>>

Step == \/ DeleteMissing \/ DeleteFound \/ Probe
        \/ Move \/ Resized \/ Insert \/ Get
lh_Next == \/ \E k \in Key : CallGet(k) \/ \E v \in Value : CallAdd(k, v)
           \/ Step

lh_Spec == lh_Init /\ [][lh_Next]_lh_vars
(* The caller runs: it waits for nothing inside a call. *)
lh_FairSpec == lh_Spec /\ WF_lh_vars(Step)

------------------------------------------------------------------------------
(* Properties. *)

Linked == [i \in DOMAIN t.list |-> <<t.at[t.list[i]].k, t.at[t.list[i]].v>>]

(* The list goes through the used places and no other, once each; a key has *)
(* one place, and from the place that its hash gives it no place before its *)
(* own has never been used, so that every key of the list is found; and     *)
(* there is always a place that was never used, which ends the loops.       *)
TableSound ==
  /\ hash \in Hashes /\ n \in 0 .. size - 1
  /\ ToSet(t.list) = {i \in DOMAIN t.at : t.at[i].k \notin {EMPTY, FREED}}
  /\ \A i, j \in DOMAIN t.list :
       Linked[i][1] = Linked[j][1] => i = j
  /\ \A i \in DOMAIN t.list :
       LET p == t.list[i]
           s == FirstPlace(t, t.at[p].k)
           before == IF s <= p THEN s .. p ELSE DOMAIN t.at \ (p + 1 .. s - 1)
       IN \A q \in before : t.at[q].k # EMPTY
  /\ \E i \in DOMAIN t.at : t.at[i].k = EMPTY

(* An object without the field k: a name is there once at most. *)
Without(object, k) ==
  IF \E i \in DOMAIN object : object[i][1] = k
  THEN RemoveAt(object, CHOOSE i \in DOMAIN object : object[i][1] = k)
  ELSE object

(* The object that its user sees changes when json_object_object_add is     *)
(* called; deleting, growing and inserting show nothing else.               *)
Seen ==
  IF call \in {"idle", "get"} THEN Linked
  ELSE Append(Without(Linked, key), <<key, val>>)

Object == INSTANCE ObjectFields WITH fields <- Seen
RefinesObject == Object!Spec

(* json_object_object_get finds what is in the object, over any growth and  *)
(* any collision in between, and nothing else.                              *)
GetFindsTheField ==
  [][call = "get" /\ call' = "idle" =>
       \/ \E i \in DOMAIN Linked : Linked[i] = <<key, result'>>
       \/ /\ result' = NoValue
          /\ \A i \in DOMAIN Linked : Linked[i][1] # key]_lh_vars

(* No call goes round the table forever. *)
CallsEnd == call # "idle" ~> call = "idle"
==============================================================================
