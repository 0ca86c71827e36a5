------------------------------ MODULE VaultLog ------------------------------
(***************************************************************************)
(* What the vault API promises its clients: every vault is one log of      *)
(* changes that only ever grows at its end.  A change names the head it    *)
(* extends, revision ids are used once, and the changes of an item are a   *)
(* create, then updates, then at most one delete that ends its history.    *)
(***************************************************************************)
EXTENDS Integers, Sequences

CONSTANTS Vaults, Items, RevIds, Hashes, Genesis

VARIABLE log

Entry == [id : RevIds, item : Items, op : {"create", "update", "delete"},
          previous_head_hash : Hashes, head_hash : Hashes]

HeadHash(v) ==
  IF Len(log[v]) = 0 THEN Genesis[v] ELSE log[v][Len(log[v])].head_hash

IdUsed(id) == \E v \in Vaults : \E n \in 1..Len(log[v]) : log[v][n].id = id

\* A create introduces an item no vault has; the item lives on until a delete.
Introduces(e) ==
  /\ e.op = "create"
  /\ \A v \in Vaults : \A n \in 1..Len(log[v]) : log[v][n].item # e.item

Continues(v, e) ==
  /\ e.op # "create"
  /\ \E n \in 1..Len(log[v]) : log[v][n].item = e.item
  /\ \A n \in 1..Len(log[v]) : log[v][n].item = e.item => log[v][n].op # "delete"

Extend(v, e) ==
  /\ log' = [log EXCEPT ![v] = Append(@, e)]
  /\ e.previous_head_hash = HeadHash(v)
  /\ ~IdUsed(e.id)
  /\ Introduces(e) \/ Continues(v, e)

\* A step adds one change.  Extend says so too; this is what a checker asks first.
Grows(v) == Len(log'[v]) = Len(log[v]) + 1

Init == log = [v \in Vaults |-> << >>]

Next ==
  \E v \in Vaults :
    /\ Grows(v)
    /\ \E id \in RevIds, i \in Items, op \in {"create", "update", "delete"}, h \in Hashes :
         Extend(v, [id |-> id, item |-> i, op |-> op,
                    previous_head_hash |-> HeadHash(v), head_hash |-> h])

Spec == Init /\ [][Next]_log
=============================================================================
