--------------------------- MODULE MCServiceShell ---------------------------
(***************************************************************************)
(* A small instance of ServiceShell: clients create an item and delete it, *)
(* at any time and again and again; a sync may name another's vault.  A    *)
(* write may not: which vaults row it waits for is then always known.      *)
(***************************************************************************)
EXTENDS ServiceShell

CONSTANTS MCGenesis, MCOps, CursorSeqs, First

MCOwner == [v \in Vaults |-> CHOOSE a \in Accounts : TRUE]

MCGenesisOf == [v \in Vaults |-> MCGenesis]

MCHashes == RevIds \cup {MCGenesis}

MCSubmissions ==
  { s \in [account : Accounts, vault : Vaults, item : Items, op : MCOps, id : RevIds,
           base_head_seq : 0..MaxHead, base_head_hash : MCHashes,
           new_head_hash : RevIds, base_revision_seq : 0..1] :
      /\ s.new_head_hash = s.id
      /\ s.op = "create" <=> s.base_revision_seq = 0
      /\ s.op = "create" <=> s.id = First
      /\ s.account = MCOwner[s.vault]
      /\ s.base_head_seq = s.base_revision_seq
      /\ s.base_head_hash = IF s.base_head_seq = 0 THEN MCGenesis ELSE First }

MCCursors ==
  { c \in [account : Accounts, vault : Vaults, seq : CursorSeqs, hash : MCHashes] :
      c.seq = 0 <=> c.hash = MCGenesis }
=============================================================================
