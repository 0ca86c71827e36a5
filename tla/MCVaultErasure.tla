--------------------------- MODULE MCVaultErasure ---------------------------
(***************************************************************************)
(* A small instance of VaultErasure: each account owns one vault, as       *)
(* register_finish leaves it, and clients of both use the same ids.        *)
(***************************************************************************)
EXTENDS VaultErasure

CONSTANTS MCGenesis, MCOps, BaseSeqs, BaseRevisions, CursorSeqs

MCOwner ==
  CHOOSE owner \in [Vaults -> Accounts] :
    \A v, w \in Vaults : owner[v] = owner[w] => v = w

MCGenesisOf == [v \in Vaults |-> MCGenesis]

MCHashes == RevIds \cup {MCGenesis}

MCSubmissions ==
  { s \in [account : Accounts, vault : Vaults, item : Items, op : MCOps, id : RevIds,
           base_head_seq : BaseSeqs, base_head_hash : MCHashes,
           new_head_hash : RevIds, base_revision_seq : BaseRevisions] :
      /\ s.new_head_hash = s.id
      /\ s.op = "create" <=> s.base_revision_seq = 0
      /\ s.base_head_seq = 0 <=> s.base_head_hash = MCGenesis
      /\ s.account = MCOwner[s.vault] }

MCCursors ==
  { c \in [account : Accounts, vault : Vaults, seq : CursorSeqs, hash : MCHashes] :
      /\ c.seq = 0 <=> c.hash = MCGenesis
      /\ c.account = MCOwner[c.vault] }
=============================================================================
