----------------------------- MODULE MCRollupSync -----------------------------
(***************************************************************************)
(* Small instances of two parts that keep no time: the transactions on one *)
(* parent's children (ParentRollup), with its sweepers in turn, and the    *)
(* sync of one source (SourceSync).  They share no variable: a behaviour   *)
(* is one of a single part, chosen at its start, and the other part stays  *)
(* where it starts.                                                        *)
(***************************************************************************)
EXTENDS MCParentRollup, SourceSync

VARIABLE part

ASSUME SourceAllowed == Sync!SyncConstants

rollupVars == vars

RollupSyncInit ==
  /\ Init /\ Sync!Init /\ part \in {"rollup", "sync"}
  /\ part = "sync" => row[Parent] = "active"

RollupSyncNext ==
  /\ UNCHANGED part
  /\ \/ part = "rollup" /\ Next /\ UNCHANGED syncVars
     \/ part = "sync" /\ Sync!Next /\ UNCHANGED rollupVars

RollupSyncSpec == RollupSyncInit /\ [][RollupSyncNext]_<<rollupVars, syncVars, part>>
=============================================================================
