----------------------------- MODULE NmbmStore ------------------------------
(***************************************************************************)
(* NMBM implements InfoStore: the mappings that a later attach may find    *)
(* are recorded in a history variable.                                     *)
(***************************************************************************)
EXTENDS Nmbm

VARIABLE disk

HasTable == \E sig \in Blocks :
              SignatureAt(sig) /\ Loadables(MgmtStart, NoImage.state, sig) # {}

\* nmbm_update_info_table_once has returned true.
OnceDone == pc \in {"written", "table", "clean"} /\ pc' = "update"

Remember ==
    disk' = IF ~HasTable' THEN {}
            ELSE IF pc' = "off" THEN disk
            ELSE IF OnceDone \/ pc = "off" \/ disk = {} THEN {mapping'}
            ELSE disk \cup {mapping'}

StoreInit == Init /\ disk = {}
StoreNext == Next /\ Remember
StoreSpec == StoreInit /\ [][StoreNext]_<<vars, disk>>

Store == INSTANCE InfoStore WITH
    Keys      <- Logical,
    Values    <- Blocks \cup {Unmapped},
    None      <- [l \in {} |-> Unmapped],
    ram       <- IF pc = "off" THEN [l \in {} |-> Unmapped] ELSE mapping,
    redundant <- backup # NoBlock

\* Every behaviour of NMBM, with its failures and power cuts, is one of the
\* information store: no attach finds a mapping that was replaced by a completed
\* nmbm_update_info_table, and none is lost while there are two tables.
ImplementsStore == Store!Spec
=============================================================================
