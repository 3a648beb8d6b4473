------------------------------ MODULE MDLTypes ------------------------------
(***************************************************************************)
(* The types of metadata locks (enum_mdl_type of sql/mdl.h) and the rules  *)
(* of compatibility and priority between them (sql/mdl.cc).  A bitmap of   *)
(* types is a set of types.                                                *)
(***************************************************************************)

\* IX is for scoped locks only; S and X are for both kinds of locks.
ObjectType == {"S", "SH", "SR", "SW", "SNW", "SNRW", "X"}
ScopedType == {"IX", "S", "X"}
MDLType == ObjectType \cup ScopedType

\* MDL_object_lock::m_granted_incompatible: the types of granted locks of
\* other contexts that keep a request of the given type waiting.
ObjectGrantedIncompatible(type) ==
  CASE type \in {"S", "SH"} -> {"X"}
    [] type = "SR"   -> {"X", "SNRW"}
    [] type = "SW"   -> {"X", "SNRW", "SNW"}
    [] type = "SNW"  -> {"X", "SNRW", "SNW", "SW"}
    [] type = "SNRW" -> {"X", "SNRW", "SNW", "SW", "SR"}
    [] type = "X"    -> ObjectType
    [] OTHER -> {}

\* MDL_object_lock::m_waiting_incompatible: the types of waiting requests
\* that have priority over a request of the given type.
ObjectWaitingIncompatible(type) ==
  CASE type \in {"S", "SNW", "SNRW"} -> {"X"}
    [] type = "SR" -> {"X", "SNRW"}
    [] type = "SW" -> {"X", "SNRW", "SNW"}
    [] OTHER -> {}

\* The same two tables of MDL_scoped_lock.
ScopedGrantedIncompatible(type) ==
  CASE type = "IX" -> {"X", "S"}
    [] type = "S"  -> {"X", "IX"}
    [] type = "X"  -> {"X", "S", "IX"}
    [] OTHER -> {}

ScopedWaitingIncompatible(type) ==
  CASE type = "IX" -> {"X", "S"}
    [] type = "S"  -> {"X"}
    [] OTHER -> {}

\* MDL_object_lock::hog_lock_types_bitmap; it is empty for scoped locks.
ObjectHogTypes == {"SNW", "SNRW", "X"}

\* Types from which upgrade_shared_lock_to_exclusive may start.
UpgradableType == {"SNW", "SNRW"}
=============================================================================
