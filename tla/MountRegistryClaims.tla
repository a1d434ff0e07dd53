------------------------- MODULE MountRegistryClaims -------------------------
(***************************************************************************)
(* A statement of the repository's specifications about mounted            *)
(* repositories which MountRegistry does not satisfy when a write meets a  *)
(* removal.                                                                *)
(***************************************************************************)
EXTENDS MountRegistry

(* "Local commits not yet pushed SHALL be pushed first when the remote is  *)
(* reachable; otherwise the removal SHALL require an explicit              *)
(* confirmation": unpushed commits are deleted only by a request that      *)
(* carries it.                                                             *)
UnpushedNeedsConsent ==
  [][\A a \in Admin : /\ phase = "running" /\ op[a].pc = "erase"
                      /\ op[a].repo \in unpushed /\ op[a].repo \notin unpushed'
                      => op[a].flag]_vars
=============================================================================
