---------------------------- MODULE MCHookServer ----------------------------
(* A permission request, a prompt of the user, and any third request.        *)
EXTENDS HookServer

CONSTANTS p, u, x

MCKindings ==
  {[r \in Requests |-> CASE r = p -> "permission" [] r = u -> "prompt" [] OTHER -> k] :
     k \in Kinds \ {"prompt"}}
=============================================================================
