----------------------------- MODULE MCAmnbNode -----------------------------
(***************************************************************************)
(* Model values for AmnbNode: two nodes.  The first asks the second for an *)
(* action, with an argument that it takes or does not take, and for one    *)
(* that it does not have, or broadcasts; the second answers.               *)
(***************************************************************************)
EXTENDS AmnbNode

CONSTANTS a, c, k, u, Tries

MCNodes == {a, c}
MCCommands == {k, u}
MCActions == [n \in MCNodes |-> IF n = c THEN {k} ELSE {}]
MCListeners == [n \in MCNodes |-> {u}]
Make(type, caller, n, command, payload) ==
  [type |-> type, address |-> n, command |-> command, payload |-> payload,
   call |-> << caller, 0 >>]
Ask(n, command, payload) == Make("Request", a, n, command, payload)
Tell(n, command) == Make("Broadcast", n, n, command, "argument")
MCCalls == [n \in MCNodes |->
  IF n = a
    THEN {Ask(c, k, "argument"), Ask(c, k, "misfit"), Ask(c, u, "argument"),
          Tell(a, u)}
    ELSE {}]
MCCallsPerNode == [n \in MCNodes |-> 2]
MCPriority == [command \in MCCommands |-> Tries]
=============================================================================
