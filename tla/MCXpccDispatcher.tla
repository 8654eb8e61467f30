-------------------------- MODULE MCXpccDispatcher --------------------------
(* Two servers on the first board, one of which calls the other; a client   *)
(* without actions of its own on the second.                                *)
EXTENDS XpccDispatcher

CONSTANTS server, caller, client, b1, b2, x, y

Call(from, to, id, type) ==
  [source |-> from, destination |-> to, packetIdentifier |-> id, type |-> type]

MCBoardOf == (server :> b1) @@ (caller :> b1) @@ (client :> b2)

MCRegistered == (server :> {x, y}) @@ (caller :> {x}) @@ (client :> {})

MCCalls ==
  {Call(client, server, x, "Callback"), Call(caller, server, y, "Callback"),
   Call(server, Everyone, x, "Default")}

(* The same action is called again.                                         *)
MCRepeatedCalls == {Call(client, server, x, "Callback")}
=============================================================================
