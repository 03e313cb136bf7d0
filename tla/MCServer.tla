------------------------------ MODULE MCServer ------------------------------
(***************************************************************************)
(* An instance of Server for TLC: no caller, and callers without a name,   *)
(* with one and with one that holds a delimiter; every handler by some way. *)
(***************************************************************************)
EXTENDS Server, TLC

Symmetry == Permutations(Requests)

Inquiry(endpoint, via, body, caller) ==
  [endpoint |-> endpoint, via |-> via, body |-> body, caller |-> caller]

Anonymous == <<Blank>>
Alice == <<"alice">>
AliceB == <<"alice", "b">>

MCInquiries ==
  { Inquiry("POST /mcp", "listener", "initialize", Alice),
    Inquiry("POST /mcp", "handler", "oneway", Anonymous),
    Inquiry("POST /mcp", "listener", "other", Alice),
    Inquiry("POST /mcp", "external", "batch", AliceB),
    Inquiry("POST /messages", "handler", "other", Nobody),
    Inquiry("GET /mcp", "listener", "other", Nobody),
    Inquiry("preflight", "external", "other", AliceB) }
=============================================================================
