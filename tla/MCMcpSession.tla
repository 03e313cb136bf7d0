---------------------------- MODULE MCMcpSession ----------------------------
(***************************************************************************)
(* Instances of McpSession for TLC. A request is a record; its id only     *)
(* tells equal requests apart.                                             *)
(***************************************************************************)
EXTENDS McpSession

CONSTANTS v1, v2, vOld

Request(id, method, via, params, authentic) ==
  [id |-> id, method |-> method, via |-> via, params |-> params, authentic |-> authentic]

Initialize(id, via, params) == Request(id, "initialize", via, params, TRUE)
Call(id, via)               == Request(id, "call", via, NoVersion, TRUE)

MCVersions == {v1, v2}

\* A session made by an initialize request with a version the server does not
\* know and initialized a second time with one it knows; a call whose auth info
\* cannot be read, a cancellation and shutdown, all over POST /mcp.
DemandRequests ==
  { Initialize(1, "demand", vOld), Initialize(2, "mcp", v2),
    Request(4, "call", "mcp", NoVersion, FALSE),
    Request(5, "notifications/cancelled", "mcp", NoVersion, TRUE),
    Request(6, "shutdown", "mcp", NoVersion, TRUE) }

\* A session made by a stream: initialize and shutdown over POST /messages, which
\* are answered over the stream, and a call over POST /mcp, whose asker may give up.
StreamRequests ==
  { Initialize(1, "messages", Malformed), Call(2, "mcp"),
    Request(3, "shutdown", "messages", NoVersion, TRUE) }

\* The same, but a session that is not shut down.
SilentRequests ==
  { Initialize(1, "messages", v1), Call(2, "messages"),
    Request(3, "notifications/initialized", "mcp", NoVersion, TRUE) }
=============================================================================
