-------------------------------- MODULE Calls --------------------------------
(* What a call of TalosClient comes to: _unary and _server_stream, which turn *)
(* what grpclib raises into the client's own errors, _first, which takes the  *)
(* one node's message out of a reply, and _decode_resource, which takes a     *)
(* mapping out of a resource.                                                 *)

\* How a call ends below the client.  A message in a reply may itself hold an
\* error: that of the node which apid has passed the call on to.  A resource
\* holds YAML, nothing, or what does not parse to a mapping.
Refusals == {"UNAUTHENTICATED", "PERMISSION_DENIED"}
Unreachable == {"UNAVAILABLE", "DEADLINE_EXCEEDED"}
GRPCErrors == Refusals \cup Unreachable \cup {"OTHER"}
\* TimeoutError, StreamTerminatedError and OSError, that of TLS included
Broken == {"timed out", "terminated", "os error"}
Replies == {"no message", "message with error", "message"}
Resources == {"mapping", "nothing", "no mapping"}
UnaryEndings == GRPCErrors \cup Broken \cup Replies
StreamEndings == GRPCErrors \cup Broken \cup Resources

\* TalosError and its subclasses.  Any other error is the reader's own.
Errors == {"TalosAuthError", "TalosConnectionError", "TalosNodeError",
           "TalosError"}

MapGrpcError(status) ==
  IF status \in Refusals THEN "TalosAuthError"
  ELSE IF status \in Unreachable THEN "TalosConnectionError"
  ELSE "TalosError"

Raised(ending) ==
  IF ending \in GRPCErrors THEN MapGrpcError(ending) ELSE "TalosConnectionError"

\* _first: no message and an error in it are errors of their own.
First(reply) ==
  CASE reply = "no message" -> "TalosError"
    [] reply = "message with error" -> "TalosNodeError"
    [] reply = "message" -> "answer"

\* _decode_resource leaves what is no YAML as it is, and a reader looks up keys
\* in it all the same.
Decoded(resource) ==
  IF resource = "no mapping" THEN "AttributeError" ELSE "answer"

\* A call of the machine service.
Result(ending) ==
  IF ending \in Replies THEN First(ending) ELSE Raised(ending)

\* A list of resources, of which "no mapping" is said if it holds for one; what
\* came before the stream broke is lost.
Streamed(ending) ==
  IF ending \in Resources THEN Decoded(ending) ELSE Raised(ending)
=============================================================================
