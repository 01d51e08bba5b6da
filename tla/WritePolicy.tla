---------------------------- MODULE WritePolicy ----------------------------
(* What the safety gating of write operations promises, whichever way a write *)
(* is asked for (services.py:3-7 and README.md:46-47): a reboot, shutdown,    *)
(* upgrade or configuration is only ever sent while the destructive option is *)
(* on and with a write-capable role, a reset only while the reset option is   *)
(* on and with the admin role, and nothing is sent over a closed connection.  *)
(* What only reads is always permitted.                                       *)
CONSTANT Call           \* writes that can be under way

VARIABLES
  options,    \* the options that are on
  role,       \* the role of the connection's certificate
  connected,  \* the connection is open
  writes      \* the operation each write under way has sent

vars == <<options, role, connected, writes>>

Options == {"destructive", "reset"}
Roles == {"reader", "operator", "admin"}
Ops == {"status", "reboot", "upgrade", "reset"}
None == "none"

Permitted(op) ==
  CASE op = "status" -> TRUE
    [] op = "reset" -> "reset" \in options /\ role = "admin"
    [] OTHER -> "destructive" \in options /\ role \in {"operator", "admin"}

Send(c, op) ==
  /\ writes[c] = None
  /\ connected
  /\ Permitted(op)
  /\ writes' = [writes EXCEPT ![c] = op]
  /\ UNCHANGED <<options, role, connected>>

End(c) ==
  /\ writes' = [writes EXCEPT ![c] = None]
  /\ UNCHANGED <<options, role, connected>>

\* The user turns options on and off.
SetOptions ==
  /\ options' \in SUBSET Options
  /\ UNCHANGED <<role, connected, writes>>

\* The role only changes with the connection.
Disconnect ==
  /\ connected
  /\ connected' = FALSE
  /\ UNCHANGED <<options, role, writes>>

Connect ==
  /\ ~connected
  /\ connected' = TRUE
  /\ role' \in Roles
  /\ UNCHANGED <<options, writes>>

Init ==
  /\ options \in SUBSET Options
  /\ role \in Roles
  /\ connected = FALSE
  /\ writes = [c \in Call |-> None]

Next ==
  \/ \E c \in Call, op \in Ops : Send(c, op)
  \/ \E c \in Call : End(c)
  \/ SetOptions
  \/ Disconnect
  \/ Connect

Spec == Init /\ [][Next]_vars
=============================================================================
