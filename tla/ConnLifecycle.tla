---------------------------- MODULE ConnLifecycle ----------------------------
(***************************************************************************)
(* What core.TCPConn promises of one connection, whatever the order of     *)
(* callbacks and calls: it opens once, each direction closes once and for  *)
(* good, and it ends once, either after both directions are closed (by the *)
(* two FINs, or by Abort) or because of an error.  The memory passed to    *)
(* lwIP with tcp_arg lives exactly as long as the connection is open.      *)
(***************************************************************************)
VARIABLES
  phase,  \* "new", "open", "gone"
  rd,     \* data from TUN may still be read
  wr,     \* data to TUN may still be written
  mem     \* the key memory: "none", "valid", "freed"

vars == <<phase, rd, wr, mem>>

Init == phase = "new" /\ rd = TRUE /\ wr = TRUE /\ mem = "none"

\* tcpAcceptFn.
Open == /\ phase = "new"
        /\ phase' = "open" /\ mem' = "valid"
        /\ UNCHANGED <<rd, wr>>

\* The client's FIN.
CloseRead == /\ phase = "open" /\ rd
             /\ rd' = FALSE
             /\ UNCHANGED <<phase, wr, mem>>

\* The handler's CloseWrite.
CloseWrite == /\ phase = "open" /\ wr
              /\ wr' = FALSE
              /\ UNCHANGED <<phase, rd, mem>>

\* Abort closes both directions at once.
Abort == /\ phase = "open"
         /\ rd' = FALSE /\ wr' = FALSE
         /\ UNCHANGED <<phase, mem>>

\* The orderly end: only of a connection closed in both directions.
Finish == /\ phase = "open" /\ ~rd /\ ~wr
          /\ phase' = "gone" /\ mem' = "freed"
          /\ UNCHANGED <<rd, wr>>

\* A reset or a timeout ends the connection in any state.
Fail == /\ phase = "open"
        /\ phase' = "gone" /\ mem' = "freed"
        /\ rd' = FALSE /\ wr' = FALSE

Next == Open \/ CloseRead \/ CloseWrite \/ Abort \/ Finish \/ Fail

Spec == Init /\ [][Next]_vars
=============================================================================
