--------------------------- MODULE MCIoUringLoop ---------------------------
(* The instance of IoUringLoop for TLC. *)
EXTENDS IoUringLoop

CONSTANTS c1

OneConn == {c1}

\* The submissions of one step that find room in the SQ: all, only the client's
\* side of them, or none.
AllOrSome == {Kinds, {"Recv", "Send", "HandlerTimer"}, {}}
=============================================================================
