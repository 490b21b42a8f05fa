------------------------------ MODULE MCToolLoop ------------------------------
(* Three processes: an administrator, one that administers, seeds or chats, *)
(* and a chat.                                                              *)
EXTENDS ToolLoop, TLC

CONSTANTS p1, p2, p3, n1, n2, bare, d1

MCLimits == {[timeout |-> 5, pages |-> 300], [timeout |-> 2, pages |-> 300]}
MCRow == [def |-> d1, lim |-> [timeout |-> 5, pages |-> 300], active |-> TRUE]
MCSeed == [def |-> bare, lim |-> [timeout |-> 5, pages |-> 300], active |-> TRUE]
MCSeedTools == <<[name |-> n1, row |-> MCSeed], [name |-> n2, row |-> MCSeed]>>
Admin == {"create", "patch", "deactivate"}
Idle == p1 :> {} @@ p2 :> {} @@ p3 :> {}
MCWorkloads ==
  {[Idle EXCEPT ![p1] = Admin, ![p2] = {"patch", "seed"}],
   [Idle EXCEPT ![p1] = Admin, ![p2] = {"read"}],
   [Idle EXCEPT ![p2] = {"read"}, ![p3] = {"read"}],
   [Idle EXCEPT ![p1] = {"create"}, ![p2] = {"patch"}, ![p3] = {"deactivate"}]}

Created(row) == AuditEvent("CREATE", n2, None, ComputeHash(n2, row), row, "info")
Deleted(row) == AuditEvent("DELETE", n2, ComputeHash(n2, row), None, row, "warn")
MCStarts ==
  {[rows |-> <<>>, audit |-> <<>>],
   [rows |-> <<MCRow>>, audit |-> <<Created(MCRow)>>],
   [rows |-> <<[MCRow EXCEPT !.active = FALSE], MCRow>>,
    audit |-> <<Created(MCRow), Deleted(MCRow), Created(MCRow)>>]}
=============================================================================
