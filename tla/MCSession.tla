----------------------------- MODULE MCSession ------------------------------
(* One account at first, room for a second, and two e-mails; two tabs with *)
(* two requests in all, which can be in flight at once.                     *)
EXTENDS Session

CONSTANTS u1, u2, a, b, p, q

MCUser == {u1, u2}
MCEmail == {a, b}
MCSenha == {p, q}
MCKnown == [u \in MCUser |-> IF u = u1 THEN [email |-> a, senha |-> p] ELSE None]
=============================================================================
