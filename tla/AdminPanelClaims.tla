--------------------------- MODULE AdminPanelClaims ---------------------------
(***************************************************************************)
(* A statement of the code's comments about the mails of the sign-in which *)
(* AdminPanel does not satisfy.                                            *)
(***************************************************************************)
EXTENDS AdminPanel

(* "IdempotencyKey lets the provider drop a duplicate when a request is    *)
(* retried": mails with the same key are the same mail.                    *)
MailKeysDiffer == \A m, n \in mails : m.key = n.key => m = n
=============================================================================
