----------------------------- MODULE MCAccounts -----------------------------
(***************************************************************************)
(* Instances of Accounts for TLC: a SUPER_ADMIN, and a second user, who is *)
(* the configured first administrator, was demoted and deactivated, or is  *)
(* not there yet.  Both may hold tokens of the time before.                *)
(***************************************************************************)
EXTENDS Accounts, TLC

CONSTANTS root, boss, eroot, eboss, enew

Account(email, role, is_active) ==
    [email |-> email, role |-> role, is_active |-> is_active]
MCUsers ==
    {(root :> Account(eroot, "SUPER_ADMIN", TRUE)) @@ (boss :> b) :
        b \in {Account(eboss, "ADVISOR", FALSE), None}}

MCTokens ==
    {[sub |-> root, type |-> y, role |-> "SUPER_ADMIN"] :
        y \in {"access", "refresh"}}

Asked(op) ==
    [op |-> op, email |-> None, id |-> None, role |-> None, is_active |-> None]
By(op, email) == [Asked(op) EXCEPT !.email = email]

MCWorkload ==
    {By("register", enew), By("login", eboss),
     Asked("refresh"), Asked("users"),
     [By("create", enew) EXCEPT !.role = "ADVISOR", !.is_active = TRUE],
     [Asked("update") EXCEPT !.id = root, !.role = "COMPLIANCE"],
     [Asked("update") EXCEPT !.id = boss, !.is_active = TRUE],
     [Asked("update") EXCEPT !.id = boss, !.is_active = FALSE, !.role = "CUSTOMER"]}
=============================================================================
