---------------------------- MODULE RoleRegistry ----------------------------
(***************************************************************************)
(* What the role and permission routes promise, without sessions, stale    *)
(* rows or awaits: each of them changes the two tables in one step, by     *)
(* exactly what the request asks for and on top of everything before it.   *)
(***************************************************************************)
CONSTANTS Role, User, Perm, None, Deleted

VARIABLES
    role,   (* table roles: the permissions column as a set; None before   *)
            (* the role is created, Deleted afterwards                     *)
    user    (* table users: role_id and assigned_perms                     *)

RoleRow == [perms : SUBSET Perm]
UserRow == [role : Role \cup {None}, own : SUBSET Perm]

Exists(r) == role[r] # None /\ role[r] # Deleted

Create(r, P) == /\ role[r] = None
                /\ role' = [role EXCEPT ![r] = [perms |-> P]]
                /\ UNCHANGED user

Add(r, P) == /\ Exists(r)
             /\ role' = [role EXCEPT ![r].perms = @ \cup P]
             /\ UNCHANGED user

Remove(r, P) == /\ Exists(r)
                /\ role' = [role EXCEPT ![r].perms = @ \ P]
                /\ UNCHANGED user

Replace(r, P) == /\ Exists(r)
                 /\ role' = [role EXCEPT ![r].perms = P]
                 /\ UNCHANGED user

(* Whoever has the role has none afterwards; to delete a role that is gone *)
(* changes nothing.                                                        *)
Delete(r) ==
    /\ role' = [role EXCEPT ![r] = Deleted]
    /\ user' = [u \in User |-> IF user[u].role = r
                               THEN [user[u] EXCEPT !.role = None] ELSE user[u]]

Assign(u, r) == /\ Exists(r)
                /\ user' = [user EXCEPT ![u].role = r]
                /\ UNCHANGED role

(* What the user's role has already is not given to the user again.        *)
Give(u, P) ==
    /\ user[u].role # None
    /\ user' = [user EXCEPT ![u].own = @ \cup (P \ role[user[u].role].perms)]
    /\ UNCHANGED role

=============================================================================
