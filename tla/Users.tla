-------------------------------- MODULE Users --------------------------------
(* users.is_active, the one column of the client backend's table that admins
   write.  An inactive user is called suspended, banned or frozen. *)
CONSTANT User

VARIABLE active

UsersTypeOK == active \in [User -> BOOLEAN]

UsersInit == active = [u \in User |-> TRUE]

\* PATCH /users/:id/status
setUserActive(u, isActive) == active' = [active EXCEPT ![u] = isActive]

=============================================================================
