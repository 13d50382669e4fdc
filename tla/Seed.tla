--------------------------------- MODULE Seed ---------------------------------
(* npm run migrate:seed, "idempotent: can be re-run safely": each statement
   commits on its own, so a seed that fails leaves what it has written; seeds of
   older and newer checkouts may run at once.  The role that it makes is a
   system role, which roleService neither changes nor removes. *)
EXTENDS Naturals

CONSTANTS
    Seeder,   \* slots for processes; a slot is used again
    LastKey    \* the permissions are 1 .. LastKey, and a later checkout lists more

ASSUME SeedAssumption == LastKey \in Nat \ {0}

VARIABLES
    permissions,  \* the keys in admin_permissions
    superAdmin,   \* the Super Admin role: whether it exists, and its permissions
    bootstrap,    \* the row of the bootstrap account
    seeder,       \* seeder[s]: the process in slot s
    promised      \* history: what the seeds that ended well have listed

seedVars == <<permissions, superAdmin, bootstrap, seeder, promised>>

Key == 1 .. LastKey

\* The loop over PERMISSIONS is at key; lists is the length of the list.
SeederState == [step : {"off", "permissions", "role", "insertRole", "grant", "account",
                        "insertAccount"},
                lists : 0 .. LastKey, key : 0 .. LastKey]
NoSeeder == [step |-> "off", lists |-> 0, key |-> 0]

SeedTypeOK ==
    /\ permissions \subseteq Key
    /\ superAdmin \in [exists : BOOLEAN, grants : SUBSET Key]
    /\ bootstrap \in {"absent", "active", "deleted"}
    /\ seeder \in [Seeder -> SeederState]
    /\ promised \subseteq Key

SeedInit ==
    /\ permissions = {} /\ promised = {}
    /\ superAdmin = [exists |-> FALSE, grants |-> {}]
    /\ bootstrap = "absent"
    /\ seeder = [s \in Seeder |-> NoSeeder]

-----------------------------------------------------------------------------
SeedAt(s, step) == seeder[s].step = step

SeedTo(s, step) == seeder' = [seeder EXCEPT ![s].step = step]

SeedEnds(s) == seeder' = [seeder EXCEPT ![s] = NoSeeder]

\* run() resolves.
SeedEndsWell(s) ==
    /\ promised' = promised \cup (1 .. seeder[s].lists)
    /\ SeedEnds(s)

StartSeed(s, lists) ==
    /\ SeedAt(s, "off")
    /\ seeder' = [seeder EXCEPT ![s] = [step |-> "permissions", lists |-> lists, key |-> 1]]
    /\ UNCHANGED <<permissions, superAdmin, bootstrap, promised>>

\* INSERT ... ON CONFLICT (key) DO UPDATE, for each of the list.
SeedPermission(s) ==
    /\ SeedAt(s, "permissions")
    /\ permissions' = permissions \cup {seeder[s].key}
    /\ seeder' = IF seeder[s].key = seeder[s].lists
                 THEN [seeder EXCEPT ![s].step = "role"]
                 ELSE [seeder EXCEPT ![s].key = @ + 1]
    /\ UNCHANGED <<superAdmin, bootstrap, promised>>

\* Mutant: the permissions are granted to a role that is new.
FindRole_granted(s) ==
    /\ SeedAt(s, "role")
    /\ SeedTo(s, IF superAdmin.exists THEN "account" ELSE "insertRole")
    /\ UNCHANGED <<permissions, superAdmin, bootstrap, promised>>

FindRole(s) ==
    /\ SeedAt(s, "role")
    /\ SeedTo(s, IF superAdmin.exists THEN "grant" ELSE "insertRole")
    /\ UNCHANGED <<permissions, superAdmin, bootstrap, promised>>

\* The name is UNIQUE: of two seeds that found no role, one fails.
InsertRole(s) ==
    /\ SeedAt(s, "insertRole")
    /\ IF superAdmin.exists
       THEN SeedEnds(s) /\ UNCHANGED superAdmin
       ELSE SeedTo(s, "grant") /\ superAdmin' = [superAdmin EXCEPT !.exists = TRUE]
    /\ UNCHANGED <<permissions, bootstrap, promised>>

\* INSERT ... SELECT id FROM admin_permissions ON CONFLICT DO NOTHING.
GrantAll(s) ==
    /\ SeedAt(s, "grant")
    /\ superAdmin' = [superAdmin EXCEPT !.grants = @ \cup permissions]
    /\ SeedTo(s, "account")
    /\ UNCHANGED <<permissions, bootstrap, promised>>

\* A deleted account has its row, and counts as there.
FindAccount(s) ==
    /\ SeedAt(s, "account")
    /\ IF bootstrap = "absent"
       THEN SeedTo(s, "insertAccount") /\ UNCHANGED promised
       ELSE SeedEndsWell(s)
    /\ UNCHANGED <<permissions, superAdmin, bootstrap>>

\* bcrypt.hash, and the INSERT: email is UNIQUE.
InsertAccount(s) ==
    /\ SeedAt(s, "insertAccount")
    /\ IF bootstrap = "absent"
       THEN bootstrap' = "active" /\ SeedEndsWell(s)
       ELSE SeedEnds(s) /\ UNCHANGED <<bootstrap, promised>>
    /\ UNCHANGED <<permissions, superAdmin>>

\* A statement fails or the process dies.
FailSeed(s) ==
    /\ ~ SeedAt(s, "off")
    /\ SeedEnds(s)
    /\ UNCHANGED <<permissions, superAdmin, bootstrap, promised>>

\* softDeleteAdmin, once there is another Super Admin.
DeleteAccount ==
    /\ bootstrap = "active"
    /\ bootstrap' = "deleted"
    /\ UNCHANGED <<permissions, superAdmin, seeder, promised>>

SeedNext ==
    \/ \E s \in Seeder :
        \/ \E lists \in Key : StartSeed(s, lists)
        \/ SeedPermission(s) \/ FindRole(s) \/ InsertRole(s) \/ GrantAll(s)
        \/ FindAccount(s) \/ InsertAccount(s)
        \/ FailSeed(s)
    \/ DeleteAccount

-----------------------------------------------------------------------------
\* "Ensures a Super Admin system role exists and has ALL permissions": a seed
\* that ends well leaves the role with every permission that it lists, and the
\* account, whatever earlier seeds have left half done, and for good; and
\* no permission is granted that is not there.
SeedComplete ==
    /\ promised # {} => superAdmin.exists /\ bootstrap # "absent"
    /\ promised \subseteq superAdmin.grants
    /\ superAdmin.grants \subseteq permissions

=============================================================================
