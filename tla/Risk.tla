-------------------------------- MODULE Risk ---------------------------------
(* Flags on users: flagService, and what userService derives from them.  The
   figures of GET /flags/stats are read with queries on connections of their
   own; their answer is made when the last of them is back. *)
EXTENDS Users, Integers, Sequences, FiniteSets

CONSTANTS
    Admin,
    MaxFlags   \* bound: rows of user_flags

ASSUME RiskAssumption == MaxFlags \in Nat /\ "nobody" \notin Admin

VARIABLES
    flags,     \* user_flags in order of creation
    desk,      \* desk[a]: what admin a was told, and the flag a is resolving
    figures    \* a request for the figures

riskVars == <<active, flags, desk, figures>>

Severity == {"critical", "warning", "info"}

Flag == [user : User, severity : Severity, resolvedBy : Admin \cup {"nobody"}]

\* What the two queries of the figures have returned, -1 before; fresh says that
\* nothing was written since the first of them.
NoFigures == [flagged |-> -1, critical |-> -1, frozen |-> -1, banned |-> -1, fresh |-> TRUE]

RiskTypeOK ==
    /\ UsersTypeOK
    /\ flags \in Seq(Flag) /\ Len(flags) <= MaxFlags
    /\ desk \in [Admin -> [told : SUBSET (1 .. MaxFlags), resolving : 0 .. MaxFlags]]
    /\ figures \in [flagged : -1 .. MaxFlags, critical : -1 .. MaxFlags,
                    frozen : -1 .. MaxFlags, banned : -1 .. MaxFlags, fresh : BOOLEAN]

RiskInit ==
    /\ UsersInit
    /\ flags = <<>>
    /\ desk = [a \in Admin |-> [told |-> {}, resolving |-> 0]]
    /\ figures = NoFigures

-----------------------------------------------------------------------------
OpenFlags(u) == {f \in DOMAIN flags : flags[f].user = u /\ flags[f].resolvedBy = "nobody"}

OpenOf(u, severity) == {f \in OpenFlags(u) : flags[f].severity = severity}

\* risk_level of a row of users, to GET /users.
RiskLevel(u) ==
    CASE OpenOf(u, "critical") # {} -> "high"
      [] OpenOf(u, "critical") = {} /\ OpenOf(u, "warning") # {} -> "medium"
      [] OpenFlags(u) # {} /\ OpenFlags(u) = OpenOf(u, "info") -> "low"
      [] OTHER -> "none"

Frozen == {u \in User : ~ active[u] /\ OpenFlags(u) # {}}

\* Mutant: the severity is left out.
Banned_anySeverity == Frozen

\* MAX(severity::text) = 'critical', the least of the three texts.
Banned == {u \in Frozen : OpenFlags(u) = OpenOf(u, "critical")}

FlaggedWith(severity) == {u \in User : OpenOf(u, severity) # {}}

\* Mutant: the count of the last group is assigned, not added.
FlaggedUsers_last ==
    Cardinality(FlaggedWith(IF FlaggedWith("info") # {} THEN "info"
                            ELSE IF FlaggedWith("warning") # {} THEN "warning" ELSE "critical"))

\* The distinct users of each severity, added up: a user with flags of two
\* severities counts twice.
FlaggedUsers ==
    Cardinality(FlaggedWith("critical")) + Cardinality(FlaggedWith("warning"))
      + Cardinality(FlaggedWith("info"))

CriticalFlags == Cardinality(UNION {OpenOf(u, "critical") : u \in User})

-----------------------------------------------------------------------------
\* What a write does to figures of which one part has been read.
Stale == figures' = IF figures = NoFigures THEN figures ELSE [figures EXCEPT !.fresh = FALSE]

\* POST /flags, and the flags of a dispute; the answer shows the row.
createFlag(u, severity) ==
    /\ Len(flags) < MaxFlags
    /\ flags' = Append(flags, [user |-> u, severity |-> severity, resolvedBy |-> "nobody"])
    /\ Stale
    /\ UNCHANGED <<active, desk>>

penalizeUser(u, severity) == createFlag(u, severity)

flagDispute(raisedBy) == createFlag(raisedBy, "warning")

\* Mutant: the UPDATE does not look at resolved_at.
Resolvable_any(f) == f \in DOMAIN flags

Resolvable(f) == flags[f].resolvedBy = "nobody"

\* The UPDATE.  If it finds no row the answer is 404, and nothing has changed.
ResolveFlag(a, f) ==
    /\ desk[a].resolving = 0
    /\ Resolvable(f)
    /\ flags' = [flags EXCEPT ![f].resolvedBy = a]
    /\ desk' = [desk EXCEPT ![a].resolving = f]
    /\ Stale
    /\ UNCHANGED active

\* getFlagById, and "Flag resolved"; if it fails the flag is resolved and the
\* answer is 500.
AnswerResolved(a) ==
    /\ desk[a].resolving # 0
    /\ \E told \in {desk[a].told, desk[a].told \cup {desk[a].resolving}} :
          desk' = [desk EXCEPT ![a] = [told |-> told, resolving |-> 0]]
    /\ UNCHANGED <<active, flags, figures>>

SetActive(u, isActive) ==
    /\ setUserActive(u, isActive)
    /\ Stale
    /\ UNCHANGED <<flags, desk>>

QueryFlags ==
    /\ figures.flagged = -1
    /\ figures' = [figures EXCEPT !.flagged = FlaggedUsers, !.critical = CriticalFlags]
    /\ UNCHANGED <<active, flags, desk>>

QueryUsers ==
    /\ figures.frozen = -1
    /\ figures' = [figures EXCEPT !.frozen = Cardinality(Frozen), !.banned = Cardinality(Banned)]
    /\ UNCHANGED <<active, flags, desk>>

HasFigures == figures.flagged # -1 /\ figures.frozen # -1

AnswerFigures ==
    /\ HasFigures
    /\ figures' = NoFigures
    /\ UNCHANGED <<active, flags, desk>>

RiskNext ==
    \/ \E u \in User, severity \in Severity : createFlag(u, severity) \/ penalizeUser(u, severity)
    \/ \E u \in User : flagDispute(u)
    \/ \E u \in User, isActive \in BOOLEAN : SetActive(u, isActive)
    \/ \E a \in Admin : AnswerResolved(a) \/ \E f \in DOMAIN flags : ResolveFlag(a, f)
    \/ QueryFlags \/ QueryUsers \/ AnswerFigures

RiskSpec == RiskInit /\ [][RiskNext]_riskVars

-----------------------------------------------------------------------------
\* Two admins who resolve one flag: who is told "Flag resolved" is the admin
\* whom the row names, for good.  The other is told that it is resolved already.
ResolvedOnce == \A a \in Admin : \A f \in desk[a].told : flags[f].resolvedBy = a

\* Users with open flags, and those whose open flags are of two severities.
Flagged == {u \in User : OpenFlags(u) # {}}
Mixed == {u \in Flagged : \A severity \in Severity : OpenFlags(u) # OpenOf(u, severity)}

\* Those that a reader of banned_users means: inactive, with an open critical flag.
Severe == {u \in Frozen : OpenOf(u, "critical") # {}}

(* What the figures of an answer are worth if nothing was written between its
   queries.  Whoever counts as frozen counts as flagged, and whoever counts as banned is
   frozen and has a critical flag of those that by_severity counts.  flagged_users is
   never too low, and is right exactly when no user has open flags of two
   severities; banned_users is never too high, and is right exactly when no inactive
   user with a critical flag has one of another severity too. *)
FiguresAddUp ==
    HasFigures /\ figures.fresh =>
        /\ figures.banned <= figures.frozen /\ figures.frozen <= figures.flagged
        /\ figures.banned <= figures.critical
        /\ figures.flagged >= Cardinality(Flagged)
        /\ figures.flagged = Cardinality(Flagged) <=> Mixed = {}
        /\ figures.banned <= Cardinality(Severe)
        /\ figures.banned = Cardinality(Severe) <=> Severe \cap Mixed = {}

\* Two services that read the same flags agree on the worst: a user whom the
\* figures call banned has the risk level 'high' in the list of users.
BannedAreHigh == \A u \in Banned : RiskLevel(u) = "high"

\* What the pages say of the flags is consistent.
FlagsAgree == FiguresAddUp /\ BannedAreHigh

=============================================================================
