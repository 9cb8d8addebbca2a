----------------------------- MODULE Permissions -----------------------------
(***************************************************************************)
(* Which files and journals a user may read (internal/user/server/user.go).*)
(* A rule is the type it is for ("readfiles" when it names none), whether  *)
(* it starts with '!', and its regular expression.                         *)
(***************************************************************************)
EXTENDS Integers, Sequences

CONSTANTS
    Matching,        \* [regular expressions that compile -> set of paths]
    CleanPath,       \* EvalSymlinks and Abs: [paths that resolve -> path]
    OsReadable,      \* <<user, path>> with file system permissions
    Regular,         \* paths that are regular files
    Journals,        \* valid journal specs
    InternalUsers    \* the schedule and continuous users

\* What one rule makes of the state of the scan.
Judge(state, rule, path, type) ==
    IF state = "denied" \/ rule.type # type THEN state
    ELSE IF rule.regex \notin DOMAIN Matching THEN "denied"
    ELSE IF path \notin Matching[rule.regex] THEN state
    ELSE IF rule.deny THEN "denied" ELSE "allowed"

\* Mutant: the last rule that matches decides.
LastRuleWins(rules, path, type) ==
    LET state(rule) == Judge("none", rule, path, type)
        decides == {i \in DOMAIN rules : state(rules[i]) # "none"}
    IN  \E i \in decides : state(rules[i]) = "allowed" /\ \A j \in decides : j <= i

\* iteratePaths: a rule that denies, or does not compile, ends the scan.
IteratePaths(rules, path, type) ==
    LET scan[i \in 0..Len(rules)] ==
            IF i = 0 THEN "none" ELSE Judge(scan[i - 1], rules[i], path, type)
    IN  scan[Len(rules)] = "allowed"

HasFilePermission(user, rules, path, type) ==
    <<user, path>> \in OsReadable /\ IteratePaths(rules, path, type)

ValidateReadTarget(user, rules, path, type) ==
    IF path \in Journals
    THEN user \in InternalUsers \/ IteratePaths(rules, path, type)
    ELSE /\ path \in DOMAIN CleanPath
         /\ user \in InternalUsers \/ HasFilePermission(user, rules, CleanPath[path], type)
         /\ CleanPath[path] \in Regular
=============================================================================
