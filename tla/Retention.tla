------------------------------ MODULE Retention ------------------------------
(***************************************************************************)
(* Which archives of a node a retention policy keeps: core/retention.py,   *)
(* the port of borg's own pruning.                                         *)
(*                                                                         *)
(* An archive is a record with a node and a time `at`; two archives of a   *)
(* node never share one.  A policy maps the rules it sets to their counts: *)
(* a rule that is not in its domain is None, and a count of 0 keeps        *)
(* nothing by that rule.  The rules between "secondly" and "daily", and    *)
(* "yearly", are of the same kind and are left out.                        *)
(***************************************************************************)
EXTENDS Integers, FiniteSets

CONSTANTS
    Times,    \* when an archive can have been made
    Period    \* [rule -> [time -> the period it falls in]]

\* PRUNING_PATTERNS.
Rules == {"secondly", "daily", "weekly", "monthly"}

\* What rules_from_policy makes: a window is never combined with the calendar's
\* rules.
IsPolicy(policy) ==
    /\ DOMAIN policy \subseteq Rules \cup {"within"}
    /\ policy \in [DOMAIN policy -> Nat]
    /\ "within" \in DOMAIN policy => DOMAIN policy \subseteq {"within", "secondly"}

\* Periods follow one another, and "two backups of one node never share a second".
ASSUME RetentionAssumption ==
    /\ Times \subseteq Nat
    /\ Period \in [Rules -> [Times -> Nat]]
    /\ \A rule \in Rules : \A t, u \in Times : t <= u => Period[rule][t] <= Period[rule][u]
    /\ \A t, u \in Times : Period["secondly"][t] = Period["secondly"][u] => t = u

Newer(archives, a) == {b \in archives : b.at > a.at}

\* prune_within.
Within(archives, policy, now) ==
    IF "within" \in DOMAIN policy
    THEN {a \in archives : a.at > now - policy["within"]}
    ELSE {}

\* The newest archive of every period.
Heads(archives, rule) ==
    {a \in archives :
        \A b \in Newer(archives, a) : Period[rule][b.at] # Period[rule][a.at]}

Newest(archives) == {a \in archives : Newer(archives, a) = {}}

Oldest(archives) == {a \in archives : \A b \in archives : a.at <= b.at}

Latest(archives, n) == {a \in archives : Cardinality(Newer(archives, a)) < n}

\* (mutant) The oldest archive is not special.
SplitWithoutOldest(archives, rule, n, kept) == Latest(Heads(archives, rule) \ kept, n)

\* prune_split: the heads of the last n periods, those kept by an earlier rule
\* not counting, and the oldest archive while there are fewer than n of them.
Split(archives, rule, n, kept) ==
    LET chosen == Latest(Heads(archives, rule) \ kept, n)
    IN  IF n > 0 /\ Cardinality(chosen) < n THEN chosen \cup Oldest(archives)
                                            ELSE chosen

\* One turn of the loop over the rules: they share what they have kept.
Keep(archives, policy, rule, kept) ==
    IF rule \in DOMAIN policy
    THEN kept \cup Split(archives, rule, policy[rule], kept)
    ELSE kept

\* select: the rules in the order of PRUNING_PATTERNS.  No rule at all keeps all.
Select(archives, policy, now) ==
    LET secondly == Keep(archives, policy, "secondly", Within(archives, policy, now))
        daily    == Keep(archives, policy, "daily", secondly)
        weekly   == Keep(archives, policy, "weekly", daily)
    IN  IF DOMAIN policy = {}
        THEN archives
        ELSE Keep(archives, policy, "monthly", weekly)
=============================================================================
