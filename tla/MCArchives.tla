----------------------------- MODULE MCArchives ------------------------------
(* Archives over a few days: two of them to a week, four to a month.       *)
EXTENDS Archives

CONSTANTS n1, n2, s1, s2

MCTimes == 1 .. LastDay

MCPeriod ==
    [rule \in {"secondly", "daily", "weekly", "monthly"} |->
        [t \in MCTimes |-> CASE rule = "weekly" -> t \div 2
                             [] rule = "monthly" -> t \div 4
                             [] OTHER -> t]]

TwoShards == <<s1, s2>>
OneShard == <<s1>>
Apart == n1 :> s1 @@ n2 :> s2
Together == n1 :> s1

OwnOnly == [n \in Nodes |-> {n}]
OneTable == {[n \in Nodes |-> 1]}

\* n1 is `edge`, n2 is `edge-1`.
Prefix == n1 :> {n1, n2} @@ n2 :> {n2}
BothTables == {n1 :> 1 @@ n2 :> 2, n1 :> 2 @@ n2 :> 1}

LastOne == "secondly" :> 1
NoneLast == "secondly" :> 0
Timeframe == "within" :> 2 @@ "secondly" :> 1
Interval == "daily" :> 2 @@ "weekly" :> 2
Grandfather == "daily" :> 1 @@ "weekly" :> 2 @@ "monthly" :> 3
NoRule == <<>>

AFew == {n1 :> LastOne @@ n2 :> NoneLast}
Each == {[n \in Nodes |-> p] :
            p \in {LastOne, NoneLast, Timeframe, Interval, Grandfather, NoRule}}
=============================================================================
