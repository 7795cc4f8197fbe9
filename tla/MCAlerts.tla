------------------------------ MODULE MCAlerts ------------------------------
\* One node.  Either its three kinds of alert, two sweeps that may overlap and one
\* task at a time; or two tasks at a time, which may overlap too, and no alerts.
EXTENDS Alerts
AllSources == {"node_offline", "graded", "stale_backup"}
AllSweepers == {"s1", "s2"}
AllScenes ==
    { [jobs |-> {"j1"}, sources |-> {"stale_backup", "graded"}, sweepers |-> AllSweepers,
       events |-> 3],
      [jobs |-> {"j1"}, sources |-> {"node_offline"}, sweepers |-> AllSweepers, events |-> 3],
      [jobs |-> {"j1", "j2"}, sources |-> {}, sweepers |-> {}, events |-> 4] }
=============================================================================
