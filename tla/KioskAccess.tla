----------------------------- MODULE KioskAccess -----------------------------
(***************************************************************************)
(* A technician's kiosk and its standing with the orchestrator: the row an *)
(* operator approves, disables or revokes (routers/kiosks.py), the entry   *)
(* of its key in authorized_keys (core/ssh_keys.py), the audit that        *)
(* withdraws entries nobody answers for (core/ssh_audit.py) and the poller *)
(* that asks every ten seconds (payload_client/backend/main.py).           *)
(*                                                                         *)
(* authorized_keys is rewritten from a copy read a moment before, by API   *)
(* threads and by the audit's worker, without a lock: whoever writes last  *)
(* undoes the others' changes.  A machine has one row; two machines that   *)
(* claim one kiosk_id are left out.                                        *)
(***************************************************************************)
EXTENDS Naturals, FiniteSets

CONSTANTS
    Machines,
    Keys,            \* SSH keys; an image brings the orchestrator's own along
    LiveKeys,        \* keys of the orchestrator and of the nodes
    NoKey,
    admin, audit,    \* the writers that are not a machine's request
    PruneMinScans,
    PruneMaxAbsolute,
    FractionFloor,   \* PRUNE_FRACTION_FLOOR
    MaxRequests,     \* bound on operators' and technicians' requests
    MaxFaults        \* bound on failed writes, lost answers and new keys

ASSUME KioskAccessAssumption ==
    /\ IsFiniteSet(Keys)
    /\ LiveKeys \subseteq Keys
    /\ NoKey \notin Keys
    /\ {admin, audit} \cap Machines = {}
    /\ {PruneMinScans, PruneMaxAbsolute, FractionFloor} \subseteq Nat \ {0}
    /\ {MaxRequests, MaxFaults} \subseteq Nat

VARIABLES
    status,      \* kiosks.status; "absent" without a row
    pub,         \* kiosks.ssh_pub_key
    paired,      \* machines whose token is that of their row
    held,        \* the key on the machine
    client,      \* kiosk_status on the machine
    polling,     \* machines whose check-in thread runs
    request,     \* the machine's request at the server, or its answer
    file,        \* authorized_keys: an entry is "tagged" or "plain"
    copy,        \* what a writer read of it
    order,       \* the operator's request under way: <<what, machine, its key>>
    streak,      \* orphan_scan_count of a key's finding
    aged,        \* keys orphaned for PRUNE_MIN_AGE
    closed,      \* keys whose finding is resolved
    candidates,  \* what the audit at work may prune
    requests, faults

rowVars == <<status, pub, paired>>
clientVars == <<held, client, polling>>
findingVars == <<streak, aged, closed, candidates>>
bounds == <<requests, faults>>
vars == <<rowVars, clientVars, request, file, copy, order, findingVars, bounds>>

Idle == <<"none">>
Unread == [k \in Keys |-> "none"]

\* A fleet at rest: machines that were paired once, with their grants, and
\* entries somebody else wrote.
Init ==
    /\ held \in [Machines -> Keys]
    /\ status \in [Machines -> {"absent", "APPROVED"}]
    /\ paired = {m \in Machines : status[m] = "APPROVED"}
    /\ pub = [m \in Machines |-> IF m \in paired THEN held[m] ELSE NoKey]
    /\ polling = paired
    /\ client = [m \in Machines |-> "PENDING"]
    /\ request = [m \in Machines |-> "none"]
    /\ \E plain \in SUBSET Keys :
          file = [k \in Keys |->
                    IF k \in LiveKeys \/ \E m \in paired : held[m] = k THEN "tagged"
                    ELSE IF k \in plain THEN "plain" ELSE "none"]
    /\ copy = [p \in Machines \cup {admin, audit} |-> Unread]
    /\ order = Idle
    /\ streak = [k \in Keys |-> 0]
    /\ aged = {} /\ closed = {} /\ candidates = {}
    /\ requests = 0 /\ faults = 0

Request ==
    /\ requests < MaxRequests
    /\ requests' = requests + 1 /\ UNCHANGED faults

Fault ==
    /\ faults < MaxFaults
    /\ faults' = faults + 1 /\ UNCHANGED requests

----------------------------------------------------------------------------
(* authorized_keys.                                                        *)

Read(p) == copy' = [copy EXCEPT ![p] = file]

\* A writer that is done; its copy is of no more use.
Release(p) == copy' = [copy EXCEPT ![p] = Unread]

\* authorize: one tagged entry, which replaces an untagged one of the key.
Authorize(p, k) == file' = [copy[p] EXCEPT ![k] = "tagged"]

\* revoke: every entry of the key, by fingerprint.
Revoke(p, k) == file' = [copy[p] EXCEPT ![k] = "none"]

\* known_fingerprints.
Known ==
    LiveKeys \cup {pub[m] : m \in {n \in Machines : status[n] = "APPROVED"}}

----------------------------------------------------------------------------
(* The check-in, every ten seconds.                                        *)

Answer(m, what) == request' = [request EXCEPT ![m] = what]

\* An invalid token, or a row that is DISABLED or REVOKED: 401 or 403.
CheckInRefused(m) ==
    /\ m \in polling /\ request[m] = "none"
    /\ m \notin paired \/ status[m] \in {"DISABLED", "REVOKED"}
    /\ Answer(m, "DISABLED")
    /\ UNCHANGED <<rowVars, clientVars, file, copy, order, findingVars, bounds>>

\* Still PENDING: the key is noted, nothing is granted.
CheckInPending(m) ==
    /\ m \in polling /\ request[m] = "none"
    /\ m \in paired /\ status[m] = "PENDING"
    /\ pub' = [pub EXCEPT ![m] = held[m]]
    /\ Answer(m, "PENDING")
    /\ UNCHANGED <<status, paired, clientVars, file, copy, order, findingVars, bounds>>

\* The row is read APPROVED, then the file.  An entry in place is left alone.
CheckInReads(m) ==
    /\ m \in polling /\ request[m] = "none"
    /\ m \in paired /\ status[m] = "APPROVED"
    /\ IF file[held[m]] = "tagged"
       THEN /\ pub' = [pub EXCEPT ![m] = held[m]]
            /\ Answer(m, "APPROVED")
            /\ UNCHANGED copy
       ELSE /\ Answer(m, "granting")
            /\ Read(m)
            /\ UNCHANGED pub
    /\ UNCHANGED <<status, paired, clientVars, file, order, findingVars, bounds>>

\* (mutant) The rest of the check-in without the file.
CheckInGrantsNothing(m) ==
    /\ request[m] = "granting"
    /\ Answer(m, "APPROVED")
    /\ pub' = [pub EXCEPT ![m] = IF status[m] = "absent" THEN @ ELSE held[m]]
    /\ Release(m)
    /\ UNCHANGED <<status, paired, clientVars, file, order, findingVars, bounds>>

\* The grant, then the commit, which writes the columns that changed: a status
\* that was taken away meanwhile stays as it is, the grant is made all the same.
CheckInGrants(m) ==
    /\ request[m] = "granting"
    /\ Authorize(m, held[m])
    /\ pub' = [pub EXCEPT ![m] = IF status[m] = "absent" THEN @ ELSE held[m]]
    /\ Answer(m, IF status[m] = "absent" THEN "error" ELSE "APPROVED")
    /\ Release(m)
    /\ UNCHANGED <<status, paired, clientVars, order, findingVars, bounds>>

\* (mutant) A refusal is taken for a passing error.
HearsDeaf(m) ==
    /\ request[m] \in {"PENDING", "APPROVED", "DISABLED", "error"}
    /\ client' = [client EXCEPT ![m] =
                    IF request[m] \in {"DISABLED", "error"} THEN @ ELSE request[m]]
    /\ Answer(m, "none")
    /\ UNCHANGED <<rowVars, held, polling, file, copy, order, findingVars, bounds>>

\* The answer: 401 and 403 disable the client, other errors change nothing.
Hears(m) ==
    /\ request[m] \in {"PENDING", "APPROVED", "DISABLED", "error"}
    /\ client' = [client EXCEPT ![m] = IF request[m] = "error" THEN @ ELSE request[m]]
    /\ Answer(m, "none")
    /\ UNCHANGED <<rowVars, held, polling, file, copy, order, findingVars, bounds>>

\* The write fails, or the answer is lost on the way.
CheckInFails(m) ==
    /\ request[m] \notin {"none", "connecting"} /\ Fault
    /\ Answer(m, "none")
    /\ Release(m)
    /\ UNCHANGED <<rowVars, clientVars, file, order, findingVars>>

----------------------------------------------------------------------------
(* The technician.                                                         *)

\* enroll_client_kiosk: the new token and a poller, unless the answer is lost.
EnrollHeard(m) ==
    \/ /\ paired' = paired \cup {m}
       /\ polling' = polling \cup {m}
       /\ client' = [client EXCEPT ![m] = "PENDING"]
    \/ /\ paired' = paired \ {m}
       /\ UNCHANGED <<polling, client>>

\* POST /enroll: a row that is not approved is PENDING again with a new token.
Enroll(m) ==
    /\ Request
    /\ status[m] # "APPROVED"
    /\ status' = [status EXCEPT ![m] = "PENDING"]
    /\ pub' = [pub EXCEPT ![m] = held[m]]
    /\ EnrollHeard(m)
    /\ UNCHANGED <<held, request, file, copy, order, findingVars>>

\* POST /handshake with the pairing key of a PENDING row: APPROVED is committed
\* before the key is authorized.
HandshakeBegins(m) ==
    /\ Request
    /\ status[m] = "PENDING" /\ request[m] = "none"
    /\ status' = [status EXCEPT ![m] = "APPROVED"]
    /\ pub' = [pub EXCEPT ![m] = held[m]]
    /\ paired' = paired \ {m}
    /\ Answer(m, "connecting")
    /\ Read(m)
    /\ UNCHANGED <<clientVars, file, order, findingVars>>

\* connect_to_orchestrator keeps the token it hears of.  When the grant fails, or
\* the answer is lost after it, the row stays APPROVED with a token nobody has.
HandshakeEnds(m) ==
    /\ request[m] = "connecting"
    /\ \/ /\ Authorize(m, held[m])
          /\ paired' = IF status[m] = "absent" THEN paired ELSE paired \cup {m}
          /\ polling' = polling \cup {m}
          /\ client' = [client EXCEPT ![m] = "APPROVED"]
          /\ UNCHANGED bounds
       \/ /\ Fault
          /\ Authorize(m, held[m]) \/ UNCHANGED file
          /\ UNCHANGED <<paired, polling, client>>
    /\ Answer(m, "none")
    /\ Release(m)
    /\ UNCHANGED <<status, pub, held, order, findingVars>>

\* The caller on the machine, which may miss the answer.
ActivationHeard(m) ==
    client' \in {client, [client EXCEPT ![m] = "PENDING"]}

\* POST /request-activation.
RequestActivation(m) ==
    /\ Request
    /\ m \in paired /\ status[m] = "DISABLED"
    /\ status' = [status EXCEPT ![m] = "PENDING"]
    /\ ActivationHeard(m)
    /\ UNCHANGED <<pub, paired, held, polling, request, file, copy, order, findingVars>>

\* The machine boots another image, with another key.
Rekey(m) ==
    /\ Fault
    /\ request[m] = "none"
    /\ \E k \in Keys \ {held[m]} : held' = [held EXCEPT ![m] = k]
    /\ client' = [client EXCEPT ![m] = "PENDING"]
    /\ polling' = IF m \in paired THEN polling ELSE polling \ {m}
    /\ UNCHANGED <<rowVars, request, file, copy, order, findingVars>>

----------------------------------------------------------------------------
(* The operator.                                                           *)

\* create_kiosk: a row to pair with.
CreateKiosk(m) ==
    /\ Request
    /\ status[m] = "absent"
    /\ status' = [status EXCEPT ![m] = "PENDING"]
    /\ pub' = [pub EXCEPT ![m] = NoKey]
    /\ paired' = paired \ {m}
    /\ UNCHANGED <<clientVars, request, file, copy, order, findingVars>>

\* toggle_kiosk_active, revoke_kiosk, delete_kiosk and the sweep of PENDING rows
\* that comes with a look at the list: the row and the file are read.
OrderBegins(what, m) ==
    /\ Request
    /\ order = Idle
    /\ CASE what = "disable" -> status[m] = "APPROVED"
         [] what = "enable" -> status[m] \in {"DISABLED", "PENDING"}
         [] what = "revoke" -> status[m] # "absent"
         [] what = "delete" -> status[m] # "absent"
         [] what = "sweep" -> status[m] = "PENDING"
    /\ order' = <<what, m, pub[m]>>
    /\ Read(admin)
    /\ UNCHANGED <<rowVars, clientVars, request, file, findingVars>>

StatusAfter == [disable |-> "DISABLED", enable |-> "APPROVED",
                revoke |-> "REVOKED", delete |-> "absent", sweep |-> "absent"]

\* The file is written, for the key read at the start, and the row committed.  A revocation that fails is
\* logged and the row changes all the same; an approval that fails is dropped.
OrderEnds ==
    /\ order # Idle
    /\ LET what == order[1]
           m == order[2]
           key == order[3]
           commit ==
               /\ status' = [status EXCEPT ![m] = StatusAfter[what]]
               /\ IF StatusAfter[what] = "absent"
                  THEN /\ pub' = [pub EXCEPT ![m] = NoKey]
                       /\ paired' = paired \ {m}
                  ELSE UNCHANGED <<pub, paired>>
       IN  \/ /\ status[m] # "absent"
              /\ commit
              /\ IF key = NoKey THEN UNCHANGED file
                 ELSE IF what = "enable" THEN Authorize(admin, key)
                 ELSE IF copy[admin][key] = "none" THEN UNCHANGED file
                 ELSE Revoke(admin, key)
              /\ UNCHANGED bounds
           \/ /\ status[m] # "absent"
              /\ Fault
              /\ IF what = "enable" THEN UNCHANGED rowVars ELSE commit
              /\ UNCHANGED file
    /\ order' = Idle
    /\ Release(admin)
    /\ UNCHANGED <<clientVars, request, findingVars>>

----------------------------------------------------------------------------
(* The audit, nightly or on demand.                                        *)

\* (mutant) The streak of a key is only kept up while no kiosk has a row.
IsOrphanLax(k) == file[k] = "tagged" /\ k \notin Known /\ \A m \in Machines : pub[m] # k

\* classify: tagged by us and answered for by no live record.
IsOrphan(k) == file[k] = "tagged" /\ k \notin Known

\* select_prune_candidates, with its caps on the whole run.
Eligible(counts) ==
    LET eligible == {k \in aged : IsOrphan(k) /\ counts[k] >= PruneMinScans}
        total == Cardinality({k \in Keys : file[k] = "tagged"})
    IN  IF \/ Cardinality(eligible) > PruneMaxAbsolute
           \/ total >= FractionFloor /\ 4 * Cardinality(eligible) > total
        THEN {} ELSE eligible

\* scan_orchestrator: the findings of all entries, those of entries that went.
\* What a prune resolved keeps its streak until the key is seen again.
Scan ==
    /\ candidates = {}
    /\ streak' = [k \in Keys |->
                    IF IsOrphan(k)
                    THEN IF streak[k] < PruneMinScans THEN streak[k] + 1 ELSE streak[k]
                    ELSE IF file[k] = "none" /\ k \in closed THEN streak[k]
                    ELSE 0]
    /\ aged' = {k \in aged : streak'[k] # 0}
    /\ closed' = {k \in Keys : file[k] = "none"}
    /\ candidates' = Eligible(streak')
    /\ UNCHANGED <<rowVars, clientVars, request, file, copy, order, bounds>>

\* Twelve hours pass.
HalfDay ==
    /\ aged' = {k \in Keys : streak[k] # 0}
    /\ UNCHANGED <<rowVars, clientVars, request, file, copy, order, streak, closed,
                   candidates, bounds>>

PruneReads ==
    /\ candidates # {} /\ copy[audit] = Unread
    /\ Read(audit)
    /\ UNCHANGED <<rowVars, clientVars, request, file, order, findingVars, bounds>>

\* One candidate after the other, whoever answers for it by now.
PruneWrites ==
    /\ candidates # {} /\ copy[audit] # Unread
    /\ \E k \in candidates :
          /\ IF copy[audit][k] = "none" THEN UNCHANGED <<file, closed>>
             ELSE Revoke(audit, k) /\ closed' = closed \cup {k}
          /\ candidates' = candidates \ {k}
    /\ Release(audit)
    /\ UNCHANGED <<rowVars, clientVars, request, order, streak, aged, bounds>>

\* purge_finding: an operator removes an entry no live record answers for, by
\* the classification of the last scan.  Its reading and writing of the file are
\* one step here.
ManualPurge(k) ==
    /\ Request
    /\ streak[k] # 0 \/ file[k] = "plain"
    /\ file' = [file EXCEPT ![k] = "none"]
    /\ closed' = closed \cup {k}
    /\ UNCHANGED <<rowVars, clientVars, request, copy, order, streak, aged, candidates>>

----------------------------------------------------------------------------
CheckIn(m) ==
    \/ CheckInRefused(m) \/ CheckInPending(m) \/ CheckInReads(m)
    \/ CheckInGrants(m) \/ Hears(m)

Audit == Scan \/ PruneReads \/ PruneWrites

Next ==
    \/ \E m \in Machines :
          \/ CheckIn(m) \/ CheckInFails(m)
          \/ Enroll(m) \/ HandshakeBegins(m) \/ HandshakeEnds(m)
          \/ RequestActivation(m) \/ Rekey(m) \/ CreateKiosk(m)
          \/ \E what \in DOMAIN StatusAfter : OrderBegins(what, m)
    \/ OrderEnds
    \/ Audit \/ HalfDay
    \/ \E k \in Keys : ManualPurge(k)

Spec == Init /\ [][Next]_vars

\* Pollers never stop, requests that were begun are answered, the audit runs
\* every night and time passes.  Nobody is obliged to ask for anything.
FairSpec ==
    /\ Spec
    /\ \A m \in Machines : WF_vars(CheckIn(m)) /\ WF_vars(HandshakeEnds(m))
    /\ WF_vars(OrderEnds)
    /\ WF_vars(Audit) /\ WF_vars(HalfDay)

----------------------------------------------------------------------------
(* Properties.                                                             *)

\* A grant that no live record answers for does not stay: not after a failed
\* revocation, a key that was replaced, or a stale copy that brought it back.
WithdrawnGrantsGo ==
    (\E k \in Keys : file[k] = "tagged" /\ k \notin Known)
        ~> \A k \in Keys : file[k] = "tagged" => k \in Known

\* Approved kiosks that check in have their grants again, whoever removed them.
ApprovedGetsIn ==
    []<>(\A m \in paired : status[m] = "APPROVED" => file[held[m]] = "tagged")

\* Machines that lost their standing learn of it.
ClientLearns ==
    []<>(\A m \in polling :
            status[m] \in {"DISABLED", "REVOKED", "absent"} => client[m] = "DISABLED")
=============================================================================
