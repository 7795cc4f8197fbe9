------------------------------- MODULE Images -------------------------------
(***************************************************************************)
(* The technician's boot image: the cached Debian base image, the template *)
(* built on it from the payload's sources, the per-kiosk images repacked   *)
(* from the template (iso_tasks.py, routers/iso.py, core/iso_build.py) and *)
(* the check that keeps the template up with its sources.                  *)
(*                                                                         *)
(* The sources are a version number, a hash of them is the version itself. *)
(* An image is the version of the sources it holds, NoImage, or Torn when  *)
(* xorriso died over it.  A build is a Celery message, a worker on it and  *)
(* its TaskLog row, "none" again once it is settled and its id is free.    *)
(***************************************************************************)
EXTENDS Naturals, FiniteSets

CONSTANTS
    Builds,      \* task ids of template builds
    Kiosks,
    NoImage, Torn,
    MaxEdits,    \* bound on changes of the payload's sources
    MaxEvents    \* bound on edits, operators' requests and faults together: a
                 \* fault is a failed step, a lost worker or an API restart

ASSUME ImagesAssumption ==
    /\ IsFiniteSet(Kiosks)
    /\ MaxEdits \in Nat
    /\ MaxEvents \in Nat
    /\ {NoImage, Torn} \cap Nat = {}
    /\ NoImage # Torn

Versions == 0 .. MaxEdits

VARIABLES
    sources,     \* version of the payload's sources
    base,        \* base.iso: "none" (or under 1000 MB), "whole"
    tmp,         \* base.iso.tmp: "none", "partial"
    lock,        \* download.lock
    download,    \* the download task
    template,    \* technician_client_v1.iso
    stored,      \* .payload_hash, NoImage when there is none
    failed,      \* kiosk_template_failed_hash in Redis
    dirty,       \* base_iso_dirty in Redis
    build,       \* where each build is
    kind,        \* "template" or "issued" with an operator's token
    hash,        \* payload_hash_built
    content,     \* the version staged in the build's work directory
    row,         \* its TaskLog row: "none", "young" or "old" (RUNNING), "ended"
    issued,      \* approved kiosks
    flag,        \* rebuild_required
    repacks,     \* repack_kiosk_iso_task messages
    events,      \* requests and faults so far
    overlapped   \* history: two builds have been at work at once

baseVars == <<base, tmp, lock, download>>
templateVars == <<template, stored, failed, dirty>>
buildVars == <<build, kind, hash, content, row, overlapped>>
kioskVars == <<issued, flag, repacks>>
vars == <<sources, baseVars, templateVars, buildVars, kioskVars, events>>

Init ==
    /\ sources = 0
    /\ base \in {"none", "whole"} /\ tmp = "none" /\ lock = FALSE /\ download = "none"
    /\ template = NoImage /\ stored = NoImage /\ failed = NoImage
    /\ dirty = FALSE
    /\ build = [b \in Builds |-> "free"]
    /\ kind = [b \in Builds |-> "template"]
    /\ hash = [b \in Builds |-> 0]
    /\ content = [b \in Builds |-> 0]
    /\ row = [b \in Builds |-> "none"]
    /\ issued \in SUBSET Kiosks /\ flag = {} /\ repacks = {}
    /\ events = 0 /\ overlapped = FALSE

AtWork == {b \in Builds : build[b] \notin {"free", "queued"}}

\* One more of what is bounded, but for edits, which `sources` counts.
Event ==
    /\ events + sources < MaxEvents
    /\ events' = events + 1

Running(rows) == {b \in Builds : rows[b] \in {"young", "old"}}

\* compute_payload_hash() != read_stored_hash().
IsStale == stored # sources

----------------------------------------------------------------------------
(* Who may start a build.                                                  *)

\* generate_client_iso_task.delay, with a fresh task id.
Dispatch(what, rows) ==
    \E b \in Builds :
        /\ build[b] = "free" /\ b \notin Running(rows)
        /\ build' = [build EXCEPT ![b] = "queued"]
        /\ kind' = [kind EXCEPT ![b] = what]
        /\ row' = [rows EXCEPT ![b] = "none"]

\* (mutant) A build under way is taken for one that will pick the change up.
TriggerRebuildTrusting(rows) ==
    /\ IF Running(rows) = {}
       THEN Dispatch("template", rows)
       ELSE UNCHANGED <<build, kind>> /\ row' = rows
    /\ UNCHANGED dirty

\* trigger_base_iso_rebuild: a young RUNNING row is told through Redis, an old
\* one is declared dead.  The row of a build is written by its task, so a build
\* that waits in the queue is not seen.
TriggerRebuild(rows) ==
    IF Running(rows) = {}
    THEN Dispatch("template", rows) /\ UNCHANGED dirty
    ELSE \E b \in Running(rows) :
            \/ /\ rows[b] = "old"
               /\ Dispatch("template", [rows EXCEPT ![b] = "ended"])
               /\ UNCHANGED dirty
            \/ /\ rows[b] = "young"
               /\ dirty' = TRUE
               /\ row' = rows
               /\ UNCHANGED <<build, kind>>

\* check_concurrent_iso_task: the rows it leaves when it admits a request.
Admitted ==
    IF base # "whole" /\ lock
    THEN {}
    ELSE IF Running(row) = {} THEN {row}
         ELSE {[row EXCEPT ![b] = "ended"] : b \in {c \in Builds : row[c] = "old"}}

\* rebuild_kiosk_template_if_stale.
CheckTemplate(rows) ==
    CASE tmp' # "none" \/ (template = NoImage /\ base = "none") ->
            row' = rows /\ UNCHANGED <<templateVars, build, kind>>
      [] tmp' = "none" /\ template = NoImage /\ base # "none" ->
            TriggerRebuild(rows) /\ UNCHANGED <<template, stored, failed>>
      [] tmp' = "none" /\ template # NoImage /\ ~IsStale ->
            /\ failed' = NoImage
            /\ row' = rows
            /\ UNCHANGED <<template, stored, dirty, build, kind>>
      [] tmp' = "none" /\ template # NoImage /\ IsStale /\ failed = sources ->
            row' = rows /\ UNCHANGED <<templateVars, build, kind>>
      [] OTHER ->
            TriggerRebuild(rows) /\ UNCHANGED <<template, stored, failed>>

\* kiosk_template_check_task, every ten minutes.
TemplateCheck ==
    /\ UNCHANGED tmp
    /\ CheckTemplate(row)
    /\ UNCHANGED <<sources, base, lock, download, hash, content, overlapped,
                   kioskVars, events>>

\* POST /generate: an operator's own token, into the same file.
GenerateIso ==
    /\ Event
    /\ \E rows \in Admitted : Dispatch("issued", rows)
    /\ UNCHANGED <<sources, baseVars, templateVars, hash, content, overlapped,
                   kioskVars>>

\* Time passes for a RUNNING row.
RowAges(b) ==
    /\ row[b] = "young"
    /\ row' = [row EXCEPT ![b] = "old"]
    /\ UNCHANGED <<sources, baseVars, templateVars, build, kind, hash, content,
                   overlapped, kioskVars, events>>

\* A release replaces files of the payload.
Edit ==
    /\ sources < MaxEdits /\ events + sources < MaxEvents
    /\ sources' = sources + 1
    /\ UNCHANGED <<baseVars, templateVars, buildVars, kioskVars, events>>

----------------------------------------------------------------------------
(* The base image.                                                         *)

\* POST /download_base.
RequestDownload ==
    /\ Event
    /\ download = "none"
    /\ base = "whole" \/ ~lock
    /\ lock' = (lock \/ base # "whole")
    /\ download' = "queued"
    /\ UNCHANGED <<sources, base, tmp, templateVars, buildVars, kioskVars>>

\* A base that is there, or what is too small for one removed; then curl
\* resumes into base.iso.tmp, unless it is complete already.
DownloadBegins ==
    /\ download = "queued"
    /\ \/ /\ base = "whole"
          /\ download' = "none" /\ lock' = FALSE
          /\ UNCHANGED tmp
       \/ /\ base # "whole"
          /\ download' = "fetching"
          /\ tmp' = IF tmp = "none" THEN "partial" ELSE tmp
          /\ UNCHANGED lock
    /\ UNCHANGED <<sources, base, templateVars, buildVars, kioskVars, events>>

\* (mutant) The lock is only removed on success.
DownloadFailsKeepingLock ==
    /\ download = "fetching" /\ Event
    /\ tmp' \in {"partial", "none"}
    /\ download' = "none"
    /\ UNCHANGED <<sources, base, lock, templateVars, buildVars, kioskVars>>

\* curl gives up (what it has stays for the next attempt), or the finished file
\* does not match SHA512SUMS and goes.  `finally` removes the lock.
DownloadFails ==
    /\ download = "fetching" /\ Event
    /\ tmp' \in {"partial", "none"}
    /\ download' = "none" /\ lock' = FALSE
    /\ UNCHANGED <<sources, base, templateVars, buildVars, kioskVars>>

\* Renamed into place; the template is now out of date or was never built.
DownloadSucceeds ==
    /\ download = "fetching"
    /\ base' = "whole" /\ tmp' = "none"
    /\ TriggerRebuild(row)
    /\ download' = "none" /\ lock' = FALSE
    /\ UNCHANGED <<sources, template, stored, failed, hash, content, overlapped,
                   kioskVars, events>>

\* POST /upload_base writes base.iso itself and removes it when that fails.
UploadBase ==
    /\ Event
    /\ base' \in {"none", "whole"}
    /\ UNCHANGED <<sources, tmp, lock, download, templateVars, buildVars,
                   kioskVars>>

\* DELETE /base.  The stored hash stays.
ClearBase ==
    /\ Event
    /\ base' = "none" /\ tmp' = "none" /\ template' = NoImage
    /\ UNCHANGED <<sources, lock, download, stored, failed, dirty, buildVars,
                   kioskVars>>

----------------------------------------------------------------------------
(* generate_client_iso_task.                                               *)

\* (mutant) The hash is read when the build ends.
BuiltLate(b) == sources

\* The hash of the sources a build was made from.
Built(b) == hash[b]

\* The dirty mark is taken down and the hash read before anything is copied.
\* A second delivery of the message stumbles over the row of the first.
BuildBegins(b) ==
    /\ build[b] = "queued"
    /\ dirty' = FALSE
    /\ hash' = [hash EXCEPT ![b] = sources]
    /\ IF row[b] = "none"
       THEN /\ row' = [row EXCEPT ![b] = "young"]
            /\ build' = [build EXCEPT ![b] = "base"]
            /\ overlapped' = (overlapped \/ AtWork # {})
       ELSE /\ build' = [build EXCEPT ![b] = "free"]
            /\ row' = [row EXCEPT ![b] = IF @ = "ended" THEN "none" ELSE @]
            /\ UNCHANGED overlapped
    /\ UNCHANGED <<sources, baseVars, template, stored, failed, kind, content,
                   kioskVars, events>>

\* The base is on disk, or an existing template serves, or curl writes straight
\* into base.iso.  This is outside the task's `try`: a failure leaves the row.
BuildFindsBase(b) ==
    /\ build[b] = "base"
    /\ \/ /\ base' = IF base = "whole" THEN base
                     ELSE IF template \in Versions THEN "none" ELSE "whole"
          /\ build' = [build EXCEPT ![b] = "stage"]
          /\ UNCHANGED events
       \/ /\ base # "whole" /\ template \notin Versions /\ Event
          /\ base' = "none"
          /\ build' = [build EXCEPT ![b] = "free"]
    /\ UNCHANGED <<sources, tmp, lock, download, templateVars, kind, hash, content,
                   row, overlapped, kioskVars>>

\* What stage_payload_tree and the inject_* steps copy: the sources as they are
\* at that moment.
Staged == sources

\* Unpacking, injection of the payload, the kiosk's configuration and key.
BuildStages(b) ==
    /\ build[b] = "stage"
    /\ \/ /\ content' = [content EXCEPT ![b] = Staged]
          /\ build' = [build EXCEPT ![b] = "pack"]
          /\ UNCHANGED events
       \/ /\ Event
          /\ build' = [build EXCEPT ![b] = "failing"]
          /\ UNCHANGED content
    /\ UNCHANGED <<sources, baseVars, templateVars, kind, hash, row, overlapped,
                   kioskVars>>

\* repack_iso unlinks the old file first; xorriso may die before or over the new
\* one, which is then taken to be too small to serve as a base.
Wrecks == {NoImage, Torn}

BuildPacks(b) ==
    /\ build[b] = "pack"
    /\ content' = [content EXCEPT ![b] = 0]
    /\ \/ /\ template' = content[b]
          /\ build' = [build EXCEPT ![b] = "store"]
          /\ row' = [row EXCEPT ![b] = "ended"]
          /\ UNCHANGED events
       \/ /\ Event
          /\ template' \in Wrecks
          /\ build' = [build EXCEPT ![b] = "failing"]
          /\ UNCHANGED row
    /\ UNCHANGED <<sources, baseVars, stored, failed, dirty, kind, hash,
                   overlapped, kioskVars>>

\* The hash of what was built is kept, a marker of an older failure is not.
BuildStores(b) ==
    /\ build[b] = "store"
    /\ stored' = Built(b) /\ failed' = NoImage
    /\ build' = [build EXCEPT ![b] = "flag"]
    /\ UNCHANGED <<sources, baseVars, template, dirty, kind, hash, content, row,
                   overlapped, kioskVars, events>>

\* `finally`: the work directory goes, and a change that arrived during the
\* build starts the next one.
BuildEnds(b, rows) ==
    /\ dirty' = FALSE
    /\ hash' = [hash EXCEPT ![b] = 0]
    /\ LET rest == [build EXCEPT ![b] = "free"]
       IN  IF dirty
           THEN \E c \in {d \in Builds : rest[d] = "free"} \ Running(rows) :
                   /\ build' = [rest EXCEPT ![c] = "queued"]
                   /\ kind' = [kind EXCEPT ![c] = "template"]
                   /\ row' = [rows EXCEPT ![c] = "none"]
           ELSE build' = rest /\ row' = rows /\ UNCHANGED kind

\* Every approved kiosk is due for a repack on the new template.
BuildFlags(b) ==
    /\ build[b] = "flag"
    /\ flag' = flag \cup issued
    /\ repacks' = repacks \cup issued
    /\ BuildEnds(b, [row EXCEPT ![b] = "none"])
    /\ UNCHANGED <<sources, baseVars, template, stored, failed, content,
                   overlapped, issued, events>>

\* Sources that failed are remembered, so that the check does not try again.
BuildFails(b) ==
    /\ build[b] = "failing"
    /\ failed' = IF kind[b] = "template" THEN Built(b) ELSE failed
    /\ BuildEnds(b, [row EXCEPT ![b] = "none"])
    /\ UNCHANGED <<sources, baseVars, template, stored, content, overlapped,
                   kioskVars, events>>

----------------------------------------------------------------------------
(* Images of single kiosks.                                                *)

\* POST /kiosks/issue: a new kiosk, approved at once, and its repack.
IssueKiosk(k) ==
    /\ Event
    /\ k \notin issued
    /\ row' \in Admitted
    /\ issued' = issued \cup {k}
    /\ repacks' = repacks \cup {k}
    /\ UNCHANGED <<sources, baseVars, templateVars, build, kind, hash, content,
                   overlapped, flag>>

\* POST /kiosks/{id}/update_ip.
UpdateIp(k) ==
    /\ Event
    /\ k \in issued
    /\ flag' = flag \cup {k}
    /\ UNCHANGED <<sources, baseVars, templateVars, buildVars, issued, repacks>>

\* POST /kiosks/{id}/recreate.  What it admits has no RUNNING row but for a
\* second old one.
RecreateKiosk(k) ==
    /\ Event
    /\ k \in issued
    /\ \E rows \in Admitted :
          IF IsStale \/ Running(rows) # {}
          THEN /\ flag' = flag \cup {k}
               /\ IF Running(rows) = {}
                  THEN TriggerRebuild(rows)
                  ELSE row' = rows /\ UNCHANGED <<build, kind, dirty>>
               /\ UNCHANGED repacks
          ELSE /\ repacks' = repacks \cup {k}
               /\ row' = rows
               /\ UNCHANGED <<flag, build, kind, dirty>>
    /\ UNCHANGED <<sources, baseVars, template, stored, failed, hash, content,
                   overlapped, issued>>

\* repack_kiosk_iso_task: put off when the template is missing, out of date or
\* being built.  Else the kiosk gets its image, an IP changed meanwhile or not,
\* or the repack fails and leaves the flag as it was.
Repack(k) ==
    /\ k \in repacks
    /\ repacks' = repacks \ {k}
    /\ IF template = NoImage \/ IsStale \/ Running(row) # {}
       THEN /\ flag' = flag \cup {k}
            /\ IF template = NoImage \/ Running(row) = {}
               THEN TriggerRebuild(row)
               ELSE UNCHANGED <<build, kind, row, dirty>>
       ELSE /\ flag' \in {flag, flag \ {k}}
            /\ UNCHANGED <<build, kind, row, dirty>>
    /\ UNCHANGED <<sources, baseVars, template, stored, failed, hash, content,
                   overlapped, issued, events>>

----------------------------------------------------------------------------
(* Losses.                                                                 *)

\* The worker container dies, over the image perhaps; its messages come again.
WorkerLost ==
    /\ Event
    /\ template' \in {template} \cup (IF \E b \in Builds : build[b] = "pack"
                                     THEN Wrecks ELSE {})
    /\ build' = [b \in Builds |-> IF b \in AtWork THEN "queued" ELSE build[b]]
    /\ download' = IF download = "fetching" THEN "queued" ELSE download
    /\ UNCHANGED <<sources, base, tmp, lock, stored, failed, dirty, kind, hash,
                   content, row, overlapped, kioskVars>>

\* The API restarts: startup_db_init clears the lock, resumes a download, fails
\* every RUNNING row, whoever works on it, and checks the template.
Restart ==
    /\ Event
    /\ LET resume == base = "none" /\ tmp # "none"
       IN  /\ lock' = resume
           /\ download' = IF resume /\ download = "none" THEN "queued" ELSE download
    /\ UNCHANGED <<sources, base, tmp>>
    /\ CheckTemplate([b \in Builds |-> IF b \in Running(row) THEN "ended" ELSE row[b]])
    /\ UNCHANGED <<hash, content, overlapped, kioskVars>>

BuildStep(b) ==
    \/ BuildBegins(b) \/ BuildFindsBase(b) \/ BuildStages(b) \/ BuildPacks(b)
    \/ BuildStores(b) \/ BuildFlags(b) \/ BuildFails(b)

DownloadStep == DownloadBegins \/ DownloadFails \/ DownloadSucceeds

Next ==
    \/ TemplateCheck \/ GenerateIso \/ Edit
    \/ RequestDownload \/ UploadBase \/ ClearBase \/ DownloadStep
    \/ \E b \in Builds : BuildStep(b) \/ RowAges(b)
    \/ \E k \in Kiosks :
          \/ IssueKiosk(k) \/ UpdateIp(k) \/ RecreateKiosk(k)
          \/ Repack(k)
    \/ WorkerLost \/ Restart

Spec == Init /\ [][Next]_vars

\* Workers take what is queued and finish it, the check comes round, and 45
\* minutes pass.  Nothing obliges an operator, an edit or a loss to happen.
FairSpec ==
    /\ Spec
    /\ WF_vars(TemplateCheck)
    /\ WF_vars(DownloadStep)
    /\ WF_vars(\E b \in Builds : RowAges(b))
    /\ \A b \in Builds : WF_vars(BuildStep(b))

----------------------------------------------------------------------------
(* Properties.                                                             *)

\* The hash on disk never claims more than the template holds: an edit made
\* while a build runs is not recorded as shipped.  Two builds at once may break
\* this, and so may a build that dies over the file.
StoredHashHonest ==
    ~overlapped /\ template \in Versions /\ stored \in Versions =>
        stored <= template

\* The hash on disk is that of the sources, and the template is not: a build has
\* died over it after an earlier one stored that hash, or two builds have mixed
\* image and hash.  The check looks at the hash, so it stays like this.
Deceived == ~IsStale /\ (template = Torn \/ overlapped)

\* Whatever is lost or changed on the way, again and again the template holds
\* its sources, or is known not to build from them, or cannot be built: no base
\* image, or a download in the way.  Only the two accidents above prevent it.
TemplateCatchesUp ==
    []<>(\/ template = sources \/ failed = sources
         \/ tmp # "none"
         \/ template = NoImage /\ base = "none"
         \/ Deceived)

\* The lock of a download is taken down, however the download goes.
LockReleased == lock ~> ~lock
=============================================================================
