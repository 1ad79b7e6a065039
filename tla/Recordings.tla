------------------------------ MODULE Recordings ------------------------------
(***************************************************************************)
(* The recording of one event: the provider's webhook that reports it, the *)
(* job that mirrors it to object storage and retries, the job that deletes *)
(* it when it has expired, and the members' wish to preserve it.  Jobs are *)
(* started by cron and by the webhook: runs of one job overlap.            *)
(*                                                                         *)
(* A run is one webhook call, job run or request, cut at its awaits.  Every*)
(* UPDATE is by the event's id alone.  The storage quota, the expiry       *)
(* warnings and the addresses of playback and download are left out.       *)
(*                                                                         *)
(* This is another part of the row that EventRsvp is about, and no request *)
(* touches both.  Names that EventRsvp has too are told apart, so that one *)
(* module can extend the two.                                              *)
(***************************************************************************)
EXTENDS Naturals

CONSTANTS
  Runs,       \* webhook calls, job runs and requests in progress at one time
  MaxRetry    \* MAX_RETRY_COUNT

ASSUME RecordingConstants == MaxRetry \in Nat \ {0}

VARIABLES
  recording,  \* the recording columns of the event's row
  object,     \* the object is in storage
  reporting,  \* the provider may still report the recording
  at,         \* where each run stands
  seen,       \* the row each run has read, as a set of one or none
  kept,       \* history: preserveRecording has answered
  slipped     \* history: a row was written over that was not the one read, or
              \* a cleanup stopped between the object and the row

recordingVars == <<recording, object, reporting, at, seen, kept, slipped>>

(* expires: recordingExpiresAt is null, to come or past.  waiting: the next*)
(* retry is still to come.                                                 *)
Recording == [status : {"pending", "mirroring", "ready", "lost"}, url : BOOLEAN, mirror : BOOLEAN,
              expires : {"none", "later", "past"}, retries : 0 .. MaxRetry - 1, waiting : BOOLEAN]

RunLabels == {"idle", "report", "mirror", "record", "delete", "forget", "preserve"}
Mirroring(r) == at[r] \in {"mirror", "record"}

StartRun(r, label) == at[r] = "idle" /\ at' = [at EXCEPT ![r] = label]
                        /\ seen' = [seen EXCEPT ![r] = {recording}]
Proceed(r, label) == at' = [at EXCEPT ![r] = label] /\ UNCHANGED seen
EndRun(r) == at' = [at EXCEPT ![r] = "idle"] /\ seen' = [seen EXCEPT ![r] = {}]
Stale(r) == recording \notin seen[r]

(* Operators named Buggy... are wrong variants of the definition they precede. *)
(* No action uses them: they show which mistakes the properties catch.         *)

-------------------------------------------------------------------------------
RecordingInit ==
  /\ recording = [status |-> "pending", url |-> FALSE, mirror |-> FALSE,
                  expires |-> "none", retries |-> 0, waiting |-> FALSE]
  /\ object = FALSE
  /\ reporting = TRUE
  /\ at = [r \in Runs |-> "idle"]
  /\ seen = [r \in Runs |-> {}]
  /\ kept = FALSE
  /\ slipped = FALSE

(* The webhook finds no recording_url. *)
Delivered(r) ==
  /\ reporting
  /\ ~recording.url
  /\ StartRun(r, "report")
  /\ UNCHANGED <<recording, object, reporting, kept, slipped>>

(* setRecordingSourceUrl. *)
Report(r) ==
  /\ at[r] = "report"
  /\ recording' = [recording EXCEPT !.url = TRUE, !.status = "mirroring"]
  /\ slipped' = (slipped \/ Stale(r))
  /\ EndRun(r)
  /\ UNCHANGED <<object, reporting, kept>>

BuggyRetryIsDue == recording.status = "mirroring" /\ recording.waiting

(* listPendingMirrorRetries. *)
RetryIsDue == recording.status = "mirroring" /\ ~recording.waiting

(* The mirror job reads the rows that are due and passes over one that has *)
(* no recording_url.                                                       *)
MirrorList(r) ==
  /\ RetryIsDue
  /\ recording.url
  /\ StartRun(r, "mirror")
  /\ UNCHANGED <<recording, object, reporting, kept, slipped>>

(* It has downloaded and uploaded the recording ...                        *)
MirrorPut(r) ==
  /\ at[r] = "mirror"
  /\ object' = TRUE
  /\ Proceed(r, "record")
  /\ UNCHANGED <<recording, reporting, kept, slipped>>

(* ... and enters the mirror: setRecordingMirror.                          *)
MirrorRecord(r) ==
  /\ at[r] = "record"
  /\ recording' = [recording EXCEPT !.status = "ready", !.mirror = TRUE, !.expires = "later",
                            !.retries = 0, !.waiting = FALSE]
  /\ slipped' = (slipped \/ Stale(r))
  /\ EndRun(r)
  /\ UNCHANGED <<object, reporting, kept>>

BuggyMirrorFailOffByOne(r) ==
  /\ Mirroring(r)
  /\ \E row \in seen[r] :
       recording' = IF row.retries + 1 > MaxRetry
                THEN [recording EXCEPT !.status = "lost", !.url = FALSE, !.mirror = FALSE]
                ELSE [recording EXCEPT !.retries = row.retries + 1, !.waiting = TRUE]
  /\ slipped' = (slipped \/ Stale(r))
  /\ EndRun(r)
  /\ UNCHANGED <<object, reporting, kept>>

(* The catch of a download, an upload or an UPDATE that failed, with the   *)
(* count the run has read: markRecordingLost or updateMirrorRetrySchedule. *)
MirrorFail(r) ==
  /\ Mirroring(r)
  /\ \E row \in seen[r] :
       recording' = IF row.retries + 1 >= MaxRetry
                THEN [recording EXCEPT !.status = "lost", !.url = FALSE, !.mirror = FALSE]
                ELSE [recording EXCEPT !.retries = row.retries + 1, !.waiting = TRUE]
  /\ slipped' = (slipped \/ Stale(r))
  /\ EndRun(r)
  /\ UNCHANGED <<object, reporting, kept>>

-------------------------------------------------------------------------------
BuggyExpired == recording.mirror

(* listExpiredRecordings: a recording that is preserved never expires. *)
Expired == recording.mirror /\ recording.expires = "past"

(* The cleanup job: the list, the object, the row. *)
CleanupList(r) ==
  /\ Expired
  /\ StartRun(r, "delete")
  /\ UNCHANGED <<recording, object, reporting, kept, slipped>>

Delete(r) ==
  /\ at[r] = "delete"
  /\ object' = FALSE
  /\ slipped' = (slipped \/ Stale(r))
  /\ Proceed(r, "forget")
  /\ UNCHANGED <<recording, reporting, kept>>

Forget(r) ==
  /\ at[r] = "forget"
  /\ recording' = [recording EXCEPT !.url = FALSE, !.mirror = FALSE]
  /\ slipped' = (slipped \/ Stale(r))
  /\ EndRun(r)
  /\ UNCHANGED <<object, reporting, kept>>

(* preserveRecording: the row and its quota, then expires_at = NULL. *)
PreserveCheck(r) ==
  /\ recording.mirror
  /\ StartRun(r, "preserve")
  /\ UNCHANGED <<recording, object, reporting, kept, slipped>>

Preserve(r) ==
  /\ at[r] = "preserve"
  /\ recording' = [recording EXCEPT !.expires = "none"]
  /\ kept' = TRUE
  /\ slipped' = (slipped \/ Stale(r))
  /\ EndRun(r)
  /\ UNCHANGED <<object, reporting>>

-------------------------------------------------------------------------------
(* Six hours pass; ninety days pass, which no webhook call, no run of the  *)
(* mirror job and no series of its retries takes, and after which the      *)
(* provider no longer reports the recording.                               *)
RetryComes ==
  /\ recording.waiting
  /\ recording' = [recording EXCEPT !.waiting = FALSE]
  /\ UNCHANGED <<object, reporting, at, seen, kept, slipped>>

Expires ==
  /\ recording.expires = "later"
  /\ recording.status # "mirroring"
  /\ \A r \in Runs : at[r] # "report" /\ ~Mirroring(r)
  /\ recording' = [recording EXCEPT !.expires = "past"]
  /\ reporting' = FALSE
  /\ UNCHANGED <<object, at, seen, kept, slipped>>

(* The process stops, or a statement outside a try fails.                  *)
Stop(r) ==
  /\ at[r] # "idle"
  /\ slipped' = (slipped \/ at[r] = "forget")
  /\ EndRun(r)
  /\ UNCHANGED <<recording, object, reporting, kept>>

(* What a run that has started may do. *)
Go(r) ==
  \/ Report(r) \/ MirrorPut(r) \/ MirrorRecord(r) \/ MirrorFail(r)
  \/ Delete(r) \/ Forget(r) \/ Preserve(r) \/ Stop(r)

RecordingNext ==
  \/ \E r \in Runs :
       Delivered(r) \/ MirrorList(r) \/ CleanupList(r) \/ PreserveCheck(r) \/ Go(r)
  \/ RetryComes \/ Expires

RecordingSpec == RecordingInit /\ [][RecordingNext]_recordingVars

(* Cron keeps starting the mirror job, and not every run is stopped before *)
(* it has mirrored the recording or entered that it could not.             *)
FairRecordingSpec ==
  /\ RecordingSpec
  /\ WF_recordingVars(RetryComes)
  /\ \A r \in Runs :
       /\ WF_recordingVars(Go(r))
       /\ SF_recordingVars(MirrorList(r))
       /\ SF_recordingVars(MirrorPut(r) \/ MirrorFail(r))
       /\ SF_recordingVars(MirrorRecord(r) \/ MirrorFail(r))

-------------------------------------------------------------------------------
(* Every variable holds a value of its kind, and a recording is given up   *)
(* before its failures reach the limit.                                    *)
RecordingTypeOK ==
  /\ recording \in Recording
  /\ object \in BOOLEAN /\ reporting \in BOOLEAN /\ kept \in BOOLEAN /\ slipped \in BOOLEAN
  /\ at \in [Runs -> RunLabels]
  /\ seen \in [Runs -> SUBSET Recording]

(* A mirror that is entered can be played, and a recording that was        *)
(* preserved is still there and has no date of expiry, unless a cleanup is *)
(* half done or a run or request wrote over a row that had changed since   *)
(* it was read.                                                            *)
KeptUnlessSlipped ==
  ~slipped =>
    /\ recording.mirror => object \/ \E r \in Runs : at[r] = "forget"
    /\ kept => recording.mirror /\ recording.expires = "none"

(* Nothing that can be played is taken away before its ninety days are     *)
(* over: neither the object is deleted nor the mirror dropped from the row,*)
(* also by a mirror run that fails beside one that succeeded, unless a row *)
(* was written over that had changed since it was read.                    *)
RemovedOnlyWhenExpired ==
  [][(object /\ ~object') \/ (recording.mirror /\ ~recording'.mirror)
       => slipped' \/ recording.expires = "past"]_recordingVars

(* A recording that was reported is mirrored in the end, or given up.      *)
MirrorSettles == recording.status = "mirroring" ~> recording.status \in {"ready", "lost"}
===============================================================================
