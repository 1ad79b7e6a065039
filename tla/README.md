# TLA+ models of the igbo platform

igbo is a pnpm monorepo with two Next.js applications, `apps/community` (members,
events, groups, chat, points) and `apps/portal` (a job portal), over shared packages
for the database (`packages/db`, Drizzle on Postgres), authentication and
configuration.  Redis carries pub/sub between processes, dedup and throttle keys,
counters and caches.  Requests run in several processes at once, background jobs and
internal routes are started by an external scheduler, and every transaction runs at
Postgres' default level, READ COMMITTED.  What is hard in this code is therefore the
order of statements of overlapping requests, and what is left behind when one of
several steps fails.  That is what these modules are about.

## Inventory

| part | state | operations | hard behaviour | model |
|---|---|---|---|---|
| Event RSVPs (`events.ts`, `event-service.ts`) | `community_events`, `community_event_attendees` | RSVP, cancel with promotion, mark attended, cancel event, update event | row locks, unlocked reads, two tables kept in step | `EventRsvp` |
| Viewed signal (`application-view-service.ts`, `outbox-poller.ts`, `portal-outbox.ts`) | `portal_application_views`, `portal_outbox` | record, claim, dispatch, mark, retry, clean up | overlapping pollers, lost acknowledgements, crashes | `PortalOutbox`, `ViewSignal` |
| Notification router (`notification-router.ts`, `email-service.ts`, `push-service.ts`) | `portal_notifications`, Redis dedup keys | dispatch to in-app, push, e-mail | partial failure, keys that expire or fail open | in `PortalOutbox` |
| Job applications (`application-submission-service.ts`, `application-state-machine.ts`) | `portal_applications`, `portal_application_transitions`, Redis idempotency keys | submit, transition | read first, write by id later; replayed submits | `JobApplications`, `ApplicationLadder` |
| Job postings and review (`job-posting-service.ts`, `admin-review-service.ts`) | `portal_job_postings`, `portal_admin_reviews` | edit, submit, approve, reject, request changes, close, renew, expire | unguarded against guarded writes, screening of a copy | `JobPosting`, `ReviewGate` |
| Reports and flags (`posting-report-service.ts`, `portal-admin-flags.ts`) | `portal_posting_reports`, `portal_admin_flags` | report, flag, resolve, dismiss | automatic pause and un-pause beside the employer's | planned |
| Points (`points-engine.ts`, `award-points.lua`) | Redis keys, windows, counters; `platform_points_ledger` | award, read balance | Redis and Postgres out of step, redelivered events | `Points` |
| Groups (`group-service.ts`, `group-membership-service.ts`) | `community_groups`, `community_group_members` | join, request, approve, ban, leave, lead, hand over, archive | a counter kept beside the rows, two-step hand-over | `Groups`, `Membership` |
| Group channels (`group-channel-service.ts`) | `community_group_channels`, conversations and their members | create, delete, enrol, archive | no transaction spans a request | `GroupChannels` |
| Accounts, discipline, deletion (`member-discipline-service.ts`, `gdpr-service.ts`, `admin-approval-service.ts`, `proxy.ts`) | `auth_users`, `member_discipline_actions`, tokens, cached status | verify, decide, suspend, ban, lift, delete, cancel, erase | every UPDATE is by id; jobs and requests overlap | `Accounts` |
| Recordings (`recording-mirror.ts`, `recording-cleanup.ts`, webhook) | event row, S3 object | report, mirror, retry, clean up, preserve | overlapping job runs, object and row out of step | `Recordings` |
| Job runner (`job-runner.ts`) | none | start, time out, retry | a timeout does not stop the handler | in `Accounts`, `Recordings` |
| Match scoring, screening rules | none | pure functions | boundaries | planned (scoring) |
| Files, feed, chat, social graph, search, analytics, conversations | their own tables | see `PROJECT.json` | | not modelled |

The parts meet in a few places.  A posting's status decides whether an application
may be submitted (`JobMoves` in `JobApplications` stands for all of `JobPosting`).  An
application that an employer opens is recorded as a view, whose outbox row the poller
turns into notifications.  A seeker who deletes the account makes the poller consume
the row.  A group's creator who is suspended or deletes the account (`Accounts`) makes
`account.status_changed` hand the group over (`TransferStart` in `Groups`), and a membership
that becomes active in `Groups` is enrolled in channels (`Activate` in `GroupChannels`).  What
`GroupChannels` may assume of a group is a module of its own, `Membership`, and both sides are proved
to implement it.  Each side lets the other's step happen at any time its own state allows, which covers every
order.  Other in-process event-bus emits follow most commits; they touch none of the
tables above, or are lost with their process, and are left out, as are caches of search results.

## Modules

Every module cuts a request into steps where the code awaits something another
request can change: a committed read, a row lock, a Redis command, the commit.  A
worker (or poller) is one request in progress: `pc[w]` is where it stands, `req[w]` what
it has read.  A rollback or a crash (`Fail`, `Crash`) drops the request and keeps what
was committed.  Variables marked "history" decide nothing; the properties need them.

* **EventRsvp**.  `event` and `att` are the two tables for one event.  `RsvpLock` is
  the `SELECT ... FOR UPDATE` with the checks after it, `RsvpSettle` the writes and the
  commit.  `CancelRead` reads the attendee without a lock, `CancelWrite` is its
  UPDATE (whose row lock lasts to the commit), `CancelPick` the decrement (which
  locks the event) with the choice from the waitlist, `CancelSettle` the rest.  Row
  locks are derived from `pc` (`HoldsEvent`, `HoldsAttendee`); a deadlock of the two lock
  orders ends in `Fail`, as in Postgres.
* **PortalOutbox**, with the abstract **ViewSignal**.  A poller is one call of
  `processOutboxBatch`.  Dispatch opens one piece of work per channel; the channels
  run in any order and each may fail.  A failing UPDATE may have taken effect
  (`MarkFails`).  `ViewSignal` says what the seeker is promised: a view is recorded once
  and announced at most once.  `Signal` is the refinement mapping.
* **JobApplications**, with the abstract **ApplicationLadder**.  `TransitionRead` is everything `transition()` does before its
  transaction, `TransitionCommit` the transaction: UPDATE by id and the trail row.
  Submitting is `SubmitCheck`, `AcquireKey` or `Replay`, `Insert` or `InsertRefused`, and
  `SaveKey`.  `ApplicationLadder` says what survives overlapping transitions: each status follows, by
  the table of transitions, one that the application has had.  `Ladder` is the refinement mapping
  (`reached` is read off the trail).
* **JobPosting**, with the abstract **ReviewGate**.  `EmployerRead`, `LimitCheck`, `EmployerWrite` are `transitionStatus`,
  `closePosting` and `renewPosting`; `EditRead` and the three writes after it the edit
  route; `SubmitRead` to `AutoApprove` is `submitForReview` with the fast lane.  A review
  decision is one step, because its UPDATE repeats its guard, except that
  `requestChanges` checks the revision count on an earlier read.  A copy of
  `updatedAt` is kept as the set `current` of workers whose copy is still the row's.  `ReviewGate`
  promises that a posting leaves the queue by a decision and is public only if it was
  cleared once; `Gate` is the refinement mapping (the rows of `portal_admin_reviews` are what is cleared).

* **Groups**.  `row` and `group` are the two tables for one group.  `...Check` is what a handler
  reads before it writes.  `StatusRead` is the SELECT inside `updateGroupMemberStatus` and
  `removeGroupMember`, which takes no lock, and `WriteStatus` the UPDATE or DELETE, the counter and
  the commit.  `TransferFind`, `Promote` and `Demote` are `transferGroupOwnership`: three
  statements that commit one by one.
* **GroupChannels**.  `chan` says what exists of each channel, `enrolled` who is in its
  conversation.  Of a membership only that it is active is kept.  `Activate`, `EnrolList`, `EnrolAdd`
  are joining; `CreateRow` to `CreateAdd` creating a channel; `ArchiveMark` to `ArchiveFreeze`
  archiving.
* **Membership** is the interface of the two: who is active, and whether the group is archived.
  `Members` is the refinement mapping in each.  `ActivatedByEnrollers` in `Groups` adds that whoever
  becomes active does so in a request that enrols that user next, which `Activate` of `GroupChannels` takes for granted.
* **Points**.  Redis runs the Lua script alone, so `Refuse` and `Award` are one step each;
  `InsertLedger` follows in the handler, and `BalanceMiss`, `BalanceSum`, `BalanceSet` are the read of
  a balance that Redis does not have.  A balance is the set of awards it adds up, so that a lost award and a
  doubled one do not cancel out.
* **Accounts**.  `user` is the account's row, `susp` its suspensions, `cache` what the proxy
  keeps.  `Write` is an UPDATE by id and remembers in `raced` that the row was no longer the one
  read.  `JobList` to `JobDone` are `liftExpiredSuspensions`, `EraseList` to `Scrub` the retention job,
  `FillMiss` to `FillSet` the stale-JWT guard.
* **Recordings**.  `recording` holds the recording columns of an event, `object` says whether the object is in
  storage.  `Delivered`, `Report` are the webhook; `MirrorList` to `MirrorFail` a mirror run, `CleanupList`,
  `Delete`, `Forget` a cleanup run.  A run stands at `at[r]` and keeps the row it read in `seen`.  The names differ from
  those of `EventRsvp`, which is about other columns of the same row.

Each of the detailed models has a module of proofs, named `...Proofs`, except that `EventProofs` serves both
`EventRsvp` and `Recordings` and extends the two.  The `MC...` modules
add what TLC needs beside a model: the symmetry of its model values and, for two, a constraint.
The `.cfg` files give the constants their values.

Operators named `Buggy...` are wrong variants of the definition they precede.  No
action uses them: put in its place, each makes a property fail.

## What the runs check

| run | bounds | shows |
|---|---|---|
| `event_rsvp` | 3 members, 2 requests, limit 1 or none, 4 RSVPs | seats, waitlist order and promotions under every interleaving |
| `event_rsvp_seats` | the same | counterexample: two overlapping cancellations of one RSVP release two seats, the second one another member's |
| `outbox` | 2 views, 2 pollers, batches of 2, 2 tries, one keyed sender | exclusive claims, bounded repeats, nothing lost silently but what the router swallows; implements `ViewSignal` |
| `outbox_live` | 2 views, 2 pollers, batches of 1, in-app only | pending rows settle |
| `applications` | 1 seeker, 2 requests, 1 key, trail of 6 | the trail explains the status; stages in order |
| `postings` | 1 posting, 2 requests, 2 contents (1 passes), limit 1, 1 revision | implements `ReviewGate`; single decisions, closing, fast lane |
| `groups` | 3 users, 2 requests, limit 2 | the member count and the single active creator go wrong only where requests overlapped |
| `group_channels` | 2 users, 2 requests, 2 channels | nobody active misses a channel; archiving misses no conversation |
| `points` | 2 actors and 3 activities for one earner, 2 workers, 3 awards, cap 2, thresholds 2 and 1 | one credit per activity; what can part a balance from the ledger |
| `accounts` | 1 account, 2 workers, 2 suspensions, every request but visits | a suspension can be lifted; bans and erasures hold but for stale writes and the named ways round |
| `accounts_guard` | 1 account, 2 workers, 1 suspension, visits | the proxy's cache follows discipline; what is over gets lifted |
| `recordings` | 1 recording, 2 runs, 3 tries | what is preserved or entered is there; mirroring ends |

The bounds are small where more of the same adds nothing.  Two requests suffice for
every race found here, since each needs one request inside another; the third
member of `event_rsvp` gives the waitlist an order, the third user of `groups` gives a
hand-over two heirs to choose from.  Applications of different seekers
share nothing but the posting, so one seeker is enough, and a trail of 6 holds the whole
ladder from submitted to hired.  With one posting and a limit of 1 the limit still
refuses, to the second of two overlapping un-pauses.  Two postings with one content
were checked as well (2.6 million states) and add no behaviour.  A retry limit of 2
has a first, a last and a refused try.  In `points` a cap of 2 with awards of 1 and 2 is reached exactly and
overshot, and three awards pass one window's threshold and not the other's.

Two runs cut the state space with a CONSTRAINT.  `groups` does not look past states in which both histories,
`drift` and `contested`, are set, where no invariant says anything but types (for `ActivatedByEnrollers` and `ImplementsMembership` there are the proofs).  `accounts` looks at a second
suspension, and at a verification link that is still unused, only while no deletion is under way; without that constraint the run has 15.4 million states,
takes five minutes and finds no error either.  `accounts_guard` was run once with two suspensions (772
thousand states, four minutes), and once with bans (544 thousand, three minutes), with the same result; the run itself leaves bans
out, and for those `CacheFollowsDiscipline` rests on the theorem `CacheFollows`.

`MaxTime`, `MaxTrail`, `MaxAwards` and `MaxSuspensions` are the only bounds that
are not in the code.  The first three stop new requests and never disable one that runs; a suspension
past `MaxSuspensions` waits and can only `Stop`, like a request whose transaction fails.
TLC stops in states where nothing is left to do, so deadlock checking is off where such states exist; a
request that could not go on would still be able to `Fail` or `Stop`.

**Fairness.**  Three runs assume any.  `outbox_live`: weak fairness of each poller's steps,
without crashes.  The scheduler calls the outbox route again and again and
`startOutboxPoller` re-arms its timer whatever a batch did, so an idle poller with
pending rows claims; a batch is a loop that awaits calls which return or throw.  A
poller that crashes leaves orphans, and `PendingRowsSettle` excepts exactly those.

`accounts_guard`: what has started goes on or is stopped (weak fairness of `Busy`).  Cron
starts the lift job every so often for as long as the platform runs (`JobList`), and not every run of
it is stopped before it has done anything (`JobCheck`, `JobLift`).  These three are strong,
because the bound on workers can leave the job no room for a while, and because a run may be stopped any
finite number of times.  Nothing is assumed of requests, nor that `JobExpire`, which comes
after the account's restoration, is ever reached: a run that stops there leaves the
suspension active on an account that is not suspended, and `Overdue` does not count it.

`recordings`: likewise for the mirror job, whose runs are started by cron and by the webhook and may
be stopped, but not for ever at the same point; and six hours pass.  Beside it, `Expires` assumes that
the ninety days of a recording outlast every webhook call, mirror run and series of retries.

**Disagreements.**  `event_rsvp_seats` states what a comment of the repository says, and TLC
refutes it; `PROJECT.json` quotes the line.  A second cancellation of the same RSVP finds nothing of
its own left to release: the seat it takes off the count is whoever else's is counted then.  (If the same member has
RSVPed anew meanwhile, it cancels that RSVP and the count stays right.)  The other statements of the repository that the
models refute are kept as definitions beside the weaker property that is true and is
checked.  Named as an INVARIANT (or PROPERTY) in the module's `.cfg`, each gives
its counterexample.

| definition | the repository says | what happens |
|---|---|---|
| `JobApplications!TerminalIsFinal` | `docs/decisions/state-interaction-matrix.md:109`: "no event of any kind may touch this row's `status`" | two transitions read one status, and the second overwrites the terminal one (`application-state-machine.ts:213`) |
| `JobApplications!ReapplyAfterWithdrawal` | migration `0063`, line 14: "Re-apply after withdrawal IS allowed" | the older full unique index still refuses (`application-submission-service.ts:178`) |
| `PortalOutbox!ProcessedMeansDelivered` | story P-6.5, line 23: a failed delivery "remains `pending` and is retried" | the router swallows a channel's failure (`notification-router.ts:372`) |
| `JobPosting!AutoApprovedPasses` | story P-3.2, AC-7: the fast lane needs screening to pass | an edit in between changes the content, not the verdict (`job-posting-service.ts:346`) |
| `JobPosting!ClosedIsFinal` | `docs/decisions/state-interaction-matrix.md:44`: "once a job is `filled`, it is hard-terminal" | a pause that read "active" before the closing is written after it (`job-posting-service.ts:135`) |
| `Groups!CountMatches` | `groups.ts:290`: "read inside the transaction to avoid TOCTOU races" | the read takes no lock; two removals count twice |
| `Groups!BanEndsInPending` | `group-membership-service.ts:473`: "Restores to pending status" | unbanning deletes the row, and so does the banned member's own leave; an open group is joined at once |
| `Points!EarnedWithinCap` | `packages/config/src/points.ts:19`: "total points earnable per UTC day" | the cap is compared before the award is added (`award-points.lua:86`) |
| `Accounts!BanIsPermanent` | `messages/en.json:560`: "this is permanent and cannot be undone" | a banned account can be suspended, and is APPROVED when that ends (`member-discipline-service.ts:86`); an old verification link takes it to PENDING_APPROVAL |

The properties named `...UnlessRaced`, `...UnlessContested` or `...UnlessSlipped` (and `TrailIsChain`, `BalanceIsLedger`,
`EndsHold` and `CacheFollowsDiscipline` by their history variables) except the race their hazard is about.  They do not
say that the code withstands it, but that nothing else breaks the rule; where the repository states the rule without
the exception, the table above shows that the race breaks it.

## What is proved

Each `...Proofs` module extends the model it is about and proves its properties with
TLAPS for every value of the constants: any number of members, views, applications,
postings, users, channels, activities, requests, jobs and pollers, and any limits.  The only assumptions are those on
the constants (`RsvpConstants`, `OutboxConstants`, `ApplicationConstants`,
`PostingConstants`, `GroupConstants`, `ChannelConstants`, `PointsConstants`, `AccountConstants`, `RecordingConstants`): the marker values lie outside the sets they mark the absence from, limits
are naturals (the tries of a mirroring at least one), and sets that are counted are finite.  TLC evaluates
them on every run.  None of the safety properties is inductive by itself; the table names what each one needs.  A dagger marks a
property that is in no run: it was checked with TLC before it was proved, and can be again, by naming
it as an INVARIANT (or PROPERTY) in the `.cfg` of its model.

| module | theorem | property | inductive invariant |
|---|---|---|---|
| `EventProofs` | `TypeCorrect` | `TypeOK` | itself |
| | `EventLockHeld` | | `EventLock`: one holder of the event row, and an RSVP that holds it has read what is still so |
| | `CountBelowLimit`, `WaitlistOnlyFull` | `CountRisesOnlyBelowLimit` †, `WaitlistedOnlyWhenFull` † | `EventLock` |
| | `PromotionSpentOnce`, `PromotionFifo` | `PromotionNotWasted`, `PromotionIsFifo` | `EventLock` and `PickInv`: the chosen member is not registered, and first in line while waitlisted |
| | `SeatsBacked` | `SeatsBackedByCount` | `SeatInv`: the count covers the registered and whoever still has to give a seat back |
| | `NoRsvpOverbooks` | `SeatsWithinLimit` | none of its own: `SeatsBacked` after a step that `CountBelowLimit` allows |
| | `RecordingTypeCorrect` | `RecordingTypeOK` | itself |
| | `RecordingKept` | `KeptUnlessSlipped` | `RecordingInv`: what a run has read fits where it stands; mirroring is over before anything expires and cleanup starts after; unless a row was written over, an entered mirror is not mirrored again |
| | `RemovedLate` | `RemovedOnlyWhenExpired` † | `RecordingInv`: a mirror run that fails beside one that succeeded has read another row |
| `PortalOutboxProofs` | `TypeCorrect` | `TypeOK` | `PollersOK`, `RowsOK`, `EffectsOK` |
| | `RowsClaimedOnce` | `ClaimExclusive` | `HandInv`: what is in a poller's hand is marked `processing`, unless its retry UPDATE is due, and has a retry left |
| | `RepeatsNeedLapses` | `RepeatsExcused` | `RepeatInv`: the first send is paid for by its key |
| | `ProcessedAccounted` | `NothingElseLost` | `LostInv`: a dispatch past its in-app insert has delivered or has an excuse |
| | `SendsPaid` | `SendsBounded` | `SendInv`: `retry_count` counts the dispatches before this one |
| | `Refinement` | `ImplementsViewSignal` | `SignalInv`: only the poller whose INSERT made the notification announces it, and has not yet |
| | `StrandedRows` | `LeftBehindForGood` † | `HandInv`: a row nobody holds and that is not pending comes into nobody's hand |
| `JobApplicationsProofs` | `TypeCorrect` | `TypeOK` | and `RequestsOK`: an updating request has read a real status |
| | `StatusExplained` | `TrailEndsAtStatus` | itself, with the types |
| | `StagesInOrder` | `NoStageSkipped` | `StageInv`: the status a request has read is in the trail |
| | `Chained`, `TerminalKept` | `TrailIsChain`, `TerminalFinalUnlessRaced` | `ChainInv`: without an overlap, the one updating request holds the current status |
| | `HiredClimbedLadder` | `HiredClimbed` † | `StartsSubmitted`, with `StageInv`: going back through the trail from "hired" finds every rung |
| | `LadderRefinement` | `ImplementsLadder` † | `StageInv`: the status an update moves on from is one the application has had |
| `JobPostingProofs` | `TypeCorrect` | `TypeOK` | and `RequestsOK`, `TablesOK` |
| | `ApprovedBeforeLive` | `LiveWasApproved` † | `ApprovalInv`: a request that may write a live status works on an approved posting |
| | `OneDecision` | `DecidedOnce` | `DecisionInv`: a posting in the queue has no decision |
| | `RevisionsBounded` | `RevisionsNearLimit` | `RevisionInv`: the rounds written and the rounds on their way stay below limit plus workers |
| | `FilledIsFinal`, `FastLaneScreened` | `FilledFinalUnlessRaced`, `AutoApprovedPassesUnlessRaced` | `AloneInv`: on a posting without an overlap there is one request, and what it read is still true |
| | `GateRefinement` | `ImplementsReviewGate` | `ApprovalInv` and `WriteFits`: what a request is about to write follows what it read |
| `GroupsProofs` | `TypeCorrect` | `TypeOK` | with `AllFit` (what a request has read by the time it stands at a label) and `RowsBlank` |
| | `CountKept` | `CountMatchesUnlessRaced` | itself, with the types and the finiteness of `Users` |
| | `OneOwner` | `OneOwnerUnlessContested` | `TransferInv`: uncontested, there is one hand-over, and the creators are whom it says; `CreatorsActive`: every creator is active |
| | `ActivatedOnlyByEnrollers` | `ActivatedByEnrollers` † | none of its own: what a request has read (`AllFit`), by `MembershipStep` |
| | `MembershipRefinement` | `ImplementsMembership` † | likewise: every step adds one user, removes one, archives, or leaves both alone |
| `GroupChannelsProofs` | `TypeCorrect` | `TypeOK` | and `EnrolsSomebody` |
| | `EnrolmentNeverMissed` | `EnrolmentComplete` | itself: whichever of join and creation lists last sees what the other wrote |
| | `ArchivingFreezes` | `ArchiveFreezesAll` | `ArchiveInv`: each live conversation of an archived group is new, or an archiving will freeze it |
| | `MembershipRefinement` | `ImplementsMembership` † | none but the types |
| `PointsProofs` | `TypeCorrect` | `TypeOK` | and `ReqInv`: a handler holds an award, a balance read a user |
| | `CreditedOnce` | `AwardedOnce` | `OnceInv`: the key of everything awarded is set, or was opened again |
| | `BalanceExplained` | `BalanceIsLedger` | `BalanceInv`: a balance, and a sum about to become one, is what was made for the user |
| | `CapNearlyKept` | `OvershootBounded` † | itself |
| | `BalancesEarned` | `PointsAreEarned` † | `EarnedInv`: a sum about to become a balance adds up entries of the ledger |
| `AccountsProofs` | `TypeCorrect` | `TypeInv` | itself |
| | `EndsHeld` | `EndsHold` | itself, with what a worker has read (`ReadFits`) |
| | `SuspensionsRecorded` | `SuspensionIsRecorded` | `RecordInv`: of a suspended account the suspension issued last is active, and no job is about to expire it |
| | `CacheFollows` | `CacheFollowsDiscipline` | itself: steps are either calm (they touch neither side) or named |
| | `AdmittedOnlyByAdmin` | `AdmittedByAdmin` † | `MemberInv`: a request about to discipline, restore, delete or erase was let through for a member |

Every proof has the same shape: `NextCases` lists the actions, a frame lemma deals with
the steps that leave the invariant's variables alone, `...Init` and `...Step` show the
invariant inductive, and the theorem at the end of a section draws the property from
it with one temporal step.  The races show in the hypotheses.  `SeatInv`, `ChainInv` and
`AloneInv` speak only of rows that no overlapping requests have touched, and TLC refutes each
of the properties without that condition (see *Disagreements*); `TransferInv` and `EndsHold` likewise.  `ApprovalInv`,
`DecisionInv`, `HandInv`, `StageInv`, `RecordInv`, `ArchiveInv` and `OnceInv` have no such condition: these parts of the code
are right under every interleaving.

**Only model-checked.**  The liveness properties `PendingRowsSettle`, `ExpiredIsLifted` and
`MirrorSettles`, which rest on fairness and `ENABLED`, outside the prover's reach; and the counterexamples.  Every invariant and action property of
a passing run, and the refinements of `ViewSignal` and `ReviewGate`, is proved; so are those of `ApplicationLadder` and `Membership`.  No
model has a recursive definition, so nothing rests on an induction over data.

## What is not modelled, and why

`PROJECT.json` lists every component with its status.  In the modelled ones, these are
left out: notification texts, templates and throttle windows (the viewed event has
none); event-bus emits after a commit (in process, lost on a crash by design, they change no
modelled table); caches of searches; wall-clock time, for which `Expire`, `StartTimePasses` and
`KeyExpires` may happen at any moment.  In `JobPosting` the two reads of the employer's status
route are one step (both come before any write, and the second repeats the first), the
trust badge and the violations that gate the fast lane are free choices, and screening is only its verdict.
In `Groups`, muting (one column that chat reads), the
per-user limit and directory searches are left out; in `Points` the leaderboard and the audit rows of refused
awards; in `Recordings` the storage quota and expiry warnings; in `Accounts` warnings, sessions and
two-factor, whose state is in Auth.js, and data exports.  Feed, chat, search, the social graph and
saved searches are mostly single-statement writes or reads whose result depends on one query.  User
interface components and API routes that only validate and delegate have no state of
their own; they are most of the repository's lines.

## Plan

Done: `EventRsvp`, `PortalOutbox` with `ViewSignal`, `JobApplications` with `ApplicationLadder`,
`JobPosting` with `ReviewGate`, `Groups`, `GroupChannels` and `Membership` between them, `Points`, `Accounts` and `Recordings`, each with
its proofs.  What is left, in this
order:

1. `PostingModeration`, over `JobPosting`: reports that pause a posting
   (`posting-report-service.ts`), flags with their unique open index
   (`admin-review-service.ts:578-887`), and the content an approval saw.  Properties: what
   is live is what was approved, except for the edits the code lets through; one open
   flag for a posting; the employer's own pause survives a dismissal of reports
   (the comment at `posting-report-service.ts:186` against the code at 198).
2. `MatchScore`: the weighted score as an operator, checked against its bounds and its
   monotonicity over small inputs.
3. File uploads: the status machine with the virus scan.

Bounds stay as here: two requests, one or two rows, limits of one or two.
