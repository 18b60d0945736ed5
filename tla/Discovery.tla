------------------------------ MODULE Discovery ------------------------------
(***************************************************************************)
(* One source of public postings (packages/persistence/src/discovery-      *)
(* repository.ts and discovery-scan-repository.ts) and the polls that read *)
(* it in bounded slices (packages/discovery/src/resumable.ts, runner.ts,   *)
(* connectors.ts).  Its feed changes while it is read.  What postings      *)
(* become, canonical jobs and their identities, is module Identities;      *)
(* fixtures, which are read at once, are not modelled.                     *)
(***************************************************************************)
EXTENDS Integers, Sequences, FiniteSets

CONSTANTS
  Pollers,               \* workers, one of which may outlive its lease
  Postings, Poor,        \* Poor: those with a description too short
  Feeds,                 \* what the source may list, in order
  PageSize,              \* postings of a page of a paged connector
  SliceReads,            \* maxReads
  SourceLease, ScanTerm, VerifyTerm, ManualGap,
  PollInterval, BackoffLimit, RetryAfter, ClosesAfter,
  DropMinimum,           \* counts from which a fall by half is sharp
  MaxMinute, MaxRevision \* bounds

ASSUME DiscoveryAssumption ==
  /\ IsFiniteSet(Postings) /\ "none" \notin Pollers
  /\ Poor \subseteq Postings /\ Feeds \subseteq Seq(Postings) /\ Feeds # {}
  /\ {PageSize, SliceReads, SourceLease, ScanTerm, BackoffLimit, MaxRevision} \subseteq Nat \ {0}
  /\ {VerifyTerm, ManualGap, PollInterval, RetryAfter, ClosesAfter, DropMinimum,
      MaxMinute} \subseteq Nat

VARIABLES
  minute,    \* the clock
  feed,      \* what the source lists now
  connector, \* "paged", as Lever's, or "tagged", as Greenhouse's one page
  source,    \* its row of sources
  scan,      \* its row of discovery_scans, with its discovery_scan_reads
  listings,  \* discovery_listings, by posting
  poll,      \* what each poller is doing, in memory
  halted     \* stopped, discoveryPaused or restoreBlocked

discoveryVars == <<minute, feed, connector, source, scan, listings, poll, halted>>

NoScan == [present |-> FALSE, revision |-> 0, expires |-> 0, reads |-> << >>]
NoPoll == [pc |-> "idle", revision |-> 0, reads |-> << >>, at |-> 1, actual |-> 0,
           cached |-> {}, health |-> "none"]
Listing(state, since, missed) == [state |-> state, since |-> since, missed |-> missed]

\* Of what a source's state says, only refusals to be read matter here.
Barred(health) == IF health \in {"rate_limited", "forbidden"} THEN health ELSE "served"

\* The token of the lease is the poller that has it.
HeldBy(p) == source.holder = p /\ minute < source.until /\ ~halted
Idled(s) == [s EXCEPT !.holder = "none", !.until = 0]

Goes(p, pc) == poll' = [poll EXCEPT ![p].pc = pc]
Quits(p) == poll' = [poll EXCEPT ![p] = NoPoll]

-----------------------------------------------------------------------------
(* The feed                                                                 *)

\* The page at a position of the feed, and whether one follows it.
Page(n) ==
  IF connector = "tagged" THEN feed
  ELSE SubSeq(feed, (n - 1) * PageSize + 1, IF n * PageSize < Len(feed) THEN n * PageSize ELSE Len(feed))
Ends(page) == connector = "tagged" \/ Len(page) < PageSize
Elements(s) == {s[i] : i \in DOMAIN s}

FeedChanges ==
  /\ \E f \in Feeds \ {feed} : feed' = f
  /\ UNCHANGED <<minute, connector, source, scan, listings, poll, halted>>

-----------------------------------------------------------------------------
(* The owner                                                                *)

Halt ==
  /\ halted' = ~halted
  /\ UNCHANGED <<minute, feed, connector, source, scan, listings, poll>>

\* saveSource: a configuration of the next revision takes the lease away.
SaveSource ==
  /\ source.revision < MaxRevision
  /\ source' = [Idled(source) EXCEPT !.revision = @ + 1]
  /\ UNCHANGED <<minute, feed, connector, scan, listings, poll, halted>>

\* schedule: due at once; acknowledged, the count that fell is the new one.
Schedule ==
  /\ source.revision < MaxRevision
  /\ ~(source.health = "rate_limited" /\ source.due > minute)
  /\ source.attempt >= 0 => minute - source.attempt >= ManualGap
  /\ \E acknowledged \in BOOLEAN :
       source' = [Idled(source) EXCEPT
         !.due = minute, !.health = "served", !.etag = << >>, !.revision = @ + 1,
         !.count = IF acknowledged THEN source.pending ELSE @,
         !.reviewed = @ \/ (acknowledged /\ source.pending = 0)]
  /\ UNCHANGED <<minute, feed, connector, scan, listings, poll, halted>>

-----------------------------------------------------------------------------
(* A poll                                                                   *)

ClaimSource(p) ==
  /\ poll[p].pc = "idle" /\ ~halted
  /\ source.due <= minute /\ source.until <= minute /\ source.health # "forbidden"
  /\ source' = [source EXCEPT !.holder = p, !.until = minute + SourceLease, !.attempt = minute]
  /\ poll' = [poll EXCEPT ![p] = [NoPoll EXCEPT !.pc = "claimed", !.revision = source.revision]]
  /\ UNCHANGED <<minute, feed, connector, scan, listings, halted>>

\* What loadScan resumes: the unexpired scan of this revision.
Resumable(p) ==
  scan.present /\ minute < scan.expires /\ scan.revision = poll[p].revision

LoadScan(p) ==
  /\ poll[p].pc = "claimed" /\ HeldBy(p)
  /\ scan' = IF Resumable(p) THEN scan
             ELSE [NoScan EXCEPT !.present = TRUE, !.revision = poll[p].revision,
                                 !.expires = minute + ScanTerm]
  /\ poll' = [poll EXCEPT ![p].pc = "reading", ![p].reads = scan'.reads]
  /\ UNCHANGED <<minute, feed, connector, source, listings, halted>>

\* Where the poll stands: the page it reads, and pages already taken.
Turning(p) == poll[p].at
Cached(p) == Turning(p) <= Len(poll[p].reads)
Taken(p, n) == UNION {Elements(poll[p].reads[i].page) : i \in 1 .. n}

\* A page was taken: one that ends the feed ends the reading; a posting met
\* twice is a feed that shifted.
Turned(p, reads, cached) ==
  LET page == reads[poll[p].at].page
      now == [poll[p] EXCEPT !.reads = reads, !.cached = cached]
  IN poll' = [poll EXCEPT ![p] =
       IF Elements(page) \cap Taken(p, poll[p].at - 1) # {}
       THEN [now EXCEPT !.pc = "failing", !.health = "parser_failed"]
       ELSE IF Ends(page) THEN [now EXCEPT !.pc = "checking"]
       ELSE [now EXCEPT !.pc = "reading", !.at = @ + 1]]

\* A page of an earlier slice stands in for a read, but for the first.
UseCached(p) ==
  /\ poll[p].pc = "reading" /\ HeldBy(p) /\ Cached(p) /\ Turning(p) # 1
  /\ Turned(p, poll[p].reads, poll[p].cached \cup {Turning(p)})
  /\ UNCHANGED <<minute, feed, connector, source, scan, listings, halted>>

\* Faulty: cached pages are never looked at again.
UncheckedNever(p) == {}

\* Cached pages that are to be read again before the batch may be ingested.
Unchecked(p) ==
  {n \in poll[p].cached :
     ~(poll[p].reads[n].revalidated /\ minute - poll[p].reads[n].verified <= VerifyTerm)}

\* Where the next read over the network is for.
Fetching(p) ==
  IF poll[p].pc = "reading" /\ (Turning(p) = 1 \/ ~Cached(p)) THEN {Turning(p)}
  ELSE IF poll[p].pc = "checking" /\ Unchecked(p) # {}
       THEN {CHOOSE n \in Unchecked(p) : \A m \in Unchecked(p) : n <= m} ELSE {}

\* fresh: a slice that has read enough is put off.
Yield(p) ==
  /\ Fetching(p) # {} /\ HeldBy(p) /\ poll[p].actual >= SliceReads
  /\ Goes(p, "yielding")
  /\ UNCHANGED <<minute, feed, connector, source, scan, listings, halted>>

Read(p, n) ==
  [page |-> Page(n), verified |-> minute, revision |-> poll[p].revision,
   revalidated |-> n = 1 \/ poll[p].pc = "checking"]

\* A page arrives: it is to be saved, unless it is not what was read before.
FetchPage(p) ==
  /\ HeldBy(p) /\ poll[p].actual < SliceReads
  /\ \E n \in Fetching(p) :
       LET known == n <= Len(poll[p].reads)
           pc == IF known /\ poll[p].reads[n].page # Page(n) THEN "drifted"
                 ELSE IF poll[p].pc = "checking" THEN "confirming" ELSE "saving" IN
       /\ ~(connector = "tagged" /\ source.etag = <<feed>>)
       /\ poll' = [poll EXCEPT ![p].pc = pc, ![p].actual = @ + 1,
            ![p].reads = IF pc = "drifted" THEN @
                         ELSE IF known THEN [@ EXCEPT ![n] = Read(p, n)]
                         ELSE Append(@, Read(p, n))]
  /\ UNCHANGED <<minute, feed, connector, source, scan, listings, halted>>

\* The source answers 304 to the tag of the last batch.
NotModified(p) ==
  /\ HeldBy(p) /\ Fetching(p) # {} /\ poll[p].actual < SliceReads
  /\ connector = "tagged" /\ source.etag = <<feed>>
  /\ Goes(p, "unmodified")
  /\ UNCHANGED <<minute, feed, connector, source, scan, listings, halted>>

FetchFails(p) ==
  /\ HeldBy(p) /\ Fetching(p) # {} /\ poll[p].actual < SliceReads
  /\ \E health \in {"rate_limited", "forbidden", "unavailable", "parser_failed"} :
       poll' = [poll EXCEPT ![p].pc = "failing", ![p].health = health]
  /\ UNCHANGED <<minute, feed, connector, source, scan, listings, halted>>

\* saveScanRead, the scan still being this one.
SaveScanRead(p) ==
  /\ poll[p].pc \in {"saving", "confirming"} /\ HeldBy(p)
  /\ scan.present /\ scan.revision = poll[p].revision /\ minute < scan.expires
  /\ scan' = [scan EXCEPT !.reads = poll[p].reads]
  /\ IF poll[p].pc = "saving" THEN Turned(p, poll[p].reads, poll[p].cached)
                              ELSE Goes(p, "checking")
  /\ UNCHANGED <<minute, feed, connector, source, listings, halted>>

\* drift: the scan is discarded, and the poll fails.
Drift(p) ==
  /\ poll[p].pc = "drifted" /\ HeldBy(p)
  /\ scan' = NoScan
  /\ poll' = [poll EXCEPT ![p].pc = "failing", ![p].health = "quality_warning"]
  /\ UNCHANGED <<minute, feed, connector, source, listings, halted>>

DeferScan(p) ==
  /\ poll[p].pc = "yielding" /\ HeldBy(p)
  /\ source' = [Idled(source) EXCEPT !.health = "served", !.due = minute]
  /\ Quits(p)
  /\ UNCHANGED <<minute, feed, connector, scan, listings, halted>>

\* failSource: the longer the more it failed; a scan outlives refusals to serve.
FailSource(p) ==
  /\ poll[p].pc = "failing" /\ HeldBy(p)
  /\ scan' = IF poll[p].health \in {"rate_limited", "unavailable"} THEN scan ELSE NoScan
  /\ \E wait \in {2 ^ source.failures} \cup
                 (IF poll[p].health = "rate_limited" THEN {RetryAfter} ELSE {}) :
       /\ wait >= 2 ^ source.failures
       /\ source' = [Idled(source) EXCEPT
            !.health = Barred(poll[p].health), !.due = minute + wait,
            !.failures = IF @ < BackoffLimit THEN @ + 1 ELSE @]
  /\ Quits(p)
  /\ UNCHANGED <<minute, feed, connector, listings, halted>>

\* A lease that is gone, or a scan that expired under the poll: it is given up.
GiveUp(p) ==
  /\ \/ poll[p].pc # "idle" /\ ~HeldBy(p)
     \/ /\ poll[p].pc \in {"saving", "confirming"}
        /\ ~(scan.present /\ scan.revision = poll[p].revision /\ minute < scan.expires)
  /\ Quits(p)
  /\ UNCHANGED <<minute, feed, connector, source, scan, listings, halted>>

PollerStops(p) ==
  /\ poll[p].pc # "idle" /\ Quits(p)
  /\ UNCHANGED <<minute, feed, connector, source, scan, listings, halted>>

-----------------------------------------------------------------------------
(* Ingestion                                                                *)

Succeeded ==
  [Idled(source) EXCEPT !.health = "served", !.failures = 0, !.due = minute + PollInterval]

\* Nothing changed: what has been missing long enough is closed.
IngestUnmodified(p) ==
  /\ poll[p].pc = "unmodified" /\ HeldBy(p) /\ source.etag # << >>
  /\ scan' = NoScan
  /\ listings' = [x \in Postings |->
       IF listings[x].state = "missing" /\ minute - listings[x].since >= ClosesAfter
       THEN Listing("closed", 0, TRUE) ELSE listings[x]]
  /\ source' = Succeeded
  /\ Quits(p)
  /\ UNCHANGED <<minute, feed, connector, halted>>

Batch(p) == Taken(p, poll[p].at)
Warned(p) == Batch(p) \cap Poor # {}

\* Faulty: only falls by half count, not the fall to nothing of a small source.
DroppedByHalf(p) == source.count >= DropMinimum /\ 2 * Cardinality(Batch(p)) < source.count

Dropped(p) ==
  \/ source.count >= DropMinimum /\ 2 * Cardinality(Batch(p)) < source.count
  \/ source.count > 0 /\ Batch(p) = {}

\* Listed again; or missed, and at last closed, unless the batch is doubtful.
Seen(x) == Listing("open", 0, FALSE)
Missed(x) ==
  LET since == IF listings[x].state = "missing" THEN listings[x].since ELSE minute IN
  IF listings[x].missed /\ minute - since >= ClosesAfter
  THEN Listing("closed", 0, TRUE) ELSE Listing("missing", since, TRUE)

Ingest(p) ==
  LET doubtful == Warned(p) \/ Dropped(p) IN
  /\ poll[p].pc = "checking" /\ Unchecked(p) = {} /\ HeldBy(p)
  /\ scan' = NoScan
  /\ listings' = [x \in Postings |->
       IF x \in Batch(p) THEN IF Dropped(p) THEN listings[x] ELSE Seen(x)
       ELSE IF listings[x].state \in {"none", "closed"} \/ doubtful THEN listings[x]
       ELSE Missed(x)]
  /\ source' = [Succeeded EXCEPT
       !.count = IF Dropped(p) THEN @ ELSE Cardinality(Batch(p)),
       !.pending = Cardinality(Batch(p)),
       !.etag = IF Dropped(p) \/ connector = "paged" THEN << >> ELSE <<poll[p].reads[1].page>>,
       !.reviewed = FALSE]
  /\ Quits(p)
  /\ UNCHANGED <<minute, feed, connector, halted>>

MinutePasses ==
  /\ minute < MaxMinute /\ minute' = minute + 1
  /\ UNCHANGED <<feed, connector, source, scan, listings, poll, halted>>

-----------------------------------------------------------------------------
DiscoveryInit ==
  /\ minute = 0 /\ feed \in Feeds /\ connector \in {"paged", "tagged"}
  /\ source = [revision |-> 1, holder |-> "none", until |-> 0, due |-> 0, attempt |-> -1,
               health |-> "served", etag |-> << >>, count |-> 0, pending |-> 0,
               failures |-> 0, reviewed |-> FALSE]
  /\ scan = NoScan
  /\ listings = [x \in Postings |-> Listing("none", 0, FALSE)]
  /\ poll = [p \in Pollers |-> NoPoll] /\ halted = FALSE

PollStep(p) ==
  \/ ClaimSource(p) \/ LoadScan(p) \/ UseCached(p) \/ Yield(p) \/ FetchPage(p)
  \/ NotModified(p) \/ FetchFails(p) \/ SaveScanRead(p) \/ Drift(p) \/ DeferScan(p)
  \/ FailSource(p) \/ GiveUp(p) \/ PollerStops(p) \/ IngestUnmodified(p) \/ Ingest(p)

DiscoveryNext ==
  \/ FeedChanges \/ Halt \/ SaveSource \/ Schedule \/ MinutePasses
  \/ \E p \in Pollers : PollStep(p)

DiscoverySpec == DiscoveryInit /\ [][DiscoveryNext]_discoveryVars

-----------------------------------------------------------------------------
(* Properties                                                               *)

DiscoveryTypeOK ==
  /\ minute \in 0 .. MaxMinute /\ feed \in Feeds /\ halted \in BOOLEAN
  /\ source.holder \in Pollers \cup {"none"} /\ source.revision \in 1 .. MaxRevision
  /\ source.count \in 0 .. Cardinality(Postings) /\ source.failures \in 0 .. BackoffLimit
  /\ scan.present \in BOOLEAN /\ (~scan.present => scan.reads = << >>)
  /\ \A x \in Postings : listings[x].state \in {"none", "open", "missing", "closed"}

\* A batch that is about to be ingested, however many slices, pollers and
\* revisions of the source its scan went through, is of pages that were all
\* read under the source's present revision, the first in this slice and each
\* other at most a verification term before the lease began.
IngestedIsVerified ==
  \A p \in Pollers : poll[p].pc = "checking" /\ Unchecked(p) = {} /\ HeldBy(p) =>
    \A n \in 1 .. poll[p].at :
      LET read == poll[p].reads[n] IN
      /\ read.revision = source.revision
      /\ minute - read.verified < SourceLease + (IF n = 1 THEN 0 ELSE VerifyTerm)

\* A source that lists nothing any more loses none of its open listings until
\* the owner has acknowledged that it is empty, whatever polls failed, expired
\* or were doubtful in between.
EmptyIsReviewed ==
  [][(\E x \in Postings : listings[x].state = "open")
     /\ (\A x \in Postings : listings'[x].state # "open")
       => source.reviewed]_discoveryVars

=============================================================================
