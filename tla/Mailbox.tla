------------------------------- MODULE Mailbox --------------------------------
(***************************************************************************)
(* The connection to the owner's mailbox and the scans that read it:       *)
(* packages/persistence/src/email-repository.ts (the row of                *)
(* email_connections, its lease and its checkpoint) and packages/email/src *)
(* service.ts (consent, refresh, sync), gmail.ts (pages) and scan.ts.      *)
(*                                                                         *)
(* A mail context is an application or account that waits for mail; its    *)
(* key is a number, ordered as the keys are.  MailOf lists, page by page,  *)
(* the messages that Gmail finds for it and that correlate with it.  Every *)
(* write of a scan asserts its lease, so the checkpoint of the row is the  *)
(* scan in memory as long as the sync goes on.                             *)
(***************************************************************************)
EXTENDS Integers, Sequences, FiniteSets

CONSTANTS
  Syncers,              \* processes that sync, one at a time in each
  MailOf,               \* pages of messages, by context
  Aged,                 \* contexts older than gmailQuery's window
  BatchContexts, ScanMessages, ScanPages,
  MailFaults,           \* of "stop", "network", "denied", "garbled"
  MaxLeases             \* bound

\* Gmail answers every list with a page, be it empty.
ASSUME MailboxAssumption ==
  /\ MailOf \in Seq(Seq(Seq(STRING))) /\ \A c \in DOMAIN MailOf : MailOf[c] # <<>>
  /\ Aged \subseteq DOMAIN MailOf
  /\ {BatchContexts, ScanMessages, ScanPages, MaxLeases} \subseteq Nat \ {0}
  /\ MailFaults \subseteq {"stop", "network", "denied", "garbled"}

VARIABLES
  mailbox,  \* the row of email_connections
  watched,  \* the contexts of contexts()
  steady,   \* those watched ever since the batch was planned (history)
  swept,    \* those a scan has read to the end since they opened (history)
  observed, \* email_messages
  consent,  \* GmailService.flow: the generation of its lease, or 0
  sync,     \* what each sync is doing, in memory
  stopped   \* the owner's stop

mailVars == <<mailbox, watched, steady, swept, observed, consent, sync, stopped>>

MailContexts == DOMAIN MailOf
Messages(page) == {page[n] : n \in DOMAIN page}

Least(S) == CHOOSE m \in S : \A n \in S : m <= n
Greatest(S) == CHOOSE m \in S : \A n \in S : n <= m

NoPending == [key |-> 0]
NoCursor == [entries |-> <<>>]
IdleSync == [at |-> "idle"]

-----------------------------------------------------------------------------
(* The row and its lease                                                    *)

Leased == mailbox.lease = "live"

\* assertLease
HoldsLease(generation, state) ==
  ~stopped /\ Leased /\ mailbox.generation = generation /\ mailbox.state = state

\* lease
TakeLease(state) ==
  /\ ~stopped /\ ~Leased /\ mailbox.generation < MaxLeases
  /\ IF state = "connecting" THEN mailbox.state # "connected" ELSE mailbox.state = "connected"
  /\ mailbox' = [mailbox EXCEPT !.state = state, !.generation = @ + 1, !.lease = "live"]

\* invalidate, which asserts the generation only.
Invalidated(generation, leaseState, reason) ==
  LET retried == reason \in {"temporarily_unavailable", "scan_needs_review"} /\ leaseState = "connected" IN
  IF mailbox.generation # generation THEN mailbox
  ELSE [mailbox EXCEPT !.state = IF retried THEN "connected" ELSE "reconnect_required",
                       !.token = @ /\ retried, !.lease = "none", !.generation = @ + 1,
                       !.paused = reason = "scan_needs_review"]

Configure ==
  /\ ~stopped /\ mailbox.generation < MaxLeases
  /\ mailbox.state \in {"disconnected", "reconnect_required"}
  /\ mailbox' = [mailbox EXCEPT !.state = "disconnected", !.generation = @ + 1,
                                !.lease = "none", !.token = FALSE, !.paused = FALSE,
                                !.cursor = NoCursor, !.last = 0]
  /\ UNCHANGED <<watched, steady, swept, observed, consent, sync, stopped>>

Connect ==
  /\ consent = 0 /\ TakeLease("connecting")
  /\ consent' = mailbox'.generation
  /\ UNCHANGED <<watched, steady, swept, observed, sync, stopped>>

\* The callback stores the grant under the lease of its flow.
Callback ==
  /\ consent # 0 /\ HoldsLease(consent, "connecting")
  /\ mailbox' = [mailbox EXCEPT !.state = "connected", !.token = TRUE, !.fresh = TRUE,
                                !.lease = "none"]
  /\ consent' = 0
  /\ UNCHANGED <<watched, steady, swept, observed, sync, stopped>>

\* The grant is refused, the flow's timer runs out, or connect or disconnect closes
\* it; or the API ends and forgets it.
CloseFlow ==
  /\ consent # 0 /\ consent' = 0
  /\ mailbox' \in {mailbox, Invalidated(consent, "connecting", "consent_failed")}
  /\ UNCHANGED <<watched, steady, swept, observed, sync, stopped>>

\* disconnect, once the flow is closed.  A pause outlives it.
Disconnect ==
  /\ mailbox.state # "disconnected" /\ consent = 0 /\ mailbox.generation < MaxLeases
  /\ mailbox' = [mailbox EXCEPT !.state = "disconnected", !.generation = @ + 1,
                                !.lease = "none", !.token = FALSE, !.cursor = NoCursor,
                                !.last = 0]
  /\ UNCHANGED <<watched, steady, swept, observed, consent, sync, stopped>>

ResetScan ==
  /\ ~stopped /\ mailbox.state = "connected" /\ ~Leased /\ mailbox.generation < MaxLeases
  /\ mailbox' = [mailbox EXCEPT !.generation = @ + 1, !.cursor = NoCursor, !.last = 0,
                                !.paused = FALSE]
  /\ UNCHANGED <<watched, steady, swept, observed, consent, sync, stopped>>

-----------------------------------------------------------------------------
(* sync                                                                     *)

SyncAt(s, at) == sync[s].at = at

\* What sync's catch blocks do.
GivesUp(s, reason) ==
  /\ mailbox' = Invalidated(sync[s].generation, sync[s].state, reason)
  /\ sync' = [sync EXCEPT ![s] = IdleSync]
  /\ UNCHANGED <<watched, steady, swept, observed, consent, stopped>>

\* The snapshot that sync decides on is read before it takes a lease.
StartSync(s) ==
  /\ SyncAt(s, "idle") /\ mailbox.state = "connected" /\ ~mailbox.paused
  /\ sync' = [sync EXCEPT ![s] = [at |-> IF mailbox.fresh THEN "lease" ELSE "refresh"]]
  /\ UNCHANGED <<mailbox, watched, steady, swept, observed, consent, stopped>>

LeaseSync(s) ==
  /\ \/ SyncAt(s, "lease") /\ TakeLease("connected")
        /\ sync' = [sync EXCEPT ![s] = [at |-> "plan", generation |-> mailbox'.generation,
                                        state |-> "connected", ids |-> {}, pages |-> 0]]
     \/ SyncAt(s, "refresh") /\ TakeLease("refreshing")
        /\ sync' = [sync EXCEPT ![s] = [at |-> "exchange", state |-> "refreshing",
                                        generation |-> mailbox'.generation]]
  /\ UNCHANGED <<watched, steady, swept, observed, consent, stopped>>

Refresh(s) ==
  /\ SyncAt(s, "exchange") /\ HoldsLease(sync[s].generation, "refreshing")
  /\ mailbox' = [mailbox EXCEPT !.state = "connected", !.fresh = TRUE, !.lease = "none"]
  /\ sync' = [sync EXCEPT ![s] = [at |-> "lease"]]
  /\ UNCHANGED <<watched, steady, swept, observed, consent, stopped>>

\* Every failure of a refresh discards the token.
RefreshFails(s) ==
  /\ SyncAt(s, "exchange")
  /\ MailFaults \cap {"network", "denied"} # {} \/ ~HoldsLease(sync[s].generation, "refreshing")
  /\ GivesUp(s, "authorization_expired")

\* A checkpoint: the contexts of a batch in the order of their keys, the page that
\* each of them is at, the context to go on with and what is left of its page.
NewMailScan(keys) ==
  [entries |-> [c \in keys |-> [page |-> 1, done |-> FALSE]],
   next |-> IF keys = {} THEN 0 ELSE Least(keys), pending |-> NoPending]

Keys(scanned) == DOMAIN scanned.entries

\* The checkpoint without the contexts that are no longer watched.
Narrowed(scanned) ==
  LET kept == Keys(scanned) \cap watched IN
  [entries |-> [c \in kept |-> scanned.entries[c]],
   next |-> IF scanned.next \in kept \/ kept = {} THEN scanned.next ELSE Least(kept),
   pending |-> IF scanned.pending.key \in watched THEN scanned.pending ELSE NoPending]

AllDone(entries) == \A c \in DOMAIN entries : entries[c].done

\* saveScan: a scan read to its end leaves its last key instead of a checkpoint.
Saved(scanned) ==
  IF AllDone(scanned.entries)
  THEN [mailbox EXCEPT !.cursor = NoCursor,
                       !.last = IF Keys(scanned) = {} THEN @ ELSE Greatest(Keys(scanned))]
  ELSE [mailbox EXCEPT !.cursor = scanned]

\* The next contexts after the last batch, from the start after the last of them.
NextBatch ==
  LET following == {c \in watched : c > mailbox.last}
      turn == IF following = {} THEN watched ELSE following
  IN {c \in turn : Cardinality({d \in turn : d <= c}) <= BatchContexts}

\* scanPlan and the first save.
ScanPlan(s) ==
  /\ SyncAt(s, "plan") /\ HoldsLease(sync[s].generation, "connected")
  /\ LET old == IF mailbox.cursor = NoCursor THEN NoCursor ELSE Narrowed(mailbox.cursor)
         resumed == ~AllDone(old.entries)
         planned == IF resumed THEN old ELSE NewMailScan(NextBatch) IN
     /\ mailbox' = Saved(planned)
     /\ steady' = IF resumed THEN steady ELSE watched
     /\ sync' = [sync EXCEPT ![s].at = IF Keys(planned) = {} THEN "finish" ELSE "scan"]
  /\ UNCHANGED <<watched, swept, observed, consent, stopped>>

\* The context the scan is at: that of the page it holds, or the next not done.
ContextAt(scanned) ==
  LET open == {c \in Keys(scanned) : ~scanned.entries[c].done}
      ahead == {c \in open : c >= scanned.next} IN
  IF scanned.pending.key \in Keys(scanned) THEN scanned.pending.key
  ELSE Least(IF ahead # {} THEN ahead ELSE open)

Scanning(s) == SyncAt(s, "scan") /\ HoldsLease(sync[s].generation, "connected")
NeedsPage == mailbox.cursor.pending = NoPending
Here == ContextAt(mailbox.cursor)
Entry == mailbox.cursor.entries[Here]

ListPage(s) ==
  /\ Scanning(s) /\ NeedsPage
  /\ sync[s].pages < ScanPages /\ Cardinality(sync[s].ids) < ScanMessages
  /\ Here \notin Aged
  /\ mailbox' = Saved([mailbox.cursor EXCEPT
       !.pending = [key |-> Here, ids |-> MailOf[Here][Entry.page]]])
  /\ sync' = [sync EXCEPT ![s].pages = @ + 1]
  /\ UNCHANGED <<watched, steady, swept, observed, consent, stopped>>

Inspects(s) == Scanning(s) /\ ~NeedsPage /\ mailbox.cursor.pending.ids # <<>>

\* ingest: the message is correlated with the contexts of that moment.
IngestMail(s) ==
  /\ Inspects(s) /\ Cardinality(sync[s].ids) < ScanMessages
  /\ LET id == Head(mailbox.cursor.pending.ids) IN
     /\ id \notin sync[s].ids
     /\ observed' = IF \E c \in watched : \E n \in DOMAIN MailOf[c] : id \in Messages(MailOf[c][n])
                    THEN observed \cup {id} ELSE observed
     /\ sync' = [sync EXCEPT ![s].ids = @ \cup {id}]
  /\ UNCHANGED <<mailbox, watched, steady, swept, consent, stopped>>

ShiftableAlways(s) == Inspects(s)
Shiftable(s) == Inspects(s) /\ Head(mailbox.cursor.pending.ids) \in sync[s].ids

Shift(s) ==
  /\ Shiftable(s)
  /\ mailbox' = Saved([mailbox.cursor EXCEPT !.pending.ids = Tail(@)])
  /\ UNCHANGED <<watched, steady, swept, observed, consent, sync, stopped>>

TurnPage(s) ==
  /\ Scanning(s) /\ ~NeedsPage /\ mailbox.cursor.pending.ids = <<>>
  /\ LET ended == Entry.page = Len(MailOf[Here])
         beyond == {c \in Keys(mailbox.cursor) : c > Here}
         turned == [mailbox.cursor EXCEPT
           !.entries[Here] = [page |-> IF ended THEN @.page ELSE @.page + 1, done |-> ended],
           !.pending = NoPending,
           !.next = Least(IF beyond # {} THEN beyond ELSE Keys(mailbox.cursor))] IN
     /\ mailbox' = Saved(turned)
     /\ swept' = IF ended THEN swept \cup ({Here} \cap steady) ELSE swept
     /\ sync' = [sync EXCEPT ![s].at = IF AllDone(turned.entries) THEN "finish" ELSE @]
  /\ UNCHANGED <<watched, steady, observed, consent, stopped>>

\* finishSync, of a scan that is complete or has reached a limit of one sync.
FinishSync(s) ==
  /\ \/ SyncAt(s, "finish") /\ HoldsLease(sync[s].generation, "connected")
     \/ /\ Scanning(s) /\ Cardinality(sync[s].ids) >= ScanMessages
        /\ NeedsPage \/ Inspects(s)
     \/ Scanning(s) /\ NeedsPage /\ sync[s].pages = ScanPages
  /\ mailbox' = [mailbox EXCEPT !.lease = "none"]
  /\ sync' = [sync EXCEPT ![s] = IdleSync]
  /\ UNCHANGED <<watched, steady, swept, observed, consent, stopped>>

\* A context older than fourteen days cannot be asked for.
RefuseWindow(s) ==
  /\ Scanning(s) /\ NeedsPage /\ Here \in Aged
  /\ sync[s].pages < ScanPages /\ Cardinality(sync[s].ids) < ScanMessages
  /\ GivesUp(s, "scan_needs_review")

\* A request fails, Gmail refuses the token or answers with what cannot be parsed.
RequestFails(s) ==
  /\ Scanning(s)
  /\ \/ "network" \in MailFaults /\ GivesUp(s, "temporarily_unavailable")
     \/ "denied" \in MailFaults /\ GivesUp(s, "authorization_expired")
     \/ "garbled" \in MailFaults /\ GivesUp(s, "scan_needs_review")

\* A write that finds the owner's stop, or its lease gone.
Unleased(s) ==
  /\ sync[s].at \in {"plan", "scan", "finish"} /\ ~HoldsLease(sync[s].generation, "connected")
  /\ GivesUp(s, IF stopped THEN "scan_needs_review" ELSE "authorization_expired")

\* The lease is refused, and sync throws; or its process ends.
SyncStops(s) ==
  /\ ~SyncAt(s, "idle")
  /\ sync' = [sync EXCEPT ![s] = IdleSync]
  /\ UNCHANGED <<mailbox, watched, steady, swept, observed, consent, stopped>>

-----------------------------------------------------------------------------
(* Time, the owner, and the applications                                    *)

MailTimePasses ==
  /\ \/ Leased /\ mailbox' = [mailbox EXCEPT !.lease = "lapsed"]
     \/ mailbox.fresh /\ mailbox' = [mailbox EXCEPT !.fresh = FALSE]
  /\ UNCHANGED <<watched, steady, swept, observed, consent, sync, stopped>>

OpenContext(c) ==
  /\ c \notin watched /\ watched' = watched \cup {c}
  /\ UNCHANGED <<mailbox, steady, swept, observed, consent, sync, stopped>>

CloseContext(c) ==
  /\ c \in watched /\ watched' = watched \ {c}
  /\ steady' = steady \ {c} /\ swept' = swept \ {c}
  /\ UNCHANGED <<mailbox, observed, consent, sync, stopped>>

ToggleMailStop ==
  /\ "stop" \in MailFaults /\ stopped' = ~stopped
  /\ UNCHANGED <<mailbox, watched, steady, swept, observed, consent, sync>>

MailInit ==
  /\ mailbox = [state |-> "disconnected", generation |-> 1, lease |-> "none",
                token |-> FALSE, fresh |-> FALSE, paused |-> FALSE,
                cursor |-> NoCursor, last |-> 0]
  /\ watched = {} /\ steady = {} /\ swept = {} /\ observed = {}
  /\ consent = 0 /\ stopped = FALSE
  /\ sync = [s \in Syncers |-> IdleSync]

SyncStep(s) ==
  \/ StartSync(s) \/ LeaseSync(s) \/ Refresh(s) \/ RefreshFails(s) \/ ScanPlan(s)
  \/ ListPage(s) \/ IngestMail(s) \/ Shift(s) \/ TurnPage(s) \/ FinishSync(s)
  \/ RefuseWindow(s) \/ RequestFails(s) \/ Unleased(s) \/ SyncStops(s)

MailNext ==
  \/ Configure \/ Connect \/ Callback \/ CloseFlow \/ Disconnect \/ ResetScan
  \/ \E s \in Syncers : SyncStep(s)
  \/ MailTimePasses \/ ToggleMailStop
  \/ \E c \in MailContexts : OpenContext(c) \/ CloseContext(c)

-----------------------------------------------------------------------------
(* Properties                                                               *)

ScanTypeOK ==
  /\ watched \subseteq MailContexts /\ steady \subseteq MailContexts
  /\ swept \subseteq MailContexts
  /\ mailbox.state \in {"disconnected", "connecting", "connected", "refreshing",
                        "reconnect_required"}
  /\ mailbox.lease \in {"none", "live", "lapsed"}
  /\ mailbox.generation \in Nat /\ mailbox.last \in Nat
  /\ Keys(mailbox.cursor) \subseteq MailContexts

\* The messages of a context that the scan will not come back to.
PassedOver(scanned, c) ==
  LET entry == scanned.entries[c]
      page == Messages(MailOf[c][entry.page])
      before == UNION {Messages(MailOf[c][n]) : n \in 1 .. entry.page - 1} IN
  IF entry.done THEN before \cup page
  ELSE IF scanned.pending.key = c
       THEN before \cup (page \ Messages(scanned.pending.ids))
       ELSE before

\* No message of an application that has been waiting for it all along is passed
\* over: whatever the checkpoint of the scan has left behind is in email_messages,
\* across refused or lapsed leases, crashes between ingest and save, and batches
\* that the contexts have changed under (gmail.ts, messages).
SweptIsObserved ==
  /\ \A c \in Keys(mailbox.cursor) \cap steady : PassedOver(mailbox.cursor, c) \subseteq observed
  /\ \A c \in swept : \A n \in DOMAIN MailOf[c] : Messages(MailOf[c][n]) \subseteq observed

\* A scan of a mailbox that answers, whose owner never stops it, does not end in
\* a review: contexts() hands out applications for 180 days, and each of them can
\* be looked for.
WatchedIsScannable == MailFaults = {} => ~mailbox.paused
=============================================================================
