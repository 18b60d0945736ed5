--------------------------- MODULE EmployerAccounts ---------------------------
(***************************************************************************)
(* Accounts at employers' sites: the one-action signup                     *)
(* (packages/persistence/src/account-repository.ts, driven by              *)
(* apps/api/src/account.ts and packages/accounts/src/signup.ts), the       *)
(* verification link an employer mails afterwards                          *)
(* (verification-repository.ts, email-repository.ts), and what becomes of  *)
(* both when the database is restored from a backup                        *)
(* (restore-repository.ts) and the owner reviews the locked accounts.      *)
(*                                                                         *)
(* Every transaction takes the owner lock and is one action; a crash or a  *)
(* restore may fall between any two of them.  The employer is outside: it  *)
(* may register an account or not whatever answer it gives, and a link it  *)
(* has mailed may take effect whatever page it returns.                    *)
(***************************************************************************)
EXTENDS Naturals, FiniteSets

CONSTANTS
  Accounts,     \* rows of employer_accounts, each id used once
  Employers,    \* an employer's origin with one candidate and one adapter
  EmployerOf,   \* the employer of each account
  Calls,        \* signup requests the API may be serving
  Messages,     \* verification mails, each with one link
  Followers,    \* the worker's followPending and the owner's follow request
  Versions,     \* the contents an approved rule may have
  None,         \* no rule approved, no row referred to
  MaxHops,      \* redirects followed, 3 in the code
  MaxRestores,  \* bound: restores performed
  MaxChanges    \* bound: changes of controls, policy and rules by the owner

ASSUME AccountsAssumption ==
  /\ EmployerOf \in [Accounts -> Employers]
  /\ None \notin Versions \cup Accounts \cup Messages
  /\ MaxHops \in Nat /\ MaxRestores \in Nat /\ MaxChanges \in Nat

VARIABLES
  account,      \* employer_accounts.state
  attempt,      \* signup_attempts: at most one row for an account
  link,         \* email_verification_links, by the mail it came in
  rules,        \* email_verification_rules, by employer and path
  granted,      \* the policy in force allows account creation
  stopped, restoreBlocked,   \* controls
  nextFence,    \* owners.next_fence
  backup,       \* the database copy that may be restored
  call,         \* the signup requests, in memory
  follow,       \* the link dispatchers, in memory
  registered,   \* employer: accounts it has created
  gated,        \* employer: those it keeps closed until verified
  verified,     \* employer: those whose verification took effect
  posts,        \* history: POST /signup sent for each account
  opened,       \* history: links requested at least once
  late,         \* history: requests of a link since activity was forbidden
  used,         \* history: account ids handed out
  attested,     \* history: accounts the owner vouched for
  replied,      \* history: accounts whose signup request has returned
  restores,     \* history: restores performed
  changes       \* history: changes by the owner

rowVars == <<account, attempt, link, rules, granted, stopped, restoreBlocked, nextFence>>
siteVars == <<registered, gated, verified>>
historyVars == <<posts, opened, late, used, attested, replied, restores, changes>>
accountVars == <<rowVars, backup, call, follow, siteVars, historyVars>>

Paths == {"link", "landing"}   \* of the mailed link, and of a redirect
Pending == {"needs_verification", "unknown"}

\* Faulty: a link whose outcome is unknown no longer stands in the way.
UnresolvedNow == {"in_flight"}

Unresolved == {"in_flight", "unknown"}
NoAttempt == [state |-> "absent", fence |-> 0, dispatched |-> FALSE]
NoLink == [state |-> "absent", account |-> None, rule |-> None, expired |-> FALSE]
IdleCall == [pc |-> "idle", account |-> None, fence |-> 0]
IdleFollow == [pc |-> "idle", message |-> None, path |-> "link", hops |-> 0, rule |-> None]

\* assertOperational, and the mailbox's active.
Operational == ~stopped /\ ~restoreBlocked
\* assertAccountPolicy.
Permitted == Operational /\ granted

\* One transaction's copy of the tables a backup holds.
Database == [account |-> account, attempt |-> attempt, link |-> link, rules |-> rules,
             granted |-> granted, stopped |-> stopped,
             restoreBlocked |-> restoreBlocked, nextFence |-> nextFence]

CallAt(c, pc) == call' = [call EXCEPT ![c].pc = pc]
Return(c) ==
  /\ call' = [call EXCEPT ![c] = IdleCall]
  /\ replied' = replied \cup {call[c].account}

-----------------------------------------------------------------------------
(* Signup                                                                   *)

Prepare(a) ==
  /\ Operational
  /\ a \notin used
  /\ \A b \in Accounts : EmployerOf[b] = EmployerOf[a] => account[b] = "absent"
  /\ account' = [account EXCEPT ![a] = "prepared"]
  /\ used' = used \cup {a}
  /\ UNCHANGED <<attempt, link, rules, granted, stopped, restoreBlocked, nextFence, backup,
                 call, follow, siteVars, posts, opened, late, attested, replied, restores, changes>>

BeginSignup(c, a) ==
  /\ call[c].pc = "idle"
  /\ Permitted
  /\ account[a] = "prepared" /\ attempt[a].state = "absent"
  /\ nextFence' = nextFence + 1
  /\ attempt' = [attempt EXCEPT ![a] =
                   [state |-> "INTENT_RECORDED", fence |-> nextFence', dispatched |-> FALSE]]
  /\ call' = [call EXCEPT ![c] = [pc |-> "begun", account |-> a, fence |-> nextFence']]
  /\ UNCHANGED <<account, link, rules, granted, stopped, restoreBlocked, backup,
                 follow, siteVars, historyVars>>

\* The credential is opened outside the try block of the route.
Credential(c) ==
  /\ call[c].pc = "begun"
  /\ IF Operational /\ account[call[c].account] \notin {"closed", "locked"}
     THEN CallAt(c, "keyed") /\ UNCHANGED replied
     ELSE Return(c)
  /\ UNCHANGED <<rowVars, backup, follow, siteVars,
                 posts, opened, late, used, attested, restores, changes>>

Dispatchable(c) ==
  LET a == call[c].account IN
  /\ Permitted
  /\ attempt[a].state = "INTENT_RECORDED" /\ ~attempt[a].dispatched
  /\ attempt[a].fence = call[c].fence /\ account[a] = "prepared"

AuthorizeSignup(c) ==
  LET a == call[c].account IN
  /\ call[c].pc = "keyed"
  /\ IF Dispatchable(c)
     THEN /\ attempt' = [attempt EXCEPT ![a].state = "IN_FLIGHT", ![a].dispatched = TRUE]
          /\ account' = [account EXCEPT ![a] = "signup_in_flight"]
          /\ CallAt(c, "permitted")
     ELSE CallAt(c, "unproven") /\ UNCHANGED <<account, attempt>>
  /\ UNCHANGED <<link, rules, granted, stopped, restoreBlocked, nextFence, backup,
                 follow, siteVars, historyVars>>

\* commitSignup: the permit lasts ten seconds.
PermitExpires(c) ==
  /\ call[c].pc = "permitted"
  /\ CallAt(c, "unproven")
  /\ UNCHANGED <<rowVars, backup, follow, siteVars, historyVars>>

\* The request leaves; it may reach the employer or be refused there.
Post(c) ==
  LET a == call[c].account IN
  /\ call[c].pc = "permitted"
  /\ CallAt(c, "posted")
  /\ posts' = [posts EXCEPT ![a] = @ + 1]
  /\ \/ /\ registered' = registered \cup {a}
        /\ gated' \in {gated, gated \cup {a}}
     \/ UNCHANGED <<registered, gated>>
  /\ UNCHANGED <<rowVars, backup, follow, verified,
                 opened, late, used, attested, replied, restores, changes>>

\* A 201 whose body parses and names the account's identity.
Accepted(c) ==
  /\ call[c].pc = "posted" /\ call[c].account \in registered
  /\ CallAt(c, "accepted")
  /\ UNCHANGED <<rowVars, backup, follow, siteVars, historyVars>>

\* No answer, a 422, another status or another identity.
Unproven(c) ==
  /\ call[c].pc = "posted"
  /\ CallAt(c, "unproven")
  /\ UNCHANGED <<rowVars, backup, follow, siteVars, historyVars>>

\* A 201 whose body is no JSON or not of the schema: the error is no
\* DomainError and the route rethrows it without another transaction.
Malformed(c) ==
  /\ call[c].pc = "posted" /\ call[c].account \in registered
  /\ Return(c)
  /\ UNCHANGED <<rowVars, backup, follow, siteVars,
                 posts, opened, late, used, attested, restores, changes>>

\* finishSignup's guard.
Finishable(c) ==
  LET a == call[c].account IN
  /\ attempt[a].state = "IN_FLIGHT" /\ attempt[a].dispatched
  /\ attempt[a].fence = call[c].fence /\ account[a] = "signup_in_flight"

\* Faulty: the employer's wish for a verification is overlooked.
SignedUpAtOnce(a) == "active"

\* Faulty: a state the accounts table does not know.
SignedUpVerbatim(a) == IF a \in gated THEN "verification_required" ELSE "active"

\* confirmSignup: an account created is not a usable one yet.
SignedUp(a) == IF a \in gated THEN "needs_verification" ELSE "active"

FinishSignup(a, accountState, attemptState) ==
  /\ attempt' = [attempt EXCEPT ![a].state = attemptState]
  /\ account' = [account EXCEPT ![a] = accountState]

ConfirmSignup(c) ==
  LET a == call[c].account IN
  /\ call[c].pc = "accepted"
  /\ IF Finishable(c)
     THEN FinishSignup(a, SignedUp(a), "CONFIRMED") /\ Return(c)
     ELSE CallAt(c, "unproven") /\ UNCHANGED <<account, attempt, replied>>
  /\ UNCHANGED <<link, rules, granted, stopped, restoreBlocked, nextFence, backup,
                 follow, siteVars, posts, opened, late, used, attested, restores, changes>>

\* Refused, and the error returned, when nothing was dispatched.
MarkSignupUnknown(c) ==
  /\ call[c].pc = "unproven"
  /\ IF Finishable(c) THEN FinishSignup(call[c].account, "unknown", "UNKNOWN")
                      ELSE UNCHANGED <<account, attempt>>
  /\ Return(c)
  /\ UNCHANGED <<link, rules, granted, stopped, restoreBlocked, nextFence, backup,
                 follow, siteVars, posts, opened, late, used, attested, restores, changes>>

SignupStep(c) ==
  \/ \E a \in Accounts : BeginSignup(c, a)
  \/ Credential(c) \/ AuthorizeSignup(c) \/ PermitExpires(c) \/ Post(c)
  \/ Accepted(c) \/ Unproven(c) \/ Malformed(c)
  \/ ConfirmSignup(c) \/ MarkSignupUnknown(c)

-----------------------------------------------------------------------------
(* The verification link                                                    *)

\* ingest finds the account among its contexts; captureVerification keeps
\* one link for a message.
CaptureVerification(m, a) ==
  /\ Operational
  /\ a \in gated                                      \* the employer wrote
  /\ account[a] \in Pending
  /\ attempt[a].state \in {"CONFIRMED", "UNKNOWN"}
  /\ link[m].state = "absent"
  /\ rules[EmployerOf[a]]["link"] # None
  /\ link' = [link EXCEPT ![m] = [state |-> "pending", account |-> a, expired |-> FALSE,
                                  rule |-> rules[EmployerOf[a]]["link"]]]
  /\ UNCHANGED <<account, attempt, rules, granted, stopped, restoreBlocked, nextFence, backup,
                 call, follow, siteVars, historyVars>>

LinkExpires(m) ==
  /\ link[m].state \in {"pending", "in_flight"} /\ ~link[m].expired
  /\ link' = [link EXCEPT ![m].expired = TRUE]
  /\ UNCHANGED <<account, attempt, rules, granted, stopped, restoreBlocked, nextFence, backup,
                 call, follow, siteVars, historyVars>>

\* Faulty: controls and policy are asked before the first request only.
InContextAnyway(m, state) ==
  LET a == link[m].account IN
  /\ state = "pending" => Permitted
  /\ link[m].state = state /\ ~link[m].expired
  /\ account[a] \in Pending
  /\ rules[EmployerOf[a]]["link"] = link[m].rule
  /\ attempt[a].dispatched /\ attempt[a].state \in {"CONFIRMED", "UNKNOWN"}

\* context(tx, id, state)
InContext(m, state) ==
  LET a == link[m].account IN
  /\ Permitted
  /\ link[m].state = state /\ ~link[m].expired
  /\ account[a] \in Pending
  /\ rules[EmployerOf[a]]["link"] = link[m].rule
  /\ attempt[a].dispatched /\ attempt[a].state \in {"CONFIRMED", "UNKNOWN"}

BeginLink(f, m) ==
  /\ follow[f].pc = "idle"
  /\ InContext(m, "pending")
  /\ \A n \in Messages \ {m} :
       link[n].account = link[m].account => link[n].state \notin Unresolved
  /\ link' = [link EXCEPT ![m].state = "in_flight"]
  /\ follow' = [follow EXCEPT ![f] = [IdleFollow EXCEPT !.pc = "hop", !.message = m]]
  /\ UNCHANGED <<account, attempt, rules, granted, stopped, restoreBlocked, nextFence, backup,
                 call, siteVars, historyVars>>

\* The rule that will judge the page is read before it is requested.
Destination(f) ==
  LET m == follow[f].message
      rule == rules[EmployerOf[link[m].account]][follow[f].path] IN
  /\ follow[f].pc = "hop"
  /\ IF InContext(m, "in_flight") /\ rule # None
     THEN follow' = [follow EXCEPT ![f].pc = "get", ![f].rule = rule]
     ELSE follow' = [follow EXCEPT ![f].pc = "failed"]
  /\ UNCHANGED <<rowVars, backup, call, siteVars, historyVars>>

\* One GET: the employer may act on it, then redirect, show its success page
\* or anything else, or the answer is lost.
Get(f) ==
  LET m == follow[f].message
      a == link[m].account IN
  /\ follow[f].pc = "get"
  /\ opened' = opened \cup {<<m, a>>}
  /\ late' = [late EXCEPT ![m] = IF Permitted THEN 0 ELSE @ + 1]
  /\ verified' \in {verified, verified \cup {a}}
  /\ \/ /\ follow[f].hops < MaxHops
        /\ \E p \in Paths :
             follow' = [follow EXCEPT ![f].pc = "hop", ![f].path = p, ![f].hops = @ + 1]
     \/ /\ a \in verified'
        /\ follow' = [follow EXCEPT ![f].pc = "proven"]
     \/ follow' = [follow EXCEPT ![f].pc = "failed"]
  /\ UNCHANGED <<rowVars, backup, call, registered, gated,
                 posts, used, attested, replied, restores, changes>>

LinkVerified(f) ==
  LET m == follow[f].message
      a == link[m].account IN
  /\ InContext(m, "in_flight")
  /\ rules[EmployerOf[a]][follow[f].path] = follow[f].rule

Verify(f) ==
  LET m == follow[f].message IN
  /\ follow[f].pc = "proven" /\ LinkVerified(f)
  /\ link' = [link EXCEPT ![m].state = "verified"]
  /\ account' = [account EXCEPT ![link[m].account] = "active"]
  /\ follow' = [follow EXCEPT ![f] = IdleFollow]
  /\ UNCHANGED <<attempt, rules, granted, stopped, restoreBlocked, nextFence, backup,
                 call, siteVars, historyVars>>

Unverified(f) ==
  /\ follow[f].pc = "proven" /\ ~LinkVerified(f)
  /\ follow' = [follow EXCEPT ![f].pc = "failed"]
  /\ UNCHANGED <<rowVars, backup, call, siteVars, historyVars>>

\* The catch block of followLink.
LinkFails(f) ==
  LET m == follow[f].message IN
  /\ follow[f].pc = "failed"
  /\ link' = [link EXCEPT ![m].state = IF @ = "in_flight" THEN "unknown" ELSE @]
  /\ follow' = [follow EXCEPT ![f] = IdleFollow]
  /\ UNCHANGED <<account, attempt, rules, granted, stopped, restoreBlocked, nextFence, backup,
                 call, siteVars, historyVars>>

FollowStep(f) ==
  \/ \E m \in Messages : BeginLink(f, m)
  \/ Destination(f) \/ Get(f) \/ Verify(f) \/ Unverified(f) \/ LinkFails(f)

-----------------------------------------------------------------------------
(* The owner, and what happens to the installation                          *)

\* Activity is allowed again: requests counted as late belong to the past.
Reopen == late' = [m \in Messages |-> IF Permitted' THEN 0 ELSE late[m]]

Change == changes < MaxChanges /\ changes' = changes + 1

Control ==
  /\ Change
  /\ \/ stopped' = ~stopped /\ UNCHANGED <<granted, restoreBlocked>>
     \/ granted' = ~granted /\ UNCHANGED <<stopped, restoreBlocked>>
     \/ \* release, once the reviews of the applications are complete
        restoreBlocked /\ restoreBlocked' = FALSE /\ UNCHANGED <<stopped, granted>>
  /\ Reopen
  /\ UNCHANGED <<account, attempt, link, rules, nextFence, backup, call, follow, siteVars,
                 posts, opened, used, attested, replied, restores>>

ApproveRule(e, p) ==
  /\ Change
  /\ Operational
  /\ \E v \in Versions : rules' = [rules EXCEPT ![e][p] = v]
  /\ UNCHANGED <<account, attempt, link, granted, stopped, restoreBlocked, nextFence, backup,
                 call, follow, siteVars,
                 posts, opened, late, used, attested, replied, restores>>

RemoveRule(e, p) ==
  /\ Change
  /\ rules[e][p] # None
  /\ rules' = [rules EXCEPT ![e][p] = None]
  /\ UNCHANGED <<account, attempt, link, granted, stopped, restoreBlocked, nextFence, backup,
                 call, follow, siteVars,
                 posts, opened, late, used, attested, replied, restores>>

\* The owner reviewed the account after it was locked: it exists and has a
\* new credential, or is never to be used again.
Recover(a) ==
  /\ ~restoreBlocked
  /\ account[a] = "locked"
  /\ \/ /\ account' = [account EXCEPT ![a] = "active"]
        /\ attested' = attested \cup {a}
     \/ /\ account' = [account EXCEPT ![a] = "closed"]
        /\ UNCHANGED attested
  /\ UNCHANGED <<attempt, link, rules, granted, stopped, restoreBlocked, nextFence, backup,
                 call, follow, siteVars, posts, opened, late, used, replied, restores, changes>>

Nobody == /\ call' = [c \in Calls |-> IdleCall]
          /\ follow' = [f \in Followers |-> IdleFollow]

Crash ==
  /\ \/ \E c \in Calls : call[c].pc # "idle"
     \/ \E f \in Followers : follow[f].pc # "idle"
  /\ Nobody
  /\ UNCHANGED <<rowVars, backup, siteVars, historyVars>>

\* captureSqliteBackup wants the owner's stop and everything drained; a copy
\* of the file taken otherwise may be restored too, and is blocked when a
\* process is started on it with the snapshot's marker.
Backup ==
  /\ restores < MaxRestores /\ backup = {}
  /\ backup' = {Database}
  /\ UNCHANGED <<rowVars, call, follow, siteVars, historyVars>>

\* Faulty: an account not signed up yet has nothing to revoke.
RevokedIfUsed(state) == IF state \in {"absent", "closed", "prepared"} THEN state ELSE "locked"

\* revokeExternalCapabilities: every account that is not closed is locked, one
\* never signed up too, as the copy may be older than its signup.
Revoked(state) == IF state \in {"absent", "closed"} THEN state ELSE "locked"

\* block with revokeExternalCapabilities; a copy with an open restore run is
\* refused.
Block(d) ==
  /\ ~d.restoreBlocked
  /\ account' = [a \in Accounts |-> Revoked(d.account[a])]
  /\ attempt' = [a \in Accounts |->
       IF d.attempt[a].state \in {"INTENT_RECORDED", "IN_FLIGHT"}
       THEN [d.attempt[a] EXCEPT !.state = "UNKNOWN", !.fence = @ + 1]
       ELSE d.attempt[a]]
  /\ link' = [m \in Messages |->
       IF d.link[m].state \in {"pending", "in_flight"}
       THEN [d.link[m] EXCEPT !.state = "unknown"]
       ELSE d.link[m]]
  /\ rules' = d.rules /\ granted' = d.granted /\ stopped' = d.stopped
  /\ nextFence' = d.nextFence
  /\ restoreBlocked' = TRUE

\* restoreSqliteBackup blocks the copy before any process runs on it.
Restore(d) ==
  /\ restores < MaxRestores
  /\ Block(d)
  /\ restores' = restores + 1
  /\ Nobody
  /\ UNCHANGED <<backup, siteVars, posts, opened, late, used, attested, replied, changes>>

-----------------------------------------------------------------------------
Init ==
  /\ account = [a \in Accounts |-> "absent"]
  /\ attempt = [a \in Accounts |-> NoAttempt]
  /\ link = [m \in Messages |-> NoLink]
  /\ rules \in [Employers -> [Paths -> Versions \cup {None}]]
  /\ granted = TRUE /\ stopped = FALSE /\ restoreBlocked = FALSE
  /\ nextFence = 0
  /\ backup = {}
  /\ call = [c \in Calls |-> IdleCall]
  /\ follow = [f \in Followers |-> IdleFollow]
  /\ registered = {} /\ gated = {} /\ verified = {}
  /\ posts = [a \in Accounts |-> 0]
  /\ opened = {} /\ late = [m \in Messages |-> 0]
  /\ used = {} /\ attested = {} /\ replied = {} /\ restores = 0 /\ changes = 0

OwnerStep ==
  \/ Control
  \/ \E e \in Employers, p \in Paths : ApproveRule(e, p) \/ RemoveRule(e, p)
  \/ \E a \in Accounts : Prepare(a) \/ Recover(a)

Next ==
  \/ OwnerStep
  \/ \E c \in Calls : SignupStep(c)
  \/ \E m \in Messages : LinkExpires(m) \/ \E a \in Accounts : CaptureVerification(m, a)
  \/ \E f \in Followers : FollowStep(f)
  \/ Crash \/ Backup
  \/ \E d \in backup : Restore(d)

Spec == Init /\ [][Next]_accountVars

-----------------------------------------------------------------------------
(* Properties                                                               *)

AccountStates == {"absent", "prepared", "signup_in_flight", "active", "unknown",
                  "needs_verification", "locked", "closed"}
AttemptStates == {"absent", "INTENT_RECORDED", "IN_FLIGHT", "CONFIRMED", "UNKNOWN"}
LinkStates == {"pending", "in_flight", "verified", "unknown"}
Contents == Versions \cup {None}

AttemptRows == [state : AttemptStates, fence : Nat, dispatched : BOOLEAN]
LinkRows == [state : LinkStates, account : Accounts, rule : Versions, expired : BOOLEAN]
Databases == [account : [Accounts -> AccountStates], attempt : [Accounts -> AttemptRows],
              link : [Messages -> LinkRows \cup {NoLink}], rules : [Employers -> [Paths -> Contents]],
              granted : BOOLEAN, stopped : BOOLEAN, restoreBlocked : BOOLEAN,
              nextFence : Nat]
CallRecords == [pc : {"begun", "keyed", "permitted", "posted", "accepted", "unproven"},
                account : Accounts, fence : Nat]
FollowRecords == [pc : {"hop", "get", "proven", "failed"}, message : Messages,
                  path : Paths, hops : 0..MaxHops, rule : Contents]

\* Every row, copy and request in memory has one of the shapes the schemas of
\* packages/contracts/src/account.ts and the migrations allow, and a
\* dispatcher at work has a link.
TypeOK ==
  /\ account \in [Accounts -> AccountStates] /\ attempt \in [Accounts -> AttemptRows]
  /\ link \in [Messages -> LinkRows \cup {NoLink}]
  /\ rules \in [Employers -> [Paths -> Contents]]
  /\ granted \in BOOLEAN /\ stopped \in BOOLEAN /\ restoreBlocked \in BOOLEAN
  /\ nextFence \in Nat
  /\ \A d \in backup : d \in Databases
  /\ call \in [Calls -> CallRecords \cup {IdleCall}]
  /\ follow \in [Followers -> FollowRecords \cup {IdleFollow}]
  /\ \A f \in Followers : follow[f] # IdleFollow => link[follow[f].message] # NoLink
  /\ registered \subseteq Accounts /\ gated \subseteq Accounts
  /\ verified \subseteq Accounts
  /\ posts \in [Accounts -> Nat] /\ opened \subseteq Messages \X Accounts
  /\ late \in [Messages -> Nat] /\ used \subseteq Accounts
  /\ attested \subseteq Accounts /\ replied \subseteq Accounts
  /\ restores \in Nat /\ changes \in Nat

\* The employer is sent at most one signup for an account, whatever is lost,
\* repeated, crashed or restored: beginSignup refuses an account with an
\* attempt of any state and a restore locks one whose attempt it forgot.
OneSignup == \A a \in Accounts : posts[a] <= 1

\* An account is used as active only when the employer has created it and, if
\* it asked for a verification, when that took effect; otherwise the owner
\* has vouched for it (confirmSignup, followLink, recover).
ActiveIsReal ==
  \A a \in Accounts :
    account[a] = "active" => \/ a \in registered /\ (a \in gated => a \in verified)
                            \/ a \in attested

\* At most one verification link of an account is ever requested: a second
\* token is not tried while the first is uncertain, nor after a restore that
\* forgot the first (beginLink, revokeExternalCapabilities).
OneLinkOpened ==
  \A m, n \in Messages, a \in Accounts :
    <<m, a>> \in opened /\ <<n, a>> \in opened => m = n

\* A chain of redirects is cut by a stop, a restore or a revoked policy: of
\* each link at most the one request that was already allowed still leaves
\* (destination asks again at every hop).
StopCutsRedirects == \A m \in Messages : late[m] <= 1

\* A signup request that has returned left no attempt in flight; the comment
\* in apps/api/src/account.ts says that a lost response, an expired permit
\* and an uncorrelated body all are recorded as unknown.
ReturnedIsSettled == \A a \in replied : attempt[a].state # "IN_FLIGHT"

=============================================================================
