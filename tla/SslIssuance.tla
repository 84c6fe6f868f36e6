---------------------------- MODULE SslIssuance ----------------------------
(***************************************************************************)
(* Certificate issuance for custom domains: the rows of `proxy_domains`,   *)
(* `proxy_certificates` and `proxy_acme_challenges`, the ACME issuance     *)
(* workers of every proxy instance (saas/ssl.rs, tls/acme.rs) and the SaaS *)
(* API calls that write the same rows (saas/manager.rs, saas/db.rs).       *)
(*                                                                         *)
(* One SQL statement is one step: PostgreSQL makes it atomic.  Whatever    *)
(* happens between two statements of one handler is a step of somebody     *)
(* else, and a handler or a worker may be cut off between any two of them. *)
(*                                                                         *)
(* Time is kept as ages: `age` is how long ago `ssl_last_attempt_at` was   *)
(* stamped, saturating at MaxAge, which exceeds every threshold it is      *)
(* compared with.  A certificate's expiry is kept as `due`, whether it is  *)
(* inside RENEW_WITHIN of now.                                             *)
(***************************************************************************)
EXTENDS Naturals, FiniteSets

CONSTANTS
    Ids,          \* row ids of proxy_domains: each is used for one INSERT
    Names,        \* domain names
    Workers,      \* issuance workers, one per proxy instance
    Callers,      \* concurrent SaaS API requests
    MaxAttempts,  \* MAX_ATTEMPTS
    StuckAfter,   \* STUCK_AFTER
    BaseBackoff,  \* BASE_BACKOFF
    MaxBackoff,   \* MAX_BACKOFF
    OrderBound,   \* the longest an order lives, from its claim to its result
    MaxAge,       \* where ages saturate
    NoId,         \* a NULL domain_id
    NoName        \* the domain of a worker that holds no claim, or an unused id

\* OrderBound <= StuckAfter is what the comment on STUCK_AFTER relies on: an
\* order ends (ORDER_TIMEOUT per poll) before its row counts as abandoned.
ASSUME IssuanceAssumption ==
    /\ MaxAttempts \in Nat \ {0}
    /\ StuckAfter \in Nat /\ BaseBackoff \in Nat /\ MaxBackoff \in Nat
    /\ OrderBound \in Nat /\ OrderBound <= StuckAfter
    /\ MaxAge \in Nat /\ MaxAge > StuckAfter /\ MaxAge > MaxBackoff
    /\ NoId \notin Ids
    /\ NoName \notin Names

VARIABLES
    rows,        \* proxy_domains, by id
    certs,       \* proxy_certificates, by domain name
    challenges,  \* proxy_acme_challenges: who placed the order, for which name
    worker,      \* the control state of each issuance worker
    call,        \* the API request each caller has in progress
    disturbed    \* history: names whose row an API call took from a live order

vars == <<rows, certs, challenges, worker, call, disturbed>>

-----------------------------------------------------------------------------
(* Types *)

SslStatus == {"pending", "provisioning", "active", "failed"}
SslProvider == {"acme", "manual", "none"}
Age == 0..MaxAge

\* A row of proxy_domains.  `attempted` is ssl_last_attempt_at IS NOT NULL;
\* `life` follows the id from unused through the INSERT to the DELETE.
Row == [life : {"unused", "live", "deleted"}, name : Names \cup {NoName},
        verified : BOOLEAN,
        provider : SslProvider, status : SslStatus, attempts : 0..MaxAttempts,
        attempted : BOOLEAN, age : Age]

FreshRow(life, n, p) ==
    [life |-> life, name |-> n, verified |-> FALSE, provider |-> p,
     status |-> "pending", attempts |-> 0, attempted |-> FALSE, age |-> 0]

\* A row of proxy_certificates; `owner` is domain_id.
Cert == [stored : BOOLEAN, auto_renew : BOOLEAN, owner : Ids \cup {NoId},
         due : BOOLEAN]

NoCert == [stored |-> FALSE, auto_renew |-> FALSE, owner |-> NoId, due |-> FALSE]

\* Where a worker is in run/tick/issue: the steps from "order" to "mark" and
\* "failed" are those of one order.
Ordering == {"order", "validate", "issued", "mark", "failed"}
WorkerPC == {"sleep", "renew", "claim"} \cup Ordering

Worker == [pc : WorkerPC, id : Ids \cup {NoId}, name : Names \cup {NoName},
           attempts : 0..MaxAttempts, age : 0..OrderBound]

Resting(pc) == [pc |-> pc, id |-> NoId, name |-> NoName, attempts |-> 0, age |-> 0]

\* What an API handler remembers across its awaits.
Call == [op : {"none", "checking", "queueing", "saving", "recording"},
         id : Ids \cup {NoId}, acme : BOOLEAN]

NoCall == [op |-> "none", id |-> NoId, acme |-> FALSE]

TypeOK ==
    /\ rows \in [Ids -> Row]
    /\ certs \in [Names -> Cert]
    /\ challenges \subseteq Workers \X Names
    /\ worker \in [Workers -> Worker]
    /\ call \in [Callers -> Call]
    /\ disturbed \subseteq Names

-----------------------------------------------------------------------------
(* Helpers *)

Live(i) == rows[i].life = "live"

InFlight(w) == worker[w].pc \in Ordering

Smaller(a, b) == IF a < b THEN a ELSE b

\* LEAST(base * 2 ^ attempts, cap), the wait the claim query computes.
Backoff(attempts) == Smaller(BaseBackoff * 2^attempts, MaxBackoff)

\* Faulty variant: the backoff is compared with the timestamp the claim has just
\* overwritten, so a row that was tried once is never eligible again.
ClaimableOnce(i) ==
    /\ Live(i)
    /\ rows[i].verified
    /\ rows[i].provider = "acme"
    /\ rows[i].status = "pending"
    /\ rows[i].attempts < MaxAttempts
    /\ ~rows[i].attempted

\* The inner SELECT of claim_next.
Claimable(i) ==
    /\ Live(i)
    /\ rows[i].verified
    /\ rows[i].provider = "acme"
    /\ rows[i].status = "pending"
    /\ rows[i].attempts < MaxAttempts
    /\ rows[i].attempted => rows[i].age > Backoff(rows[i].attempts)

\* A history variable, of no effect on the rest: the names in `hit` had their
\* row taken by an API call, and stay marked while an order for them is alive.
Disturb(hit) ==
    disturbed' = {n \in disturbed \cup hit :
                    \E w \in Workers : worker'[w].pc \in Ordering /\ worker'[w].name = n}

Init ==
    /\ rows = [i \in Ids |-> FreshRow("unused", NoName, "acme")]
    /\ certs = [n \in Names |-> NoCert]
    /\ challenges = {}
    /\ worker = [w \in Workers |-> Resting("sleep")]
    /\ call = [c \in Callers |-> NoCall]
    /\ disturbed = {}
-----------------------------------------------------------------------------
(* The issuance worker: run, tick and AcmeIssuer::issue *)

GoTo(w, pc) == worker' = [worker EXCEPT ![w].pc = pc]

\* Faulty variant: any provisioning row counts as abandoned, however recent.
AbandonedAtOnce(i) ==
    /\ Live(i)
    /\ rows[i].status = "provisioning"
    /\ rows[i].provider = "acme"
    /\ rows[i].attempted

\* Faulty variant: only rows without a timestamp are looked for.
AbandonedUnstamped(i) ==
    /\ Live(i)
    /\ rows[i].status = "provisioning"
    /\ rows[i].provider = "acme"
    /\ ~rows[i].attempted

Abandoned(i) ==
    /\ Live(i)
    /\ rows[i].status = "provisioning"
    /\ rows[i].provider = "acme"
    /\ rows[i].attempted
    /\ rows[i].age > StuckAfter

\* reclaim_abandoned, the first statement of a pass.  Every row found counts
\* one more attempt, whatever its count was.
Requeued(i) == [rows[i] EXCEPT !.status = "pending", !.attempts = @ + 1]

ReclaimAbandoned(w) ==
    /\ worker[w].pc = "sleep"
    /\ rows' = [i \in Ids |-> IF Abandoned(i) THEN Requeued(i) ELSE rows[i]]
    /\ GoTo(w, "renew")
    /\ UNCHANGED <<certs, challenges, call>>
    /\ Disturb({})

\* Faulty variant: the renewal scan does not ask for `active`.
DueInAnyStatus(i) ==
    /\ Live(i)
    /\ rows[i].provider = "acme"
    /\ rows[i].verified
    /\ LET c == certs[rows[i].name] IN c.stored /\ c.auto_renew /\ c.due

DueForRenewal(i) ==
    /\ Live(i)
    /\ rows[i].status = "active"
    /\ rows[i].provider = "acme"
    /\ rows[i].verified
    /\ LET c == certs[rows[i].name] IN c.stored /\ c.auto_renew /\ c.due

\* mark_renewals: ssl_last_attempt_at is left as it was.
MarkRenewals(w) ==
    /\ worker[w].pc = "renew"
    /\ rows' = [i \in Ids |-> IF DueForRenewal(i)
                              THEN [rows[i] EXCEPT !.status = "pending", !.attempts = 0]
                              ELSE rows[i]]
    /\ GoTo(w, "claim")
    /\ UNCHANGED <<certs, challenges, call>>
    /\ Disturb({})

\* Faulty variant: the claim does not flip the status.
ClaimWithoutFlip(w, i) ==
    /\ worker[w].pc = "claim"
    /\ Claimable(i)
    /\ rows' = [rows EXCEPT ![i] = [@ EXCEPT !.attempted = TRUE, !.age = 0]]
    /\ worker' = [worker EXCEPT ![w] =
                    [pc |-> "order", id |-> i, name |-> rows[i].name,
                     attempts |-> rows[i].attempts, age |-> 0]]
    /\ UNCHANGED <<certs, challenges, call>>
    /\ Disturb({})

\* claim_next finds a row.  It asks for the longest-waiting one, but
\* SKIP LOCKED passes over a row that another statement holds at that moment,
\* so any claimable row may be the one returned.
ClaimNext(w, i) ==
    /\ worker[w].pc = "claim"
    /\ Claimable(i)
    /\ rows' = [rows EXCEPT ![i] = [@ EXCEPT !.status = "provisioning",
                                             !.attempted = TRUE, !.age = 0]]
    /\ worker' = [worker EXCEPT ![w] =
                    [pc |-> "order", id |-> i, name |-> rows[i].name,
                     attempts |-> rows[i].attempts, age |-> 0]]
    /\ UNCHANGED <<certs, challenges, call>>
    /\ Disturb({})

\* claim_next finds nothing: the pass is over.
NothingToClaim(w) ==
    /\ worker[w].pc = "claim"
    /\ \A i \in Ids : ~Claimable(i)
    /\ worker' = [worker EXCEPT ![w] = Resting("sleep")]
    /\ UNCHANGED <<rows, certs, challenges, call>>
    /\ Disturb({})

\* issue up to the challenges: the account, the order, and the response stored
\* before the CA is told to look for it.  An authorization that is already
\* valid needs none.  Without an account or an order there is nothing to clear.
PlaceOrder(w) ==
    /\ worker[w].pc = "order"
    /\ \/ /\ GoTo(w, "validate")
          /\ \/ challenges' = challenges \cup {<<w, worker[w].name>>}
             \/ UNCHANGED challenges
       \/ GoTo(w, "failed") /\ UNCHANGED challenges
    /\ UNCHANGED <<rows, certs, call>>
    /\ Disturb({})

\* clear_challenges deletes by domain name, whoever's order stored the row.
ClearChallenges(n) == {ch \in challenges : ch[2] # n}

\* The rest of satisfy_and_finalize, and the cleanup that follows it either
\* way.  A cleanup that fails is only logged.
FinishOrder(w) ==
    /\ worker[w].pc = "validate"
    /\ \/ GoTo(w, "issued")
       \/ GoTo(w, "failed")
    /\ \/ challenges' = ClearChallenges(worker[w].name)
       \/ UNCHANGED challenges
    /\ UNCHANGED <<rows, certs, call>>
    /\ Disturb({})

\* save_to_database: an upsert that leaves auto_renew and domain_id of a row
\* that is already there, and takes the column defaults for a new one.
SavedCert(n, due) ==
    IF certs[n].stored
    THEN [certs[n] EXCEPT !.due = due]
    ELSE [stored |-> TRUE, auto_renew |-> TRUE, owner |-> NoId, due |-> due]

\* Faulty variant: the error of the store is dropped and the order succeeds.
SaveIgnoringErrors(w) ==
    /\ worker[w].pc = "issued"
    /\ LET n == worker[w].name IN
       \/ certs' = [certs EXCEPT ![n] = SavedCert(n, FALSE)]
       \/ UNCHANGED certs
    /\ GoTo(w, "mark")
    /\ UNCHANGED <<rows, challenges, call>>
    /\ Disturb({})

\* cert_store.save: the database, then the file cache.  A failure of either
\* fails the order, and the second leaves the certificate stored.
SaveCertificate(w) ==
    /\ worker[w].pc = "issued"
    /\ LET n == worker[w].name IN
       \/ certs' = [certs EXCEPT ![n] = SavedCert(n, FALSE)] /\ GoTo(w, "mark")
       \/ certs' = [certs EXCEPT ![n] = SavedCert(n, FALSE)] /\ GoTo(w, "failed")
       \/ UNCHANGED certs /\ GoTo(w, "failed")
    /\ UNCHANGED <<rows, challenges, call>>
    /\ Disturb({})

\* mark_active: WHERE id = $1 and nothing else.  A deleted row is not found.
MarkActive(w) ==
    LET i == worker[w].id IN
    /\ worker[w].pc = "mark"
    /\ rows' = IF Live(i)
               THEN [rows EXCEPT ![i] = [@ EXCEPT !.status = "active", !.attempts = 0]]
               ELSE rows
    /\ worker' = [worker EXCEPT ![w] = Resting("claim")]
    /\ UNCHANGED <<certs, challenges, call>>
    /\ Disturb({})

\* mark_failed, with the attempt count read when the row was claimed.
MarkFailed(w) ==
    LET i == worker[w].id
        attempts == worker[w].attempts + 1
        status == IF attempts >= MaxAttempts THEN "failed" ELSE "pending"
    IN
    /\ worker[w].pc = "failed"
    /\ rows' = IF Live(i)
               THEN [rows EXCEPT ![i] = [@ EXCEPT !.status = status, !.attempts = attempts]]
               ELSE rows
    /\ worker' = [worker EXCEPT ![w] = Resting("claim")]
    /\ UNCHANGED <<certs, challenges, call>>
    /\ Disturb({})

\* The process restarts, or a statement of tick fails: `?` ends the pass, and
\* the loop of run starts another.  What the worker had claimed is forgotten.
Interrupt(w) ==
    /\ worker[w].pc # "sleep"
    /\ worker' = [worker EXCEPT ![w] = Resting("sleep")]
    /\ UNCHANGED <<rows, certs, challenges, call>>
    /\ Disturb({})

WorkerStep(w) ==
    \/ ReclaimAbandoned(w)
    \/ MarkRenewals(w)
    \/ \E i \in Ids : ClaimNext(w, i)
    \/ NothingToClaim(w)
    \/ PlaceOrder(w)
    \/ FinishOrder(w)
    \/ SaveCertificate(w)
    \/ MarkActive(w)
    \/ MarkFailed(w)

-----------------------------------------------------------------------------
(* The SaaS API: DomainManager and the statements it runs *)

Idle(c) == call[c].op = "none"

\* create_domain: domain_exists is checked, and the UNIQUE constraint on the
\* name decides the race between two inserts.
CreateDomain(i, n, p) ==
    /\ rows[i].life = "unused"
    /\ \A j \in Ids : Live(j) => rows[j].name # n
    /\ rows' = [rows EXCEPT ![i] = FreshRow("live", n, p)]
    /\ UNCHANGED <<certs, challenges, worker, call>>
    /\ Disturb({})

\* verify_domain reads the row, then asks DNS or HTTP.  The provider it acts on
\* later is the one read here.
VerifyDomain(c, i) ==
    /\ Idle(c)
    /\ Live(i)
    /\ call' = [call EXCEPT ![c] = [op |-> "checking", id |-> i,
                                    acme |-> rows[i].provider = "acme"]]
    /\ UNCHANGED <<rows, certs, challenges, worker>>
    /\ Disturb({})

\* The check succeeds: update_verification_status.
RecordVerified(c) ==
    LET i == call[c].id IN
    /\ call[c].op = "checking"
    /\ rows' = IF Live(i) THEN [rows EXCEPT ![i].verified = TRUE] ELSE rows
    /\ call' = [call EXCEPT ![c] = IF call[c].acme
                                   THEN [call[c] EXCEPT !.op = "queueing"]
                                   ELSE NoCall]
    /\ UNCHANGED <<certs, challenges, worker>>
    /\ Disturb({})

\* ... and update_ssl_status(Pending), which leaves ssl_attempts and
\* ssl_last_attempt_at alone.
QueueVerified(c) ==
    LET i == call[c].id IN
    /\ call[c].op = "queueing"
    /\ rows' = IF Live(i) THEN [rows EXCEPT ![i].status = "pending"] ELSE rows
    /\ call' = [call EXCEPT ![c] = NoCall]
    /\ UNCHANGED <<certs, challenges, worker>>
    /\ Disturb(IF Live(i) THEN {rows[i].name} ELSE {})

\* What update_domain and queue_for_issuance both write: pending, no attempts,
\* no error, no last attempt.
Queued(row) == [row EXCEPT !.status = "pending", !.attempts = 0,
                           !.attempted = FALSE, !.age = 0]

\* update_domain with a new ssl_provider.  Moving a verified domain to acme
\* queues it, whatever its status was.
UpdateDomain(i, p) ==
    LET moved == [rows[i] EXCEPT !.provider = p]
        queue == p = "acme" /\ rows[i].verified
    IN
    /\ Live(i)
    /\ rows' = [rows EXCEPT ![i] = IF queue THEN Queued(moved) ELSE moved]
    /\ UNCHANGED <<certs, challenges, worker, call>>
    /\ Disturb(IF queue THEN {rows[i].name} ELSE {})

\* queue_for_issuance, POST /domains/{id}/ssl/provision.
QueueForIssuance(i) ==
    /\ Live(i)
    /\ rows[i].provider = "acme"
    /\ rows[i].verified
    /\ rows' = [rows EXCEPT ![i] = Queued(@)]
    /\ UNCHANGED <<certs, challenges, worker, call>>
    /\ Disturb({rows[i].name})

\* upload_certificate: the row is read and the certificate validated ...
UploadCertificate(c, i) ==
    /\ Idle(c)
    /\ Live(i)
    /\ call' = [call EXCEPT ![c] = [op |-> "saving", id |-> i, acme |-> FALSE]]
    /\ UNCHANGED <<rows, certs, challenges, worker>>
    /\ Disturb({})

\* ... cert_store.save writes it ...
SaveUploaded(c) ==
    /\ call[c].op = "saving"
    /\ \E due \in BOOLEAN :
         LET n == rows[call[c].id].name IN
         certs' = [certs EXCEPT ![n] = SavedCert(n, due)]
    /\ call' = [call EXCEPT ![c].op = "recording"]
    /\ UNCHANGED <<rows, challenges, worker>>
    /\ Disturb({})

\* ... and record_uploaded_certificate commits both rows in one transaction,
\* or rolls back when the domain is gone.
RecordUploaded(c) ==
    LET i == call[c].id
        n == rows[i].name
    IN
    /\ call[c].op = "recording"
    /\ \/ /\ Live(i)
          /\ rows' = [rows EXCEPT ![i] = [@ EXCEPT !.provider = "manual",
                                                   !.status = "active", !.attempts = 0]]
          /\ certs' = IF certs[n].stored
                      THEN [certs EXCEPT ![n] = [@ EXCEPT !.auto_renew = FALSE, !.owner = i]]
                      ELSE certs
       \/ ~Live(i) /\ UNCHANGED <<rows, certs>>
    /\ call' = [call EXCEPT ![c] = NoCall]
    /\ UNCHANGED <<challenges, worker>>
    /\ Disturb(IF Live(i) THEN {n} ELSE {})

\* delete_domain: ON DELETE CASCADE takes the certificate whose domain_id is
\* this row, and no other.
DeleteDomain(i) ==
    /\ Live(i)
    /\ rows' = [rows EXCEPT ![i] = FreshRow("deleted", rows[i].name, "none")]
    /\ certs' = [n \in Names |-> IF certs[n].owner = i THEN NoCert ELSE certs[n]]
    /\ UNCHANGED <<challenges, worker, call>>
    /\ Disturb({rows[i].name})

\* A failed check, a failed statement, or a handler dropped with its
\* connection: what was written stays written.
AbandonCall(c) ==
    /\ ~Idle(c)
    /\ call' = [call EXCEPT ![c] = NoCall]
    /\ UNCHANGED <<rows, certs, challenges, worker>>
    /\ Disturb({})

ApiStep ==
    \/ \E i \in Ids, n \in Names, p \in SslProvider : CreateDomain(i, n, p)
    \/ \E i \in Ids, p \in SslProvider : UpdateDomain(i, p)
    \/ \E i \in Ids : QueueForIssuance(i) \/ DeleteDomain(i)
    \/ \E c \in Callers :
        \/ \E i \in Ids : VerifyDomain(c, i) \/ UploadCertificate(c, i)
        \/ RecordVerified(c) \/ QueueVerified(c)
        \/ SaveUploaded(c) \/ RecordUploaded(c)
        \/ AbandonCall(c)

-----------------------------------------------------------------------------
(* Time *)

\* One unit passes.  An order that has lived OrderBound ends before it does.
TimePasses ==
    /\ \A w \in Workers : InFlight(w) => worker[w].age < OrderBound
    /\ rows' = [i \in Ids |-> IF rows[i].attempted /\ rows[i].age < MaxAge
                              THEN [rows[i] EXCEPT !.age = @ + 1] ELSE rows[i]]
    /\ worker' = [w \in Workers |-> IF InFlight(w)
                                    THEN [worker[w] EXCEPT !.age = @ + 1]
                                    ELSE worker[w]]
    /\ UNCHANGED <<certs, challenges, call>>
    /\ Disturb({})

\* A stored certificate comes within RENEW_WITHIN of its expiry.
ComesDue(n) ==
    /\ certs[n].stored
    /\ ~certs[n].due
    /\ certs' = [certs EXCEPT ![n].due = TRUE]
    /\ UNCHANGED <<rows, challenges, worker, call>>
    /\ Disturb({})

\* The hour of a challenge row is over.  It is longer than any order lives, so
\* the order that stored it has ended.
ChallengeExpires(w, n) ==
    /\ <<w, n>> \in challenges
    /\ ~(InFlight(w) /\ worker[w].name = n)
    /\ challenges' = challenges \ {<<w, n>>}
    /\ UNCHANGED <<rows, certs, worker, call>>
    /\ Disturb({})

Next ==
    \/ \E w \in Workers : WorkerStep(w) \/ Interrupt(w)
    \/ ApiStep
    \/ TimePasses
    \/ \E n \in Names : ComesDue(n)
    \/ \E w \in Workers, n \in Names : ChallengeExpires(w, n)

Spec == Init /\ [][Next]_vars

\* run never returns on an error, so a worker keeps taking steps; users and
\* failures owe nothing.  Time passes.
FairSpec ==
    /\ Spec
    /\ \A w \in Workers : WF_vars(WorkerStep(w))
    /\ WF_vars(TimePasses)

-----------------------------------------------------------------------------
(* Properties that hold *)

\* The result of an order lands on the row it was claimed from: while an order
\* runs, and unless an API call has taken the row meanwhile, the row is there,
\* is provisioning, and has the attempt count the worker will write back.
\* mark_active and mark_failed check none of this: they say WHERE id = $1.
ClaimHolds ==
    \A w \in Workers :
        (InFlight(w) /\ worker[w].name \notin disturbed) =>
            /\ Live(worker[w].id)
            /\ rows[worker[w].id].name = worker[w].name
            /\ rows[worker[w].id].status = "provisioning"
            /\ rows[worker[w].id].attempts = worker[w].attempts

\* Two workers never run an order for the same domain, unless an API call
\* requeued, replaced or deleted the domain while the first order ran.  Rests
\* on claim_next flipping the status as it claims, and on STUCK_AFTER.
OneOrderPerName ==
    \A v, w \in Workers :
        (/\ InFlight(v) /\ InFlight(w)
         /\ worker[v].name = worker[w].name
         /\ worker[v].name \notin disturbed) => v = w

\* A live order is never stolen: reclaim_abandoned cannot match a row some
\* worker is still working on, not even one that was requeued meanwhile.
LiveOrderNotAbandoned ==
    \A w \in Workers : InFlight(w) => ~Abandoned(worker[w].id)

\* A domain that reports `active` has a certificate in the store, whatever was
\* uploaded, deleted, re-created or interrupted on the way.
ActiveHasCertificate ==
    \A i \in Ids : (Live(i) /\ rows[i].status = "active") => certs[rows[i].name].stored

\* The challenge response of an order that the CA is validating stays where
\* the CA will look for it: clear_challenges deletes by domain name, so only
\* one order per name keeps it from deleting another order's row.
ChallengeSurvives ==
    [][\A w \in Workers :
         (/\ worker[w].pc = "validate" /\ worker'[w].pc = "validate"
          /\ worker[w].name \notin disturbed
          /\ <<w, worker[w].name>> \in challenges)
            => <<w, worker[w].name>> \in challenges']_vars

\* No ACME domain stays `provisioning` for ever, though workers may crash and
\* passes may fail at every point: the reason reclaim_abandoned exists.
ProvisioningEnds ==
    \A i \in Ids :
        (rows[i].status = "provisioning" /\ rows[i].provider = "acme")
            ~> ~(rows[i].status = "provisioning" /\ rows[i].provider = "acme")

\* A step that is neither an API call nor a failure.  A pass that found nothing
\* to claim ends as an interrupted one does, and is no failure.
Quiet == ~ApiStep /\ \A w \in Workers : Interrupt(w) => NothingToClaim(w)

Wanted(i) == Live(i) /\ rows[i].verified /\ rows[i].provider = "acme"

\* Once failures and API calls stop, a verified ACME domain in the queue gets
\* its certificate or runs out of attempts; it is not forgotten.
QueuedIsSettled ==
    <>[][Quiet]_vars =>
        \A i \in Ids :
            (Wanted(i) /\ rows[i].status = "pending")
                ~> (~Wanted(i) \/ rows[i].status = "active"
                               \/ rows[i].attempts = MaxAttempts)

-----------------------------------------------------------------------------
(* What a comment of the code says, and the code does not keep *)

\* "`pending` is the worker's inbox: `saas::ssl::run` claims these rows ... and
\* records `active` or `failed`" (verify_domain).  reclaim_abandoned counts an
\* interrupted attempt but always writes `pending`, and verify_domain puts a
\* failed domain back without clearing its attempts: a pending row that has used
\* up MAX_ATTEMPTS is never claimed and never becomes `failed`.
InboxIsWorked ==
    <>[][Quiet]_vars =>
        \A i \in Ids :
            (Wanted(i) /\ rows[i].status = "pending")
                ~> (~Wanted(i) \/ rows[i].status \in {"active", "failed"})

=============================================================================
