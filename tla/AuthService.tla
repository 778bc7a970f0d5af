----------------------------- MODULE AuthService -----------------------------
(***************************************************************************)
(* The authentication service (auth-service.ts) over the credential store  *)
(* (credential-store.ts): application sessions with their expiries, logins,*)
(* first-run setup, password changes and upstream identities.              *)
(*                                                                         *)
(* Two promise chains order the work: establishments (est) and credential  *)
(* operations (cred), the latter waiting for bcrypt and for the file.      *)
(* JavaScript runs every continuation that is ready before it looks at the *)
(* next event: requests, timers and completions of I/O happen only when    *)
(* none is Ready.  A continuation is one step.                             *)
(*                                                                         *)
(* Random identifiers are fresh.  The rate limiter may refuse any attempt  *)
(* (RateLimiter has its rules).                                            *)
(***************************************************************************)
EXTENDS Naturals, FiniteSets, Sequences

CONSTANTS Requests,        \* calls of login, setup, bootstrap and changePassword
          Ids,             \* identifiers of application sessions
          Passwords,
          NoPassword,      \* nobody has enrolled
          NoExpiry,        \* an upstream identity without expiry, or none
          Mode,            \* local, none, trusted-header or cloudflare-access
          MaxSessions,     \* capacity, and bound on pending local attempts
          MaxPending,      \* bound on pending establishments
          Idle, Absolute,  \* durations
          MaxNow,          \* bound on time
          MaxCsrf          \* bound on the tokens issued by resume

ModeAssumption == Mode \in {"local", "none", "trusted-header", "cloudflare-access"}
CapacityAssumption == MaxSessions \in Nat \ {0} /\ MaxPending \in Nat \ {0}
DurationAssumption == Idle \in Nat \ {0} /\ Absolute \in Nat \ {0}
NoneAssumption == NoPassword \notin Passwords /\ NoExpiry \notin Nat
BoundsAssumption == MaxNow \in Nat /\ MaxCsrf \in Nat

VARIABLES
    now,        \* the clock
    session,    \* sessions by identifier
    announced,  \* sessions whose revocation the observers were told
    password,   \* the credential record in memory
    epoch,      \* history: number of passwords there have been
    est,        \* establishment chain: requests
    cred,       \* credential chain: operations of requests
    request,    \* what a request asks for, where it is, what it knows
    changing    \* passwordChangeActive

vars == <<now, session, announced, password, epoch, est, cred, request, changing>>

NoRequest == [kind |-> "none", at |-> "new", given |-> NoPassword, next |-> NoPassword,
              id |-> "none", verdict |-> "none", epoch |-> 0, outcome |-> "none"]

Upstream == Mode \in {"trusted-header", "cloudflare-access"}
Expiries == CASE Mode = "cloudflare-access" -> 1..(MaxNow + 1)
              [] Mode = "trusted-header" -> 1..(MaxNow + 1) \cup {NoExpiry}
              [] OTHER -> {NoExpiry}

Init ==
    /\ now = 0 /\ session = <<>> /\ announced = {}
    /\ password \in IF Mode = "local" THEN Passwords \cup {NoPassword} ELSE {NoPassword}
    /\ epoch = 0
    /\ est = <<>> /\ cred = <<>>
    /\ request = [r \in Requests |-> NoRequest]
    /\ changing = FALSE

-----------------------------------------------------------------------------
(***************************************************************************)
(* Sessions.                                                               *)
(***************************************************************************)
Present == DOMAIN session

Minimum(a, b) == IF a < b THEN a ELSE b

\* Mutant: a session is good at the very moment it expires.
ExpiredLate(s) ==
    now > s.idle \/ now > s.absolute \/ (s.upstream # NoExpiry /\ now > s.upstream)

\* expiredReasonAt
Expired(s) ==
    now >= s.idle \/ now >= s.absolute \/ (s.upstream # NoExpiry /\ now >= s.upstream)

Without(S) == [a \in Present \ S |-> session[a]]

\* revoke: remove and announce
Revoke(S) == session' = Without(S) /\ announced' = announced \cup S

\* What a session that a call names leaves of it if it has expired.
Found(a) == a \in Present /\ ~Expired(session[a])
Lapsed(a) == {b \in {a} \cap Present : Expired(session[b])}

\* prepareSession
NewSession(up, e) ==
    [created |-> now, seen |-> now, idle |-> now + Minimum(Idle, Absolute),
     absolute |-> now + Absolute, upstream |-> up, csrf |-> 0, epoch |-> e]

Crowded(active) == Cardinality(active) >= MaxSessions

\* The order in which sessions make room; equal ones by their random identifier.
Oldest(S) == {a \in S : \A b \in S :
                \/ session[a].seen < session[b].seen
                \/ session[a].seen = session[b].seen /\ session[a].created <= session[b].created}

\* The revocations that commitSession emits
Told(gone, victim) == gone \cup victim

\* commitSession
Establish(up, e) ==
    LET gone == {a \in Present : Expired(session[a])}
        active == Present \ gone
    IN \E id \in Ids \ (Present \cup announced) :
       \E victim \in IF Crowded(active) THEN {{v} : v \in Oldest(active)} ELSE {{}} :
          /\ session' = [a \in (active \ victim) \cup {id} |->
                            IF a = id THEN NewSession(up, e) ELSE session[a]]
          /\ announced' = announced \cup Told(gone, victim)

-----------------------------------------------------------------------------
(***************************************************************************)
(* Continuations.                                                          *)
(***************************************************************************)
MayEnroll == password = NoPassword

Pending == {r \in Requests : request[r].at \in {"queued", "enrolling"}}
Attempts == {r \in Pending : request[r].kind \in {"login", "setup"}}
Answered(r) == request[r].verdict # "none"

ReadyEst ==
    /\ est # <<>>
    /\ \/ request[Head(est)].kind = "bootstrap"
       \/ request[Head(est)].kind = "setup" /\ request[Head(est)].at = "queued"
       \/ Answered(Head(est))
ReadyChange == \E r \in Requests : request[r].at \in {"verifying", "replacing"} /\ Answered(r)

\* An enrolment of a server that is enrolled ends without I/O.
ReadyEnroll == cred # <<>> /\ request[Head(cred)].at = "enrolling" /\ ~MayEnroll

Ready == ReadyEst \/ ReadyChange \/ ReadyEnroll

Quiet == ~Ready

Settle(r, outcome) == request' = [request EXCEPT ![r].at = "done", ![r].outcome = outcome,
                                                 ![r].verdict = "none"]

\* enqueueEstablishment: the chain goes on, whatever came of the operation.
Leave(r, outcome) == est' = Tail(est) /\ Settle(r, outcome)

\* safeEstablish: it may fail for want of random bytes or in the limiter
Established(r, up, e) ==
    \/ Establish(up, e) /\ Leave(r, "established")
    \/ Leave(r, "failed") /\ UNCHANGED <<session, announced>>

RunBootstrap ==
    /\ est # <<>> /\ request[Head(est)].kind = "bootstrap"
    /\ LET r == Head(est) IN
       \/ /\ Mode = "local" /\ Leave(r, "refused") /\ UNCHANGED <<session, announced>>
       \/ /\ Mode # "local"
          /\ \E up \in Expiries :
                \/ /\ up \in Nat => up > now
                   /\ Established(r, up, 0)
                \/ /\ up \in Nat /\ up <= now
                   /\ Leave(r, "failed") /\ UNCHANGED <<session, announced>>
    /\ UNCHANGED <<now, password, epoch, cred, changing>>

\* completeLoginSlot
FinishLogin ==
    /\ est # <<>> /\ request[Head(est)].kind = "login" /\ Answered(Head(est))
    /\ LET r == Head(est) IN
       \/ request[r].verdict = "valid" /\ Established(r, NoExpiry, request[r].epoch)
       \/ request[r].verdict # "valid" /\ Leave(r, "failed") /\ UNCHANGED <<session, announced>>
    /\ UNCHANGED <<now, password, epoch, cred, changing>>

Enqueue(r, at) == cred' = Append(cred, r) /\ request' = [request EXCEPT ![r].at = at]

\* completeSetup up to enroll
BeginSetup ==
    /\ est # <<>> /\ request[Head(est)].kind = "setup" /\ request[Head(est)].at = "queued"
    /\ Enqueue(Head(est), "enrolling")
    /\ UNCHANGED <<now, session, announced, password, epoch, est, changing>>

FinishSetup ==
    /\ est # <<>> /\ request[Head(est)].kind = "setup" /\ Answered(Head(est))
    /\ LET r == Head(est) IN
       \/ request[r].verdict = "valid" /\ Established(r, NoExpiry, request[r].epoch)
       \/ request[r].verdict # "valid" /\ Leave(r, "failed") /\ UNCHANGED <<session, announced>>
    /\ UNCHANGED <<now, password, epoch, cred, changing>>

\* runPasswordChange between its two awaits
VerifiedChange(r) ==
    /\ request[r].at = "verifying" /\ Answered(r)
    /\ \/ /\ request[r].verdict = "valid" /\ Found(request[r].id)
          /\ cred' = Append(cred, r)
          /\ request' = [request EXCEPT ![r].at = "replacing", ![r].verdict = "none"]
          /\ UNCHANGED <<session, announced, changing>>
       \/ /\ request[r].verdict = "valid" /\ ~Found(request[r].id)
          /\ Revoke(Lapsed(request[r].id))
          /\ Settle(r, "failed") /\ changing' = FALSE
          /\ UNCHANGED cred
       \/ /\ request[r].verdict # "valid"
          /\ Settle(r, "failed") /\ changing' = FALSE
          /\ UNCHANGED <<cred, session, announced>>
    /\ UNCHANGED <<now, password, epoch, est>>

\* Mutant: a password change spares the session that asked for it.
RevokedOthers(r) == Present \ {request[r].id}

RevokedBy(r) == Present

ReplacedPassword(r) ==
    /\ request[r].at = "replacing" /\ Answered(r)
    /\ changing' = FALSE
    /\ \/ request[r].verdict = "valid" /\ Revoke(RevokedBy(r)) /\ Settle(r, "changed")
       \/ request[r].verdict # "valid" /\ Settle(r, "failed") /\ UNCHANGED <<session, announced>>
    /\ UNCHANGED <<now, password, epoch, est, cred>>

-----------------------------------------------------------------------------
(***************************************************************************)
(* The credential store completes the operation at the head of its chain.  *)
(***************************************************************************)
\* Mutant: a verification that fails is never heard of.
VerdictLost(v) == IF v = "failed" THEN "none" ELSE v

\* verificationOutcomeBridge
Verdict(v) == v

Answer(r, verdict) ==
    /\ cred' = Tail(cred)
    /\ request' = [request EXCEPT ![r].verdict = Verdict(verdict), ![r].epoch = epoch']

\* verify, for a login or a password change
Verify ==
    /\ Quiet /\ cred # <<>>
    /\ LET r == Head(cred) IN
       /\ request[r].at \in {"queued", "verifying"}
       /\ UNCHANGED epoch
       /\ \/ Answer(r, IF request[r].given = password THEN "valid" ELSE "invalid")
          \/ Answer(r, "failed")
    /\ UNCHANGED <<now, session, announced, password, est, changing>>

\* enroll: the file is replaced, or not, or it fails
Enroll ==
    /\ cred # <<>>
    /\ LET r == Head(cred) IN
       /\ request[r].at = "enrolling"
       /\ \/ /\ MayEnroll /\ Quiet
             /\ \/ /\ password' = request[r].given /\ epoch' = epoch + 1
                   /\ Answer(r, "valid")
                \/ UNCHANGED <<password, epoch>> /\ Answer(r, "failed")
          \/ ~MayEnroll /\ UNCHANGED <<password, epoch>> /\ Answer(r, "invalid")
    /\ UNCHANGED <<now, session, announced, est, changing>>

\* replacePassword
Replace ==
    /\ Quiet /\ cred # <<>>
    /\ LET r == Head(cred) IN
       /\ request[r].at = "replacing"
       /\ \/ password' = request[r].next /\ epoch' = epoch + 1 /\ Answer(r, "valid")
          \/ UNCHANGED <<password, epoch>> /\ Answer(r, "failed")
    /\ UNCHANGED <<now, session, announced, est, changing>>

-----------------------------------------------------------------------------
(***************************************************************************)
(* Calls.  Each runs to its first await.                                   *)
(***************************************************************************)
Room == Cardinality(Pending) < MaxPending
LocalRoom == Cardinality(Attempts) < MaxSessions

Submit(r, record) == request' = [request EXCEPT ![r] = record]

Bootstrap(r) ==
    /\ Quiet /\ request[r].at = "new"
    /\ IF Room
       THEN Submit(r, [NoRequest EXCEPT !.kind = "bootstrap", !.at = "queued"])
            /\ est' = Append(est, r)
       ELSE Submit(r, [NoRequest EXCEPT !.kind = "bootstrap", !.at = "done",
                                        !.outcome = "refused"])
            /\ UNCHANGED est
    /\ UNCHANGED <<now, session, announced, password, epoch, cred, changing>>

\* login reserves its slot and asks for the verification in one step.
Login(r, p) ==
    /\ Quiet /\ request[r].at = "new" /\ Mode = "local"
    /\ LET asked == [NoRequest EXCEPT !.kind = "login", !.given = p] IN
       \/ /\ password # NoPassword /\ LocalRoom /\ Room
          /\ Submit(r, [asked EXCEPT !.at = "queued"])
          /\ est' = Append(est, r) /\ cred' = Append(cred, r)
       \/ \* no credential yet, no room, or the rate limiter says no
          /\ Submit(r, [asked EXCEPT !.at = "done", !.outcome = "refused"])
          /\ UNCHANGED <<est, cred>>
    /\ UNCHANGED <<now, session, announced, password, epoch, changing>>

Setup(r, p) ==
    /\ Quiet /\ request[r].at = "new" /\ Mode = "local"
    /\ LET asked == [NoRequest EXCEPT !.kind = "setup", !.given = p] IN
       \/ /\ password = NoPassword /\ LocalRoom /\ Room
          /\ Submit(r, [asked EXCEPT !.at = "queued"])
          /\ est' = Append(est, r)
       \/ /\ Submit(r, [asked EXCEPT !.at = "done", !.outcome = "refused"])
          /\ UNCHANGED est
    /\ UNCHANGED <<now, session, announced, password, epoch, cred, changing>>

MayChange == ~changing

ChangePassword(r, id, p, q) ==
    /\ Quiet /\ request[r].at = "new" /\ Mode = "local"
    /\ LET asked == [NoRequest EXCEPT !.kind = "change", !.given = p, !.next = q, !.id = id] IN
       \/ /\ MayChange /\ Found(id)
          /\ Submit(r, [asked EXCEPT !.at = "verifying"])
          /\ cred' = Append(cred, r) /\ changing' = TRUE
          /\ UNCHANGED <<session, announced>>
       \/ /\ ~(MayChange /\ Found(id))
          /\ Submit(r, [asked EXCEPT !.at = "done", !.outcome = "refused"])
          /\ IF MayChange THEN Revoke(Lapsed(id)) ELSE UNCHANGED <<session, announced>>
          /\ UNCHANGED <<cred, changing>>
    /\ UNCHANGED <<now, password, epoch, est>>

\* authenticateCookie, authenticateAuthority, isActiveAuthority, verifyCsrf:
\* a session found expired is revoked, another one is as it was.
FindExpired(id) ==
    /\ Quiet /\ Lapsed(id) # {}
    /\ Revoke(Lapsed(id))
    /\ UNCHANGED <<now, password, epoch, est, cred, request, changing>>

Update(id, s) ==
    /\ Quiet /\ Found(id)
    /\ session' = [session EXCEPT ![id] = s]
    /\ UNCHANGED <<now, announced, password, epoch, est, cred, request, changing>>

\* touch and touchAuthority
Touch(id) ==
    /\ Found(id)
    /\ Update(id, [session[id] EXCEPT !.seen = now,
                                      !.idle = Minimum(session[id].absolute, now + Idle)])

Later(s, up) == up > now /\ up > s.upstream

\* refresh by a later assertion of the same upstream identity
Refresh(id, up) ==
    /\ Upstream /\ Found(id) /\ up # NoExpiry
    /\ session[id].upstream # NoExpiry => Later(session[id], up)
    /\ Update(id, [session[id] EXCEPT !.upstream = up])

\* resume issues a new token.
Resume(id) ==
    /\ Found(id) /\ session[id].csrf < MaxCsrf
    /\ Update(id, [session[id] EXCEPT !.csrf = @ + 1])

Logout(id) ==
    /\ Quiet /\ id \in Present
    /\ Revoke({id})
    /\ UNCHANGED <<now, password, epoch, est, cred, request, changing>>

SweepExpired ==
    /\ Quiet /\ \E a \in Present : Expired(session[a])
    /\ Revoke({a \in Present : Expired(session[a])})
    /\ UNCHANGED <<now, password, epoch, est, cred, request, changing>>

Tick ==
    /\ Quiet /\ now < MaxNow /\ now' = now + 1
    /\ UNCHANGED <<session, announced, password, epoch, est, cred, request, changing>>

-----------------------------------------------------------------------------
Continue ==
    \/ RunBootstrap \/ FinishLogin \/ BeginSetup \/ FinishSetup
    \/ \E r \in Requests : VerifiedChange(r) \/ ReplacedPassword(r)

Complete == Verify \/ Enroll \/ Replace

Call(r) ==
    \/ Bootstrap(r)
    \/ \E p \in Passwords : Login(r, p) \/ Setup(r, p)
    \/ \E id \in Ids, p, q \in Passwords : ChangePassword(r, id, p, q)

Use(id) == FindExpired(id) \/ Touch(id) \/ Resume(id) \/ Logout(id)
           \/ \E up \in Expiries : Refresh(id, up)

Next ==
    \/ Continue \/ Complete
    \/ \E r \in Requests : Call(r)
    \/ \E id \in Ids : Use(id)
    \/ SweepExpired \/ Tick

Spec == Init /\ [][Next]_vars

-----------------------------------------------------------------------------
SessionRecord ==
    [created : Nat, seen : Nat, idle : Nat, absolute : Nat, upstream : Nat \cup {NoExpiry},
     csrf : Nat, epoch : Nat]

RequestRecord ==
    [kind : {"none", "bootstrap", "login", "setup", "change"},
     at : {"new", "queued", "enrolling", "verifying", "replacing", "done"},
     given : Passwords \cup {NoPassword}, next : Passwords \cup {NoPassword},
     id : Ids \cup {"none"}, verdict : {"none", "valid", "invalid", "failed"},
     epoch : Nat, outcome : {"none", "refused", "failed", "established", "changed"}]

\* Type correctness; sessions are finitely many.
TypeOK ==
    /\ now \in Nat /\ announced \subseteq Ids
    /\ Present \subseteq Ids /\ IsFiniteSet(Present)
    /\ \A a \in Present : session[a] \in SessionRecord
    /\ password \in Passwords \cup {NoPassword} /\ epoch \in Nat
    /\ est \in Seq(Requests) /\ cred \in Seq(Requests) /\ changing \in BOOLEAN
    /\ request \in [Requests -> RequestRecord]

In(chain, r) == \E i \in 1..Len(chain) : chain[i] = r
Distinct(chain) == \A i, j \in 1..Len(chain) : chain[i] = chain[j] => i = j

\* Where a request is, by its state
WellPlaced(r) ==
    LET q == request[r]
        asks == \/ q.at \in {"enrolling", "verifying", "replacing"}
                \/ q.at = "queued" /\ q.kind = "login"
    IN /\ In(est, r) <=> q.at \in {"queued", "enrolling"}
       /\ In(cred, r) <=> asks /\ ~Answered(r)
       /\ Answered(r) => asks
       /\ q.at = "queued" => q.kind \in {"bootstrap", "login", "setup"}
       /\ q.at = "enrolling" => q.kind = "setup"
       /\ q.at \in {"verifying", "replacing"} => q.kind = "change" /\ q.next \in Passwords
       /\ q.kind = "setup" => q.given \in Passwords

\* A request is in the establishment chain while it is queued or enrols, and in
\* the credential chain while it waits for an answer of the store; in neither twice.
PlaceTellsState ==
    Distinct(est) /\ Distinct(cred) /\ \A r \in Requests : WellPlaced(r)

LoginWaits(r) == request[r].kind = "login" /\ ~Answered(r)

\* Logins are answered in the order in which they will be established, and only
\* the first of the establishments enrols.
ChainsAgree ==
    /\ \A j \in 1..Len(est) : request[est[j]].at = "enrolling" => j = 1
    /\ \A i, j \in 1..Len(est) :
          i < j /\ LoginWaits(est[i]) /\ request[est[j]].kind = "login" =>
             /\ ~Answered(est[j])
             /\ \A k, l \in 1..Len(cred) : cred[k] = est[i] /\ cred[l] = est[j] => k < l

Changes(r) == request[r].at \in {"verifying", "replacing"}

\* passwordChangeActive admits one change at a time.
OneChange ==
    /\ \A r \in Requests : Changes(r) => changing
    /\ \A r, o \in Requests : Changes(r) /\ Changes(o) => r = o

\* Setups wait only with setups and bootstraps: whoever logs in or changes the
\* password finds that they have all run.
SetupsAreAlone ==
    \A r \in Pending : request[r].kind = "setup" =>
        ~changing /\ \A o \in Pending : request[o].kind # "login"

\* Setups that enrolled
Enrolled == {r \in Requests : /\ request[r].kind = "setup"
                              /\ request[r].outcome = "established" \/ request[r].verdict = "valid"}

\* Before a password is set nobody logs in or changes it, and no local session
\* is open; the setup that set it stays the only one.
EnrolmentComesFirst ==
    /\ password = NoPassword =>
          /\ ~changing /\ Enrolled = {}
          /\ Mode = "local" => Present = {}
          /\ \A r \in Pending : request[r].kind # "login"
    /\ \A r, o \in Enrolled : r = o

\* A verdict that was not acted on yet is about the password of now, and a
\* change that waits for its replacement knows that password.
AnswersAreCurrent ==
    \A r \in Requests :
        LET q == request[r] IN
        /\ Answered(r) => q.epoch = epoch
        /\ q.at = "verifying" /\ q.verdict = "valid" => q.given = password
        /\ q.at = "replacing" /\ ~Answered(r) => q.given = password

\* A session of an older password is there only between the replacement of the
\* password and the continuation that revokes all.
SessionsAreCurrent ==
    Mode = "local" =>
        \/ \A a \in Present : session[a].epoch = epoch
        \/ \E r \in Requests : request[r].at = "replacing" /\ request[r].verdict = "valid"

\* A session is touched until its idle time at most, and its absolute time
\* counts from its creation.
TimesAreKept ==
    \A a \in Present :
        /\ session[a].idle <= session[a].seen + Idle
        /\ session[a].absolute = session[a].created + Absolute

\* The inductive invariant of the service.
IInv ==
    /\ TypeOK /\ PlaceTellsState /\ ChainsAgree /\ OneChange /\ SetupsAreAlone
    /\ EnrolmentComesFirst /\ AnswersAreCurrent /\ SessionsAreCurrent /\ TimesAreKept

\* A password change ends every session that was opened with the password
\* before: also the one of a login that was being verified while the password
\* was replaced, and no such login opens a session afterwards.
OldPasswordHasNoSession ==
    Quiet /\ Mode = "local" => \A a \in Present : session[a].epoch = epoch

\* Of several first-run setups one alone enrols and gets a session.
OneEnrolment ==
    Cardinality({r \in Requests : request[r].kind = "setup"
                    /\ request[r].outcome = "established"}) <= 1

\* A password, once set, is replaced by a password change only, and by one
\* whose caller proved to know that very password: no other change comes
\* between its verification and its replacement.
ChangeReplacesVerified ==
    password # NoPassword /\ password' # password =>
       LET r == Head(cred) IN request[r].kind = "change" /\ request[r].given = password

\* There are never more sessions than the capacity, however many
\* establishments were waiting together.
WithinCapacity == Cardinality(Present) <= MaxSessions

\* Nobody has a session who should not: not with an old password, not by a second
\* enrolment, not beyond the capacity, whatever overlapped.
ServiceIsSafe == IInv /\ OldPasswordHasNoSession /\ OneEnrolment /\ WithinCapacity

\* The end of every session is announced, also of one that made room for
\* another or was found expired while another was committed: its sockets depend on it.
EveryEndIsAnnounced ==
    announced' = announced \cup (Present \ DOMAIN session')

\* However often it is touched or refreshed, a session is not used once it has
\* been idle for the idle duration or as old as the absolute one.
LifetimeIsBounded ==
    \A a \in Present \cap DOMAIN session' : session'[a] # session[a] =>
       /\ now < session[a].created + Absolute
       /\ now < session[a].seen + Idle
       /\ session[a].upstream \in Nat =>
             now < session[a].upstream
             /\ session'[a].upstream >= session[a].upstream

\* The three of them
EndsOnTime == ChangeReplacesVerified /\ EveryEndIsAnnounced /\ LifetimeIsBounded

\* A password is replaced only by a change whose caller proved to know it, every
\* end of a session is announced to its sockets, and no session is used beyond its
\* idle, absolute or upstream time.
SessionsEndOnTime == [][EndsOnTime]_vars

=============================================================================
