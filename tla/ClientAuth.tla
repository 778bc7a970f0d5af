----------------------------- MODULE ClientAuth -----------------------------
(***************************************************************************)
(* The browser's authentication state: useAuth.ts, and the part of         *)
(* AuthenticatedRoot.tsx that loads the configuration once per             *)
(* authenticated epoch.  Operations (bootstrap, login, setup, logout,      *)
(* password change, refresh) replace one another; their answers, and those *)
(* of private requests, may arrive after they were replaced or after the   *)
(* epoch they were sent in has ended.                                      *)
(*                                                                         *)
(* An AbortController is its operation, and is aborted when operationRef   *)
(* no longer names it; the controller of private requests is its epoch.  A *)
(* request sent with several signals is aborted when one of them is        *)
(* (composeAbortSignals).  State set by a handler and the effects it       *)
(* causes are one step.  Error texts are left out.                         *)
(***************************************************************************)
EXTENDS Naturals, FiniteSets

CONSTANTS Ops,          \* operations in flight
          None,         \* null
          MaxEpochs     \* bound: authenticated epochs

MaxEpochsAssumption == MaxEpochs \in Nat \ {0}

VARIABLES
    mode,       \* "local", or "upstream" for the two modes with a refresh
    auth,       \* the hook's refs and state
    flight,     \* what each operation in flight waits for, or None
    requests,   \* private requests in flight, with their epoch
    loaded,     \* AuthenticatedRoot: the epoch of the configuration, and whether it has one
    hidden      \* the page was put away (pagehide)

clientVars == <<mode, auth, flight, requests, loaded, hidden>>

\* What an AuthBootstrap says: set-up required, nobody signed in, or somebody.
Bootstraps == {"setup", "anonymous", "session"}
Busies == {"login", "setup", "recover", "logout", "password"}
Kinds == Busies \cup {"bootstrap", "refresh"}

NoneAssumption == None \notin Ops \cup Bootstraps \cup Kinds

Current(o) == auth.operation = o
Authenticated == auth.boot = "session"
SignedOut == IF mode = "local" THEN "unauthenticated" ELSE "access-error"

ClientInit ==
    /\ mode \in {"local", "upstream"}
    /\ \E o \in Ops :
           /\ flight = [p \in Ops |-> IF p = o THEN "bootstrap" ELSE None]
           /\ auth = [status |-> "loading", boot |-> None, busy |-> FALSE, epoch |-> 0,
                      operation |-> o, private |-> 0, timer |-> FALSE]
    /\ requests = {} /\ loaded = [epoch |-> 0, ok |-> FALSE] /\ hidden = FALSE

-----------------------------------------------------------------------------
\* publish, and the refresh effect that follows
Publish(a, next) ==
    LET continues == a.boot = "session" /\ next = "session"
        b == [a EXCEPT !.boot = next]
    IN IF continues THEN [b EXCEPT !.status = "authenticated", !.timer = mode = "upstream"]
       ELSE IF next = "session"
       THEN [b EXCEPT !.status = "authenticated", !.timer = mode = "upstream",
                      !.epoch = @ + 1, !.private = a.epoch + 1]
       ELSE [b EXCEPT !.status = SignedOut, !.timer = FALSE, !.private = 0]

EndEpoch(a) ==
    [a EXCEPT !.timer = FALSE, !.operation = None, !.private = 0, !.boot = None,
              !.busy = FALSE, !.status = SignedOut]

\* authenticationRequired
AuthenticationRequired(a) == IF a.boot = None THEN a ELSE EndEpoch(a)

\* The finally block of an operation
Finish(a, o) ==
    IF a.operation # o THEN a
    ELSE [a EXCEPT !.operation = None, !.busy = IF flight[o] \in Busies THEN FALSE ELSE @]

\* The configuration effect sends its request in every new epoch.
Load(a) == IF a.epoch = auth.epoch THEN {} ELSE {[epoch |-> a.epoch, kind |-> "config"]}

-----------------------------------------------------------------------------
(***************************************************************************)
(* Operations begin.  The forms and the buttons are disabled while busy.   *)
(***************************************************************************)
\* replaceOperation
Begin(o, kind, a) ==
    /\ flight[o] = None /\ ~hidden
    /\ flight' = [flight EXCEPT ![o] = kind]
    /\ auth' = [a EXCEPT !.operation = o]
    /\ UNCHANGED <<mode, requests, loaded, hidden>>

\* retry, on the screen of an access error
Retry(o) ==
    /\ auth.status = "access-error"
    /\ Begin(o, "bootstrap", [auth EXCEPT !.status = "loading", !.busy = FALSE])

Login(o) ==
    /\ auth.status = "unauthenticated" /\ ~auth.busy
    /\ Begin(o, "login", [auth EXCEPT !.busy = TRUE])

Setup(o) ==
    /\ auth.status = "unauthenticated" /\ auth.boot = "setup" /\ ~auth.busy
    /\ Begin(o, "setup", [auth EXCEPT !.busy = TRUE])

Logout(o) ==
    /\ Authenticated /\ ~auth.busy
    /\ Begin(o, "logout", [auth EXCEPT !.busy = TRUE, !.timer = FALSE])

ChangePassword(o) ==
    /\ Authenticated /\ ~auth.busy
    /\ Begin(o, "password", [auth EXCEPT !.busy = TRUE, !.timer = FALSE])

RefreshTimer(o) ==
    /\ auth.timer
    /\ Begin(o, "refresh", [auth EXCEPT !.timer = FALSE])

-----------------------------------------------------------------------------
(***************************************************************************)
(* Answers.  Each handler looks whether its operation is still the         *)
(* current one; what follows for the state is After.                       *)
(***************************************************************************)
\* Mutant: whoever answers is listened to.
IsCurrentAlways(o) == TRUE

IsCurrentOperation(o) == Current(o)

\* A logout or password change that failed: refreshRevision runs the effect again.
Kept(a) == [a EXCEPT !.timer = mode = "upstream" /\ a.boot = "session"]

Answers(kind) ==
    CASE kind \in {"bootstrap", "recover"} -> Bootstraps \cup {"failed"}
      [] kind = "login" -> {"session", "failed"}
      [] kind = "setup" -> {"session", "refused"}
      [] kind \in {"logout", "password"} -> {"done", "unauthorized", "failed"}
      [] kind = "refresh" -> {"session", "inconsistent", "failed"}

BootstrapAnswered(answer) ==
    IF answer = "failed" THEN [auth EXCEPT !.boot = None, !.status = "access-error"]
    ELSE Publish(auth, answer)

LoginAnswered(answer) == IF answer = "failed" THEN auth ELSE Publish(auth, answer)

\* setup, or the second look that follows an unclear answer
SetupAnswered(answer) == IF answer \in {"refused", "failed"} THEN auth ELSE Publish(auth, answer)

\* logout and changePassword
EndAnswered(answer) == IF answer = "failed" THEN Kept(auth) ELSE AuthenticationRequired(auth)

RefreshAnswered(answer) ==
    IF answer = "session" THEN Publish(auth, answer) ELSE AuthenticationRequired(auth)

After(kind, answer) ==
    CASE kind = "bootstrap" -> BootstrapAnswered(answer)
      [] kind = "login" -> LoginAnswered(answer)
      [] kind \in {"setup", "recover"} -> SetupAnswered(answer)
      [] kind \in {"logout", "password"} -> EndAnswered(answer)
      [] kind = "refresh" -> RefreshAnswered(answer)

Answer(o, answer) ==
    LET a == Finish(IF IsCurrentOperation(o) THEN After(flight[o], answer) ELSE auth, o)
    IN /\ flight[o] # None /\ answer \in Answers(flight[o])
       /\ a.epoch <= MaxEpochs
       /\ auth' = a /\ requests' = requests \cup Load(a)
       /\ flight' = [flight EXCEPT ![o] = None]
       /\ UNCHANGED <<mode, loaded, hidden>>

\* setup failed in a way that leaves open whether it was done: look again
SetupUnclear(o) ==
    /\ flight[o] = "setup"
    /\ IF IsCurrentOperation(o)
       THEN flight' = [flight EXCEPT ![o] = "recover"] /\ auth' = auth
       ELSE flight' = [flight EXCEPT ![o] = None] /\ auth' = Finish(auth, o)
    /\ UNCHANGED <<mode, requests, loaded, hidden>>

-----------------------------------------------------------------------------
(***************************************************************************)
(* Private requests.                                                       *)
(***************************************************************************)
\* privateFetch: refused without an epoch
Fetch ==
    /\ Authenticated /\ auth.private # 0 /\ ~hidden
    /\ requests' = requests \cup {[epoch |-> auth.private, kind |-> "other"]}
    /\ UNCHANGED <<mode, auth, flight, loaded, hidden>>

\* The composed signal is not aborted, and privateRef is still the same.
OfThisEpoch(r) == auth.private = r.epoch

\* A 401 ends the epoch; the caller of the configuration takes it as a failure.
PrivateAnswer(r, answer) ==
    /\ r \in requests /\ requests' = requests \ {r}
    /\ auth' = IF answer = "unauthorized" /\ OfThisEpoch(r) THEN AuthenticationRequired(auth) ELSE auth
    /\ loaded' = IF r.kind = "config" /\ OfThisEpoch(r)
                 THEN [epoch |-> r.epoch, ok |-> answer = "ok"] ELSE loaded
    /\ UNCHANGED <<mode, flight, hidden>>

-----------------------------------------------------------------------------
(***************************************************************************)
(* The page is put away and, from the browser's cache, shown again.        *)
(***************************************************************************)
\* Mutant: the hidden page remembers who was signed in.
PutAwayRemembers(a) ==
    [a EXCEPT !.timer = FALSE, !.operation = None, !.private = 0, !.busy = FALSE,
              !.status = "loading"]

PutAway(a) ==
    [a EXCEPT !.timer = FALSE, !.operation = None, !.private = 0, !.boot = None, !.busy = FALSE,
              !.status = "loading"]

PageHide ==
    /\ ~hidden /\ hidden' = TRUE
    /\ auth' = PutAway(auth)
    /\ UNCHANGED <<mode, flight, requests, loaded>>

PageShow(o) ==
    /\ hidden /\ hidden' = FALSE
    /\ flight[o] = None /\ flight' = [flight EXCEPT ![o] = "bootstrap"]
    /\ auth' = [auth EXCEPT !.operation = o, !.status = "loading", !.busy = FALSE]
    /\ UNCHANGED <<mode, requests, loaded>>

-----------------------------------------------------------------------------
AnyAnswer(o) == SetupUnclear(o) \/ \E answer \in Answers(flight[o]) : Answer(o, answer)
AnyPrivate(r) == \E answer \in {"ok", "unauthorized", "failed"} : PrivateAnswer(r, answer)

ClientNext ==
    \/ \E o \in Ops : \/ Retry(o) \/ Login(o) \/ Setup(o) \/ Logout(o) \/ ChangePassword(o)
                      \/ RefreshTimer(o) \/ PageShow(o)
                      \/ flight[o] # None /\ AnyAnswer(o)
    \/ \E r \in requests : AnyPrivate(r)
    \/ Fetch \/ PageHide

ClientSpec == ClientInit /\ [][ClientNext]_clientVars

-----------------------------------------------------------------------------
(***************************************************************************)
(* Properties.                                                             *)
(***************************************************************************)
\* Type correctness; operationRef names an operation in flight.
ClientTypeOK ==
    /\ mode \in {"local", "upstream"} /\ hidden \in BOOLEAN
    /\ auth \in [status : {"loading", "unauthenticated", "authenticated", "access-error"},
                 boot : Bootstraps \cup {None}, busy : BOOLEAN, epoch : 0..MaxEpochs,
                 operation : Ops \cup {None}, private : 0..MaxEpochs, timer : BOOLEAN]
    /\ flight \in [Ops -> Kinds \cup {None}]
    /\ auth.operation # None => flight[auth.operation] # None
    /\ requests \subseteq [epoch : 1..auth.epoch, kind : {"config", "other"}]
    /\ loaded \in [epoch : 0..auth.epoch, ok : BOOLEAN]

\* The workspace is shown exactly while private requests are allowed, and they
\* belong to the epoch the workspace was made for.
WorkspaceIsAuthorized ==
    /\ (auth.status = "authenticated") <=> (auth.private # 0)
    /\ Authenticated <=> auth.private # 0
    /\ auth.private # 0 => auth.private = auth.epoch

\* The forms are disabled exactly while an operation of theirs is the current
\* one: an interrupted operation never leaves them disabled.
BusyIsExplained ==
    auth.busy <=> auth.operation # None /\ flight[auth.operation] \in Busies

\* An epoch that must be renewed has a timer or an operation that ends in one.
RefreshIsScheduled ==
    mode = "upstream" /\ Authenticated => auth.timer \/ auth.operation # None

\* The current operation fits what the page shows, and the timer of the refresh
\* runs only in an epoch that nothing is about to end.
OperationFitsPage ==
    /\ auth.operation # None =>
          /\ flight[auth.operation] = "bootstrap" => auth.status = "loading"
          /\ flight[auth.operation] \in {"login", "setup", "recover"} =>
                auth.status = "unauthenticated"
    /\ auth.timer => Authenticated /\ auth.operation = None

\* A page that is put away, perhaps to be shown to somebody else, keeps neither a
\* session nor an operation whose answer could bring one.
HiddenIsSignedOut == hidden => ~Authenticated /\ auth.operation = None

\* The inductive invariant of useAuth: what the page shows, what it may ask for
\* and what it waits for agree, whichever operation was replaced or interrupted.
AuthorityIsShown ==
    /\ ClientTypeOK /\ WorkspaceIsAuthorized /\ BusyIsExplained /\ RefreshIsScheduled
    /\ OperationFitsPage /\ HiddenIsSignedOut

\* The answer to an operation that was replaced or aborted changes nothing.
ReplacedIsIgnored ==
    \A o \in Ops : ~Current(o) /\ flight[o] # None /\ flight'[o] = None =>
        auth' = auth /\ requests' = requests

\* The answer to a private request of an epoch that has ended changes nothing:
\* its 401 does not sign out the next user, its configuration is not used.
OldEpochIsSilent ==
    \A r \in requests \ requests' :
        r.epoch # auth.private => auth' = auth /\ loaded' = loaded

\* What was replaced, aborted or outlived by its epoch has no effect any more.
SupersededIsIgnored == [][ReplacedIsIgnored /\ OldEpochIsSilent]_clientVars

=============================================================================
