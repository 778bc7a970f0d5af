---------------------------- MODULE AuthRequests ----------------------------
(***************************************************************************)
(* The authenticated HTTP requests: the middleware (auth-middleware.ts),   *)
(* the authentication routes (auth-routes.ts) and the bootstrap of the     *)
(* workspace (workspace-bootstrap.ts), with the sessions of the            *)
(* authentication service and the cookie jars of the browsers around them. *)
(*                                                                         *)
(* A request pauses while its identity is verified, while a session is     *)
(* established, while its body arrives and while the workspace is          *)
(* prepared.  In each pause its session may expire or be revoked, and      *)
(* other requests of the same browser may go first.  AuthService has the   *)
(* inside of the establishment; here it is one step that may fail.         *)
(***************************************************************************)
EXTENDS Naturals, FiniteSets, Sequences

CONSTANTS Messages, Browsers, Users,
          SessionIds,   \* identifiers of application sessions
          NoId,         \* no cookie
          MaxToken      \* bound on the tokens issued to a session

NoIdAssumption == NoId \notin SessionIds /\ MaxToken \in Nat \ {0}

VARIABLES
    sessions,  \* state, user and newest CSRF token of a session
    jar,       \* cookie, token and upstream user of a browser
    message,   \* what a request is, where it pauses, what it carries
    work,      \* chain of WorkspaceBootstrap
    handed     \* history: sessions whose cookie was sent to a browser

httpVars == <<sessions, jar, message, work, handed>>

MessageKinds == {"session", "login", "refresh", "logout", "other"}
Mutations == {"refresh", "logout", "other"}
NoMessage == [kind |-> "none", at |-> "new", browser |-> "none", cookie |-> NoId,
              token |-> 0, user |-> "none", found |-> NoId, answer |-> "none"]

HttpInit ==
    /\ sessions = [a \in SessionIds |-> [st |-> "none", user |-> "none", token |-> 0]]
    /\ \E u \in [Browsers -> Users] :
          jar = [b \in Browsers |-> [cookie |-> NoId, token |-> 0, user |-> u[b]]]
    /\ message = [r \in Messages |-> NoMessage]
    /\ work = <<>> /\ handed = {}

Live(a) == a \in SessionIds /\ sessions[a].st = "live"

-----------------------------------------------------------------------------
(***************************************************************************)
(* Authentication service.                                                 *)
(***************************************************************************)

\* authenticateCookie: nothing is found expired that was not live before.
AuthenticateCookie(a) == Live(a)

\* identityMatches
IdentityMatches(a, user) == sessions[a].user = user

\* A session ends: expiry, logout elsewhere, capacity, a password change.
Ended(a) == [sessions EXCEPT ![a].st = "gone"]

SessionEnds(a) ==
    /\ Live(a) /\ sessions' = Ended(a)
    /\ UNCHANGED <<jar, message, work, handed>>

\* resume: a new token for the session
Resumed(a) == [sessions EXCEPT ![a].token = @ + 1]

-----------------------------------------------------------------------------
Is(r, at) == message[r].at = at
Goto(r, at) == message' = [message EXCEPT ![r].at = at]

Respond(r, what, token) ==
    message' = [message EXCEPT ![r].at = "answered", ![r].answer = what, ![r].token = token]

\* A browser sends a request with what its jar holds.  resolveAuthentication
\* and requireAuthentication look the cookie up before they wait for the identity.
Send(r, b, kind) ==
    /\ Is(r, "new")
    /\ LET asked == [NoMessage EXCEPT !.kind = kind, !.browser = b, !.cookie = jar[b].cookie,
                                      !.token = jar[b].token, !.user = jar[b].user]
           known == AuthenticateCookie(jar[b].cookie)
       IN message' = [message EXCEPT ![r] =
            IF kind = "login" \/ (kind = "session" /\ ~known)
            THEN [asked EXCEPT !.at = "establishing"]
            ELSE IF known THEN [asked EXCEPT !.at = "resolving"]
            ELSE [asked EXCEPT !.at = "answered", !.answer = "rejected"]]
    /\ UNCHANGED <<sessions, jar, work, handed>>

\* resolveAuthentication once the identity is verified
Resolves(r) ==
    AuthenticateCookie(message[r].cookie) /\ IdentityMatches(message[r].cookie, message[r].user)

\* GET /auth/session: resume, or establish a session for the identity.
ResolvedSession(r) ==
    /\ Is(r, "resolving") /\ message[r].kind = "session"
    /\ \/ /\ Resolves(r) /\ sessions[message[r].cookie].token < MaxToken
          /\ sessions' = Resumed(message[r].cookie)
          /\ message' = [message EXCEPT ![r].at = "workspace", ![r].found = message[r].cookie,
                                        ![r].token = sessions'[message[r].cookie].token]
          /\ work' = Append(work, r)
       \/ /\ ~Resolves(r)
          /\ Goto(r, "establishing")
          /\ UNCHANGED <<sessions, work>>
    /\ UNCHANGED <<jar, handed>>

\* verifyCsrf
VerifyCsrf(r) == sessions[message[r].cookie].token = message[r].token

\* requireAuthentication and requireMutationSecurity; then the body is read.
ResolvedMutation(r) ==
    /\ Is(r, "resolving") /\ message[r].kind \in Mutations
    /\ \/ Resolves(r) /\ VerifyCsrf(r) /\ Goto(r, "body")
       \/ ~(Resolves(r) /\ VerifyCsrf(r)) /\ Respond(r, "rejected", 0)
    /\ UNCHANGED <<sessions, jar, work, handed>>

\* Mutant: touchHttpActivity trusts the session found by the middleware.
MayHandleAlways(r) == TRUE

\* touchHttpActivity looks the session up for the third time.
MayHandle(r) ==
    AuthenticateCookie(message[r].cookie) /\ IdentityMatches(message[r].cookie, message[r].user)

\* The body has arrived: touch and the handler, without a pause.
Handle(r) ==
    /\ Is(r, "body") /\ MayHandle(r)
    /\ LET a == message[r].cookie IN
       \/ /\ message[r].kind = "refresh" /\ sessions[a].token < MaxToken
          /\ sessions' = Resumed(a)
          /\ Respond(r, "token", sessions'[a].token)
       \/ /\ message[r].kind = "logout"
          /\ sessions' = Ended(a)
          /\ Respond(r, "logged_out", 0)
       \/ /\ message[r].kind = "other"
          /\ Respond(r, "done", 0)
          /\ UNCHANGED sessions
    /\ UNCHANGED <<jar, work, handed>>

\* A body that cannot be parsed, or a session that ended meanwhile
RejectBody(r) ==
    /\ Is(r, "body") /\ Respond(r, "rejected", 0)
    /\ UNCHANGED <<sessions, jar, work, handed>>

\* bootstrap or login ends with a new session, or with none; publishBootstrap
\* begins.
SessionEstablished(r) ==
    /\ Is(r, "establishing")
    /\ \/ \E a \in {b \in SessionIds : sessions[b].st = "none"} :
             /\ sessions' = [sessions EXCEPT ![a] = [st |-> "live", user |-> message[r].user,
                                                   token |-> 1]]
             /\ message' = [message EXCEPT ![r].at = "workspace", ![r].found = a,
                                           ![r].token = 1]
             /\ work' = Append(work, r)
       \/ Respond(r, "rejected", 0) /\ UNCHANGED <<sessions, work>>
    /\ UNCHANGED <<jar, handed>>

\* Mutant: a session whose workspace cannot be prepared is left alone.
AbandonedNever(r) == {}

\* publishBootstrap logs out the session that it cannot hand over.
Abandoned(r) == {message[r].found} \ {message[r].cookie}

ChainGoesOn(ok) == TRUE

\* ensureForAuthenticatedSession at the head of its chain
Workspace(r, ok) ==
    /\ Is(r, "workspace") /\ work # <<>> /\ Head(work) = r
    /\ work' = IF ChainGoesOn(ok) THEN Tail(work) ELSE work
    /\ \/ /\ ok
          /\ Respond(r, "session", message[r].token)
          /\ handed' = handed \cup {message[r].found}
          /\ UNCHANGED sessions
       \/ /\ ~ok
          /\ sessions' = [a \in SessionIds |-> IF a \in Abandoned(r) THEN Ended(a)[a] ELSE sessions[a]]
          /\ Respond(r, "failed", 0)
          /\ UNCHANGED handed
    /\ UNCHANGED jar

\* The answer reaches the browser, or is lost on the way.
Deliver(r) ==
    /\ Is(r, "answered")
    /\ Goto(r, "done")
    /\ LET b == message[r].browser IN
       \/ /\ jar' = [jar EXCEPT ![b] =
               CASE message[r].answer = "session" ->
                      [@ EXCEPT !.cookie = message[r].found, !.token = message[r].token]
                 [] message[r].answer = "token" -> [@ EXCEPT !.token = message[r].token]
                 [] message[r].answer = "logged_out" -> [@ EXCEPT !.cookie = NoId]
                 [] OTHER -> @]
       \/ UNCHANGED jar
    /\ UNCHANGED <<sessions, work, handed>>

\* Another user stands behind the identity provider in this browser.
ChangeUser(b, u) ==
    /\ jar[b].user # u
    /\ jar' = [jar EXCEPT ![b].user = u]
    /\ UNCHANGED <<sessions, message, work, handed>>

-----------------------------------------------------------------------------
RequestStep(r) ==
    \/ ResolvedSession(r) \/ ResolvedMutation(r) \/ Handle(r) \/ RejectBody(r)
    \/ SessionEstablished(r) \/ (\E ok \in BOOLEAN : Workspace(r, ok)) \/ Deliver(r)

HttpNext ==
    \/ \E r \in Messages, b \in Browsers, k \in MessageKinds : Send(r, b, k)
    \/ \E r \in Messages : RequestStep(r)
    \/ \E a \in SessionIds : SessionEnds(a)
    \/ \E b \in Browsers, u \in Users : ChangeUser(b, u)

HttpSpec == HttpInit /\ [][HttpNext]_httpVars

-----------------------------------------------------------------------------
(***************************************************************************)
(* Properties.                                                             *)
(***************************************************************************)
Places == {"new", "resolving", "establishing", "body", "workspace", "answered", "done"}
Replies == {"none", "rejected", "failed", "session", "token", "logged_out", "done"}

\* Type correctness.
HttpTypeOK ==
    /\ sessions \in [SessionIds -> [st : {"none", "live", "gone"}, user : Users \cup {"none"},
                                    token : 0..MaxToken]]
    /\ jar \in [Browsers -> [cookie : SessionIds \cup {NoId}, token : 0..MaxToken, user : Users]]
    /\ message \in [Messages ->
          [kind : MessageKinds \cup {"none"}, at : Places, browser : Browsers \cup {"none"},
           cookie : SessionIds \cup {NoId}, token : 0..MaxToken, user : Users \cup {"none"},
           found : SessionIds \cup {NoId}, answer : Replies]]
    /\ work \in Seq(Messages) /\ handed \subseteq SessionIds

\* The chain of the bootstrap holds each request that waits for its workspace,
\* once, and such a request has a session to hand over.
ChainIsPending ==
    /\ \A r \in Messages :
          Is(r, "workspace") <=> \E i \in DOMAIN work : work[i] = r
    /\ \A i, j \in DOMAIN work : work[i] = work[j] => i = j
    /\ \A r \in Messages : Is(r, "workspace") => message[r].found \in SessionIds

\* A request is answered once, by the last of its steps.
AnswerComesLast ==
    \A r \in Messages : message[r].at \notin {"answered", "done"} => message[r].answer = "none"

\* Every cookie, in a jar or in a request, was handed over with an answer; so the
\* session that publishBootstrap leaves alone, the one of the cookie, is nobody's loss.
CookiesWereHanded ==
    /\ \A b \in Browsers : jar[b].cookie \in handed \cup {NoId}
    /\ \A r \in Messages :
          /\ message[r].cookie \in handed \cup {NoId}
          /\ message[r].answer = "session" => message[r].found \in handed

\* No session is forgotten: it was handed to its browser, or a request still
\* has to hand it over, or it is ended.  One that is lost here would occupy its place
\* until it expires.
SessionHasOwner ==
    \A a \in SessionIds : Live(a) /\ a \notin handed =>
        \E r \in Messages : Is(r, "workspace") /\ message[r].found = a

\* The inductive invariant of the requests: no session is forgotten between its
\* creation and the answer that hands it to its browser.
SessionsAreOwned ==
    HttpTypeOK /\ ChainIsPending /\ AnswerComesLast /\ CookiesWereHanded /\ SessionHasOwner

\* A handler runs only for a session that is live at that very moment and
\* belongs to the user behind the request, although the session was looked up before
\* the identity was verified and before the body was read.
HandlerHasAuthority ==
    \A r \in Messages : Is(r, "body") /\ message'[r].answer \in {"token", "logged_out", "done"}
       => Live(message[r].cookie) /\ sessions[message[r].cookie].user = message[r].user

\* GET /auth/session resumes nobody's session but the user's own live one.
ResumesOwnSession ==
    \A r \in Messages : Is(r, "resolving") /\ message'[r].at = "workspace" =>
       Live(message'[r].found) /\ sessions[message'[r].found].user = message[r].user

\* No request acts on a session that is not live and its user's own when it acts.
RequestsHaveAuthority == [][HandlerHasAuthority /\ ResumesOwnSession]_httpVars

=============================================================================
