--------------------------- MODULE MCServerState ----------------------------
(***************************************************************************)
(* Small instances of what the server keeps for its users: the settings    *)
(* store over SecureJsonFile and the activity tracker, whose modules are   *)
(* extended, the credential store over the same file, and the check of     *)
(* what the stores write.  Every behaviour is one of one component, named  *)
(* by part, and the extended ones rest in the others': the components      *)
(* share no state.                                                         *)
(***************************************************************************)
EXTENDS SettingsStore, ActivityTracker, TLC

CONSTANTS k1, p1, p2, Another,   \* a login, passwords
          x, y, Inexpressible,   \* values to be serialised
          t1, t2

VARIABLE part   \* the component a behaviour is of

VARIABLES recordVersions, recordHostile, recordTemp, recordLitter, recordFile,
          recordPhase, record, hashing, recordQueue, request, recordStatus

Credentials == INSTANCE CredentialStore WITH
    Checks <- {k1}, Passwords <- {p1, p2}, versions <- recordVersions,
    hostile <- recordHostile, temp <- recordTemp, litter <- recordLitter,
    file <- recordFile, startup <- recordPhase, operations <- recordQueue, reply <- recordStatus

credentialsVars == <<recordVersions, recordHostile, recordTemp, recordLitter, recordFile,
    recordPhase, record, hashing, recordQueue, request, recordStatus>>

VARIABLES children, isArray, work, ancestors, count, outcome

Preflight == INSTANCE Preflight WITH
    Containers <- {x, y}, Root <- x, Texts <- {<<"high", "low", "high">>, <<"plain">>},
    MaxChildren <- 2, KeyBytes <- 3, MaxNodes <- 6, MaxDepth <- 2, MaxKeys <- 7,
    MaxBytes <- 58

preflightVars == <<children, isArray, work, ancestors, count, outcome>>

ASSUME InstancesAssumption ==
    /\ SizeAssumption /\ SettingsAssumption /\ CallsAssumption
    /\ Credentials!RecordsAssumption /\ Credentials!ChecksAssumption
    /\ Preflight!RootAssumption /\ Preflight!LimitsAssumption
    /\ MaxTrackedAssumption /\ MaxMarksAssumption

suiteVars == <<part, vars, credentialsVars, preflightVars, activityVars>>

-----------------------------------------------------------------------------
\* What another component owns is not there.
Absent == "absent"

CredentialsAbsent ==
    /\ recordVersions = Absent /\ recordHostile = Absent /\ recordTemp = Absent
    /\ recordLitter = Absent /\ recordFile = Absent /\ recordPhase = Absent
    /\ record = Absent /\ hashing = Absent /\ recordQueue = Absent
    /\ request = Absent /\ recordStatus = Absent

PreflightAbsent ==
    /\ children = Absent /\ isArray = Absent /\ work = Absent /\ ancestors = Absent
    /\ count = Absent /\ outcome = Absent

\* The settings store and the tracker in the behaviours of the others
SettingsRest == Init /\ Newest.doc = None
ActivityRests == ActivityInit /\ seen.tab = t1

SuiteInit ==
    \/ part = "settings" /\ Init /\ CredentialsAbsent /\ PreflightAbsent /\ ActivityRests
    \/ /\ part = "credentials" /\ Credentials!CredentialInit /\ SettingsRest
       /\ PreflightAbsent /\ ActivityRests
    \/ /\ part = "preflight" /\ Preflight!Init /\ SettingsRest /\ CredentialsAbsent
       /\ ActivityRests
    \/ /\ part = "activity" /\ ActivityInit /\ SettingsRest /\ CredentialsAbsent
       /\ PreflightAbsent

\* Where it may stop: the value was judged.
Ended == part = "preflight" /\ outcome # "running"

SuiteNext ==
    \/ part = "settings" /\ Next /\ UNCHANGED <<part, credentialsVars, preflightVars, activityVars>>
    \/ part = "credentials" /\ Credentials!CredentialNext /\ UNCHANGED <<part, vars, preflightVars, activityVars>>
    \/ part = "preflight" /\ Preflight!Next /\ UNCHANGED <<part, vars, credentialsVars, activityVars>>
    \/ part = "activity" /\ ActivityNext /\ UNCHANGED <<part, vars, credentialsVars, preflightVars>>
    \/ Ended /\ UNCHANGED suiteVars

SuiteSpec == SuiteInit /\ [][SuiteNext]_suiteVars

Alike == Permutations(Calls) \cup Permutations({p1, p2}) \cup Permutations({t1, t2})

-----------------------------------------------------------------------------
\* The steps of the two stores: SettingsStore becomes ready only by a sync that
\* makes up for what was uncertain, leaves no temporary file behind a polite failure
\* and keeps a hostile target; CredentialStore implements AnsweredFile, enrols once
\* and verifies the newest password.
StepsAreDeliberate ==
    /\ part = "credentials" => Credentials!PromisedInit
    /\ [](part = "credentials" => Credentials!CredentialIInv)
    /\ [][/\ StepsAreCareful
          /\ part = "credentials" =>
                Credentials!PromisedStep /\ Credentials!ClaimsAreCareful]_suiteVars

\* preflightJson accepts exactly the values that serialise within the limits,
\* and counts their bytes right.
AcceptsExactly ==
    part = "preflight" => Preflight!AcceptsExactly /\ Preflight!CountIsLength

=============================================================================
