----------------------------- MODULE GoogleSignIn ----------------------------
(***************************************************************************)
(* The OAuth token of a Google source, which three parties share through   *)
(* files: LocalGmailAuthorizationCoordinator (the Drive coordinator is the *)
(* same protocol), which installs the credentials of an OAuth client and   *)
(* runs the sign-in in a thread of the API process; the fetcher of the     *)
(* unattended collection, which refreshes the token; and the connector     *)
(* intake, which leaves a marker when Google refuses the token.  The       *)
(* marker keeps the collection away until somebody has signed in again.    *)
(*                                                                         *)
(* An action is one file operation or one answer of Google.  A token       *)
(* carries the client it was made for, so that it goes on working when     *)
(* the client is replaced.                                                 *)
(***************************************************************************)
EXTENDS Integers, FiniteSets

CONSTANTS
    Collectors,     \* processes that collect from the source
    MaxClients,     \* bound: credential files that get installed
    MaxGrants,      \* bound: consents given
    MaxExpiries,    \* bound: access tokens that expire
    MaxRevokes,     \* bound: grants that Google or the user withdraws
    MaxFaults,      \* bound: requests to Google that fail otherwise
    MaxCrashes      \* bound: deaths of a process

VARIABLES
    client,     \* the client whose credentials are installed, 0 for none
    token,      \* the token file
    marker,     \* the reauthorization marker file
    grants,     \* Google's side: the grants that are still good
    given,      \* how many have been given
    collector,  \* what each collector is doing
    signin,     \* the sign-in thread and the request that holds the lock
    expiries, revokes, faults, crashes,
    \* Observations
    refused,    \* grants that a collector has reported as refused
    mixed       \* a collector was at work on the token while credentials
                \* were installed, a sign-in ran or another collector worked,
                \* or the coordinator died between its two files

counters == <<expiries, revokes, faults, crashes>>
vars == <<client, token, marker, grants, given, collector, signin, counters,
          refused, mixed>>

Clients == 1..MaxClients
Grants == 1..MaxGrants
NoToken == [client |-> 0, grant |-> 0, fresh |-> FALSE]
Tokens == [client : Clients, grant : Grants, fresh : BOOLEAN] \cup {NoToken}

Away == [at |-> "idle", held |-> NoToken]
NoSignIn == [at |-> "idle", held |-> NoToken, force |-> FALSE]

TypeOK ==
    /\ client \in 0..MaxClients /\ token \in Tokens /\ marker \in BOOLEAN
    /\ given \in 0..MaxGrants /\ grants \subseteq 1..given
    /\ collector \in [Collectors ->
            [at : {"idle", "load", "refresh", "save", "clear", "collect",
                   "mark"}, held : Tokens]]
    /\ signin \in [at : {"idle", "install", "flag", "load", "refresh",
                         "consent", "save", "clear", "verify", "confirm",
                         "session"}, held : Tokens, force : BOOLEAN]
    /\ refused \subseteq Grants /\ mixed \in BOOLEAN

Init ==
    /\ client = 0 /\ token = NoToken /\ marker = FALSE
    /\ grants = {} /\ given = 0
    /\ collector = [c \in Collectors |-> Away]
    /\ signin = NoSignIn
    /\ expiries = 0 /\ revokes = 0 /\ faults = 0 /\ crashes = 0
    /\ refused = {} /\ mixed = FALSE

Working(c) == collector[c].at # "idle"
\* Whether the lock of the coordinator is free and no thread is alive.
Free == signin.at = "idle"
Mix == mixed' = (mixed \/ \E c \in Collectors : Working(c))

Sign(pc) == signin' = [signin EXCEPT !.at = pc]
Go(c, pc) == collector' = [collector EXCEPT ![c].at = pc]

---------------------------- (* the coordinator *) --------------------------

\* install_credentials: refused while a sign-in runs.
Install ==
    /\ Free /\ client < MaxClients
    /\ client' = client + 1
    /\ Sign("install")
    /\ Mix
    /\ UNCHANGED <<token, marker, grants, given, collector, counters, refused>>

\* Mutant: the marker is left to the next refusal.
TokenThere_Never == FALSE
TokenThere == token # NoToken

\* A token that exists belongs to the credentials before.
InstallMarks ==
    /\ signin.at = "install"
    /\ marker' = (marker \/ TokenThere)
    /\ signin' = NoSignIn
    /\ Mix
    /\ UNCHANGED <<client, token, grants, given, collector, counters, refused>>

Start ==
    /\ Free /\ client > 0
    /\ Sign("flag")
    /\ Mix
    /\ UNCHANGED <<client, token, marker, grants, given, collector, counters,
                   refused>>

\* Mutant: the sign-in is content with the token that is there.
Force_Never == FALSE
Force == marker

\* _run_authorization: the marker as it is when the thread starts.
ReadFlag ==
    /\ signin.at = "flag"
    /\ signin' = [signin EXCEPT !.force = Force, !.at = "load"]
    /\ UNCHANGED <<client, token, marker, grants, given, collector, counters,
                   refused, mixed>>

\* GmailFetcher._authenticate in the thread: a token that is there is used,
\* refreshed when it has expired; otherwise the user is asked.
LoadToSign ==
    /\ signin.at = "load"
    /\ IF signin.force \/ token = NoToken THEN Sign("consent")
       ELSE signin' = [signin EXCEPT
                !.held = token,
                !.at = IF token.fresh THEN "verify" ELSE "refresh"]
    /\ UNCHANGED <<client, token, marker, grants, given, collector, counters,
                   refused, mixed>>

RefreshToSign ==
    /\ signin.at = "refresh"
    /\ IF signin.held.grant \in grants
       THEN signin' = [signin EXCEPT !.held.fresh = TRUE, !.at = "save"]
       ELSE Sign("session")
    /\ UNCHANGED <<client, token, marker, grants, given, collector, counters,
                   refused, mixed>>

Consent ==
    /\ signin.at = "consent" /\ given < MaxGrants
    /\ given' = given + 1
    /\ grants' = grants \cup {given + 1}
    /\ signin' = [signin EXCEPT
            !.held = [client |-> client, grant |-> given + 1, fresh |-> TRUE],
            !.at = "save"]
    /\ UNCHANGED <<client, token, marker, collector, counters, refused, mixed>>

\* The user declines, or the browser never comes back and FAB is restarted.
Decline ==
    /\ signin.at = "consent"
    /\ Sign("session")
    /\ UNCHANGED <<client, token, marker, grants, given, collector, counters,
                   refused, mixed>>

\* GoogleOAuthTokenStore.save: the token is replaced, then the marker goes.
SaveToSign ==
    /\ signin.at = "save"
    /\ token' = signin.held
    /\ Sign("clear")
    /\ Mix
    /\ UNCHANGED <<client, marker, grants, given, collector, counters, refused>>

ClearToSign ==
    /\ signin.at = "clear"
    /\ marker' = FALSE
    /\ Sign("verify")
    /\ Mix
    /\ UNCHANGED <<client, token, grants, given, collector, counters, refused>>

\* authorize_gmail: the profile is read with the new service.
Verify ==
    /\ signin.at = "verify"
    /\ Sign(IF signin.held.grant \in grants THEN "confirm" ELSE "session")
    /\ UNCHANGED <<client, token, marker, grants, given, collector, counters,
                   refused, mixed>>

\* _run_authorization clears the marker once more when all went well.
Confirm ==
    /\ signin.at = "confirm"
    /\ marker' = FALSE
    /\ Sign("session")
    /\ Mix
    /\ UNCHANGED <<client, token, grants, given, collector, counters, refused>>

EndSignIn ==
    /\ signin.at = "session"
    /\ signin' = NoSignIn
    /\ UNCHANGED <<client, token, marker, grants, given, collector, counters,
                   refused, mixed>>

SignInFails ==
    /\ signin.at \in {"refresh", "consent", "verify"}
    /\ faults < MaxFaults /\ faults' = faults + 1
    /\ Sign("session")
    /\ UNCHANGED <<client, token, marker, grants, given, collector, expiries,
                   revokes, crashes, refused, mixed>>

---------------------------- (* the collection *) ---------------------------

\* Mutant: the plan does not look for the marker.
CanSync_Marked == client > 0 /\ token # NoToken
\* _source_plan: configured, and no reauthorization required.
CanSync == client > 0 /\ token # NoToken /\ ~ marker

Plan(c) ==
    /\ ~ Working(c) /\ CanSync
    /\ Go(c, "load")
    /\ mixed' = (mixed \/ ~ Free \/ \E d \in Collectors : Working(d))
    /\ UNCHANGED <<client, token, marker, grants, given, signin, counters,
                   refused>>

\* GmailFetcher._authenticate, not interactive.
Load(c) ==
    /\ collector[c].at = "load"
    /\ collector' = [collector EXCEPT
            ![c] = [held |-> token,
                    at |-> IF token.fresh THEN "collect" ELSE "refresh"]]
    /\ UNCHANGED <<client, token, marker, grants, given, signin, counters,
                   refused, mixed>>

Refresh(c) ==
    /\ collector[c].at = "refresh"
    /\ IF collector[c].held.grant \in grants
       THEN collector' = [collector EXCEPT ![c].held.fresh = TRUE,
                                           ![c].at = "save"]
       ELSE Go(c, "mark")
    /\ UNCHANGED <<client, token, marker, grants, given, signin, counters,
                   refused, mixed>>

Save(c) ==
    /\ collector[c].at = "save"
    /\ token' = collector[c].held
    /\ Go(c, "clear")
    /\ UNCHANGED <<client, marker, grants, given, signin, counters, refused,
                   mixed>>

Clear(c) ==
    /\ collector[c].at = "clear"
    /\ marker' = FALSE
    /\ Go(c, "collect")
    /\ UNCHANGED <<client, token, grants, given, signin, counters, refused,
                   mixed>>

\* A grant that was withdrawn is refused when the token is next renewed,
\* which Google's client does by itself.
Collect(c) ==
    /\ collector[c].at = "collect"
    /\ IF collector[c].held.grant \in grants
       THEN collector' = [collector EXCEPT ![c] = Away]
       ELSE Go(c, "mark")
    /\ UNCHANGED <<client, token, marker, grants, given, signin, counters,
                   refused, mixed>>

\* _mark_reauthorization_required after invalid_grant.
MarkRefused(c) ==
    /\ collector[c].at = "mark"
    /\ marker' = TRUE
    /\ refused' = refused \cup {collector[c].held.grant}
    /\ collector' = [collector EXCEPT ![c] = Away]
    /\ UNCHANGED <<client, token, grants, given, signin, counters, mixed>>

\* Any other failure: the source has failed, the token is left alone.
CollectFails(c) ==
    /\ collector[c].at \in {"refresh", "collect"}
    /\ faults < MaxFaults /\ faults' = faults + 1
    /\ collector' = [collector EXCEPT ![c] = Away]
    /\ UNCHANGED <<client, token, marker, grants, given, signin, expiries,
                   revokes, crashes, refused, mixed>>

------------------------------ (* the outside *) ----------------------------

Expire ==
    /\ token.fresh /\ expiries < MaxExpiries
    /\ expiries' = expiries + 1
    /\ token' = [token EXCEPT !.fresh = FALSE]
    /\ UNCHANGED <<client, marker, grants, given, collector, signin, revokes,
                   faults, crashes, refused, mixed>>

Revoke ==
    /\ revokes < MaxRevokes
    /\ revokes' = revokes + 1
    /\ \E g \in grants : grants' = grants \ {g}
    /\ UNCHANGED <<client, token, marker, given, collector, signin, expiries,
                   faults, crashes, refused, mixed>>

\* The API process dies with its thread.  Each file is replaced in one step,
\* but a death between two files leaves an installation without its marker,
\* or a new token under the old marker.
DieSigning ==
    /\ ~ Free /\ crashes < MaxCrashes
    /\ crashes' = crashes + 1
    /\ signin' = NoSignIn
    /\ mixed' = (mixed \/ signin.at \in {"install", "clear"})
    /\ UNCHANGED <<client, token, marker, grants, given, collector, expiries,
                   revokes, faults, refused>>

DieCollecting(c) ==
    /\ Working(c) /\ crashes < MaxCrashes
    /\ crashes' = crashes + 1
    /\ collector' = [collector EXCEPT ![c] = Away]
    /\ UNCHANGED <<client, token, marker, grants, given, signin, expiries,
                   revokes, faults, refused, mixed>>

Next ==
    \/ Install \/ InstallMarks \/ Start \/ ReadFlag \/ LoadToSign
    \/ RefreshToSign \/ Consent \/ Decline \/ SaveToSign \/ ClearToSign
    \/ Verify \/ Confirm \/ EndSignIn \/ SignInFails
    \/ \E c \in Collectors :
        \/ Plan(c) \/ Load(c) \/ Refresh(c) \/ Save(c) \/ Clear(c)
        \/ Collect(c) \/ MarkRefused(c) \/ CollectFails(c) \/ DieCollecting(c)
    \/ Expire \/ Revoke \/ DieSigning

Spec == Init /\ [][Next]_vars

-----------------------------------------------------------------------------
(* Properties *)

\* The marker means what it says.  Whenever nobody is at work, a token that
\* belongs to replaced credentials, or whose grant Google was seen to
\* refuse, is marked, so that no unattended run uses it; and a good token is
\* not, so that nobody is asked to sign in for nothing.  It holds for any
\* sequence of installations, sign-ins that succeed, fail, are declined or
\* die, expiries and refusals, as long as collections and the
\* coordinator do not overlap: a refresh that is under way while
\* credentials are replaced saves the old token and clears the marker.
MarkerMeansStale ==
    ~ mixed /\ Free /\ token # NoToken
            /\ (\A c \in Collectors : ~ Working(c)) =>
        (marker <=> token.client # client \/ token.grant \in refused)
=============================================================================
