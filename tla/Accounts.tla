------------------------------ MODULE Accounts ------------------------------
(***************************************************************************)
(* The owner's vendor accounts (Google, Microsoft, Notion): the one-use    *)
(* sign-in, the cached access token every client shares, the capability    *)
(* calls that carry it, and what a split of a repeating event leaves.      *)
(*                                                                         *)
(* One provider is followed.  A credential is the sign-in that stored it,  *)
(* 0 when there is none, the rotation it is at (Microsoft and Notion hand  *)
(* back a new refresh token) and the client configuration it was issued    *)
(* to.  Vendors answer, refuse or stay silent as they like.                *)
(***************************************************************************)
EXTENDS Integers, Sequences, FiniteSets, FiniteSetsExt, TLC

CONSTANTS
  AccountCalls,    \* capability calls
  CallTools,       \* tools they may name
  MaxSignIns,      \* bound on sign-ins
  MaxReconfigured, \* bound on changes of the OAuth client configuration
  MaxRotations,    \* bound on refresh token rotations
  AccountDeaths,   \* bound on restarts
  Horizon          \* occurrences of a repeating event that are followed

ASSUME AccountsAssumption == Horizon \in Nat \ {0} /\ MaxSignIns \in Nat /\ "none" \notin AccountCalls

VARIABLES
  config,          \* the OAuth client configuration
  signIns,         \* sign-ins offered so far
  attempt,         \* OAuthAttempt: ticket, browser bound, configuration
  credential,      \* the stored refresh token
  identity,        \* OAuthIdentity generation
  cached,          \* access token: its sign-in, fresh, or refused lately
  linking,         \* callback(), under the provider's lock
  leaving,         \* disconnect(), under the same lock
  tokenHolder,     \* who holds the token's lock
  client,          \* the live REST client: connected, admission epoch
  calls,           \* capability calls
  exchanged,       \* exchanges of the code of each ticket
  linked,          \* the sign-in of the last completed store or removal
  accountDeaths,
  series,          \* the repeating event: its rule and those split from it
  splitting        \* a change of this occurrence and the following ones

accountVars == <<config, signIns, attempt, credential, identity, cached, linking, leaving,
                 tokenHolder, client, calls, exchanged, linked, accountDeaths, series, splitting>>
calendarVars == <<series, splitting>>
linkVars == <<config, signIns, attempt, credential, identity, cached, linking, leaving,
              tokenHolder, client, calls, exchanged, linked, accountDeaths>>

None == [ticket |-> 0]
Still == [pc |-> "idle"]
NoCredential == [login |-> 0, rotation |-> 0, config |-> 0]
NoAccess == [login |-> 0, fresh |-> FALSE, failed |-> FALSE]
LinkFree == linking.pc = "idle" /\ leaving.pc = "idle"

(***************************************************************************)
(* What each tool sends: "read" must succeed, "try" may fail unnoticed,    *)
(* "write" changes the account.  A tool may refuse where the text says so  *)
(***************************************************************************)
GmailRequests == [gmail_search |-> <<"read", "try">>, gmail_read |-> <<"read">>, gmail_send |-> <<"write">>]

CalendarReads ==
  [calendar_list_calendars |-> <<"read">>, calendar_list_events |-> <<"read">>,
   calendar_get_event |-> <<"read">>, calendar_list_instances |-> <<"read">>, calendar_freebusy |-> <<"read">>]

CalendarChanges ==
  [calendar_create_event |-> <<"write">>,
   calendar_update_event |-> <<"refuse", "write">>,
   calendar_update_all |-> <<"refuse", "read", "write">>,
   calendar_update_following |-> <<"refuse", "read", "refuse", "read", "refuse", "write", "write">>,
   calendar_delete_event |-> <<"write">>, calendar_delete_all |-> <<"read", "write">>,
   calendar_delete_following |-> <<"read", "refuse", "read", "refuse", "write">>,
   calendar_move_event |-> <<"write">>,
   calendar_respond_to_event |-> <<"read", "try", "refuse", "write">>]

TasksRequests ==
  [tasks_list_lists |-> <<"read">>, tasks_list |-> <<"read">>, tasks_create_list |-> <<"write">>,
   tasks_create |-> <<"write">>, tasks_update |-> <<"refuse", "write">>, tasks_delete |-> <<"write">>,
   tasks_move |-> <<"write">>, tasks_clear_completed |-> <<"write">>]

DriveRequests == [drive_search |-> <<"read">>, drive_read |-> <<"read", "read">>]
PeopleRequests == [contacts_search |-> <<"read">>]

OutlookRequests ==
  [outlook_search |-> <<"read">>, outlook_read |-> <<"read", "try">>, outlook_list_folders |-> <<"read">>,
   outlook_send |-> <<"write">>, outlook_reply |-> <<"write">>, outlook_mark_read |-> <<"write">>]

Catalogues ==
  {GmailRequests, CalendarReads, CalendarChanges, TasksRequests, DriveRequests, PeopleRequests, OutlookRequests}
Tools == UNION {DOMAIN catalogue : catalogue \in Catalogues}
RequestsOf(tool) == (CHOOSE catalogue \in Catalogues : tool \in DOMAIN catalogue)[tool]

ASSUME ToolsAssumption == CallTools \subseteq Tools

READ_ONLY_TOOLS ==
  {"gmail_search", "gmail_read", "calendar_list_calendars", "calendar_list_events", "calendar_get_event",
   "calendar_list_instances", "calendar_freebusy", "tasks_list_lists", "tasks_list", "drive_search",
   "drive_read", "contacts_search", "outlook_search", "outlook_read", "outlook_list_folders"}

(***************************************************************************)
(* Repeating events.  A rule covers from its first occurrence to its last  *)
(* (UNTIL, the horizon when not given), or for so many (COUNT, or 0)       *)
(***************************************************************************)
Rules == [first : 1 .. Horizon, until : 0 .. Horizon, count : 0 .. Horizon, settings : {"old", "new"}]

OccursAt(rule) ==
  rule.first .. (IF rule.count = 0 THEN rule.until ELSE Min({Horizon, rule.first + rule.count - 1}))

Occurrences(rules) == [s \in {"old", "new"} |-> UNION {OccursAt(r) : r \in {q \in rules : q.settings = s}}]

\* A mistake: the bound is the occurrence itself, which then stays twice.
UntilAt(k) == k
\* _until_stamp(): one second before the occurrence starts.
UntilBefore(k) == k - 1
\* _apply_until(): COUNT and any UNTIL give way to the new bound.
ApplyUntil(rule, until) == [first |-> rule.first, until |-> until, count |-> 0, settings |-> rule.settings]

\* A mistake: the clone is taken after the trim.
TailOfTrimmed(parent, k) == [ApplyUntil(parent, UntilBefore(k)) EXCEPT !.first = k, !.settings = "new"]
\* The new series clones the rule as it was before it was trimmed.
TailOf(parent, k) == [first |-> k, until |-> parent.until, count |-> parent.count, settings |-> "new"]

AccountsTypeOK ==
  /\ attempt.ticket \in 0 .. signIns /\ credential.login \in 0 .. signIns
  /\ cached.login \in 0 .. signIns /\ cached.fresh \in BOOLEAN
  /\ tokenHolder \in AccountCalls \cup {"none"} /\ linked \in 0 .. signIns
  /\ linking.pc \in {"idle", "exchanging", "exchanged", "storing", "connecting"}
  /\ leaving.pc \in {"idle", "forgetting", "clearing", "dropping"}

AccountsInit ==
  /\ config = 1 /\ signIns = 0 /\ attempt = None /\ credential = NoCredential /\ identity = 0
  /\ cached = NoAccess /\ linking = Still /\ leaving = Still /\ tokenHolder = "none"
  /\ client = [connected |-> FALSE, epoch |-> 0] /\ calls = [c \in AccountCalls |-> Still]
  /\ exchanged = [t \in 1 .. MaxSignIns |-> 0] /\ linked = 0 /\ accountDeaths = 0
  /\ splitting = Still
  /\ series \in {{r} : r \in {q \in Rules : q.first = 1 /\ q.settings = "old" /\ (q.until = Horizon \/ q.count = 0)}}

(***************************************************************************)
(* Signing in                                                              *)
(***************************************************************************)
\* login(): earlier attempts of the provider are withdrawn.
SignIn ==
  /\ signIns < MaxSignIns /\ signIns' = signIns + 1
  /\ attempt' = [ticket |-> signIns + 1, browser |-> FALSE, config |-> config]
  /\ UNCHANGED <<config, credential, identity, cached, linking, leaving, tokenHolder, client, calls,
                 exchanged, linked, accountDeaths, calendarVars>>

\* start(): the first browser to open the ticket is bound to it.
StartSignIn ==
  /\ attempt # None /\ ~attempt.browser /\ attempt.config = config
  /\ attempt' = [attempt EXCEPT !.browser = TRUE]
  /\ UNCHANGED <<config, signIns, credential, identity, cached, linking, leaving, tokenHolder,
                 client, calls, exchanged, linked, accountDeaths, calendarVars>>

AttemptExpires ==
  /\ attempt # None /\ attempt' = None
  /\ UNCHANGED <<config, signIns, credential, identity, cached, linking, leaving, tokenHolder,
                 client, calls, exchanged, linked, accountDeaths, calendarVars>>

\* A mistake: the attempt is left for a retry to use.
ConsumedLater == attempt
\* The attempt is consumed before its code is exchanged.
Consumed == None

\* callback(): anybody may present a ticket and a browser, again and again.
CallbackBegins(t) ==
  /\ LinkFree /\ attempt.ticket = t /\ attempt.browser /\ attempt.config = config
  /\ attempt' = Consumed
  /\ linking' = [pc |-> "exchanging", ticket |-> t, config |-> config]
  /\ UNCHANGED <<config, signIns, credential, identity, cached, leaving, tokenHolder, client,
                 calls, exchanged, linked, accountDeaths, calendarVars>>

\* The exchange reached the vendor, whether or not its answer is usable.
CallbackExchanges(usable) ==
  /\ linking.pc = "exchanging"
  /\ exchanged' = [exchanged EXCEPT ![linking.ticket] = @ + 1]
  /\ linking' = IF usable THEN [linking EXCEPT !.pc = "exchanged"] ELSE Still
  /\ UNCHANGED <<config, signIns, attempt, credential, identity, cached, leaving, tokenHolder,
                 client, calls, linked, accountDeaths, calendarVars>>

\* rotate_identity(), unless the configuration changed during the exchange.
CallbackRotates ==
  /\ linking.pc = "exchanged"
  /\ IF linking.config = config
     THEN identity' = identity + 1 /\ linking' = [linking EXCEPT !.pc = "storing"]
     ELSE linking' = Still /\ UNCHANGED identity
  /\ UNCHANGED <<config, signIns, attempt, credential, cached, leaving, tokenHolder, client, calls,
                 exchanged, linked, accountDeaths, calendarVars>>

CallbackStores ==
  /\ linking.pc = "storing" /\ tokenHolder = "none"
  /\ credential' = [login |-> linking.ticket, rotation |-> 0, config |-> linking.config]
  /\ cached' = [login |-> linking.ticket, fresh |-> TRUE, failed |-> FALSE]
  /\ linked' = linking.ticket
  /\ linking' = [linking EXCEPT !.pc = "connecting"]
  /\ UNCHANGED <<config, signIns, attempt, identity, leaving, tokenHolder, client, calls, exchanged,
                 accountDeaths, calendarVars>>

\* connect_vendor(): the client is replaced; it is live if a token can be had.
CallbackConnects(connected) ==
  /\ linking.pc = "connecting" /\ tokenHolder = "none" /\ linking' = Still
  /\ client' = [connected |-> connected, epoch |-> client.epoch + 1]
  /\ UNCHANGED <<config, signIns, attempt, credential, identity, cached, leaving, tokenHolder,
                 calls, exchanged, linked, accountDeaths, calendarVars>>

(***************************************************************************)
(* Disconnecting                                                           *)
(***************************************************************************)
DisconnectBegins ==
  /\ LinkFree /\ credential # NoCredential /\ identity' = identity + 1
  /\ leaving' = [pc |-> "forgetting"]
  /\ UNCHANGED <<config, signIns, attempt, credential, cached, linking, tokenHolder, client, calls,
                 exchanged, linked, accountDeaths, calendarVars>>
DisconnectForgets ==
  /\ leaving.pc = "forgetting" /\ attempt' = None /\ leaving' = [pc |-> "clearing"]
  /\ UNCHANGED <<config, signIns, credential, identity, cached, linking, tokenHolder, client, calls,
                 exchanged, linked, accountDeaths, calendarVars>>
DisconnectClears ==
  /\ leaving.pc = "clearing" /\ tokenHolder = "none"
  /\ credential' = NoCredential /\ cached' = NoAccess /\ linked' = 0
  /\ leaving' = [pc |-> "dropping"]
  /\ UNCHANGED <<config, signIns, attempt, identity, linking, tokenHolder, client, calls, exchanged,
                 accountDeaths, calendarVars>>
DisconnectDrops ==
  /\ leaving.pc = "dropping" /\ leaving' = Still
  /\ client' = [connected |-> FALSE, epoch |-> client.epoch + 1]
  /\ UNCHANGED <<config, signIns, attempt, credential, identity, cached, linking, tokenHolder,
                 calls, exchanged, linked, accountDeaths, calendarVars>>

\* toggle(): the connection is paused; resuming it needs a token.
Toggle ==
  /\ client.epoch < 2 * MaxSignIns /\ tokenHolder = "none"
  /\ client.connected \/ credential # NoCredential
  /\ client' = [connected |-> ~client.connected, epoch |-> client.epoch + 1]
  /\ UNCHANGED <<config, signIns, attempt, credential, identity, cached, linking, leaving, tokenHolder, calls,
                 exchanged, linked, accountDeaths, calendarVars>>

\* The process restarts, with another configuration of the OAuth client perhaps.
AccountsRestart ==
  /\ accountDeaths < AccountDeaths /\ accountDeaths' = accountDeaths + 1
  /\ config' \in {config} \cup (IF config <= MaxReconfigured THEN {config + 1} ELSE {})
  /\ cached' = NoAccess /\ linking' = Still /\ leaving' = Still /\ tokenHolder' = "none"
  /\ client' = [connected |-> FALSE, epoch |-> client.epoch + 1]
  /\ calls' = [c \in AccountCalls |-> Still]
  /\ UNCHANGED <<signIns, attempt, credential, identity, exchanged, linked, calendarVars>>

AccessExpires ==
  /\ cached.fresh /\ cached' = [cached EXCEPT !.fresh = FALSE]
  /\ UNCHANGED <<config, signIns, attempt, credential, identity, linking, leaving, tokenHolder,
                 client, calls, exchanged, linked, accountDeaths, calendarVars>>
BackoffOver ==
  /\ cached.failed /\ cached' = [cached EXCEPT !.failed = FALSE]
  /\ UNCHANGED <<config, signIns, attempt, credential, identity, linking, leaving, tokenHolder, client, calls,
                 exchanged, linked, accountDeaths, calendarVars>>

(***************************************************************************)
(* A capability call                                                       *)
(***************************************************************************)
CallAdmitted(c, tool) ==
  /\ calls[c].pc = "idle" /\ client.connected
  /\ calls' = [calls EXCEPT ![c] = [pc |-> "admitted", tool |-> tool, epoch |-> client.epoch, account |-> linked]]
  /\ UNCHANGED <<config, signIns, attempt, credential, identity, cached, linking, leaving, tokenHolder, client,
                 exchanged, linked, accountDeaths, calendarVars>>

\* A mistake: what was admitted once stays admitted.
AdmittedOnce(call) == client.connected
\* ensure_admitted()
Admitted(call) == client.connected /\ client.epoch = call.epoch
Ended(c, outcome) == [calls[c] EXCEPT !.pc = outcome]

\* Once it has a token, a call goes out without another wait, if it is still admitted.
Dispatched(c, login) ==
  IF Admitted(calls[c])
  THEN [pc |-> "sending", tool |-> calls[c].tool, step |-> 1, wrote |-> 0, account |-> calls[c].account,
        token |-> login, replacing |-> linking.pc = "connecting"]
  ELSE Ended(c, "refused")

\* A mistake: a refresh leaves the token's lock to others.
RefreshHoldsNothing(c) == "none"
\* A refresh keeps the token's lock while it waits.
RefreshHolder(c) == c

\* CachedOAuthToken.get(): fresh access, nothing, or a refresh that is waited for.
CallTakesToken(c) ==
  /\ calls[c].pc = "admitted" /\ tokenHolder = "none"
  /\ \/ /\ cached.fresh
        /\ calls' = [calls EXCEPT ![c] = Dispatched(c, cached.login)]
        /\ UNCHANGED <<cached, tokenHolder, client>>
     \/ /\ ~cached.fresh /\ (cached.failed \/ credential = NoCredential)
        /\ cached' = [cached EXCEPT !.failed = TRUE]
        /\ calls' = [calls EXCEPT ![c] = Ended(c, "refused")]
        /\ client' = IF Admitted(calls[c]) THEN [client EXCEPT !.connected = FALSE] ELSE client
        /\ UNCHANGED tokenHolder
     \/ /\ ~cached.fresh /\ ~cached.failed /\ credential # NoCredential
        /\ calls' = [calls EXCEPT ![c] = [pc |-> "refreshing", tool |-> @.tool, epoch |-> @.epoch,
                                            account |-> @.account, used |-> credential]]
        /\ tokenHolder' = RefreshHolder(c) /\ UNCHANGED <<cached, client>>
  /\ UNCHANGED <<config, signIns, attempt, credential, identity, linking, leaving, exchanged, linked,
                 accountDeaths, calendarVars>>

\* The vendor answers the refresh, handing back a new refresh token perhaps.
CallRefreshed(c, rotated) ==
  LET used == calls[c].used
  IN /\ calls[c].pc = "refreshing" /\ used.config = config /\ tokenHolder' = "none"
     /\ rotated => used.rotation < MaxRotations
     /\ cached' = [login |-> used.login, fresh |-> TRUE, failed |-> FALSE]
     /\ credential' = IF rotated THEN [used EXCEPT !.rotation = @ + 1] ELSE credential
     /\ calls' = [calls EXCEPT ![c] = Dispatched(c, used.login)]
     /\ UNCHANGED <<config, signIns, attempt, identity, linking, leaving, client, exchanged, linked,
                    accountDeaths, calendarVars>>

CallRefreshFails(c) ==
  /\ calls[c].pc = "refreshing" /\ tokenHolder' = "none"
  /\ cached' = [cached EXCEPT !.failed = TRUE, !.fresh = FALSE]
  /\ calls' = [calls EXCEPT ![c] = Ended(c, "refused")]
  /\ client' = IF Admitted(calls[c]) THEN [client EXCEPT !.connected = FALSE] ELSE client
  /\ UNCHANGED <<config, signIns, attempt, credential, identity, linking, leaving, exchanged, linked,
                 accountDeaths, calendarVars>>

Sending(c, call) ==
  /\ calls' = [calls EXCEPT ![c] = call]
  /\ UNCHANGED <<config, signIns, attempt, credential, identity, cached, linking, leaving, tokenHolder, client,
                 exchanged, linked, accountDeaths, calendarVars>>
RequestOf(c) == RequestsOf(calls[c].tool)[calls[c].step]
Sends(c) == calls[c].pc = "sending" /\ calls[c].step <= Len(RequestsOf(calls[c].tool))

\* A request is answered; whether or not it was, the write may have landed.
CallRequest(c, landed, answered) ==
  /\ Sends(c) /\ RequestOf(c) # "refuse" /\ (answered /\ RequestOf(c) = "write" => landed)
  /\ LET sent == [calls[c] EXCEPT !.wrote = IF landed /\ RequestOf(c) = "write" THEN @ + 1 ELSE @]
     IN IF answered \/ RequestOf(c) = "try" THEN Sending(c, [sent EXCEPT !.step = @ + 1])
        ELSE Sending(c, [sent EXCEPT !.pc = "unknown"])

\* A point where the tool may say why it does nothing.
CallChecks(c, refuses) ==
  /\ Sends(c) /\ RequestOf(c) = "refuse"
  /\ Sending(c, IF refuses THEN [calls[c] EXCEPT !.pc = "refused"] ELSE [calls[c] EXCEPT !.step = @ + 1])

CallReturns(c) ==
  /\ calls[c].pc = "sending" /\ ~Sends(c) /\ Sending(c, Ended(c, "ok"))
CallRead(c) == calls[c].pc \in {"ok", "unknown", "refused"} /\ Sending(c, Still)

(***************************************************************************)
(* This occurrence and the following ones                                  *)
(***************************************************************************)
SplitStep(to, rules) == splitting' = to /\ series' = rules /\ UNCHANGED linkVars

SplitReads(parent, k, kind) ==
  /\ splitting.pc \in {"idle", "done", "unknown"} /\ Cardinality(series) < 3
  /\ parent \in series /\ k \in OccursAt(parent)
  /\ SplitStep([pc |-> "read", kind |-> kind, parent |-> parent, at |-> k, before |-> series], series)

SplitTrims(landed, answered) ==
  /\ splitting.pc = "read" /\ (answered => landed)
  /\ SplitStep([splitting EXCEPT !.pc = IF ~answered THEN "unknown" ELSE IF splitting.kind = "update" THEN "trimmed" ELSE "done"],
               IF landed THEN (series \ {splitting.parent}) \cup {ApplyUntil(splitting.parent, UntilBefore(splitting.at))}
               ELSE series)

SplitCreates(landed, answered) ==
  /\ splitting.pc = "trimmed" /\ (answered => landed)
  /\ SplitStep([splitting EXCEPT !.pc = IF answered THEN "done" ELSE "unknown"],
               IF landed THEN series \cup {TailOf(splitting.parent, splitting.at)} ELSE series)

AccountsNext ==
  \/ SignIn \/ StartSignIn \/ AttemptExpires \/ CallbackRotates \/ CallbackStores
  \/ \E t \in 1 .. MaxSignIns : CallbackBegins(t)
  \/ \E yes \in BOOLEAN : CallbackExchanges(yes) \/ CallbackConnects(yes)
  \/ DisconnectBegins \/ DisconnectForgets \/ DisconnectClears \/ DisconnectDrops
  \/ Toggle \/ AccountsRestart \/ AccessExpires \/ BackoffOver
  \/ \E c \in AccountCalls :
       \/ \E tool \in CallTools : CallAdmitted(c, tool)
       \/ CallTakesToken(c) \/ CallRefreshFails(c) \/ CallReturns(c) \/ CallRead(c)
       \/ \E yes \in BOOLEAN : CallRefreshed(c, yes) \/ CallChecks(c, yes)
       \/ \E landed, answered \in BOOLEAN : CallRequest(c, landed, answered)
  \/ \E parent \in series, k \in 1 .. Horizon, kind \in {"update", "delete"} : SplitReads(parent, k, kind)
  \/ \E landed, answered \in BOOLEAN : SplitTrims(landed, answered) \/ SplitCreates(landed, answered)

AccountsSpec == AccountsInit /\ [][AccountsNext]_accountVars

(***************************************************************************)
(* Properties                                                              *)
(***************************************************************************)
\* The code of a sign-in is exchanged at most once, whatever is retried
\* (oauth.py: a timeout never repeats a code).
ExchangedOnce == \A t \in DOMAIN exchanged : exchanged[t] <= 1

\* No refresh, however late, puts back an account that was left or replaced
\* (oauth.py: it cannot overwrite a new login or disconnect).
AccountIsLinked ==
  /\ credential.login = linked
  /\ cached.fresh => cached.login = linked

\* A call acts on the account it was admitted under; only while a sign-in is replacing
\* the client may it act on the new one.
CallsKeepAccount == \A c \in AccountCalls : calls[c].pc = "sending" => calls[c].token = calls[c].account \/ calls[c].replacing

\* A tool that refuses wrote nothing, one that succeeds wrote all it had to, and a
\* tool that needs no receipt never writes (rest_bridge.py READ_ONLY_TOOLS).
Writes(tool) == Cardinality({i \in DOMAIN RequestsOf(tool) : RequestsOf(tool)[i] = "write"})
OutcomeTold ==
  \A c \in AccountCalls :
    /\ calls[c].pc = "refused" /\ "wrote" \in DOMAIN calls[c] => calls[c].wrote = 0
    /\ calls[c].pc = "ok" => calls[c].wrote = Writes(calls[c].tool)
    /\ "wrote" \in DOMAIN calls[c] /\ calls[c].tool \in READ_ONLY_TOOLS => calls[c].wrote = 0

\* Splitting a series leaves what came before as it was, even when it is cut short;
\* done, every later occurrence is there with the new settings, or gone.
SplitKeeps ==
  splitting.pc # "idle" =>
    LET k == splitting.at
        at(rules) == UNION {OccursAt(r) : r \in rules}
        of(rules, s) == Occurrences(rules)[s]
    IN /\ \A s \in {"old", "new"} :
            of(series, s) \cap (1 .. k - 1) = of(splitting.before, s) \cap (1 .. k - 1)
       /\ splitting.pc = "done" =>
            LET later == OccursAt(splitting.parent) \cap (k .. Horizon)
                counted == \E r \in splitting.before : r.count # 0
            IN /\ splitting.kind = "update" => later \subseteq of(series, "new")
               /\ ~counted => at(series) = IF splitting.kind = "update" THEN at(splitting.before)
                                           ELSE at(splitting.before) \ later

\* The owner's accounts and calendar survive races, refusals and lost answers.
AccountsSound == ExchangedOnce /\ AccountIsLinked /\ CallsKeepAccount /\ OutcomeTold /\ SplitKeeps
=============================================================================
