------------------------------ MODULE Browser ------------------------------
(***************************************************************************)
(* The browser desk: one Chromium, a context (a cookie jar) per session,   *)
(* and for each portal the tab that is signed in to it.  Requests overlap  *)
(* at every await; only the lock of a session keeps them off one tab.      *)
(* Cookies on disk outlive the tabs.                                       *)
(*                                                                         *)
(* A context is known by one bit: whether it carries the portal's sign-in. *)
(* A page is known by the request that navigated it last.                  *)
(***************************************************************************)
EXTENDS Integers, Sequences, SequencesExt, FiniteSetsExt

CONSTANTS
  Requests,        \* requests of the app to the sidecar, one at a time each
  Profiles,        \* portals
  Public,          \* no profile: the public web
  MaxSessions,     \* bound on the browsers opened
  MaxPages,        \* bound on the pages of a session
  MaxCalls         \* bound on the calls served

Nobody == "nobody"
ASSUME BrowserAssumption == Public \notin Profiles /\ Nobody \notin Requests /\ MaxSessions \in Nat

SessionIds == 1 .. MaxSessions

VARIABLES
  browsers,        \* sid -> state of the tab, profile, sign-in, pages, active page
  profileSessions, \* profile -> sid of its open tab, or 0
  jars,            \* cookie file of each profile
  locks,           \* sid -> request holding sess["lock"]
  idle,            \* browsers not seen for SESSION_IDLE
  requests,        \* what each request is doing
  served,          \* calls accepted so far
  signedOut        \* profiles signed out by a /forget that ran alone

browserVars == <<browsers, profileSessions, jars, locks, idle, requests, served, signedOut>>

Unused == [state |-> "unused", profile |-> Public, signed |-> FALSE, pages |-> <<>>, active |-> 0]
AtRest == [pc |-> "idle", op |-> "none", profile |-> Public, named |-> 0, sid |-> 0, signed |-> FALSE,
            todo |-> {}, saveAs |-> Public, alone |-> TRUE]

Open == {s \in SessionIds : browsers[s].state = "open"}
Alive(s) == browsers[s].state \in {"open", "popped"}

BrowserTypeOK ==
  /\ \A s \in SessionIds : browsers[s].state \in {"unused", "open", "popped", "closed"}
  /\ profileSessions \in [Profiles -> 0 .. MaxSessions]
  /\ jars \in [Profiles -> {"absent", "plain", "signed"}]
  /\ locks \in [SessionIds -> Requests \cup {Nobody}]
  /\ idle \subseteq SessionIds /\ served \in 0 .. MaxCalls /\ signedOut \subseteq Profiles

BrowserInit ==
  /\ browsers = [s \in SessionIds |-> Unused]
  /\ profileSessions = [p \in Profiles |-> 0]
  /\ jars \in [Profiles -> {"absent", "signed"}]
  /\ locks = [s \in SessionIds |-> Nobody] /\ idle = {}
  /\ requests = [r \in Requests |-> AtRest]
  /\ served = 0 /\ signedOut = {}

\* live_for_profile(): the mapping is checked against the open browsers.
Live(p) == IF p \in Profiles /\ profileSessions[p] \in Open THEN profileSessions[p] ELSE 0
\* A mapping found stale is dropped on the way.
Pruned(p) ==
  IF p \in Profiles /\ Live(p) = 0 THEN [profileSessions EXCEPT ![p] = 0] ELSE profileSessions

\* new_context() reads the cookie file; save_profile() writes it, best effort.
Cookies(p) == p \in Profiles /\ jars[p] = "signed"
Saved(p, s) ==
  IF p \in Profiles /\ Alive(s)
  THEN [jars EXCEPT ![p] = IF browsers[s].signed THEN "signed" ELSE "plain"] ELSE jars

\* A request goes on to `pc` in a tab, with the tabs it has still to look at.
GoesOn(r, pc, sid, todo, signed, saveAs) ==
  LET q == requests[r]
  IN requests' = [requests EXCEPT ![r] =
       [pc |-> pc, op |-> q.op, profile |-> q.profile, named |-> q.named, sid |-> sid, signed |-> signed,
        todo |-> todo, saveAs |-> saveAs, alone |-> q.alone]]
Goes(r, pc) == requests' = [requests EXCEPT ![r].pc = pc]
Responds(r) == requests' = [requests EXCEPT ![r] = AtRest]

\* A tab changes its pages, or its place in the table.
Turned(s, pages, active) ==
  LET b == browsers[s]
  IN [browsers EXCEPT ![s] =
       [state |-> b.state, profile |-> b.profile, signed |-> b.signed, pages |-> pages, active |-> active]]
Moved(s, state, profile) ==
  LET b == browsers[s]
  IN [browsers EXCEPT ![s] =
       [state |-> state, profile |-> profile, signed |-> b.signed, pages |-> b.pages, active |-> b.active]]

(***************************************************************************)
(* A request arrives                                                       *)
(***************************************************************************)
\* Every request under way now shares the sidecar with this one.
Arrives(r, op, pc, profile, named, sid, signed, todo, saveAs) ==
  /\ requests[r].pc = "idle" /\ served < MaxCalls /\ served' = served + 1
  /\ requests' = [q \in Requests |->
       IF q = r
       THEN [pc |-> pc, op |-> op, profile |-> profile, named |-> named, sid |-> sid, signed |-> signed,
             todo |-> todo, saveAs |-> saveAs, alone |-> \A o \in Requests \ {r} : requests[o].pc = "idle"]
       ELSE [requests[q] EXCEPT !.alone = FALSE]]

\* /read: in the profile's tab when one is open, else in a throwaway context.
Read(r, p) ==
  /\ Arrives(r, "read", IF Live(p) # 0 THEN "waiting" ELSE "throwaway", p, 0, Live(p), Cookies(p), {}, Public)
  /\ profileSessions' = Pruned(p) /\ idle' = idle \ {Live(p)}
  /\ UNCHANGED <<browsers, jars, locks, signedOut>>

ReadsApart(r) ==
  /\ requests[r].pc = "throwaway"
  /\ \/ UNCHANGED jars                                  \* the page could not be loaded
     \/ requests[r].profile \in Profiles
        /\ jars' = [jars EXCEPT ![requests[r].profile] = IF requests[r].signed THEN "signed" ELSE "plain"]
  /\ Responds(r) /\ UNCHANGED <<browsers, profileSessions, locks, idle, served, signedOut>>

\* /act and /login: get_session() begins by reaping the idle browsers.
Act(r, p, s) ==
  /\ Arrives(r, "act", "reaping", p, s, 0, FALSE, Open, Public)
  /\ UNCHANGED <<browsers, profileSessions, jars, locks, idle, signedOut>>
Login(r, p) ==
  /\ Arrives(r, "login", "reaping", p, 0, 0, FALSE, Open, Public)
  /\ UNCHANGED <<browsers, profileSessions, jars, locks, idle, signedOut>>

(***************************************************************************)
(* close_session(): out of the table, then the cookies, then the context   *)
(***************************************************************************)
Unmapped(s) ==
  [p \in Profiles |-> IF browsers[s].profile = p /\ profileSessions[p] = s THEN 0 ELSE profileSessions[p]]

\* The request takes the session out and goes on to save and close it; after that it
\* reaps on (`todo`), or is done ({0}).
Pops(r, s, todo) ==
  /\ browsers' = Moved(s, "popped", browsers[s].profile) /\ profileSessions' = Unmapped(s) /\ idle' = idle \ {s}
  /\ GoesOn(r, "saving", s, todo, requests[r].signed, browsers[s].profile)

SavesOut(r) ==
  /\ requests[r].pc = "saving"
  /\ jars' = Saved(requests[r].saveAs, requests[r].sid)
  /\ Goes(r, "closing")
  /\ UNCHANGED <<browsers, profileSessions, locks, idle, served, signedOut>>

ClosesOut(r) ==
  /\ requests[r].pc = "closing"
  /\ browsers' = [browsers EXCEPT ![requests[r].sid].state = "closed"]
  /\ CASE requests[r].op = "forget" -> Goes(r, "forgetting")
       [] requests[r].op \in {"act", "login"} /\ requests[r].todo # {0} -> Goes(r, "reaping")
       [] OTHER -> Responds(r)
  /\ UNCHANGED <<profileSessions, jars, locks, idle, served, signedOut>>

\* reap(): the browsers open at the start, each judged when its turn comes.
Overdue(r) == requests[r].todo \cap Open \cap idle
Reaps(r) ==
  /\ requests[r].pc = "reaping" /\ Overdue(r) # {}
  /\ LET s == Min(Overdue(r)) IN Pops(r, s, {t \in requests[r].todo : t > s})
  /\ UNCHANGED <<jars, locks, served, signedOut>>

\* DELETE /session
CloseProfile(r, s) ==
  /\ s \in Open
  /\ Arrives(r, "close", "saving", Public, 0, s, FALSE, {}, browsers[s].profile)
  /\ browsers' = Moved(s, "popped", browsers[s].profile) /\ profileSessions' = Unmapped(s) /\ idle' = idle \ {s}
  /\ UNCHANGED <<jars, locks, signedOut>>

(***************************************************************************)
(* get_session(), after reaping                                            *)
(***************************************************************************)
\* The named session, or without a name the profile's tab, or a new context.
Finds(r) ==
  LET q == requests[r]
      found == IF q.named \in Open THEN q.named ELSE IF q.named = 0 THEN Live(q.profile) ELSE 0
  IN /\ q.pc = "reaping" /\ Overdue(r) = {}
     /\ GoesOn(r, IF found # 0 THEN "waiting" ELSE "opening", found, {}, Cookies(q.profile), q.saveAs)
     /\ idle' = idle \ {found}
     /\ profileSessions' = IF q.named = 0 THEN Pruned(q.profile) ELSE profileSessions
     /\ UNCHANGED <<browsers, jars, locks, served, signedOut>>

\* The context is there: a fresh session, and the profile's tab from now on.
Opens(r) ==
  LET q == requests[r]
      fresh == {s \in SessionIds : browsers[s].state = "unused"}
      s == Min(fresh)
  IN /\ q.pc = "opening" /\ fresh # {}
     /\ browsers' = [browsers EXCEPT ![s] = [state |-> "open", profile |-> q.profile, signed |-> q.signed,
                                             pages |-> <<r>>, active |-> 1]]
     /\ profileSessions' = IF q.profile \in Profiles THEN [profileSessions EXCEPT ![q.profile] = s]
                           ELSE profileSessions
     /\ GoesOn(r, "waiting", s, q.todo, q.signed, q.saveAs)
     /\ UNCHANGED <<jars, locks, idle, served, signedOut>>

(***************************************************************************)
(* In the tab, under its lock                                              *)
(***************************************************************************)
\* A mistake: reads do not queue for the tab.
FreeForReads(r) == requests[r].op = "read" \/ locks[requests[r].sid] = Nobody
Free(r) == locks[requests[r].sid] = Nobody

Takes(r) ==
  /\ requests[r].pc = "waiting" /\ Free(r)
  /\ locks' = [locks EXCEPT ![requests[r].sid] = r]
  /\ Goes(r, "driving")
  /\ UNCHANGED <<browsers, profileSessions, jars, idle, served, signedOut>>

Tab(r) == browsers[requests[r].sid]
Releases(r) == locks' = [locks EXCEPT ![requests[r].sid] = Nobody]

\* The page that the read drives: goto, and later the snapshot.
Visits(r) ==
  /\ requests[r].pc = "driving" /\ requests[r].op = "read" /\ Alive(requests[r].sid)
  /\ browsers' = Turned(requests[r].sid, [Tab(r).pages EXCEPT ![Tab(r).active] = r], Tab(r).active)
  /\ Goes(r, "showing")
  /\ UNCHANGED <<profileSessions, jars, locks, idle, served, signedOut>>

Shows(r) ==
  /\ requests[r].pc = "showing"
  /\ jars' = Saved(requests[r].profile, requests[r].sid)
  /\ Releases(r) /\ Responds(r)
  /\ UNCHANGED <<browsers, profileSessions, idle, served, signedOut>>

\* The page does not load, a step is refused, or the tab went away underneath.
Breaks(r) ==
  /\ requests[r].pc = "driving" /\ (requests[r].op # "login" \/ ~Alive(requests[r].sid))
  /\ Releases(r) /\ Responds(r)
  /\ UNCHANGED <<browsers, profileSessions, jars, idle, served, signedOut>>

\* run_step(): pages are added at the end, closed anywhere but never the last one.
AfterClose(s, i) ==
  LET left == Len(browsers[s].pages) - 1
  IN IF browsers[s].active > left THEN left
     ELSE IF browsers[s].active > i THEN browsers[s].active - 1 ELSE browsers[s].active

Steps(r) ==
  LET s == requests[r].sid
  IN /\ requests[r].pc = "driving" /\ requests[r].op = "act" /\ Alive(s)
     /\ \/ browsers' = Turned(s, [Tab(r).pages EXCEPT ![Tab(r).active] = r], Tab(r).active)
        \/ /\ Len(Tab(r).pages) < MaxPages
           /\ browsers' = Turned(s, Append(Tab(r).pages, r), Len(Tab(r).pages) + 1)
        \/ \E i \in DOMAIN Tab(r).pages : browsers' = Turned(s, Tab(r).pages, i)
        \/ \E i \in DOMAIN Tab(r).pages :
             /\ Len(Tab(r).pages) > 1
             /\ browsers' = Turned(s, RemoveAt(Tab(r).pages, i), AfterClose(s, i))
     /\ UNCHANGED <<profileSessions, jars, locks, idle, requests, served, signedOut>>

\* The steps are over, or stopped at the first failure; `close` ends the session.
ActEnds(r, close) ==
  LET s == requests[r].sid
  IN /\ requests[r].pc = "driving" /\ requests[r].op = "act" /\ Alive(s)
     /\ jars' = Saved(browsers[s].profile, s)
     /\ Releases(r)
     /\ IF close /\ s \in Open THEN Pops(r, s, {0})
        ELSE Responds(r) /\ UNCHANGED <<browsers, profileSessions, idle>>
     /\ UNCHANGED <<served, signedOut>>

\* do_login(): a page without a password box is signed in already.
LoginOk(r) ==
  LET s == requests[r].sid
  IN /\ requests[r].pc = "driving" /\ requests[r].op = "login" /\ Alive(s)
     /\ browsers' = [browsers EXCEPT ![s].signed = TRUE]
     /\ jars' = [jars EXCEPT ![requests[r].profile] = "signed"]
     /\ signedOut' = signedOut \ {requests[r].profile}
     /\ Releases(r) /\ Responds(r)
     /\ UNCHANGED <<profileSessions, idle, served>>

\* A failed login never keeps its tab, whoever else waits for it.
LoginFails(r) ==
  LET s == requests[r].sid
  IN /\ requests[r].pc = "driving" /\ requests[r].op = "login" /\ Alive(s) /\ ~browsers[s].signed
     /\ Releases(r)
     /\ IF s \in Open THEN Pops(r, s, {0})
        ELSE Responds(r) /\ UNCHANGED <<browsers, profileSessions, idle>>
     /\ UNCHANGED <<jars, served, signedOut>>

(***************************************************************************)
(* /forget: every session of the profile, then the cookie file             *)
(***************************************************************************)
Forget(r, p) ==
  /\ Arrives(r, "forget", "forgetting", p, 0, 0, FALSE, Open, Public)
  /\ UNCHANGED <<browsers, profileSessions, jars, locks, idle, signedOut>>

\* A mistake: only the tab that the mapping names is closed.
TabsOfMapped(r) ==
  {s \in requests[r].todo : browsers[s].profile = requests[r].profile /\ profileSessions[requests[r].profile] = s}
TabsOf(r) == {s \in requests[r].todo : browsers[s].profile = requests[r].profile}

\* The profile is taken off first, so that nothing is saved on the way out.
ForgetsTab(r) ==
  /\ requests[r].pc = "forgetting" /\ TabsOf(r) # {}
  /\ LET s == Min(TabsOf(r))
     IN IF s \in Open
        THEN /\ browsers' = Moved(s, "popped", Public)
             /\ GoesOn(r, "closing", s, requests[r].todo, requests[r].signed, requests[r].saveAs)
             /\ idle' = idle \ {s}
        ELSE browsers' = Moved(s, browsers[s].state, Public) /\ UNCHANGED <<requests, idle>>
  /\ UNCHANGED <<profileSessions, jars, locks, served, signedOut>>

ForgetsJar(r) ==
  /\ requests[r].pc = "forgetting" /\ TabsOf(r) = {}
  /\ jars' = [jars EXCEPT ![requests[r].profile] = "absent"]
  /\ signedOut' = IF requests[r].alone THEN signedOut \cup {requests[r].profile} ELSE signedOut
  /\ Responds(r)
  /\ UNCHANGED <<browsers, profileSessions, locks, idle, served>>

(***************************************************************************)
(* The world: time passes, the portal ends a sign-in, the container stops  *)
(***************************************************************************)
\* SESSION_IDLE passes: whatever is not seen again from here on is overdue.
TimePasses ==
  /\ Open \ idle # {} /\ idle' = Open
  /\ UNCHANGED <<browsers, profileSessions, jars, locks, requests, served, signedOut>>
PortalExpires(s) ==
  /\ s \in Open /\ browsers[s].signed /\ browsers' = [browsers EXCEPT ![s].signed = FALSE]
  /\ UNCHANGED <<profileSessions, jars, locks, idle, requests, served, signedOut>>

\* Only the cookie files survive.
ContainerDies ==
  /\ Open # {} /\ browsers' = [s \in SessionIds |->
       IF browsers[s].state = "unused" THEN Unused ELSE [Unused EXCEPT !.state = "closed"]]
  /\ profileSessions' = [p \in Profiles |-> 0] /\ locks' = [s \in SessionIds |-> Nobody] /\ idle' = {}
  /\ requests' = [r \in Requests |-> AtRest]
  /\ UNCHANGED <<jars, served, signedOut>>

BrowserNext ==
  \/ \E r \in Requests :
       \/ \E p \in Profiles \cup {Public} : Read(r, p) \/ \E s \in Open \cup {0} : Act(r, p, s)
       \/ \E p \in Profiles : Login(r, p) \/ Forget(r, p)
       \/ \E s \in SessionIds : CloseProfile(r, s)
       \/ ReadsApart(r) \/ SavesOut(r) \/ ClosesOut(r) \/ Reaps(r) \/ Finds(r) \/ Opens(r)
       \/ Takes(r) \/ Visits(r) \/ Shows(r) \/ Breaks(r) \/ Steps(r)
       \/ \E close \in BOOLEAN : ActEnds(r, close)
       \/ LoginOk(r) \/ LoginFails(r) \/ ForgetsTab(r) \/ ForgetsJar(r)
  \/ \E s \in SessionIds : PortalExpires(s)
  \/ TimePasses \/ ContainerDies

BrowserSpec == BrowserInit /\ [][BrowserNext]_browserVars

(***************************************************************************)
(* Properties                                                              *)
(***************************************************************************)
\* A sign-out that shared the sidecar with no other request is final until the
\* next login: no open tab and no cookie file brings the account back.
SignOutFinal ==
  \A p \in signedOut :
    /\ jars[p] # "signed"
    /\ \A s \in SessionIds : Alive(s) /\ browsers[s].profile = p => ~browsers[s].signed

\* A read returns the page it asked for, although it shares its tab.
ReadsItsOwn ==
  \A r \in Requests : requests[r].pc = "showing" /\ Alive(requests[r].sid) =>
    Tab(r).pages[Tab(r).active] = r

\* A portal's tab belongs to the portal, and every tab shows one of its pages.
TabsBelong ==
  /\ \A p \in Profiles : Live(p) # 0 => browsers[Live(p)].profile = p
  /\ \A s \in Open : browsers[s].active \in DOMAIN browsers[s].pages

\* Sign-outs last, reads are not mixed up, tabs are not swapped, through any
\* overlap of reads, flows, logins, reaping and sign-outs (server.py).
BrowserSound == SignOutFinal /\ ReadsItsOwn /\ TabsBelong
=============================================================================
